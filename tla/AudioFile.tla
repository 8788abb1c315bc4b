------------------------------ MODULE AudioFile ------------------------------
(***************************************************************************)
(* What stemd-audio makes of a file: the packets of its default track,      *)
(* spread over its channels, folded to a stereo pair and stripped of the    *)
(* encoder delay an mp4 edit list declares.                                 *)
(*                                                                         *)
(* A file is a record: its packets (what reading each comes to, and how     *)
(* many samples it holds), the channels and rates they declare, and the     *)
(* edit lists found in it.                                                  *)
(***************************************************************************)
EXTENDS Formats, SequencesExt

\* Whole frames only: how long each channel is after one more packet.
Spread(lengths, samples) ==
  [c \in DOMAIN lengths |-> lengths[c] + samples \div Len(lengths)]

\* Packets of other tracks and corrupt ones are passed over; the channels are
\* counted when the first buffer arrives.
Append1(file, lengths, packet) ==
  IF packet.kind # "audio" THEN lengths
  ELSE Spread(IF lengths = <<>> THEN [c \in 1 .. file.channels |-> 0] ELSE lengths, packet.samples)

\* PlanarSink::finish: mono is doubled, and of more than two channels two are kept.
Finish(lengths, rate) ==
  IF lengths = <<>> \/ lengths[1] = 0 THEN Refused("decoded no audio")
  ELSE IF \E c \in DOMAIN lengths : lengths[c] # lengths[1] THEN Refused("ragged")
  ELSE [frames |-> lengths[1], channels |-> 2, rate |-> rate]

DecodeStream(file) ==
  LET Step(lengths, packet) == Append1(file, lengths, packet)
  IN  IF \E i \in DOMAIN file.packets : file.packets[i].kind = "broken" THEN Refused("decoding")
      ELSE Finish(FoldLeft(Step, <<>>, file.packets),
                  IF file.declared = 0 THEN file.rate ELSE file.declared)

\* elst_media_time: of the first edit list with an entry; -1 is an empty edit.
EncoderDelay(file) ==
  LET listed == SelectSeq(file.edits, LAMBDA e : e.count > 0)
  IN  IF listed = <<>> \/ Head(listed).time < 0 THEN 0 ELSE Head(listed).time

\* decode(): the delay comes off the front, unless it is all there is.
DecodeFile(file) ==
  LET decoded == DecodeStream(file)
      skip == EncoderDelay(file)
  IN  IF IsRefused(decoded) \/ skip = 0 \/ decoded.frames <= skip THEN decoded
      ELSE [decoded EXCEPT !.frames = @ - skip]
=============================================================================
