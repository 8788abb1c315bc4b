-------------------------- MODULE PipelineProperties --------------------------
(***************************************************************************)
(* What is claimed of one upload, from the request (or the file it is made  *)
(* from) to the parts.                                                      *)
(***************************************************************************)
EXTENDS Drops, TrackProperties

Served == phase \in {"done", "hit"}

\* What parse lets through is served unless it is cancelled, is not whole frames,
\* is not stereo, holds a sample that is no number, or the overlap
\* leaves nothing to run: no format, rate or filter that was accepted fails after
\* the separation has been paid for.
AdmittedIsServed ==
  /\ phase = "writing failed" => ~req.finite
  /\ phase = "geometry" => req.channels # MODEL_CHANNELS
  /\ phase = "strideless" => overlap >= 100 \/ \E h \in DOMAIN chunk : chunk[h] * (100 - overlap) < 100
  /\ phase # "empty"
  /\ phase = "cancelled" => cancel

\* A body is turned away for its size only if the track is too long, or arrives
\* at a rate or in channels beyond what the limit was computed for, or it is a
\* torn frame over it, which decoding would refuse.  (startup.rs: "it has to be an
\* upper bound".)
BodyLimitSparesTheShort ==
  phase = "too large" => TooLong(req) \/ req.rate > HighestRate \/ req.channels > MODEL_CHANNELS
                         \/ req.channels = 0 \/ req.rate = 0
                         \/ req.bytes % (req.channels * BytesPerSample(req.in)) # 0

\* What a client is served, fresh or from the cache, is what this very request
\* asked for and a separation for it would make: the format, the rate, the parts,
\* through the filter it named.
EntryIsWhatWasAsked ==
  Served => \E e \in index :
    /\ e.key = Key(req, sub)
    /\ e.format = Parsed(req).format /\ e.rate = Parsed(req).out
    /\ DOMAIN e.parts = (IF req.derived THEN Parts ELSE SHIPPED)
    /\ \A p \in SHIPPED : e.parts[p] = Through(Arranged(MixAt(req))[p], MODEL_RATE, e.rate, req.dsp)
    /\ e.frames = ToRate(Decoded(req, sub), e.rate, req.dsp).frames

\* The parts sum to the mix the model was given, and the derived part is that
\* sum's remainder through the same filter as the others, whether it is sent or
\* rebuilt; the faders weigh each part by its own gain; and under a chained preset the
\* remainder is the drums estimate untouched.  (hybrid.rs: "returns the drums
\* estimate untouched"; cache.rs: "the set still sums to the resampled mix".)
PartsSumToTheMix ==
  phase \in {"write", "done"} =>
    LET mix == Through(MixAt(sub), MODEL_RATE, sub.out, sub.dsp)
        rest == DerivedPart(mix, shipped.parts)
        part(p) == IF p = DERIVED THEN rest ELSE shipped.parts[p]
    IN  /\ DERIVED \in Asked => shipped.parts[DERIVED] = rest
        /\ \A gain \in PartGains : \A s \in Sounds :
             Faded(mix, shipped.parts, gain)[s] =
               gain["harmonics"] * part("harmonics").of[s] + gain["vocals"] * part("vocals").of[s]
                 + gain[DERIVED] * part(DERIVED).of[s]
        /\ \A p \in Asked : Corresponds(shipped.parts[p], mix)
        /\ Len(chunk) = 2 => rest.of = Drums(MixAt(sub)).of

\* Each half is given what its model was trained on: a demucs its audio less that
\* audio's own statistics, the instrumental's where it is chained, and what it
\* returns is back at the track's level.  (hybrid.rs: "The normalisation belongs to
\* the audio a half is given, not to the track".)
FedAsTrained ==
  phase = "publish" =>
    /\ \A h \in DOMAIN stems.given :
         stems.given[h].norm = (IF IsDemucs(h) THEN <<stems.given[h].of>> ELSE <<>>)
    /\ \A p \in SHIPPED : stems.parts[p].norm = <<>>

\* No stem is clamped, and a client that undoes the transfer gain hears the
\* level the model produced.
LevelRestored ==
  phase = "done" => \A e \in index : e.key = Key(req, sub) => \A p \in DOMAIN e.peak :
    (e.peak[p] * e.gain[p]) \div FULL = stems.peak[p]

\* However many threads mode 1 is spread over, every output frame is the product
\* it is on one: placed at the same input and phase.
SlicesAgree ==
  phase = "write" /\ sub.dsp = 1 =>
    LET n == OutFrames(audio.frames)
        placed == [m \in 0 .. n - 1 |-> Place(m)]
    IN  /\ Fill(0, n) = placed
        /\ \A threads \in {1, 4, 6} : Filled(audio.frames, audio.channels, threads) = placed

-----------------------------------------------------------------------------
(* The command-line client *)

\* Whatever files a client leaves, those of a set it could not finish included, are
\* under one scale, and for a FLAC set it is one that fits the parts still to come
\* as well; so the files stay comparable however far it got.  Only a client that
\* gave up leaves one cut, and one alone; a client that reports has written every
\* part.  (output.rs: "One shared scale across every part, so they can be auditioned
\* against each other".)
CutFiles == {p \in DOMAIN cli.written : ~cli.written[p].whole}
WrittenTogether ==
  cli.at \in {"write", "unwritten", "written"} =>
    /\ \A p \in DOMAIN cli.written, q \in DOMAIN cli.parts :
         /\ q \in DOMAIN cli.written =>
              cli.written[p].level * cli.written[q].part.level
                = cli.written[q].level * cli.written[p].part.level
         /\ ~args.wav_f32 =>
              cli.written[p].level * cli.parts[q].level <= FULL * cli.written[p].part.level
    /\ CutFiles = {} \/ (cli.at = "unwritten" /\ \E p \in Parts : CutFiles = {p})
    /\ cli.at = "written" => SHIPPED \cup DOMAIN cli.parts \subseteq DOMAIN cli.written

\* Buffers that are subtracted from one another correspond: they went through
\* the same filters.  (main.rs: "so it is left out rather than computed from
\* buffers that do not correspond".)
RebuiltCorresponds ==
  cli.at = "written" /\ DERIVED \in DOMAIN cli.written =>
    LET derived == cli.written[DERIVED].part
    IN  derived.origin = "rebuilt here" =>
          \A p \in SHIPPED : Corresponds(LocalMix, cli.written[p].part.samples)

\* Where the file is at the model's rate they do, so the three files sum to it,
\* and the reconstruction that is reported is of buffers that line up.
RebuiltSums ==
  cli.at = "written" /\ cli.audio.rate = MODEL_RATE /\ DERIVED \in DOMAIN cli.written =>
    /\ \A p, q \in Parts : Corresponds(cli.written[p].part.samples, cli.written[q].part.samples)
    /\ Unexplained([p \in Parts |-> cli.written[p].part]) = Only({})
    /\ \A null \in cli.null : null = Only({})

\* What the client turns away or sends, the server would have refused or takes:
\* the limit is one limit, up to the rate the body limit was computed for.
\* (main.rs: "The limit comes from the server so the two cannot disagree".)
OneLimit ==
  /\ cli.at = "too long here" => TooLong(req)
  /\ cli.at = "told" => phase \notin {"too large", "too long"} \/ cli.audio.rate > HighestRate
-----------------------------------------------------------------------------
(* The window *)

\* A row that says done has, where nobody else wrote to its folder or half deleted
\* it since it began to, every part of its own track whole in the format it was
\* asked in, each at full level or with its gain in stems.json; unless the folder is
\* gone, which takes a second drop of that title.  (drops.rs: "nothing in a folder of
\* audio can say so. This can".)
DropsAreWritten ==
  \A n \in recent : item[n].at = "done" /\ ~item[n].disturbed =>
    LET entry == item[n].entry
        at == folder[Dir(n)]
    IN  IF ~at.there THEN \E m \in DOMAIN item \ {n} : Dir(m) = Dir(n)
        ELSE \A p \in Parts :
               /\ <<p, entry.format>> \in DOMAIN at.files
               /\ at.files[<<p, entry.format>>] =
                    [of |-> item[n].source, gain |-> entry.gain[p], whole |-> TRUE]
               /\ entry.gain[p] = FULL \/ (p \in DOMAIN at.gains /\ at.gains[p] = entry.gain[p])

-----------------------------------------------------------------------------
(* What a run checks of both ends together *)

\* A request is turned away at the door or served: no limit, format, rate or
\* filter is judged differently by the client, by parse and by what runs later.
AdmissionAgrees == AdmittedIsServed /\ BodyLimitSparesTheShort /\ OneLimit

\* What is served is what was asked for, to the sample, however the conversion was
\* spread over threads.
ServedAsAsked == EntryIsWhatWasAsked /\ SlicesAgree

\* The parts sum to the mix, in the server and in the files the client writes.
PartsSum == PartsSumToTheMix /\ RebuiltSums

\* Every gain taken on the way is given back: the models' normalisation, the
\* headroom of a stem over full scale, and the one scale of a written set.
LevelsAreKept == FedAsTrained /\ LevelRestored /\ WrittenTogether
=============================================================================
