------------------------------- MODULE Pipeline -------------------------------
(***************************************************************************)
(* One upload from the request to the stems: it is parsed and keyed         *)
(* (stemd-server/src/api.rs), decoded to the model's rate, separated        *)
(* (Track), put together as the preset arranges its halves (stemd-core/src/ *)
(* hybrid.rs, mlx.rs, mixture.rs, stems.rs), converted, encoded and put in  *)
(* the cache (cache.rs).  A second upload follows as far as the cache.      *)
(*                                                                         *)
(* Who runs when, and who else wants the same job, is Server's.             *)
(***************************************************************************)
EXTENDS Track, Formats

CONSTANTS
  Cases,      \* the uploads and settings tried: see PipelineInit
  MaxTrack,   \* --max-track-minutes, in frames at the highest rate
  Loudness    \* how far over full scale a separated part may peak

\* Loudness divides what it is fitted into: hundredths are exact then.
ASSUME PipelineAssumption ==
  /\ MaxTrack \in Nat \ {0}
  /\ Loudness \in Nat /\ (FULL * FULL) % (FULL + Loudness) = 0
  /\ \A case \in Cases : /\ case.requests \in Seq(Range(case.requests))
                         /\ \A r \in Range(case.requests) : {r.bytes, r.channels, r.rate} \subseteq Nat

MODEL_RATE == 44100
MODEL_CHANNELS == 2
HighestRate == Max(OutputRates)

VARIABLES
  requests,  \* the uploads still to be looked at, the current one first
  defaults,  \* the format and rate of the settings
  sub,       \* Submission
  audio,     \* the decoded mix
  phase,     \* where the current upload is
  stems,     \* Stems.shipped, and the level of each
  shipped,   \* the parts at the output rate
  index      \* the cache: an entry for each key

pipeVars == <<requests, defaults, sub, audio, phase, stems, shipped, index>>
allVars == <<vars, pipeVars>>

req == Head(requests)

-----------------------------------------------------------------------------
(* Submission::parse *)

\* max_body_bytes: a stereo float track of the longest length at the highest rate.
MaxBody_16Bit == MaxTrack * MODEL_CHANNELS * BytesPerSample("s16le")
MaxBody == MaxTrack * MODEL_CHANNELS * BytesPerSample("f32le")

\* track_seconds against max_track_secs.
TooLong(r) ==
  r.channels # 0 /\ r.rate # 0 /\
  (r.bytes \div (r.channels * BytesPerSample(r.in))) * HighestRate > MaxTrack * r.rate

\* What a request leaves open is the settings', read once.
Parsed(r) ==
  [in |-> r.in, channels |-> r.channels, rate |-> r.rate, derived |-> r.derived, dsp |-> r.dsp,
   format |-> IF r.format = "default" THEN defaults.format ELSE r.format,
   out    |-> IF r.out = 0 THEN defaults.rate ELSE r.out]

Malformed(r) ==
  \/ r.in \notin PcmFormats \/ Parsed(r).format \notin StemFormats
  \/ Parsed(r).out \notin OutputRates \/ r.dsp \notin DspModes
  \/ ~CoversPair(r.dsp, MODEL_RATE, Parsed(r).out)
  \/ ~Carries(Parsed(r).format, Parsed(r).out)
  \/ r.bytes = 0 \/ r.channels = 0 \/ r.rate = 0

\* cache::key: the samples as they arrived and everything else that decides what
\* comes back.  The model's identity is Switch's.
Key_NoMode(r, s) == <<r.body, r.bytes, s.rate, s.channels, s.in, s.format, s.out, s.derived>>
Key(r, s) == <<r.body, r.bytes, s.rate, s.channels, s.in, s.format, s.out, s.derived, s.dsp>>

-----------------------------------------------------------------------------
(* Decoding *)

Decoded(r, s) ==
  LET read == FromInterleaved(r.bytes, s.in, s.channels, s.rate)
  IN  IF IsRefused(read) THEN read ELSE ToRate(read, MODEL_RATE, 0)

\* The frames over_track will be given, none if it is never reached.
TrackLength(r) ==
  IF r.bytes > MaxBody \/ Malformed(r) \/ TooLong(r) \/ IsRefused(Decoded(r, Parsed(r))) THEN 0
  ELSE Decoded(r, Parsed(r)).frames

-----------------------------------------------------------------------------
(* The arrangement *)

FOUR_STEM_SOURCES == <<"drums", "bass", "other", "vocals">>
SHIPPED == {"harmonics", "vocals"}
DERIVED == "drums"
Parts == SHIPPED \cup {DERIVED}
StemSources(part) == IF part = "harmonics" THEN {"bass", "other"} ELSE {"vocals"}

\* The track is its four sources and what they leave unexplained.
Sounds == {"drums", "bass", "other", "vocals", "rest"}
Only(sources) == [s \in Sounds |-> IF s \in sources THEN 1 ELSE 0]
MixAt(s) == Through([of |-> Only(Sounds), path |-> <<>>, norm |-> <<>>], s.rate, MODEL_RATE, 0)

\* demucs is given the audio less its own mean, over its own deviation, and the
\* same statistics are put back into what it returns; a RoFormer is given it raw.
Cascade == Len(chunk) = 2 /\ chunk[1] # chunk[2]
IsDemucs(h) == ~(Cascade /\ h = 1)
Statistics(given) == given.of
ToModel(h, given) == IF IsDemucs(h) THEN [given EXCEPT !.norm = Append(@, Statistics(given))] ELSE given
\* Normalisation: what one apply() did, restore() of the same undoes.
Restored(output, statistics) ==
  [output EXCEPT !.norm = IF @ = <<statistics>> THEN <<>> ELSE Append(@, statistics)]
Denormalised(h, output, given) ==
  IF IsDemucs(h) THEN Restored(output, Statistics(given)) ELSE output

\* One output of a model is the part of what it was given that it is named for.
Source(h, source, given) ==
  Denormalised(h, [ToModel(h, given) EXCEPT !.of = [s \in Sounds |-> IF s = source THEN @[s] ELSE 0]],
               given)

\* fold_into_shipped: each shipped stem is the sum of its members.
Folded(mix) ==
  [part \in SHIPPED |->
     [mix EXCEPT !.of = [s \in Sounds |->
        SumFunction([source \in StemSources(part) |-> Source(1, source, mix).of[s]])]]]

\* Two halves, the second on what the first left behind if it is chained, and
\* the harmonics as the remainder.
DRUMS == 0
VOCALS == 3
HalfOutput(h, index_, given) == Source(h, FOUR_STEM_SOURCES[index_ + 1], given)
Vocals(mix) == HalfOutput(1, VOCALS, mix)
ForDrums(mix) == IF Cascade THEN Minus(mix, Vocals(mix)) ELSE mix
Drums(mix) == HalfOutput(2, DRUMS, ForDrums(mix))

Remainder_OfTheRest(mix) == Folded(mix)["harmonics"]
Remainder(mix) == Minus(Minus(mix, Vocals(mix)), Drums(mix))

Arranged(mix) ==
  IF Len(chunk) = 1 THEN Folded(mix) ELSE [harmonics |-> Remainder(mix), vocals |-> Vocals(mix)]

\* What each half was given.
Given(mix) == IF Len(chunk) = 1 THEN <<ToModel(1, mix)>> ELSE <<ToModel(1, mix), ToModel(2, ForDrums(mix))>>

\* Stems::derived_part, and Stems::mix for three faders, each down or up.
PartGains == [Parts -> {0, 2}]
DerivedPart(mix, parts) == Minus(Minus(mix, parts["harmonics"]), parts["vocals"])

Faded(mix, parts, gain) ==
  [s \in Sounds |-> gain[DERIVED] * mix.of[s]
     + (gain["harmonics"] - gain[DERIVED]) * parts["harmonics"].of[s]
     + (gain["vocals"] - gain[DERIVED]) * parts["vocals"].of[s]]

-----------------------------------------------------------------------------
(* To the output rate and into the cache *)

Asked == IF sub.derived THEN Parts ELSE SHIPPED

\* to_output_rate: the derived part at the model's rate, then one filter for all.
OutputParts_LateDerived(mix) ==
  [p \in Asked |-> IF p = DERIVED THEN Through(mix, MODEL_RATE, sub.out, 0)
                   ELSE Through(stems.parts[p], MODEL_RATE, sub.out, sub.dsp)]
OutputParts(mix) ==
  [p \in Asked |-> Through(IF p = DERIVED THEN DerivedPart(mix, stems.parts) ELSE stems.parts[p],
                           MODEL_RATE, sub.out, sub.dsp)]

\* one_stem: what stops a part from being written.  A part with a sample that is no
\* number has no peak.
HasPeak == stems.finite
Writable(p) == HasPeak /\ Encodes(shipped.geometry, sub.format)

Entry ==
  [key |-> Key(req, sub), rate |-> sub.out, format |-> sub.format,
   channels |-> audio.channels, frames |-> shipped.geometry.frames,
   parts |-> shipped.parts,
   gain  |-> [p \in Asked |-> TransferGain(stems.peak[p], sub.format)],
   peak  |-> [p \in Asked |-> Written(stems.peak[p], sub.format)]]

-----------------------------------------------------------------------------
Nothing == [refused |-> "nothing yet"]

PipelineInit ==
  /\ \E case \in Cases :
       /\ requests = case.requests
       /\ defaults = case.defaults
       /\ chunk = case.chunk
       /\ overlap = case.overlap
  /\ length = TrackLength(req)
  /\ Init
  /\ sub = Nothing /\ audio = Nothing /\ stems = Nothing /\ shipped = Nothing
  /\ phase = "post"
  /\ index = {}

Answer(how) == phase' = how

\* Refused before it is hashed: the body limit, then parse.
Post ==
  /\ phase = "post"
  /\ IF req.bytes > MaxBody THEN Answer("too large") /\ UNCHANGED sub
     ELSE IF Malformed(req) THEN Answer("bad request") /\ UNCHANGED sub
     ELSE IF TooLong(req) THEN Answer("too long") /\ UNCHANGED sub
     ELSE Answer("lookup") /\ sub' = Parsed(req)
  /\ UNCHANGED <<vars, requests, defaults, audio, stems, shipped, index>>

Hits == {e \in index : e.key = Key(req, sub)}

Lookup ==
  /\ phase = "lookup"
  /\ Answer(IF Hits # {} THEN "hit" ELSE "missed")
  /\ UNCHANGED <<vars, requests, defaults, sub, audio, stems, shipped, index>>

\* decode_upload; only the first upload is followed further.
Decode ==
  /\ phase = "missed" /\ audio = Nothing
  /\ LET decoded == Decoded(req, sub)
     IN  IF IsRefused(decoded) THEN Answer("bad request") /\ UNCHANGED audio
         ELSE Answer("submitted") /\ audio' = decoded
  /\ UNCHANGED <<vars, requests, defaults, sub, stems, shipped, index>>

\* check_geometry, once the worker has it.
Geometry ==
  /\ phase = "submitted"
  /\ Answer(IF audio.channels # MODEL_CHANNELS \/ audio.rate # MODEL_RATE THEN "geometry"
            ELSE "separating")
  /\ UNCHANGED <<vars, requests, defaults, sub, audio, stems, shipped, index>>

Separate ==
  /\ phase = "separating"
  /\ Next
  /\ UNCHANGED pipeVars

\* A sample that is no number is one in every output of the model.
Separated ==
  /\ phase = "separating"
  /\ \/ /\ pc = "separated"
        /\ Answer("publish")
        /\ \E loud \in SUBSET Parts :
             stems' = [parts  |-> Arranged(MixAt(sub)),
                       given  |-> Given(MixAt(sub)),
                       finite |-> req.finite,
                       peak   |-> [p \in Parts |-> IF p \in loud THEN FULL + Loudness ELSE FULL]]
     \/ pc \in {"cancelled", "empty", "strideless", "uncovered"} /\ Answer(pc) /\ UNCHANGED stems
  /\ UNCHANGED <<vars, requests, defaults, sub, audio, shipped, index>>

Convert ==
  /\ phase = "publish"
  /\ LET geometry == ToRate(audio, sub.out, sub.dsp)
     IN  IF IsRefused(geometry) THEN Answer("writing failed") /\ UNCHANGED shipped
         ELSE Answer("write") /\ shipped' = [parts |-> OutputParts(MixAt(sub)), geometry |-> geometry]
  /\ UNCHANGED <<vars, requests, defaults, sub, audio, stems, index>>

WriteStems ==
  /\ phase = "write"
  /\ IF \A p \in Asked : Writable(p) THEN Answer("done") /\ index' = index \cup {Entry}
     ELSE Answer("writing failed") /\ UNCHANGED index
  /\ UNCHANGED <<vars, requests, defaults, sub, audio, stems, shipped>>

Answered == {"too large", "bad request", "too long", "hit", "geometry", "cancelled", "empty",
             "strideless", "uncovered", "writing failed", "done"}

\* A second upload follows one that reached the worker.
NextRequest ==
  /\ phase \in Answered /\ Len(requests) > 1 /\ audio # Nothing
  /\ requests' = Tail(requests)
  /\ Answer("post")
  /\ UNCHANGED <<vars, defaults, sub, audio, stems, shipped, index>>

PipelineNext ==
  \/ Post \/ Lookup \/ Decode \/ Geometry \/ Separate \/ Separated \/ Convert \/ WriteStems
  \/ NextRequest

PipelineSpec == PipelineInit /\ [][PipelineNext]_allVars
=============================================================================
