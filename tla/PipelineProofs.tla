--------------------------- MODULE PipelineProofs ---------------------------
(***************************************************************************)
(* Theorems about an upload, for requests, settings, tracks and limits of   *)
(* every size: what is admitted is served, what is served is what was asked *)
(* for, the parts sum to the mix and come back at the level they had; and   *)
(* about the folders the window writes them to.                             *)
(***************************************************************************)
EXTENDS PipelineProperties, TrackProofs, SequenceTheorems, WellFoundedInduction

-----------------------------------------------------------------------------
(* Where an upload is *)

Passed  == {"lookup", "missed", "hit"}
Ended   == {"cancelled", "empty", "strideless", "uncovered"}
Made    == {"publish", "write", "writing failed", "done"}
Fitting == {"separating"} \cup Ended \cup Made
Reached == {"submitted", "geometry"} \cup Fitting
Admitted == Passed \cup Reached
Phases  == {"idle", "post", "too large", "bad request", "too long"} \cup Admitted

\* The current request, as parse left it.
Parsing == sub = Parsed(req) /\ req.bytes <= MaxBody /\ ~Malformed(req) /\ ~TooLong(req)

\* Where the track of the first request is the one that Track runs on.
Decoding == audio = Decoded(req, sub) /\ ~IsRefused(audio) /\ length = audio.frames

Peaks == [Parts -> {FULL, FULL + Loudness}]
Separation ==
  /\ stems.parts = Arranged(MixAt(sub)) /\ stems.given = Given(MixAt(sub))
  /\ stems.finite = req.finite /\ stems.peak \in Peaks
Conversion ==
  shipped = [parts |-> OutputParts(MixAt(sub)), geometry |-> ToRate(audio, sub.out, sub.dsp)]

\* An entry is what its key says, whoever asked for it.
AsKeyed(e) ==
  LET k == e.key
      s == [rate |-> k[3], channels |-> k[4], in |-> k[5], format |-> k[6], out |-> k[7],
            derived |-> k[8], dsp |-> k[9]]
  IN  /\ e.rate = s.out /\ e.format = s.format
      /\ DOMAIN e.parts = (IF s.derived THEN Parts ELSE SHIPPED)
      /\ \A p \in SHIPPED : e.parts[p] = Through(Arranged(MixAt(s))[p], MODEL_RATE, s.out, s.dsp)
      /\ e.frames = ToRate(Decoded([bytes |-> k[2]], s), s.out, s.dsp).frames

RequestsInv ==
  /\ requests \in Seq(Range(requests))
  /\ \A r \in Range(requests) : {r.bytes, r.channels, r.rate} \subseteq Nat
  /\ phase \in Phases
  /\ requests = <<>> => phase = "idle"

UploadInv ==
  /\ phase = "idle" => audio = Nothing
  /\ audio = Nothing => index = {} /\ (requests # <<>> => length = TrackLength(req))
  /\ phase \in Admitted => Parsing
  /\ phase \in Reached => Decoding /\ (phase # "done" => index = {})
  /\ phase = "too large" => req.bytes > MaxBody
  /\ phase = "too long" => TooLong(req)
  /\ phase = "hit" => Hits # {}
  /\ phase = "geometry" => req.channels # MODEL_CHANNELS
  /\ phase \in Fitting => audio.channels = MODEL_CHANNELS /\ audio.rate = MODEL_RATE
  /\ phase \in Ended => pc = phase
  /\ phase \in Made => Separation
  /\ phase \in {"write", "done"} => Conversion
  /\ phase = "writing failed" => ~req.finite
  /\ phase = "done" => index = {Entry}
  /\ \A e \in index : AsKeyed(e)

\* Why a track ended without stems.
EndsInv ==
  /\ pc = "empty" => length = 0
  /\ pc = "strideless" => stride < 1
  /\ pc = "cancelled" => cancel

PipeInv == RequestsInv /\ UploadInv /\ EndsInv

-----------------------------------------------------------------------------
(* Where the client is *)

Looking  == {"connect", "health", "no server", "not offered", "load", "undecoded"}
Writing  == {"write", "unwritten", "written"}
Holding  == {"too long here", "upload", "wait", "told", "fetch"} \cup Writing

Fetched(p, part) ==
  part = [samples |-> shipped.parts[p], origin |-> "downloaded", level |-> stems.peak[p]]

\* A set put together: where the file is at the model's rate its parts correspond,
\* and nothing is left over of the three.
WholeSet ==
  /\ DOMAIN cli.parts \in {SHIPPED, Parts}
  /\ \A p \in DOMAIN cli.parts : cli.parts[p].level \in {FULL, FULL + Loudness}
  /\ cli.audio.rate = MODEL_RATE /\ DERIVED \in DOMAIN cli.parts =>
       /\ \A p, q \in Parts : Corresponds(cli.parts[p].samples, cli.parts[q].samples)
       /\ Unexplained(cli.parts) = Only({})
FileOf(p, whole) ==
  [part |-> cli.parts[p], level |-> FileLevel(cli.parts[p], Divisor(cli.parts)), whole |-> whole]

FilesInv ==
  /\ cli.at = "write" => /\ WholeSet
                         /\ DOMAIN cli.written \subseteq DOMAIN cli.parts
                         /\ \A p \in DOMAIN cli.written : cli.written[p] = FileOf(p, TRUE)
  /\ cli.at \notin Writing => DOMAIN cli.written = {}
  /\ RebuiltSums /\ WrittenTogether

ClientInv ==
  cli.at # "none" =>
    /\ cli.at \in Looking \cup Holding \cup {"unreachable"}
    /\ DOMAIN cli = {"at", "args", "file", "audio", "fetched", "parts", "written", "null"}
    /\ requests = IF IsRefused(DecodeFile(file)) THEN <<>> ELSE <<Submission(cli, DecodeFile(file))>>
    /\ IsRefused(DecodeFile(file))
         \/ DecodeFile(file) \in [frames : Nat \ {0}, channels : {2}, rate : Nat \ {0}]
    /\ cli.at \in Looking \cup {"too long here", "upload"} => phase = "idle"
    /\ cli.at \in Holding => ~IsRefused(DecodeFile(file)) /\ cli.audio = DecodeFile(file)
    /\ cli.at = "too long here" => TooLongHere(cli.audio)
    /\ cli.at \in Holding \ {"too long here"} => ~TooLongHere(cli.audio)
    /\ phase \in {"idle", "post"} \cup Passed => audio = Nothing
    /\ cli.at = "told" => phase \in Answered
    /\ cli.at \in {"fetch"} \cup Writing => phase = "done"
    /\ cli.at \in Looking \cup {"upload", "wait"} => cli.fetched = <<>>
    /\ cli.at = "fetch" => /\ DOMAIN cli.fetched \subseteq Asked
                           /\ \A p \in DOMAIN cli.fetched : Fetched(p, cli.fetched[p])
    /\ FilesInv

-----------------------------------------------------------------------------
(* Where the drops are *)

\* What entry n left of its part in the folder.
Copied(n, p) ==
  [of |-> item[n].source, gain |-> item[n].entry.gain[p], whole |-> TRUE]
Present(n, p) ==
  LET at == folder[Dir(n)]
      name == <<p, item[n].entry.format>>
  IN  name \in DOMAIN at.files /\ at.files[name] = Copied(n, p)

Apart(n) == \A m \in DOMAIN item \ {n} : Dir(m) = Dir(n) => item[m].at # "copy"

InFolderInv(n) ==
  /\ Apart(n)
  /\ item[n].at = "copy" \/ n \in recent =>
       IF ~folder[Dir(n)].there THEN \E m \in DOMAIN item \ {n} : Dir(m) = Dir(n)
       ELSE /\ \A i \in 1 .. item[n].copied : Present(n, STEMS[i])
            /\ item[n].at = "done" => \A p \in Scaled(n) :
                 p \in DOMAIN folder[Dir(n)].gains /\ folder[Dir(n)].gains[p] = item[n].entry.gain[p]

Folders == {OutputDir(s) : s \in Songs}
DropInv(n) ==
  /\ DOMAIN item[n] = {"source", "at", "output", "entry", "copied", "disturbed"}
  /\ item[n].source \in Songs /\ item[n].disturbed \in BOOLEAN
  /\ item[n].at \in {"reading", "separate", "open", "copy", "done", "failed"}
  /\ item[n].copied \in 0 .. 3
  /\ item[n].at \in {"reading", "separate", "open"} => item[n].copied = 0
  /\ item[n].at = "done" => item[n].copied = 3
  /\ item[n].at \in {"open", "copy", "done"} => item[n].entry.song = item[n].source
  /\ item[n].at \in {"copy", "done"} /\ ~item[n].disturbed => InFolderInv(n)

DropsInv ==
  /\ item \in Seq(Range(item))
  /\ recent \subseteq DOMAIN item
  /\ DOMAIN folder = Folders /\ \A d \in Folders : DOMAIN folder[d] = {"there", "files", "gains"}
  /\ \A n \in DOMAIN item : DropInv(n)

-----------------------------------------------------------------------------
(* The steps of a server, a client and a window are a track's or leave it *)

DropsSees == <<clientVars, dropVars>>

LEMMA StepsOfATrack == ASSUME DropsNext \/ UNCHANGED DropsSees PROVE [Next]_vars
<1>1. CASE PipelineNext
  BY <1>1 DEF PipelineNext, Post, Lookup, Decode, Geometry, Separate, Separated, Convert, WriteStems, NextRequest
<1>2. CASE ClientNext /\ ~PipelineNext
  BY <1>2 DEF ClientNext, Connect, CheckRate, LoadInput, Submit, Wait, Fetch, Assemble, WritePart, ReportNull, Unreachable,
              allVars
<1>3. CASE DropStep
  BY <1>3 DEF DropStep, Accept, Read, SeparateDrop, OpenFolder, CopyStem, WriteGains, Discard, OpenRow,
              PickFormat, SwitchModel, clientVars, allVars
<1>4. CASE UNCHANGED DropsSees
  BY <1>4 DEF DropsSees, clientVars, allVars
<1> QED
  BY <1>1, <1>2, <1>3, <1>4 DEF DropsNext

LEMMA DropsBeginATrack == ASSUME DropsInit PROVE Init
  BY DEF DropsInit, ClientInit

\* All that is shown of a track holds of one that is uploaded.
THEOREM UploadsAreTracks == DropsSpec => Spec
<1>1. DropsInit => Init
  BY DropsBeginATrack
<1>2. [DropsNext]_<<clientVars, dropVars>> => [Next]_vars
  BY StepsOfATrack DEF DropsSees
<1> QED
  BY <1>1, <1>2, PTL DEF DropsSpec, Spec

-----------------------------------------------------------------------------
(* What no step touches stays as it is *)

LEMMA SameParsing ==
  ASSUME UNCHANGED <<requests, defaults, sub>>
  PROVE  Parsing' = Parsing
  BY DEF Parsing, req, Parsed, Malformed, TooLong, MaxBody

LEMMA SameLength ==
  ASSUME UNCHANGED <<requests, defaults>>
  PROVE  TrackLength(req)' = TrackLength(req)
  BY DEF TrackLength, req, Parsed, Malformed, TooLong, MaxBody, Decoded

LEMMA SameArrangement ==
  ASSUME UNCHANGED chunk, NEW mix
  PROVE  Arranged(mix)' = Arranged(mix) /\ Given(mix)' = Given(mix)
  BY DEF Arranged, Given, Folded, Remainder, Vocals, Drums, HalfOutput, ForDrums, Source, ToModel,
         IsDemucs, Cascade, Denormalised

LEMMA SameSeparation ==
  ASSUME UNCHANGED <<chunk, requests, sub, stems>>
  PROVE  Separation' = Separation
<1>1. MixAt(sub)' = MixAt(sub) /\ req' = req
  BY DEF MixAt, req
<1>2. Arranged(MixAt(sub))' = Arranged(MixAt(sub)) /\ Given(MixAt(sub))' = Given(MixAt(sub))
  BY <1>1 DEF Arranged, Given, Folded, Remainder, Vocals, Drums, HalfOutput, ForDrums, Source, ToModel,
         IsDemucs, Cascade, Denormalised
<1> QED
  BY <1>1, <1>2 DEF Separation

LEMMA SameConversion ==
  ASSUME UNCHANGED <<sub, stems, shipped, audio>>
  PROVE  Conversion' = Conversion /\ Asked' = Asked
  BY DEF Conversion, OutputParts, Asked, MixAt

LEMMA SameKeyed ==
  ASSUME UNCHANGED chunk, NEW e
  PROVE  AsKeyed(e)' = AsKeyed(e)
  BY DEF AsKeyed, Arranged, Folded, Remainder, Vocals, Drums, HalfOutput, ForDrums, Source, ToModel,
         IsDemucs, Cascade, Denormalised

LEMMA SameEntry ==
  ASSUME UNCHANGED <<requests, sub, stems, shipped, audio>>
  PROVE  Entry' = Entry /\ Key(req, sub)' = Key(req, sub) /\ Hits' = {e \in index' : e.key = Key(req, sub)}
<1>1. req' = req
  BY DEF req
<1>2. Key(req, sub)' = Key(req, sub)
  BY <1>1 DEF Key
<1>3. Asked' = Asked
  BY SameConversion
<1> QED
  BY <1>1, <1>2, <1>3 DEF Entry, Hits

\* A decoded mix is not Nothing.
LEMMA DecodedIsThere == Decoding => audio # Nothing
  BY DEF Decoding, Nothing, IsRefused

\* What is common to the steps that leave the request where it is.
LEMMA SameUpload ==
  ASSUME RequestsInv, UploadInv, EndsInv,
         UNCHANGED <<requests, sub, chunk, length, audio>>, UNCHANGED defaults \/ requests = <<>>
  PROVE  /\ requests' \in Seq(Range(requests')) /\ \A r \in Range(requests') : {r.bytes, r.channels, r.rate} \subseteq Nat
         /\ requests' = <<>> => phase = "idle"
         /\ audio' = Nothing => index = {} /\ (requests' # <<>> => length' = TrackLength(req)')
         /\ phase \in Admitted => Parsing'
         /\ phase \in Reached => Decoding'
         /\ UNCHANGED stems /\ phase \in Made => Separation'
         /\ \A e \in index : AsKeyed(e)'
<1>1. req' = req
  BY DEF req
<1>2. phase \in Admitted => Parsing'
  <2>1. phase \in Admitted => requests # <<>>
    BY DEF RequestsInv, Admitted, Passed, Reached, Fitting, Ended, Made
  <2> QED
    BY <2>1, SameParsing DEF UploadInv
<1>3. phase \in Reached => Decoding'
  BY <1>1 DEF UploadInv, Decoding, Decoded
<1>4. UNCHANGED stems /\ phase \in Made => Separation'
  BY SameSeparation DEF UploadInv
<1>5. \A e \in index : AsKeyed(e)'
  BY SameKeyed DEF UploadInv
<1>6. audio' = Nothing => index = {} /\ (requests' # <<>> => length' = TrackLength(req)')
  BY SameLength DEF UploadInv
<1> QED
  BY <1>2, <1>3, <1>4, <1>5, <1>6 DEF RequestsInv

LEMMA QuietStep ==
  ASSUME PipeInv, UNCHANGED <<requests, sub, chunk, length, audio, phase, stems, shipped, index>>,
         UNCHANGED defaults \/ requests = <<>>, EndsInv', phase \in Ended => UNCHANGED pc
  PROVE  PipeInv'
<1>1. RequestsInv'
  BY SameUpload DEF PipeInv, RequestsInv
<1>2. UploadInv'
  <2> USE DEF PipeInv
  <2>0. UploadInv
    OBVIOUS
  <2>1. req' = req
    BY DEF req
  <2>2. (phase = "hit" => Hits # {})' /\ (phase = "done" => index = {Entry})'
    BY <2>0, SameEntry DEF UploadInv, Hits
  <2>3. (phase \in {"write", "done"} => Conversion)'
    BY <2>0, SameConversion DEF UploadInv
  <2>4. (phase \in Made => Separation)' /\ (phase \in Admitted => Parsing)'
        /\ (phase \in Reached => Decoding /\ (phase # "done" => index = {}))'
        /\ (\A e \in index : AsKeyed(e))'
    BY <2>0, SameUpload DEF UploadInv, Made, Reached, Admitted, Passed, Fitting, Ended
  <2>5. (audio = Nothing => index = {} /\ (requests # <<>> => length = TrackLength(req)))'
    BY <2>0, SameUpload
  <2>6. (phase \in Ended => pc = phase)'
    BY <2>0 DEF UploadInv, Ended
  <2>7. (phase \in Fitting => audio.channels = MODEL_CHANNELS /\ audio.rate = MODEL_RATE)'
    <3>1. phase \in Fitting => audio.channels = MODEL_CHANNELS /\ audio.rate = MODEL_RATE
      BY <2>0 DEF UploadInv
    <3> QED
      BY <3>1
  <2> QED
    BY <2>0, <2>1, <2>2, <2>3, <2>4, <2>5, <2>6, <2>7 DEF UploadInv, MODEL_CHANNELS
<1> QED
  BY <1>1, <1>2 DEF PipeInv

-----------------------------------------------------------------------------
(* Why a track ends *)

LEMMA EndsBegin == ASSUME Init PROVE EndsInv
  BY DEF Init, EndsInv

LEMMA EndsStep ==
  ASSUME EndsInv, [Next]_vars
  PROVE  EndsInv'
<1>1. CASE UNCHANGED <<track, half, cancel, pc>>
  BY <1>1 DEF EndsInv, stride, segment, track
<1>2. CASE Cancel
  BY <1>2 DEF Cancel, EndsInv, stride, segment, track
<1>3. CASE Analyse
  BY <1>3 DEF Analyse, EndsInv, track
<1>4. CASE Begin
  BY <1>4 DEF Begin, EndsInv, stride, segment, track
<1>5. CASE Stopped
  BY <1>5 DEF Stopped, Refuse, EndsInv
<1>6. CASE Divide \/ NextHalf \/ Reconstruct
  BY <1>6 DEF Divide, NextHalf, Reconstruct, EndsInv
<1> QED
  BY <1>1, <1>2, <1>3, <1>4, <1>5, <1>6 DEF Next, Chunk, vars

-----------------------------------------------------------------------------
(* The steps of the server *)

\* A phase the step leaves unnamed is of no consequence.
LEMMA PhaseSets ==
  /\ Passed \cap Reached = {} /\ Ended \cap Made = {}
  /\ "post" \notin Admitted /\ "idle" \notin Admitted /\ "too large" \notin Admitted
  /\ "bad request" \notin Admitted /\ "too long" \notin Admitted
  /\ Passed \subseteq Admitted /\ Reached \subseteq Admitted /\ Fitting \subseteq Reached
  /\ Ended \subseteq Fitting /\ Made \subseteq Fitting /\ Admitted \subseteq Phases
  /\ "geometry" \notin Fitting /\ "submitted" \notin Fitting /\ "separating" \notin Ended \cup Made
  /\ "hit" \notin Reached /\ "missed" \notin Reached /\ "lookup" \notin Reached
  BY DEF Passed, Reached, Ended, Made, Admitted, Fitting, Phases

LEMMA FirstRequest ==
  ASSUME RequestsInv, phase # "idle"
  PROVE  /\ requests # <<>> /\ Len(requests) \in Nat \ {0} /\ req \in Range(requests)
         /\ req.bytes \in Nat /\ req.channels \in Nat /\ req.rate \in Nat
<1>1. requests # <<>> /\ requests \in Seq(Range(requests))
  BY DEF RequestsInv
<1>2. Len(requests) \in Nat \ {0} /\ req = requests[1] /\ 1 \in DOMAIN requests
  BY <1>1 DEF req
<1>3. req \in Range(requests)
  BY <1>2 DEF Range
<1> QED
  BY <1>1, <1>2, <1>3 DEF RequestsInv

LEMMA MaxBodyIsNumber == MaxBody \in Nat
  BY PipelineAssumption, SMT DEF MaxBody, MODEL_CHANNELS, BytesPerSample

LEMMA ElsewherePhase ==
  ASSUME NEW p, p \notin Admitted
  PROVE  /\ p \notin Reached /\ p \notin Fitting /\ p \notin Ended /\ p \notin Made /\ p \notin Passed
         /\ p \notin {"hit", "geometry", "write", "done", "writing failed"} /\ p \notin {"write", "done"}
  BY DEF Passed, Reached, Ended, Made, Admitted, Fitting

LEMMA PostStep == ASSUME PipeInv, Post PROVE PipeInv'
<1>0. RequestsInv /\ UploadInv /\ EndsInv /\ phase = "post"
  BY DEF PipeInv, Post
<1>1. /\ UNCHANGED <<vars, requests, defaults, audio, stems, shipped, index>>
      /\ \/ phase' \in {"too large", "bad request", "too long"} /\ UNCHANGED sub
         \/ /\ phase' = "lookup" /\ sub' = Parsed(req)
            /\ ~(req.bytes > MaxBody) /\ ~Malformed(req) /\ ~TooLong(req)
  BY DEF Post, Answer
<1>2. req' = req /\ EndsInv'
  <2>1. EndsInv'
    BY <1>0, <1>1, EndsStep
  <2> QED
    BY <1>1, <2>1 DEF req
<1>3. requests # <<>> /\ req.bytes \in Nat
  BY <1>0, FirstRequest
<1>4. MaxBody \in Nat
  BY MaxBodyIsNumber
<1>5. phase' = "lookup" => Parsing'
  <2> SUFFICES ASSUME phase' = "lookup" PROVE Parsing'
    OBVIOUS
  <2>1. /\ sub' = Parsed(req) /\ req.bytes <= MaxBody /\ ~Malformed(req) /\ ~TooLong(req)
    BY <1>1, <1>3, <1>4
  <2> QED
    BY <1>1, <1>2, <2>1 DEF Parsing, Parsed, Malformed, TooLong, MaxBody
<1>6. phase' \notin Reached \cup Ended \cup Made \cup {"hit", "geometry", "write", "done", "writing failed", "idle"} /\ phase' \in Phases
  BY <1>1 DEF Reached, Ended, Made, Fitting, Phases, Admitted, Passed
<1>7. phase' \in Admitted => phase' = "lookup"
  BY <1>1, PhaseSets
<1>8. \A e \in index' : AsKeyed(e)'
  BY <1>0, <1>1, SameKeyed DEF UploadInv, vars, track
<1>9. audio' = Nothing => index' = {} /\ (requests' # <<>> => length' = TrackLength(req)')
  BY <1>0, <1>1, SameLength DEF UploadInv, vars, track
<1>10. RequestsInv'
  BY <1>0, <1>1, <1>3, <1>6 DEF RequestsInv
<1>11. (phase = "too large" => req.bytes > MaxBody)' /\ (phase = "too long" => TooLong(req))'
  BY <1>1, <1>2 DEF Post, Answer, MaxBody, TooLong
<1>12. UploadInv'
  BY <1>5, <1>6, <1>7, <1>8, <1>9, <1>11, PhaseSets DEF UploadInv
<1> QED
  BY <1>2, <1>10, <1>12 DEF PipeInv

LEMMA LookupStep == ASSUME PipeInv, Lookup PROVE PipeInv'
<1>0. RequestsInv /\ UploadInv /\ EndsInv /\ phase = "lookup"
  BY DEF PipeInv, Lookup
<1>1. /\ UNCHANGED <<vars, requests, defaults, sub, audio, stems, shipped, index>>
      /\ phase' = IF Hits # {} THEN "hit" ELSE "missed"
  BY DEF Lookup, Answer
<1>2. EndsInv' /\ UNCHANGED <<chunk, length>>
  BY <1>0, <1>1, EndsStep DEF vars, track
<1>3. phase' \in {"hit", "missed"} /\ phase \in Admitted /\ phase' \in Admitted
  BY <1>0, <1>1 DEF Admitted, Passed
<1>4. phase' \notin Reached
  BY <1>3, PhaseSets
<1>5. (phase = "hit" => Hits # {})'
  BY <1>1, <1>2, SameEntry DEF Hits
<1>6. RequestsInv'
  BY <1>0, <1>1, <1>2, <1>3, PhaseSets, SameUpload DEF RequestsInv
<1>7. UploadInv'
  BY <1>0, <1>1, <1>2, <1>3, <1>4, <1>5, PhaseSets, SameUpload DEF UploadInv
<1> QED
  BY <1>2, <1>6, <1>7 DEF PipeInv

\* Whole frames of something are some.
LEMMA WholeFrames ==
  ASSUME NEW b \in Nat \ {0}, NEW w \in Nat \ {0}, b % w = 0
  PROVE  b \div w \in Nat \ {0} /\ b = w * (b \div w)
<1>1. b = w * (b \div w) + (b % w) /\ b \div w \in Nat
  BY SMT
<1> QED
  BY <1>1, SMT

LEMMA DecodedShape ==
  ASSUME NEW r, NEW s, r.bytes \in Nat \ {0}, s.channels \in Nat \ {0}, s.rate \in Nat \ {0},
         ~IsRefused(Decoded(r, s))
  PROVE  /\ Decoded(r, s).frames \in Nat \ {0} /\ Decoded(r, s).channels = s.channels
         /\ Decoded(r, s).rate = MODEL_RATE
<1> DEFINE read == FromInterleaved(r.bytes, s.in, s.channels, s.rate)
<1>1. PICK w \in Nat \ {0} : w = BytesPerSample(s.in) * s.channels
  BY SMT DEF BytesPerSample
<1>2. ~IsRefused(read)
  BY DEF Decoded
<1>3. PICK f : /\ f = r.bytes \div w
               /\ read = [frames |-> f, channels |-> s.channels, rate |-> s.rate] /\ r.bytes % w = 0
  BY <1>1, <1>2 DEF FromInterleaved, Refused, IsRefused
<1>4. f \in Nat \ {0}
  <2>1. PICK b \in Nat \ {0} : b = r.bytes
    OBVIOUS
  <2>2. b % w = 0 /\ f = b \div w
    BY <1>3, <2>1
  <2> QED
    BY <1>1, <2>2, WholeFrames
<1>5. Decoded(r, s) = ToRate(read, MODEL_RATE, 0)
  BY <1>2 DEF Decoded
<1> HIDE DEF read
<1>6. CASE s.rate = MODEL_RATE
  BY <1>3, <1>4, <1>5, <1>6 DEF ToRate
<1>7. CASE s.rate # MODEL_RATE
  <2>1. CoversPair(0, read.rate, MODEL_RATE)
    BY DEF CoversPair, OnlyPair
  <2>2. Decoded(r, s) = [read EXCEPT !.rate = MODEL_RATE, !.frames = Resampled(@, read.rate, MODEL_RATE)]
    BY <1>3, <1>4, <1>5, <1>7, <2>1 DEF ToRate
  <2>3. Resampled(f, s.rate, MODEL_RATE) \in Nat \ {0}
    <3>1. PICK q \in Nat \ {0} : q = s.rate
      OBVIOUS
    <3>2. PICK a \in Nat \ {0} : a = f * MODEL_RATE
      BY <1>4, SMT DEF MODEL_RATE
    <3>3. q <= a + q - 1 /\ a + q - 1 \in Nat
      OBVIOUS
    <3>4. (1 * q) \div q = 1 /\ 1 * q = q
      BY WholeShare
    <3>5. (a + q - 1) \div q \in Nat /\ 1 <= (a + q - 1) \div q
      BY <3>3, <3>4, QuotientsGrow
    <3> QED
      BY <3>1, <3>2, <3>5 DEF Resampled, CeilDiv
  <2> QED
    BY <1>3, <2>2, <2>3
<1> QED
  BY <1>6, <1>7

\* What parse let through has samples, and decodes to what the model runs at.
LEMMA UploadDecodes ==
  ASSUME RequestsInv, Parsing, phase # "idle"
  PROVE  /\ sub.channels = req.channels /\ sub.rate = req.rate
         /\ ~IsRefused(Decoded(req, sub)) =>
              /\ Decoded(req, sub).frames \in Nat \ {0} /\ Decoded(req, sub).channels = req.channels
              /\ Decoded(req, sub).rate = MODEL_RATE
<1>1. req.bytes \in Nat \ {0} /\ req.channels \in Nat \ {0} /\ req.rate \in Nat \ {0}
  BY FirstRequest DEF Parsing, Malformed
<1>2. sub.channels = req.channels /\ sub.rate = req.rate
  BY DEF Parsing, Parsed
<1> QED
  BY <1>1, <1>2, DecodedShape

LEMMA DecodeStep == ASSUME PipeInv, Decode PROVE PipeInv'
<1>0. RequestsInv /\ UploadInv /\ EndsInv /\ phase = "missed" /\ audio = Nothing /\ requests # <<>>
  BY DEF PipeInv, Decode, RequestsInv
<1>1. /\ UNCHANGED <<vars, requests, defaults, sub, stems, shipped, index>>
      /\ \/ phase' = "bad request" /\ UNCHANGED audio
         \/ phase' = "submitted" /\ audio' = Decoded(req, sub) /\ ~IsRefused(Decoded(req, sub))
  BY DEF Decode, Answer
<1>2. EndsInv' /\ UNCHANGED <<chunk, length>> /\ req' = req
  <2>1. EndsInv'
    BY <1>0, <1>1, EndsStep
  <2> QED
    BY <1>1, <2>1 DEF vars, track, req
<1>3. phase \in Admitted /\ Parsing /\ Parsing' /\ index = {} /\ length = TrackLength(req)
  <2>1. phase \in Admitted
    BY <1>0 DEF Admitted, Passed
  <2> QED
    BY <1>0, <1>1, <2>1, SameParsing DEF UploadInv
<1>4. RequestsInv'
  <2>1. phase' \in Phases
    BY <1>1 DEF Phases, Admitted, Reached
  <2> QED
    BY <1>0, <1>1, <2>1 DEF RequestsInv
<1>5. CASE phase' = "submitted"
  <2>1. length = Decoded(req, sub).frames
    <3>1. req.bytes \in Nat /\ MaxBody \in Nat
      BY <1>0, FirstRequest, MaxBodyIsNumber
    <3>2. ~(req.bytes > MaxBody) /\ ~Malformed(req) /\ ~TooLong(req) /\ sub = Parsed(req)
      BY <1>3, <3>1 DEF Parsing
    <3> QED
      BY <1>1, <1>3, <1>5, <3>2 DEF TrackLength
  <2>2. Decoding'
    <3>1. Decoded(req, sub)' = Decoded(req, sub)
      BY <1>1, <1>2 DEF Decoded
    <3> QED
      BY <1>1, <1>2, <1>5, <2>1, <3>1 DEF Decoding
  <2>3. audio' # Nothing
    <3>1. IsRefused(Nothing)
      BY DEF Nothing, IsRefused
    <3> QED
      BY <1>1, <1>5, <3>1
  <2> QED
    BY <1>1, <1>2, <1>3, <1>4, <1>5, <2>2, <2>3, PhaseSets DEF PipeInv, UploadInv
<1>6. CASE phase' = "bad request"
  <2>1. length' = TrackLength(req)'
    BY <1>1, <1>2, <1>3, SameLength
  <2> QED
    <3>1. phase' \notin Admitted /\ phase' \notin {"idle", "too large", "too long"}
      BY <1>6, PhaseSets
    <3>2. audio' = Nothing /\ index' = {}
      BY <1>0, <1>1, <1>3, <1>6
    <3>3. /\ phase' \notin Reached /\ phase' \notin Fitting /\ phase' \notin Ended /\ phase' \notin Made
          /\ phase' \notin {"hit", "geometry", "write", "done", "writing failed"}
      BY <3>1, ElsewherePhase
    <3>4. UploadInv'
      BY <2>1, <3>1, <3>2, <3>3 DEF UploadInv
    <3> QED
      BY <1>2, <1>4, <3>4 DEF PipeInv
<1> QED
  BY <1>1, <1>5, <1>6

LEMMA GeometryStep == ASSUME PipeInv, Geometry PROVE PipeInv'
<1>0. RequestsInv /\ UploadInv /\ EndsInv /\ phase = "submitted"
  BY DEF PipeInv, Geometry
<1>1. /\ UNCHANGED <<vars, requests, defaults, sub, audio, stems, shipped, index>>
      /\ phase' = IF audio.channels # MODEL_CHANNELS \/ audio.rate # MODEL_RATE THEN "geometry"
                  ELSE "separating"
  BY DEF Geometry, Answer
<1>2. EndsInv' /\ UNCHANGED <<chunk, length>> /\ req' = req
  <2>1. EndsInv'
    BY <1>0, <1>1, EndsStep
  <2> QED
    BY <1>1, <2>1 DEF vars, track, req
<1>3. phase \in Reached /\ phase \in Admitted /\ phase' \in Reached /\ phase' \in Admitted
  BY <1>0, <1>1, PhaseSets DEF Reached, Fitting
<1>4. Parsing /\ Decoding /\ index = {}
  BY <1>0, <1>3 DEF UploadInv
<1>5. audio.rate = MODEL_RATE /\ audio.channels = req.channels
  BY <1>0, <1>4, UploadDecodes DEF Decoding
<1>6. RequestsInv'
  BY <1>0, <1>1, <1>3, SameUpload, PhaseSets DEF RequestsInv
<1>7. Parsing' /\ Decoding' /\ audio' # Nothing
  BY <1>0, <1>1, <1>2, <1>3, <1>4, SameUpload, DecodedIsThere
<1>8. CASE phase' = "geometry"
  BY <1>1, <1>2, <1>4, <1>5, <1>6, <1>7, <1>8, PhaseSets DEF PipeInv, UploadInv, MODEL_CHANNELS
<1>9. CASE phase' = "separating"
  <2>1. audio'.channels = MODEL_CHANNELS /\ audio'.rate = MODEL_RATE
    BY <1>1, <1>9
  <2>2. phase' \notin Ended /\ phase' \notin Made
    BY <1>9, PhaseSets
  <2>3. phase' \notin {"idle", "hit", "geometry", "write", "done", "writing failed"}
    BY <1>9
  <2>4. UploadInv'
    BY <1>1, <1>4, <1>7, <2>1, <2>2, <2>3 DEF UploadInv
  <2> QED
    BY <1>2, <1>6, <2>4 DEF PipeInv
<1> QED
  BY <1>1, <1>8, <1>9

LEMMA SeparateStep == ASSUME PipeInv, Separate PROVE PipeInv'
<1>1. phase = "separating" /\ UNCHANGED pipeVars /\ [Next]_vars /\ EndsInv
  BY DEF Separate, PipeInv
<1>2. EndsInv'
  BY <1>1, EndsStep
<1>3. UNCHANGED track
  BY <1>1 DEF Next, Cancel, Analyse, Begin, Stopped, Chunk, Divide, NextHalf, Reconstruct, vars
<1>4. phase \notin Ended
  BY <1>1, PhaseSets
<1> QED
  BY <1>1, <1>2, <1>3, <1>4, QuietStep DEF pipeVars, track

LEMMA SameMix ==
  ASSUME UNCHANGED <<chunk, sub>>
  PROVE  /\ MixAt(sub)' = MixAt(sub) /\ Arranged(MixAt(sub))' = Arranged(MixAt(sub))
         /\ Given(MixAt(sub))' = Given(MixAt(sub))
  BY DEF MixAt, Arranged, Given, Folded, Remainder, Vocals, Drums, HalfOutput, ForDrums, Source, ToModel,
         IsDemucs, Cascade, Denormalised

LEMMA SeparatedStep == ASSUME PipeInv, Separated PROVE PipeInv'
<1>0. RequestsInv /\ UploadInv /\ EndsInv /\ phase = "separating"
  BY DEF PipeInv, Separated
<1>1. UNCHANGED <<vars, requests, defaults, sub, audio, shipped, index>>
  BY DEF Separated
<1>2. EndsInv' /\ UNCHANGED <<chunk, length, pc>> /\ req' = req
  <2>1. EndsInv'
    BY <1>0, <1>1, EndsStep
  <2> QED
    BY <1>1, <2>1 DEF vars, track, req
<1>3. phase \in Fitting /\ phase \in Reached /\ phase \in Admitted
  BY <1>0, PhaseSets DEF Fitting
<1>4. /\ Parsing' /\ Decoding' /\ audio' # Nothing /\ index' = {}
      /\ audio.channels = MODEL_CHANNELS /\ audio.rate = MODEL_RATE
  <2>1. Parsing' /\ Decoding'
    BY <1>0, <1>1, <1>2, <1>3, SameUpload
  <2>2. Decoding /\ index = {} /\ audio.channels = MODEL_CHANNELS /\ audio.rate = MODEL_RATE
    BY <1>0, <1>3 DEF UploadInv
  <2> QED
    BY <1>1, <2>1, <2>2, DecodedIsThere
<1>5. ASSUME phase' \in Fitting PROVE RequestsInv'
  BY <1>0, <1>1, <1>2, <1>3, <1>5, SameUpload, PhaseSets DEF RequestsInv
<1>6. CASE phase' \in Ended /\ phase' = pc
  <2>1. phase' \in Fitting /\ phase' \in Reached /\ phase' \notin Made
    BY <1>6, PhaseSets
  <2>2. phase' \notin {"idle", "too large", "too long", "hit", "geometry", "write", "done", "writing failed"}
    BY <1>6 DEF Ended
  <2>3. UploadInv'
    BY <1>1, <1>2, <1>4, <1>6, <2>1, <2>2 DEF UploadInv
  <2> QED
    BY <1>2, <1>5, <2>1, <2>3 DEF PipeInv
<1>7. CASE phase' = "publish" /\ \E loud \in SUBSET Parts :
             stems' = [parts  |-> Arranged(MixAt(sub)), given  |-> Given(MixAt(sub)), finite |-> req.finite,
                       peak   |-> [p \in Parts |-> IF p \in loud THEN FULL + Loudness ELSE FULL]]
  <2>1. phase' \in Fitting /\ phase' \in Reached /\ phase' \notin Ended
    BY <1>7, PhaseSets DEF Made
  <2>2. phase' \notin {"idle", "too large", "too long", "hit", "geometry", "write", "done", "writing failed"}
    BY <1>7
  <2>3. Separation'
    <3>1. PICK loud \in SUBSET Parts :
             stems' = [parts  |-> Arranged(MixAt(sub)), given  |-> Given(MixAt(sub)), finite |-> req.finite,
                       peak   |-> [p \in Parts |-> IF p \in loud THEN FULL + Loudness ELSE FULL]]
      BY <1>7
    <3>2. [p \in Parts |-> IF p \in loud THEN FULL + Loudness ELSE FULL] \in Peaks
      BY DEF Peaks
    <3>3. /\ stems'.parts = Arranged(MixAt(sub)) /\ stems'.given = Given(MixAt(sub))
          /\ stems'.finite = req.finite /\ stems'.peak \in Peaks
      BY <3>1, <3>2
    <3> QED
      BY <1>1, <1>2, <3>3, SameMix DEF Separation, Peaks
  <2>4. UploadInv'
    BY <1>1, <1>2, <1>4, <2>1, <2>2, <2>3 DEF UploadInv
  <2> QED
    BY <1>2, <1>5, <2>1, <2>4 DEF PipeInv
<1> QED
  BY <1>6, <1>7 DEF Separated, Answer, Ended

\* What was accepted converts and encodes.
LEMMA ConvertsAndEncodes ==
  ASSUME Parsing, Decoding, audio.channels = MODEL_CHANNELS, audio.rate = MODEL_RATE
  PROVE  LET geometry == ToRate(audio, sub.out, sub.dsp)
         IN  ~IsRefused(geometry) /\ Encodes(geometry, sub.format)
<1> DEFINE geometry == ToRate(audio, sub.out, sub.dsp)
<1>1. /\ CoversPair(sub.dsp, MODEL_RATE, sub.out) /\ Carries(sub.format, sub.out)
      /\ ~IsRefused(audio)
  BY DEF Parsing, Malformed, Parsed, Decoding
<1>2. /\ DOMAIN geometry = DOMAIN audio /\ geometry.channels = 2
      /\ geometry.rate \in {44100, sub.out}
  <2> DEFINE n == IF sub.dsp = 1 THEN OutFrames(audio.frames) ELSE Resampled(audio.frames, audio.rate, sub.out)
  <2>1. geometry = audio \/ geometry = [audio EXCEPT !.rate = sub.out, !.frames = n]
    BY <1>1 DEF ToRate
  <2>2. "channels" \in DOMAIN audio /\ "rate" \in DOMAIN audio
    <3>1. audio = Decoded(req, sub) /\ ~IsRefused(Decoded(req, sub))
      BY DEF Decoding
    <3>2. DOMAIN audio = {"frames", "channels", "rate"}
      BY <3>1 DEF Decoded, ToRate, FromInterleaved, IsRefused, Refused
    <3> QED
      BY <3>2
  <2> HIDE DEF n, geometry
  <2>3. CASE geometry = audio
    BY <2>3 DEF MODEL_CHANNELS, MODEL_RATE
  <2>4. CASE geometry = [audio EXCEPT !.rate = sub.out, !.frames = n]
    BY <2>2, <2>4 DEF MODEL_CHANNELS
  <2> QED
    BY <2>1, <2>3, <2>4
<1>3. ~IsRefused(geometry)
  BY <1>1, <1>2 DEF IsRefused
<1>4. sub.format = "mp3" => geometry.rate \in {24000, 44100, 48000}
  BY <1>1, <1>2 DEF Carries
<1> HIDE DEF geometry
<1>5. Encodes(geometry, sub.format)
  BY <1>2, <1>4 DEF Encodes, ToMp3, ToFlac, Carries
<1> QED
  BY <1>3, <1>5 DEF geometry

LEMMA ConvertStep == ASSUME PipeInv, Convert PROVE PipeInv'
<1>0. RequestsInv /\ UploadInv /\ EndsInv /\ phase = "publish"
  BY DEF PipeInv, Convert
<1>1. UNCHANGED <<vars, requests, defaults, sub, audio, stems, index>>
  BY DEF Convert
<1>2. EndsInv' /\ UNCHANGED <<chunk, length>> /\ req' = req
  <2>1. EndsInv'
    BY <1>0, <1>1, EndsStep
  <2> QED
    BY <1>1, <2>1 DEF vars, track, req
<1>3. phase \in Made /\ phase \in Fitting /\ phase \in Reached /\ phase \in Admitted
  BY <1>0, PhaseSets DEF Made
<1>4. /\ Parsing /\ Decoding /\ index = {} /\ audio.channels = MODEL_CHANNELS /\ audio.rate = MODEL_RATE
  BY <1>0, <1>3 DEF UploadInv
<1>5. /\ phase' = "write"
      /\ shipped' = [parts |-> OutputParts(MixAt(sub)), geometry |-> ToRate(audio, sub.out, sub.dsp)]
  BY <1>4, ConvertsAndEncodes DEF Convert, Answer
<1>6. Parsing' /\ Decoding' /\ Separation' /\ audio' # Nothing
  BY <1>0, <1>1, <1>2, <1>3, <1>4, SameUpload, DecodedIsThere
<1>7. Conversion'
  BY <1>1, <1>2, <1>5 DEF Conversion, OutputParts, Asked, MixAt
<1>8. phase' \in Reached /\ phase' \in Fitting /\ phase' \notin Ended /\ phase' \in Phases
  BY <1>5, PhaseSets DEF Made
<1>9. RequestsInv'
  BY <1>0, <1>1, <1>2, <1>3, <1>8, SameUpload DEF RequestsInv
<1>10. UploadInv'
  BY <1>1, <1>2, <1>4, <1>5, <1>6, <1>7, <1>8 DEF UploadInv
<1> QED
  BY <1>2, <1>9, <1>10 DEF PipeInv

LEMMA EntryIsAsKeyed ==
  ASSUME Parsing, Decoding, Separation, Conversion
  PROVE  AsKeyed(Entry)
<1> DEFINE k == Key(req, sub)
           s == [rate |-> k[3], channels |-> k[4], in |-> k[5], format |-> k[6], out |-> k[7],
                 derived |-> k[8], dsp |-> k[9]]
<1>1. /\ s.rate = sub.rate /\ s.channels = sub.channels /\ s.in = sub.in /\ s.format = sub.format
      /\ s.out = sub.out /\ s.derived = sub.derived /\ s.dsp = sub.dsp /\ k[2] = req.bytes
  BY DEF Key
<1>2. Entry.key = k /\ Entry.rate = sub.out /\ Entry.format = sub.format
      /\ Entry.parts = shipped.parts /\ Entry.frames = shipped.geometry.frames
  BY DEF Entry
<1> HIDE DEF k
<1> HIDE DEF s
<1>3. shipped.parts = OutputParts(MixAt(sub)) /\ shipped.geometry = ToRate(audio, sub.out, sub.dsp)
  BY DEF Conversion
<1>4. DOMAIN Entry.parts = IF s.derived THEN Parts ELSE SHIPPED
  BY <1>1, <1>2, <1>3 DEF OutputParts, Asked
<1>5. MixAt(s) = MixAt(sub)
  BY <1>1 DEF MixAt
<1>6. ASSUME NEW p \in SHIPPED
      PROVE  Entry.parts[p] = Through(Arranged(MixAt(s))[p], MODEL_RATE, s.out, s.dsp)
  <2>1. p \in Asked /\ p # DERIVED
    BY DEF Asked, SHIPPED, Parts, DERIVED
  <2>2. Entry.parts[p] = Through(stems.parts[p], MODEL_RATE, sub.out, sub.dsp)
    BY <1>2, <1>3, <2>1 DEF OutputParts
  <2> QED
    BY <1>1, <1>5, <2>2 DEF Separation
<1>7. Decoded([bytes |-> k[2]], s) = audio
  <2>1. Decoded([bytes |-> k[2]], s) = Decoded(req, sub)
    BY <1>1 DEF Decoded
  <2> QED
    BY <2>1 DEF Decoding
<1>8. Entry.frames = ToRate(Decoded([bytes |-> k[2]], s), s.out, s.dsp).frames
  BY <1>1, <1>2, <1>3, <1>7
<1>9. Entry.rate = s.out /\ Entry.format = s.format /\ Entry.key = k
  BY <1>1, <1>2
<1> QED
  BY <1>4, <1>6, <1>8, <1>9 DEF AsKeyed, s

LEMMA WriteStemsStep == ASSUME PipeInv, WriteStems PROVE PipeInv'
<1>0. RequestsInv /\ UploadInv /\ EndsInv /\ phase = "write"
  BY DEF PipeInv, WriteStems
<1>1. UNCHANGED <<vars, requests, defaults, sub, audio, stems, shipped>>
  BY DEF WriteStems
<1>2. EndsInv' /\ UNCHANGED <<chunk, length>> /\ req' = req
  <2>1. EndsInv'
    BY <1>0, <1>1, EndsStep
  <2> QED
    BY <1>1, <2>1 DEF vars, track, req
<1>3. phase \in Made /\ phase \in Fitting /\ phase \in Reached /\ phase \in Admitted
  BY <1>0, PhaseSets DEF Made
<1>4. /\ Parsing /\ Decoding /\ Separation /\ Conversion /\ index = {}
      /\ audio.channels = MODEL_CHANNELS /\ audio.rate = MODEL_RATE
  BY <1>0, <1>3 DEF UploadInv
<1>5. /\ Parsing' /\ Decoding' /\ Separation' /\ Conversion' /\ audio' # Nothing /\ Entry' = Entry
  BY <1>0, <1>1, <1>2, <1>3, <1>4, SameUpload, SameConversion, SameEntry, DecodedIsThere
<1>6. \/ phase' = "done" /\ index' = index \cup {Entry}
      \/ phase' = "writing failed" /\ UNCHANGED index /\ ~stems.finite
  <2>1. Encodes(shipped.geometry, sub.format)
    BY <1>4, ConvertsAndEncodes DEF Conversion
  <2> QED
    BY <2>1 DEF WriteStems, Answer, Writable, HasPeak
<1>7. phase' \in Made /\ phase' \in Fitting /\ phase' \in Reached /\ phase' \in Admitted /\ phase' \notin Ended
  BY <1>6, PhaseSets DEF Made
<1>8. phase' = "writing failed" => ~req'.finite
  BY <1>2, <1>4, <1>6 DEF Separation
<1>9. index' \subseteq {Entry} /\ \A e \in index' : AsKeyed(e)'
  <2>1. AsKeyed(Entry)
    BY <1>4, EntryIsAsKeyed
  <2>2. index' \subseteq {Entry}
    BY <1>4, <1>6
  <2>3. \A e \in {Entry} : AsKeyed(e)
    BY <2>1
  <2>4. ASSUME NEW e \in index' PROVE AsKeyed(e)'
    BY <1>2, <2>2, <2>3, SameKeyed
  <2> QED
    BY <2>2, <2>4
<1>10. RequestsInv'
  BY <1>0, <1>1, <1>2, <1>3, <1>7, SameUpload, PhaseSets DEF RequestsInv
<1>11. audio'.channels = MODEL_CHANNELS /\ audio'.rate = MODEL_RATE
  BY <1>1, <1>4
<1>12. CASE phase' = "done"
  <2>1. index' = {Entry'} /\ phase' \notin {"idle", "hit", "geometry", "writing failed"}
    BY <1>4, <1>5, <1>6, <1>12
  <2>2. UploadInv'
    BY <1>1, <1>5, <1>7, <1>9, <1>12, <1>11, <2>1 DEF UploadInv
  <2> QED
    BY <1>2, <1>10, <2>2 DEF PipeInv
<1>13. CASE phase' = "writing failed"
  <2>1. index' = {} /\ phase' \notin {"idle", "hit", "geometry", "done", "write"}
    BY <1>4, <1>6, <1>13
  <2>2. UploadInv'
    BY <1>1, <1>5, <1>7, <1>8, <1>9, <1>13, <1>11, <2>1 DEF UploadInv
  <2> QED
    BY <1>2, <1>10, <2>2 DEF PipeInv
<1> QED
  BY <1>6, <1>12, <1>13

LEMMA NextRequestStep == ASSUME PipeInv, NextRequest PROVE PipeInv'
<1>0. RequestsInv /\ UploadInv /\ EndsInv /\ Len(requests) > 1 /\ audio # Nothing
  BY DEF PipeInv, NextRequest
<1>1. /\ UNCHANGED <<vars, defaults, sub, audio, stems, shipped, index>>
      /\ phase' = "post" /\ requests' = Tail(requests)
  BY DEF NextRequest, Answer
<1>2. EndsInv' /\ UNCHANGED <<chunk, length>>
  <2>1. EndsInv'
    BY <1>0, <1>1, EndsStep
  <2> QED
    BY <1>1, <2>1 DEF vars, track
<1>3. /\ requests' \in Seq(Range(requests')) /\ Range(requests') \subseteq Range(requests)
      /\ requests' # <<>>
  <2>1. requests \in Seq(Range(requests)) /\ requests # <<>>
    BY <1>0 DEF RequestsInv
  <2>2. /\ Len(requests') = Len(requests) - 1 /\ DOMAIN requests' = 1 .. Len(requests')
        /\ \A i \in 1 .. Len(requests') : requests'[i] = requests[i + 1]
        /\ requests' \in Seq(Range(requests))
    BY <1>1, <2>1, HeadTailProperties
  <2>3. Len(requests) \in Nat /\ DOMAIN requests = 1 .. Len(requests)
    BY <2>1
  <2>4. Range(requests') \subseteq Range(requests)
    BY <2>2, <2>3 DEF Range
  <2>5. \A i \in 1 .. Len(requests') : requests'[i] \in Range(requests')
    BY <2>2 DEF Range
  <2>6. requests' \in Seq(Range(requests'))
    BY <2>2, <2>5
  <2>7. requests' # <<>>
    BY <1>0, <2>2, <2>3
  <2> QED
    BY <2>4, <2>6, <2>7
<1>4. phase' \notin Admitted /\ phase' # "idle"
  BY <1>1, PhaseSets
<1>5. RequestsInv'
  BY <1>0, <1>1, <1>3 DEF RequestsInv, Phases
<1>6. \A e \in index' : AsKeyed(e)'
  BY <1>0, <1>1, <1>2, SameKeyed DEF UploadInv
<1>7. /\ phase' \notin Reached /\ phase' \notin Fitting /\ phase' \notin Ended /\ phase' \notin Made
      /\ phase' \notin {"hit", "geometry", "write", "done", "writing failed"}
  BY <1>4, ElsewherePhase
<1>8. UploadInv'
  BY <1>0, <1>1, <1>4, <1>6, <1>7 DEF UploadInv
<1> QED
  BY <1>2, <1>5, <1>8 DEF PipeInv

LEMMA PipelineStep == ASSUME PipeInv, PipelineNext PROVE PipeInv'
  BY PostStep, LookupStep, DecodeStep, GeometryStep, SeparateStep, SeparatedStep, ConvertStep,
     WriteStemsStep, NextRequestStep DEF PipelineNext

-----------------------------------------------------------------------------
(* The steps of a client and of the window, as the server sees them *)

LEMMA StillStep == ASSUME PipeInv, UNCHANGED allVars PROVE PipeInv'
<1>1. EndsInv'
  <2>1. EndsInv /\ [Next]_vars
    BY DEF PipeInv, allVars
  <2> QED
    BY <2>1, EndsStep
<1> QED
  BY <1>1, QuietStep DEF allVars, pipeVars, vars, track

LEMMA SubmitStep == ASSUME PipeInv, ClientInv, Submit PROVE PipeInv'
<1>0. RequestsInv /\ UploadInv /\ EndsInv /\ cli.at = "upload"
  BY DEF PipeInv, Submit
<1>1. UNCHANGED <<vars, requests, defaults, sub, audio, stems, shipped, index>> /\ phase' = "post"
  BY DEF Submit
<1>2. EndsInv' /\ UNCHANGED <<chunk, length>>
  <2>1. EndsInv'
    BY <1>0, <1>1, EndsStep
  <2> QED
    BY <1>1, <2>1 DEF vars, track
<1>3. phase = "idle" /\ requests # <<>>
  <2>1. cli.at # "none" /\ cli.at \in Holding /\ cli.at \in Looking \cup {"too long here", "upload"}
    BY <1>0 DEF Holding
  <2>2. ~IsRefused(DecodeFile(file)) /\ phase = "idle"
    BY <2>1 DEF ClientInv
  <2>3. requests = <<Submission(cli, DecodeFile(file))>>
    BY <2>1, <2>2 DEF ClientInv
  <2> QED
    BY <2>2, <2>3
<1>4. audio = Nothing /\ index = {} /\ length = TrackLength(req)
  BY <1>0, <1>3 DEF UploadInv
<1>5. phase' \notin Admitted /\ phase' # "idle" /\ phase' \in Phases
  BY <1>1, PhaseSets DEF Phases
<1>6. /\ phase' \notin Reached /\ phase' \notin Fitting /\ phase' \notin Ended /\ phase' \notin Made
      /\ phase' \notin {"hit", "geometry", "write", "done", "writing failed"}
  BY <1>5, ElsewherePhase
<1>7. length' = TrackLength(req)'
  BY <1>1, <1>2, <1>4, SameLength
<1>8. RequestsInv'
  BY <1>0, <1>1, <1>3, <1>5 DEF RequestsInv
<1>9. UploadInv'
  BY <1>1, <1>4, <1>5, <1>6, <1>7 DEF UploadInv
<1> QED
  BY <1>2, <1>8, <1>9 DEF PipeInv

LEMMA ClientKeepsPipe == ASSUME PipeInv, ClientInv, ClientNext PROVE PipeInv'
<1>1. UNCHANGED allVars \/ Submit \/ PipelineNext
  BY DEF ClientNext, Connect, CheckRate, LoadInput, Wait, Fetch, Assemble, WritePart, ReportNull, Unreachable
<1> QED
  BY <1>1, StillStep, SubmitStep, PipelineStep

\* The window changes nothing of an upload's but the defaults, when there is none.
LEMMA WindowIsElsewhere ==
  ASSUME DropStep
  PROVE  /\ UNCHANGED <<vars, requests, sub, audio, phase, stems, shipped, index, cli>>
         /\ UNCHANGED defaults \/ (requests = <<>> /\ cli.at = "none")
  BY DEF DropStep, Accept, Read, SeparateDrop, OpenFolder, CopyStem, WriteGains, Discard, OpenRow,
         PickFormat, SwitchModel, clientVars, allVars, pipeVars, Windowed

LEMMA WindowKeepsPipe == ASSUME PipeInv, DropStep PROVE PipeInv'
<1>1. /\ UNCHANGED <<vars, requests, sub, audio, phase, stems, shipped, index>>
      /\ UNCHANGED defaults \/ requests = <<>>
  BY WindowIsElsewhere
<1>2. EndsInv'
  BY <1>1, EndsStep DEF PipeInv
<1> QED
  BY <1>1, <1>2, QuietStep DEF vars, track

LEMMA PipeKeeps ==
  ASSUME PipeInv, ClientInv, DropsNext \/ UNCHANGED DropsSees
  PROVE  PipeInv'
  BY ClientKeepsPipe, WindowKeepsPipe, StillStep DEF DropsNext, DropsSees, clientVars

-----------------------------------------------------------------------------
(* Where an upload begins *)

LEMMA SubmittedSize ==
  ASSUME NEW c, NEW decoded \in [frames : Nat \ {0}, channels : {2}, rate : Nat \ {0}]
  PROVE  LET r == Submission(c, decoded)
         IN  /\ r.channels = 2 /\ r.rate = decoded.rate /\ r.bytes \in Nat
             /\ r.bytes = decoded.frames * (2 * BytesPerSample(r.in))
             /\ r.in \in PcmFormats /\ BytesPerSample(r.in) \in {2, 4}
<1>1. PICK n \in Nat \ {0} : n = decoded.frames
  OBVIOUS
<1>2. CASE c.args.f32
  <2>1. BytesPerSample("f32le") = 4
    BY DEF BytesPerSample
  <2>2. n * 2 * 4 \in Nat /\ n * 2 * 4 = n * (2 * 4)
    OBVIOUS
  <2> QED
    BY <1>1, <1>2, <2>1, <2>2 DEF Submission, PcmFormats
<1>3. CASE ~c.args.f32
  <2>1. BytesPerSample("s16le") = 2
    BY DEF BytesPerSample
  <2>2. n * 2 * 2 \in Nat /\ n * 2 * 2 = n * (2 * 2)
    OBVIOUS
  <2> QED
    BY <1>1, <1>3, <2>1, <2>2 DEF Submission, PcmFormats
<1> QED
  BY <1>2, <1>3

\* What a case begins with.
LEMMA CaseBegins ==
  ASSUME ClientInit
  PROVE  /\ phase \in {"idle", "post"} /\ audio = Nothing /\ index = {}
         /\ requests # <<>> => length = TrackLength(req)
         /\ requests = <<>> => phase = "idle"
         /\ requests \in Seq(Range(requests))
         /\ \A r \in Range(requests) : {r.bytes, r.channels, r.rate} \subseteq Nat
         /\ cli.at # "none" =>
              /\ cli.at = "connect" /\ cli.fetched = <<>> /\ cli.written = <<>> /\ phase = "idle"
              /\ DOMAIN cli = {"at", "args", "file", "audio", "fetched", "parts", "written", "null"}
              /\ requests = IF IsRefused(DecodeFile(file)) THEN <<>> ELSE <<Submission(cli, DecodeFile(file))>>
              /\ IsRefused(DecodeFile(file))
                   \/ DecodeFile(file) \in [frames : Nat \ {0}, channels : {2}, rate : Nat \ {0}]
<1>1. PICK case \in Cases :
        /\ cli = IF "args" \notin DOMAIN case THEN [at |-> "none"]
                 ELSE [at |-> "connect", args |-> case.args, file |-> case.file,
                       audio |-> Nothing, fetched |-> <<>>, parts |-> <<>>, written |-> <<>>,
                       null |-> {}]
        /\ requests = IF "args" \notin DOMAIN case THEN case.requests
                      ELSE LET decoded == DecodeFile(case.file)
                           IN  IF IsRefused(decoded) THEN <<>> ELSE <<Submission(case, decoded)>>
        /\ length = IF requests = <<>> THEN 0 ELSE TrackLength(req)
        /\ audio = Nothing /\ index = {}
        /\ phase = IF case.requests # <<>> THEN "post" ELSE "idle"
  BY Zenon DEF ClientInit
<1>2. CASE "args" \notin DOMAIN case
  <2>1. cli.at = "none" /\ requests = case.requests
    BY <1>1, <1>2
  <2> QED
    BY <1>1, <2>1, PipelineAssumption
<1>3. CASE "args" \in DOMAIN case
  <2>1. case.requests = <<>> /\ phase = "idle"
    BY <1>1, <1>3, ClientAssumption
  <2>2. cli.args = case.args /\ cli.file = case.file /\ cli.at = "connect" /\ cli.fetched = <<>>
        /\ cli.written = <<>>
        /\ DOMAIN cli = {"at", "args", "file", "audio", "fetched", "parts", "written", "null"}
    BY <1>1, <1>3
  <2>3. \/ IsRefused(DecodeFile(file))
        \/ DecodeFile(file) \in [frames : Nat \ {0}, channels : {2}, rate : Nat \ {0}]
    BY <1>3, <2>2, ClientAssumption DEF file
  <2>4. requests = IF IsRefused(DecodeFile(file)) THEN <<>> ELSE <<Submission(cli, DecodeFile(file))>>
    BY <1>1, <1>3, <2>2 DEF file, Submission
  <2>5. CASE requests = <<>>
    BY <1>1, <2>1, <2>2, <2>3, <2>4, <2>5 DEF Range
  <2>6. CASE requests # <<>>
    <3> DEFINE r == Submission(cli, DecodeFile(file))
    <3>1. requests = <<r>> /\ DecodeFile(file) \in [frames : Nat \ {0}, channels : {2}, rate : Nat \ {0}]
      BY <2>3, <2>4, <2>6
    <3>2. {r.bytes, r.channels, r.rate} \subseteq Nat
      BY <3>1, SubmittedSize
    <3> HIDE DEF r
    <3>3. Range(requests) = {r} /\ requests \in Seq({r})
      BY <3>1 DEF Range
    <3> QED
      BY <1>1, <2>1, <2>2, <2>3, <2>4, <2>6, <3>2, <3>3
  <2> QED
    BY <2>5, <2>6
<1> QED
  BY <1>2, <1>3

LEMMA PipeBegins == ASSUME DropsInit PROVE PipeInv
<1>1. EndsInv
  BY DropsBeginATrack, EndsBegin
<1>2. ClientInit
  BY DEF DropsInit
<1>3. phase \in {"idle", "post"}
  BY <1>2, CaseBegins
<1>4. phase \notin Admitted /\ phase \in Phases
  BY <1>3, PhaseSets DEF Phases
<1>5. /\ phase \notin Reached /\ phase \notin Fitting /\ phase \notin Ended /\ phase \notin Made
      /\ phase \notin {"hit", "geometry", "write", "done", "writing failed"}
  BY <1>4, ElsewherePhase
<1>6. RequestsInv
  BY <1>2, <1>4, CaseBegins DEF RequestsInv
<1>7. UploadInv
  BY <1>2, <1>4, <1>5, CaseBegins DEF UploadInv
<1> QED
  BY <1>1, <1>6, <1>7 DEF PipeInv

-----------------------------------------------------------------------------
(* What an upload in each phase comes to *)

LEMMA Admits == ASSUME PipeInv, TrackInv PROVE AdmittedIsServed
<1>0. RequestsInv /\ UploadInv /\ EndsInv
  BY DEF PipeInv
<1>1. phase = "writing failed" => ~req.finite
  BY <1>0 DEF UploadInv
<1>2. phase = "geometry" => req.channels # MODEL_CHANNELS
  BY <1>0 DEF UploadInv
<1>3. ASSUME phase = "strideless" PROVE \E h \in DOMAIN chunk : chunk[h] * (100 - overlap) < 100
  <2>1. stride < 1
    BY <1>0, <1>3 DEF UploadInv, EndsInv, Ended
  <2>2. half \in DOMAIN chunk
    BY DEF TrackInv, Shape
  <2>3. PICK c \in Nat \ {0} : c = chunk[half]
    BY <2>2 DEF TrackInv, Shape
  <2>4. PICK o \in Int : o = overlap
    BY DEF TrackInv, Shape
  <2>5. PICK n \in Int : n = (100 - o) * c
    OBVIOUS
  <2>6. n \div 100 < 1
    BY <2>1, <2>3, <2>4, <2>5 DEF stride, segment
  <2>7. n < 100
    BY <2>6, SMT
  <2>8. c * (100 - o) = n
    BY <2>5, SMT
  <2> QED
    BY <2>2, <2>3, <2>4, <2>7, <2>8
<1>4. phase # "empty"
  <2> SUFFICES ASSUME phase = "empty" PROVE FALSE
    OBVIOUS
  <2>1. phase \in Ended /\ phase \in Reached /\ phase \in Admitted /\ phase # "idle"
    BY PhaseSets DEF Ended
  <2>2. length = 0 /\ Parsing /\ Decoding
    BY <1>0, <2>1 DEF UploadInv, EndsInv
  <2>3. Decoded(req, sub).frames \in Nat \ {0}
    BY <1>0, <2>1, <2>2, UploadDecodes DEF Decoding
  <2> QED
    BY <2>2, <2>3 DEF Decoding
<1>5. phase = "cancelled" => cancel
  BY <1>0 DEF UploadInv, EndsInv, Ended
<1> QED
  BY <1>1, <1>2, <1>3, <1>4, <1>5 DEF AdmittedIsServed

LEMMA LongBody ==
  ASSUME NEW b \in Nat, NEW w \in 1 .. 8, b % w = 0, NEW limit \in Nat, b > limit * 8
  PROVE  b \div w \in Nat /\ b \div w > limit
<1>1. PICK f \in Nat : f = b \div w /\ b = w * f
  <2>1. b = w * (b \div w) + (b % w) /\ b \div w \in Nat
    BY SMT
  <2> QED
    BY <2>1, SMT
<1>2. f <= limit => w * f <= 8 * limit
  <2>1. f <= limit => w * f <= w * limit
    BY SMT
  <2>2. w * limit <= 8 * limit
    BY SMT
  <2>3. w * f \in Nat /\ w * limit \in Nat
    BY SMT
  <2> QED
    BY <2>1, <2>2, <2>3, SMT
<1>3. limit * 8 = 8 * limit
  OBVIOUS
<1> QED
  BY <1>1, <1>2, <1>3, SMT

LEMMA HighestIsNumber == HighestRate \in Nat
<1>1. \E x \in OutputRates : \A y \in OutputRates : x >= y
  BY SMT DEF OutputRates
<1>2. HighestRate \in OutputRates
  BY <1>1, Zenon DEF HighestRate, Max
<1> QED
  BY <1>2, SMT DEF OutputRates

LEMMA AtMostHighest ==
  ASSUME NEW f \in Nat, NEW limit \in Nat, f > limit, NEW q \in Nat \ {0}, NEW h \in Nat, q <= h
  PROVE  f * h > limit * q
<1>1. limit * q <= limit * h
  BY SMT
<1>2. limit * h < f * h
  BY SMT
<1>3. limit * q \in Nat /\ limit * h \in Nat /\ f * h \in Nat
  BY SMT
<1> QED
  BY <1>1, <1>2, <1>3, SMT

LEMMA EightBytes == \A n \in Nat : n * 2 * 4 = n * 8
  BY SMT

\* A body over the limit is of a track over it, at any rate the limit is meant for.
LEMMA TooManyFrames ==
  ASSUME NEW b \in Nat, NEW c \in {1, 2}, NEW m \in {2, 4}, NEW q \in Nat \ {0}, NEW h \in Nat,
         NEW limit \in Nat, b > limit * 8, ~(q > h), b % (c * m) = 0
  PROVE  (b \div (c * m)) * h > limit * q
<1>1. PICK w \in 1 .. 8 : w = c * m
  OBVIOUS
<1>2. b % w = 0
  BY <1>1
<1>3. b \div w \in Nat /\ b \div w > limit
  BY <1>2, LongBody
<1>4. (b \div w) * h > limit * q
  BY <1>3, AtMostHighest
<1> QED
  BY <1>1, <1>4

LEMMA BodyLimitSpares == ASSUME PipeInv PROVE BodyLimitSparesTheShort
<1>a. SUFFICES ASSUME phase = "too large", ~(req.rate > HighestRate), ~(req.channels > MODEL_CHANNELS),
                    req.channels # 0, req.rate # 0,
                    req.bytes % (req.channels * BytesPerSample(req.in)) = 0
             PROVE  TooLong(req)
  BY DEF BodyLimitSparesTheShort
<1>0. RequestsInv /\ UploadInv
  BY DEF PipeInv
<1>1. req.bytes \in Nat /\ req.channels \in Nat /\ req.rate \in Nat /\ req.bytes > MaxBody
  <2>1. req.bytes > MaxBody
    BY <1>0, <1>a DEF UploadInv
  <2> QED
    BY <1>0, <1>a, <2>1, FirstRequest
<1>2. PICK b \in Nat : b = req.bytes
  BY <1>1
<1>3. PICK q \in Nat \ {0} : q = req.rate
  BY <1>1, <1>a
<1>4. PICK h \in Nat : h = HighestRate
  BY HighestIsNumber
<1>5. PICK c \in {1, 2} : c = req.channels
  <2>1. PICK c \in Nat : c = req.channels
    BY <1>1
  <2>2. ~(c > 2) /\ c # 0
    BY <1>a, <2>1 DEF MODEL_CHANNELS
  <2> QED
    BY <2>1, <2>2
<1>6. PICK m \in {2, 4} : m = BytesPerSample(req.in)
  BY DEF BytesPerSample
<1>7. PICK limit \in Nat : limit = MaxTrack
  BY PipelineAssumption
<1>8. b > limit * 8
  <2>1. MaxBody = limit * 2 * 4
    BY <1>7 DEF MaxBody, MODEL_CHANNELS, BytesPerSample
  <2>2. MaxBody = limit * 8
    BY <2>1, EightBytes
  <2> QED
    BY <1>1, <1>2, <2>2
<1>9. ~(q > h) /\ b % (c * m) = 0
  BY <1>a, <1>2, <1>3, <1>4, <1>5, <1>6
<1>10. (b \div (c * m)) * h > limit * q
  BY <1>8, <1>9, TooManyFrames
<1> QED
  BY <1>a, <1>2, <1>3, <1>4, <1>5, <1>6, <1>7, <1>10 DEF TooLong

LEMMA WhatWasAsked == ASSUME PipeInv PROVE EntryIsWhatWasAsked
<1> SUFFICES ASSUME Served
             PROVE \E e \in index :
    /\ e.key = Key(req, sub)
    /\ e.format = Parsed(req).format /\ e.rate = Parsed(req).out
    /\ DOMAIN e.parts = (IF req.derived THEN Parts ELSE SHIPPED)
    /\ \A p \in SHIPPED : e.parts[p] = Through(Arranged(MixAt(req))[p], MODEL_RATE, e.rate, req.dsp)
    /\ e.frames = ToRate(Decoded(req, sub), e.rate, req.dsp).frames
  BY DEF EntryIsWhatWasAsked
<1>0. RequestsInv /\ UploadInv /\ phase \in {"done", "hit"}
  BY DEF PipeInv, Served
<1>1. Parsing
  <2>1. phase \in Admitted
    BY <1>0 DEF Admitted, Passed, Reached, Fitting, Made
  <2> QED
    BY <1>0, <2>1 DEF UploadInv
<1>2. PICK e \in index : e.key = Key(req, sub)
  <2>1. CASE phase = "hit"
    BY <1>0, <2>1 DEF UploadInv, Hits
  <2>2. CASE phase = "done"
    <3>1. index = {Entry} /\ Entry.key = Key(req, sub)
      BY <1>0, <2>2 DEF UploadInv, Entry
    <3> QED
      BY <3>1
  <2> QED
    BY <1>0, <2>1, <2>2
<1> DEFINE k == Key(req, sub)
           s == [rate |-> k[3], channels |-> k[4], in |-> k[5], format |-> k[6], out |-> k[7],
                 derived |-> k[8], dsp |-> k[9]]
<1>3. /\ s.rate = sub.rate /\ s.channels = sub.channels /\ s.in = sub.in /\ s.format = sub.format
      /\ s.out = sub.out /\ s.derived = sub.derived /\ s.dsp = sub.dsp /\ k[2] = req.bytes
  BY DEF Key
<1>4. /\ e.rate = s.out /\ e.format = s.format
      /\ DOMAIN e.parts = (IF s.derived THEN Parts ELSE SHIPPED)
      /\ \A p \in SHIPPED : e.parts[p] = Through(Arranged(MixAt(s))[p], MODEL_RATE, s.out, s.dsp)
      /\ e.frames = ToRate(Decoded([bytes |-> k[2]], s), s.out, s.dsp).frames
  <2>1. AsKeyed(e) /\ e.key = k
    BY <1>0, <1>2 DEF UploadInv
  <2> HIDE DEF k
  <2> QED
    BY <2>1 DEF AsKeyed
<1> HIDE DEF k, s
<1>5. sub.rate = req.rate /\ sub.dsp = req.dsp /\ sub.derived = req.derived
      /\ sub.format = Parsed(req).format /\ sub.out = Parsed(req).out
  BY <1>1 DEF Parsing, Parsed
<1>6. MixAt(s) = MixAt(req)
  BY <1>3, <1>5 DEF MixAt
<1>7. Decoded([bytes |-> k[2]], s) = Decoded(req, sub)
  BY <1>3 DEF Decoded
<1>8. s.out = e.rate /\ s.dsp = req.dsp /\ s.derived = req.derived
      /\ e.format = Parsed(req).format /\ e.rate = Parsed(req).out
  BY <1>3, <1>4, <1>5
<1>9. \A p \in SHIPPED : e.parts[p] = Through(Arranged(MixAt(req))[p], MODEL_RATE, e.rate, req.dsp)
  BY <1>4, <1>6, <1>8
<1>10. e.frames = ToRate(Decoded(req, sub), e.rate, req.dsp).frames
  BY <1>4, <1>7, <1>8
<1> QED
  BY <1>2, <1>4, <1>8, <1>9, <1>10

-----------------------------------------------------------------------------
(* What is done to the samples *)

\* Samples with no normalisation left in them, and the one source of a buffer.
Samples == [Sounds -> Int]
Buffer(of, path) == [of |-> of, path |-> path, norm |-> <<>>]
PartOf(of, source) == [s \in Sounds |-> IF s = source THEN of[s] ELSE 0]
Less(a, b) == [s \in Sounds |-> a[s] - b[s]]
PathOf(path, from, to, mode) == IF from = to THEN path ELSE Append(path, <<from, to, mode>>)

LEMMA ThroughFilter ==
  ASSUME NEW of, NEW path, NEW from, NEW to, NEW mode
  PROVE  Through(Buffer(of, path), from, to, mode) = Buffer(of, PathOf(path, from, to, mode))
<1> DEFINE q == Append(path, <<from, to, mode>>)
           b == Buffer(of, path)
<1>1. b.path = path /\ Append(b.path, <<from, to, mode>>) = q
  BY DEF Buffer
<1> HIDE DEF q
<1>2. [b EXCEPT !.path = q] = Buffer(of, q)
  BY DEF Buffer
<1> HIDE DEF b
<1>3. Through(b, from, to, mode) = IF from = to THEN b ELSE [b EXCEPT !.path = q]
  BY <1>1 DEF Through
<1> QED
  BY <1>2, <1>3 DEF PathOf, b, q

LEMMA Difference ==
  ASSUME NEW of \in Samples, NEW other \in Samples, NEW path, NEW elsewhere
  PROVE  /\ Minus(Buffer(of, path), Buffer(other, elsewhere)) = Buffer(Less(of, other), path)
         /\ Less(of, other) \in Samples
<1>1. DOMAIN of = Sounds /\ \A s \in Sounds : of[s] \in Int /\ other[s] \in Int
  BY DEF Samples
<1>2. Buffer(other, elsewhere).of = other
  BY DEF Buffer
<1>3. [Buffer(of, path) EXCEPT !.of = [x \in DOMAIN @ |-> @[x] - other[x]]] = Buffer(Less(of, other), path)
  BY <1>1 DEF Buffer, Less
<1>4. Less(of, other) \in Samples
  BY <1>1 DEF Less, Samples
<1> QED
  BY <1>2, <1>3, <1>4 DEF Minus

\* What a model returns is at the level it was given, and holds what it is named for.
LEMMA SourceIsPart ==
  ASSUME NEW h, NEW source, NEW of, NEW path
  PROVE  Source(h, source, Buffer(of, path)) = Buffer(PartOf(of, source), path)
<1> DEFINE b == Buffer(of, path)
           part == PartOf(of, source)
<1>1. CASE IsDemucs(h)
  <2>1. ToModel(h, b) = [of |-> of, path |-> path, norm |-> <<of>>]
    BY <1>1 DEF ToModel, Buffer, Statistics
  <2>2. [ToModel(h, b) EXCEPT !.of = [s \in Sounds |-> IF s = source THEN @[s] ELSE 0]]
          = [of |-> part, path |-> path, norm |-> <<of>>]
    BY <2>1 DEF PartOf
  <2>3. Restored([of |-> part, path |-> path, norm |-> <<of>>], of) = Buffer(part, path)
    BY DEF Restored, Buffer
  <2>4. Statistics(b) = of
    BY DEF Statistics, Buffer
  <2> QED
    BY <1>1, <2>2, <2>3, <2>4 DEF Source, Denormalised
<1>2. CASE ~IsDemucs(h)
  <2>1. ToModel(h, b) = b
    BY <1>2 DEF ToModel
  <2>2. [b EXCEPT !.of = [s \in Sounds |-> IF s = source THEN @[s] ELSE 0]] = Buffer(part, path)
    BY DEF Buffer, PartOf
  <2> QED
    BY <1>2, <2>1, <2>2 DEF Source, Denormalised
<1> QED
  BY <1>1, <1>2

LEMMA PartIsSamples ==
  ASSUME NEW of \in Samples, NEW source
  PROVE  PartOf(of, source) \in Samples
  BY DEF PartOf, Samples

\* A sum over up to three is what it looks like, whichever is counted first.
First(T) == CHOOSE x \in T : TRUE
IsTally(f, g) ==
  g = [T \in SUBSET DOMAIN f |-> IF T = {} THEN 0 ELSE f[First(T)] + g[T \ {First(T)}]]

LEMMA SumUnfolds == \A f : SumFunction(f) = (CHOOSE g : IsTally(f, g))[DOMAIN f]
  BY Zenon DEF SumFunction, SumFunctionOnSet, FoldFunctionOnSet, MapThenFoldSet, IsTally, First

LEMMA FirstIsIn == \A T : T # {} => First(T) \in T
  BY Zenon DEF First

LEMMA TallyAt ==
  ASSUME NEW f, NEW g, IsTally(f, g), NEW T, T \subseteq DOMAIN f
  PROVE  g[T] = IF T = {} THEN 0 ELSE f[First(T)] + g[T \ {First(T)}]
  BY DEF IsTally

LEMMA TallyOfOne ==
  ASSUME NEW f, NEW g, IsTally(f, g), NEW x \in DOMAIN f, f[x] \in Int
  PROVE  g[{}] = 0 /\ g[{x}] = f[x]
<1>1. g[{}] = 0
  BY TallyAt
<1>2. First({x}) = x /\ {x} \ {x} = {}
  BY FirstIsIn
<1>3. {x} \subseteq DOMAIN f /\ {x} # {}
  OBVIOUS
<1>4. g[{x}] = f[x] + g[{}]
  BY <1>2, <1>3, TallyAt
<1> QED
  BY <1>1, <1>4

LEMMA TallyStep ==
  ASSUME NEW f, NEW g, IsTally(f, g), NEW T, T \subseteq DOMAIN f, T # {}
  PROVE  \E x \in T : g[T] = f[x] + g[T \ {x}]
<1>1. g[T] = IF T = {} THEN 0 ELSE f[First(T)] + g[T \ {First(T)}]
  BY TallyAt
<1>2. g[T] = f[First(T)] + g[T \ {First(T)}]
  BY <1>1
<1> QED
  BY <1>2, FirstIsIn

LEMMA TallyOfTwo ==
  ASSUME NEW f, NEW g, IsTally(f, g), NEW x \in DOMAIN f, NEW y \in DOMAIN f, x # y,
         f[x] \in Int, f[y] \in Int
  PROVE  g[{x, y}] = f[x] + f[y]
<1> DEFINE T == {x, y}
<1>1. T \subseteq DOMAIN f /\ T # {} /\ T \ {x} = {y} /\ T \ {y} = {x} /\ \A u \in T : u = x \/ u = y
  OBVIOUS
<1>2. g[{x}] = f[x] /\ g[{y}] = f[y]
  BY TallyOfOne
<1> HIDE DEF T
<1>3. PICK u \in T : g[T] = f[u] + g[T \ {u}]
  BY <1>1, TallyStep
<1>4. g[T] = f[x] + g[{y}] \/ g[T] = f[y] + g[{x}]
  BY <1>1, <1>3
<1>5. g[T] = f[x] + f[y]
  BY <1>2, <1>4
<1> QED
  BY <1>5 DEF T

LEMMA TallyOfThree ==
  ASSUME NEW f, NEW g, IsTally(f, g), NEW x \in DOMAIN f, NEW y \in DOMAIN f, NEW z \in DOMAIN f,
         x # y, y # z, x # z, f[x] \in Int, f[y] \in Int, f[z] \in Int
  PROVE  g[{x, y, z}] = f[x] + f[y] + f[z]
<1> DEFINE T == {x, y, z}
<1>1. T \subseteq DOMAIN f /\ T # {} /\ T \ {x} = {y, z} /\ T \ {y} = {x, z} /\ T \ {z} = {x, y}
      /\ \A u \in T : u = x \/ u = y \/ u = z
  OBVIOUS
<1>2. g[{x, y}] = f[x] + f[y] /\ g[{x, z}] = f[x] + f[z] /\ g[{y, z}] = f[y] + f[z]
  <2>1. g[{x, y}] = f[x] + f[y]
    BY TallyOfTwo
  <2>2. g[{x, z}] = f[x] + f[z]
    BY TallyOfTwo
  <2>3. g[{y, z}] = f[y] + f[z]
    BY TallyOfTwo
  <2> QED
    BY <2>1, <2>2, <2>3
<1> HIDE DEF T
<1>3. PICK u \in T : g[T] = f[u] + g[T \ {u}]
  BY <1>1, TallyStep
<1>4. g[T] = f[x] + g[{y, z}] \/ g[T] = f[y] + g[{x, z}] \/ g[T] = f[z] + g[{x, y}]
  BY <1>1, <1>3
<1>5. g[T] = f[x] + f[y] + f[z]
  BY <1>2, <1>4
<1> QED
  BY <1>5 DEF T

\* There is such a tally.
LEMMA TallyExists ==
  ASSUME NEW f, NEW a, NEW b, NEW c, DOMAIN f \subseteq {a, b, c}, a # b, b # c, a # c,
         \A x \in DOMAIN f : f[x] \in Int
  PROVE  \E g : IsTally(f, g)
<1> DEFINE At(x, T) == IF x \in T THEN f[x] ELSE 0
           g == [T \in SUBSET DOMAIN f |-> At(a, T) + At(b, T) + At(c, T)]
<1>1. ASSUME NEW T \in SUBSET DOMAIN f, NEW x \in T
      PROVE  At(a, T) + At(b, T) + At(c, T)
               = f[x] + (At(a, T \ {x}) + At(b, T \ {x}) + At(c, T \ {x}))
  <2>1. x \in {a, b, c} /\ f[x] \in Int /\ (a \in T => f[a] \in Int) /\ (b \in T => f[b] \in Int)
        /\ (c \in T => f[c] \in Int)
    OBVIOUS
  <2>2. PICK p \in Int, q \in Int, r \in Int : p = At(a, T) /\ q = At(b, T) /\ r = At(c, T)
    BY <2>1
  <2>3. CASE x = a
    <3>1. At(a, T \ {x}) = 0 /\ At(b, T \ {x}) = q /\ At(c, T \ {x}) = r /\ f[x] = p
      BY <2>2, <2>3
    <3> HIDE DEF At
    <3> QED
      BY <2>2, <3>1
  <2>4. CASE x = b
    <3>1. At(a, T \ {x}) = p /\ At(b, T \ {x}) = 0 /\ At(c, T \ {x}) = r /\ f[x] = q
      BY <2>2, <2>4
    <3> HIDE DEF At
    <3> QED
      BY <2>2, <3>1
  <2>5. CASE x = c
    <3>1. At(a, T \ {x}) = p /\ At(b, T \ {x}) = q /\ At(c, T \ {x}) = 0 /\ f[x] = r
      BY <2>2, <2>5
    <3> HIDE DEF At
    <3> QED
      BY <2>2, <3>1
  <2> QED
    BY <2>1, <2>3, <2>4, <2>5
<1>2. At(a, {}) + At(b, {}) + At(c, {}) = 0
  OBVIOUS
<1> HIDE DEF At
<1>3. ASSUME NEW T \in SUBSET DOMAIN f
      PROVE  At(a, T) + At(b, T) + At(c, T) = IF T = {} THEN 0 ELSE f[First(T)] + g[T \ {First(T)}]
  <2>1. CASE T = {}
    BY <1>2, <2>1
  <2>2. CASE T # {}
    <3>1. First(T) \in T /\ T \ {First(T)} \in SUBSET DOMAIN f
      BY <2>2, FirstIsIn
    <3> QED
      BY <1>1, <2>2, <3>1
  <2> QED
    BY <2>1, <2>2
<1>4. g = [T \in SUBSET DOMAIN f |-> IF T = {} THEN 0 ELSE f[First(T)] + g[T \ {First(T)}]]
  BY <1>3
<1> QED
  BY <1>4 DEF IsTally

LEMMA SumIsTally ==
  ASSUME NEW f, NEW a, NEW b, NEW c, DOMAIN f \subseteq {a, b, c}, a # b, b # c, a # c,
         \A x \in DOMAIN f : f[x] \in Int
  PROVE  \E g : IsTally(f, g) /\ SumFunction(f) = g[DOMAIN f]
  BY TallyExists, SumUnfolds

\* The samples of each part of an arrangement.
VocalsOf(of) == PartOf(of, "vocals")
DrumsOf(of) == PartOf(IF Cascade THEN Less(of, VocalsOf(of)) ELSE of, "drums")
HarmonicsOf(of) ==
  IF Len(chunk) = 1 THEN [s \in Sounds |-> PartOf(of, "bass")[s] + PartOf(of, "other")[s]]
  ELSE Less(Less(of, VocalsOf(of)), DrumsOf(of))

LEMMA ArrangementIsSamples ==
  ASSUME NEW of \in Samples
  PROVE  VocalsOf(of) \in Samples /\ DrumsOf(of) \in Samples /\ HarmonicsOf(of) \in Samples
<1>1. VocalsOf(of) \in Samples
  BY PartIsSamples DEF VocalsOf
<1>2. Less(of, VocalsOf(of)) \in Samples
  BY <1>1, Difference
<1>3. DrumsOf(of) \in Samples
  BY <1>2, PartIsSamples DEF DrumsOf
<1>4. Less(Less(of, VocalsOf(of)), DrumsOf(of)) \in Samples
  BY <1>2, <1>3, Difference
<1>5. [s \in Sounds |-> PartOf(of, "bass")[s] + PartOf(of, "other")[s]] \in Samples
  <2>1. PartOf(of, "bass") \in Samples /\ PartOf(of, "other") \in Samples
    BY PartIsSamples
  <2> QED
    BY <2>1 DEF Samples
<1> QED
  BY <1>1, <1>3, <1>4, <1>5 DEF HarmonicsOf

LEMMA NamedSources == FOUR_STEM_SOURCES[VOCALS + 1] = "vocals" /\ FOUR_STEM_SOURCES[DRUMS + 1] = "drums"
  BY DEF FOUR_STEM_SOURCES, VOCALS, DRUMS

LEMMA HalvesOf ==
  ASSUME NEW of \in Samples, NEW path
  PROVE  /\ Vocals(Buffer(of, path)) = Buffer(VocalsOf(of), path)
         /\ Drums(Buffer(of, path)) = Buffer(DrumsOf(of), path)
<1>1. Vocals(Buffer(of, path)) = Buffer(VocalsOf(of), path)
  BY NamedSources, SourceIsPart DEF Vocals, HalfOutput, VocalsOf
<1>2. Minus(Buffer(of, path), Buffer(VocalsOf(of), path)) = Buffer(Less(of, VocalsOf(of)), path)
  BY ArrangementIsSamples, Difference
<1>3. ForDrums(Buffer(of, path)) = Buffer(IF Cascade THEN Less(of, VocalsOf(of)) ELSE of, path)
  BY <1>1, <1>2 DEF ForDrums
<1>4. Drums(Buffer(of, path)) = Source(2, "drums", Buffer(IF Cascade THEN Less(of, VocalsOf(of)) ELSE of, path))
  BY <1>3, NamedSources DEF Drums, HalfOutput
<1> QED
  BY <1>1, <1>4, SourceIsPart DEF DrumsOf

LEMMA FoldOf ==
  ASSUME NEW of \in Samples, NEW path
  PROVE  /\ Folded(Buffer(of, path))["vocals"] = Buffer(VocalsOf(of), path)
         /\ Folded(Buffer(of, path))["harmonics"]
              = Buffer([s \in Sounds |-> PartOf(of, "bass")[s] + PartOf(of, "other")[s]], path)
<1> DEFINE mix == Buffer(of, path)
           f(part, s) == [source \in StemSources(part) |-> Source(1, source, mix).of[s]]
<1>0. ASSUME NEW source PROVE Source(1, source, mix).of = PartOf(of, source) /\ PartOf(of, source) \in Samples
  <2>1. Source(1, source, mix) = Buffer(PartOf(of, source), path)
    BY SourceIsPart
  <2> QED
    BY <2>1, PartIsSamples DEF Buffer
<1>1. ASSUME NEW s \in Sounds PROVE SumFunction(f("vocals", s)) = PartOf(of, "vocals")[s]
  <2> DEFINE v == f("vocals", s)
  <2>1. DOMAIN v = {"vocals"} /\ v["vocals"] = PartOf(of, "vocals")[s] /\ v["vocals"] \in Int
    BY <1>0 DEF StemSources, Samples
  <2> HIDE DEF v
  <2>2. PICK g : IsTally(v, g) /\ SumFunction(v) = g[DOMAIN v]
    <3>1. DOMAIN v \subseteq {"vocals", "bass", "other"} /\ \A x \in DOMAIN v : v[x] \in Int
      BY <2>1
    <3> QED
      BY <3>1, SumIsTally
  <2>3. g[{"vocals"}] = v["vocals"]
    BY <2>1, <2>2, TallyOfOne
  <2> QED
    BY <2>1, <2>2, <2>3 DEF v
<1>2. ASSUME NEW s \in Sounds
      PROVE SumFunction(f("harmonics", s)) = PartOf(of, "bass")[s] + PartOf(of, "other")[s]
  <2> DEFINE v == f("harmonics", s)
  <2>1. DOMAIN v = {"bass", "other"} /\ v["bass"] = PartOf(of, "bass")[s] /\ v["bass"] \in Int
        /\ v["other"] = PartOf(of, "other")[s] /\ v["other"] \in Int
    BY <1>0 DEF StemSources, Samples
  <2> HIDE DEF v
  <2>2. PICK g : IsTally(v, g) /\ SumFunction(v) = g[DOMAIN v]
    <3>1. DOMAIN v \subseteq {"vocals", "bass", "other"} /\ \A x \in DOMAIN v : v[x] \in Int
      BY <2>1
    <3> QED
      BY <3>1, SumIsTally
  <2>3. g[{"bass", "other"}] = v["bass"] + v["other"]
    <3>1. "bass" \in DOMAIN v /\ "other" \in DOMAIN v /\ v["bass"] \in Int /\ v["other"] \in Int
      BY <2>1
    <3> QED
      BY <2>2, <3>1, TallyOfTwo
  <2> QED
    BY <2>1, <2>2, <2>3 DEF v
<1>3. ASSUME NEW part \in SHIPPED
      PROVE  Folded(mix)[part] = Buffer([s \in Sounds |-> SumFunction(f(part, s))], path)
  BY <1>3 DEF Folded, Buffer
<1> HIDE DEF f, mix
<1>4. VocalsOf(of) = [s \in Sounds |-> PartOf(of, "vocals")[s]]
  BY DEF VocalsOf, PartOf
<1> QED
  BY <1>1, <1>2, <1>3, <1>4 DEF SHIPPED, mix

LEMMA ArrangementOf ==
  ASSUME NEW of \in Samples, NEW path
  PROVE  /\ Arranged(Buffer(of, path))["vocals"] = Buffer(VocalsOf(of), path)
         /\ Arranged(Buffer(of, path))["harmonics"] = Buffer(HarmonicsOf(of), path)
<1>1. CASE Len(chunk) = 1
  BY <1>1, FoldOf DEF Arranged, HarmonicsOf
<1>2. CASE Len(chunk) # 1
  <2>1. Minus(Buffer(of, path), Buffer(VocalsOf(of), path)) = Buffer(Less(of, VocalsOf(of)), path)
        /\ Less(of, VocalsOf(of)) \in Samples
    BY ArrangementIsSamples, Difference
  <2>2. Minus(Buffer(Less(of, VocalsOf(of)), path), Buffer(DrumsOf(of), path))
          = Buffer(Less(Less(of, VocalsOf(of)), DrumsOf(of)), path)
    BY <2>1, ArrangementIsSamples, Difference
  <2>3. Remainder(Buffer(of, path)) = Buffer(HarmonicsOf(of), path)
    BY <1>2, <2>1, <2>2, HalvesOf DEF Remainder, HarmonicsOf
  <2> QED
    BY <1>2, <2>3, HalvesOf DEF Arranged
<1> QED
  BY <1>1, <1>2

LEMMA MixIsWhole ==
  ASSUME NEW s
  PROVE  /\ MixAt(s) = Buffer(Only(Sounds), PathOf(<<>>, s.rate, MODEL_RATE, 0))
         /\ Only(Sounds) \in Samples
<1>1. [of |-> Only(Sounds), path |-> <<>>, norm |-> <<>>] = Buffer(Only(Sounds), <<>>)
  BY DEF Buffer
<1>2. Only(Sounds) \in Samples
  BY DEF Only, Samples
<1> QED
  BY <1>1, <1>2, ThroughFilter DEF MixAt

\* What is left for the derived part, and the filters a part has been through.
DerivedOf(of) == Less(Less(of, HarmonicsOf(of)), VocalsOf(of))
Mixed == Only(Sounds)
ModelPath == PathOf(<<>>, sub.rate, MODEL_RATE, 0)
OutPath == PathOf(ModelPath, MODEL_RATE, sub.out, sub.dsp)

LEMMA MixedParts ==
  /\ Mixed \in Samples /\ VocalsOf(Mixed) \in Samples /\ HarmonicsOf(Mixed) \in Samples
  /\ DrumsOf(Mixed) \in Samples /\ DerivedOf(Mixed) \in Samples
<1>1. Mixed \in Samples
  BY MixIsWhole DEF Mixed
<1>2. Less(Mixed, HarmonicsOf(Mixed)) \in Samples
  BY <1>1, ArrangementIsSamples, Difference
<1>3. DerivedOf(Mixed) \in Samples
  BY <1>1, <1>2, ArrangementIsSamples, Difference DEF DerivedOf
<1> QED
  BY <1>1, <1>3, ArrangementIsSamples

LEMMA SeparatedParts ==
  ASSUME Separation
  PROVE  /\ MixAt(sub) = Buffer(Mixed, ModelPath)
         /\ stems.parts["vocals"] = Buffer(VocalsOf(Mixed), ModelPath)
         /\ stems.parts["harmonics"] = Buffer(HarmonicsOf(Mixed), ModelPath)
<1>1. MixAt(sub) = Buffer(Mixed, ModelPath) /\ stems.parts = Arranged(MixAt(sub))
  BY MixIsWhole DEF Mixed, ModelPath, Separation
<1> QED
  BY <1>1, MixedParts, ArrangementOf

LEMMA RemainderOf ==
  ASSUME NEW path
  PROVE  Minus(Minus(Buffer(Mixed, path), Buffer(HarmonicsOf(Mixed), path)), Buffer(VocalsOf(Mixed), path))
           = Buffer(DerivedOf(Mixed), path)
<1>1. Minus(Buffer(Mixed, path), Buffer(HarmonicsOf(Mixed), path)) = Buffer(Less(Mixed, HarmonicsOf(Mixed)), path)
      /\ Less(Mixed, HarmonicsOf(Mixed)) \in Samples
  BY MixedParts, Difference
<1> QED
  BY <1>1, MixedParts, Difference DEF DerivedOf

LEMMA ShippedParts ==
  ASSUME Separation, Conversion
  PROVE  /\ DOMAIN shipped.parts = Asked
         /\ shipped.parts["vocals"] = Buffer(VocalsOf(Mixed), OutPath)
         /\ shipped.parts["harmonics"] = Buffer(HarmonicsOf(Mixed), OutPath)
         /\ DERIVED \in Asked => shipped.parts[DERIVED] = Buffer(DerivedOf(Mixed), OutPath)
         /\ Through(MixAt(sub), MODEL_RATE, sub.out, sub.dsp) = Buffer(Mixed, OutPath)
<1>1. shipped.parts = OutputParts(MixAt(sub))
  BY DEF Conversion
<1>2. "vocals" \in Asked /\ "harmonics" \in Asked /\ DERIVED \notin {"vocals", "harmonics"}
  BY DEF Asked, Parts, SHIPPED, DERIVED
<1>3. DerivedPart(MixAt(sub), stems.parts) = Buffer(DerivedOf(Mixed), ModelPath)
  BY SeparatedParts, RemainderOf DEF DerivedPart
<1>4. /\ shipped.parts["vocals"] = Through(stems.parts["vocals"], MODEL_RATE, sub.out, sub.dsp)
      /\ shipped.parts["harmonics"] = Through(stems.parts["harmonics"], MODEL_RATE, sub.out, sub.dsp)
      /\ DERIVED \in Asked =>
           shipped.parts[DERIVED] = Through(DerivedPart(MixAt(sub), stems.parts), MODEL_RATE, sub.out, sub.dsp)
      /\ DOMAIN shipped.parts = Asked
  BY <1>1, <1>2 DEF OutputParts
<1>5. ASSUME NEW of
      PROVE  Through(Buffer(of, ModelPath), MODEL_RATE, sub.out, sub.dsp) = Buffer(of, OutPath)
  BY ThroughFilter DEF OutPath
<1>6. /\ MixAt(sub) = Buffer(Mixed, ModelPath)
      /\ stems.parts["vocals"] = Buffer(VocalsOf(Mixed), ModelPath)
      /\ stems.parts["harmonics"] = Buffer(HarmonicsOf(Mixed), ModelPath)
  BY SeparatedParts
<1>7. shipped.parts["vocals"] = Buffer(VocalsOf(Mixed), OutPath)
  BY <1>4, <1>5, <1>6
<1>8. shipped.parts["harmonics"] = Buffer(HarmonicsOf(Mixed), OutPath)
  BY <1>4, <1>5, <1>6
<1>9. DERIVED \in Asked => shipped.parts[DERIVED] = Buffer(DerivedOf(Mixed), OutPath)
  BY <1>3, <1>4, <1>5
<1>10. Through(MixAt(sub), MODEL_RATE, sub.out, sub.dsp) = Buffer(Mixed, OutPath)
  BY <1>5, <1>6
<1> QED
  BY <1>4, <1>7, <1>8, <1>9, <1>10

LEMMA FaderArithmetic ==
  ASSUME NEW d \in {0, 2}, NEW h \in {0, 2}, NEW v \in {0, 2}, NEW m \in Int, NEW x \in Int, NEW y \in Int
  PROVE  d * m + (h - d) * x + (v - d) * y = h * x + v * y + d * ((m - x) - y)
<1>1. CASE d = 0
  BY <1>1, SMT
<1>2. CASE d = 2 /\ h = 0
  BY <1>2, SMT
<1>3. CASE d = 2 /\ h = 2
  BY <1>3, SMT
<1> QED
  BY <1>1, <1>2, <1>3

\* The parts of a chained preset leave the drums estimate behind.
LEMMA ChainedRemainder == ASSUME Len(chunk) = 2 PROVE DerivedOf(Mixed) = DrumsOf(Mixed)
<1> DEFINE v == VocalsOf(Mixed)
           d == DrumsOf(Mixed)
<1>1. DerivedOf(Mixed) = Less(Less(Mixed, Less(Less(Mixed, v), d)), v)
  BY DEF DerivedOf, HarmonicsOf
<1>2. Mixed \in Samples /\ v \in Samples /\ d \in Samples
  BY MixedParts
<1> HIDE DEF v, d
<1>3. ASSUME NEW s \in Sounds PROVE (Mixed[s] - ((Mixed[s] - v[s]) - d[s])) - v[s] = d[s]
  BY <1>2 DEF Samples
<1>4. Less(Less(Mixed, Less(Less(Mixed, v), d)), v) = [s \in Sounds |-> d[s]]
  BY <1>3 DEF Less
<1>5. d = [s \in Sounds |-> d[s]]
  BY <1>2 DEF Samples
<1> QED
  BY <1>1, <1>4, <1>5 DEF d

LEMMA SumsToTheMix == ASSUME PipeInv PROVE PartsSumToTheMix
<1> DEFINE mix == Through(MixAt(sub), MODEL_RATE, sub.out, sub.dsp)
           rest == DerivedPart(mix, shipped.parts)
           part(p) == IF p = DERIVED THEN rest ELSE shipped.parts[p]
<1>a. SUFFICES ASSUME phase \in {"write", "done"}
      PROVE  /\ DERIVED \in Asked => shipped.parts[DERIVED] = rest
             /\ \A gain \in PartGains : \A s \in Sounds :
                  Faded(mix, shipped.parts, gain)[s] =
                    gain["harmonics"] * part("harmonics").of[s] + gain["vocals"] * part("vocals").of[s]
                      + gain[DERIVED] * part(DERIVED).of[s]
             /\ \A p \in Asked : Corresponds(shipped.parts[p], mix)
             /\ Len(chunk) = 2 => rest.of = Drums(MixAt(sub)).of
  BY DEF PartsSumToTheMix
<1>1. Separation /\ Conversion
  BY <1>a DEF PipeInv, UploadInv, Made
<1>2. /\ DOMAIN shipped.parts = Asked
      /\ shipped.parts["vocals"] = Buffer(VocalsOf(Mixed), OutPath)
      /\ shipped.parts["harmonics"] = Buffer(HarmonicsOf(Mixed), OutPath)
      /\ DERIVED \in Asked => shipped.parts[DERIVED] = Buffer(DerivedOf(Mixed), OutPath)
      /\ mix = Buffer(Mixed, OutPath)
  BY <1>1, ShippedParts
<1>3. rest = Buffer(DerivedOf(Mixed), OutPath)
  BY <1>2, RemainderOf DEF DerivedPart
<1>4. /\ part("harmonics").of = HarmonicsOf(Mixed) /\ part("vocals").of = VocalsOf(Mixed)
      /\ part(DERIVED).of = DerivedOf(Mixed) /\ mix.of = Mixed
      /\ shipped.parts["vocals"].of = VocalsOf(Mixed) /\ shipped.parts["harmonics"].of = HarmonicsOf(Mixed)
  BY <1>2, <1>3 DEF Buffer, DERIVED
<1>5. Drums(MixAt(sub)).of = DrumsOf(Mixed)
  <2>1. Drums(Buffer(Mixed, ModelPath)) = Buffer(DrumsOf(Mixed), ModelPath)
    BY MixedParts, HalvesOf
  <2>2. MixAt(sub) = Buffer(Mixed, ModelPath)
    BY <1>1, SeparatedParts
  <2>3. Buffer(DrumsOf(Mixed), ModelPath).of = DrumsOf(Mixed)
    BY DEF Buffer
  <2> QED
    BY <2>1, <2>2, <2>3
<1>6. rest.of = DerivedOf(Mixed)
  BY <1>3 DEF Buffer
<1>7. \A p \in Asked : Corresponds(shipped.parts[p], mix)
  BY <1>2 DEF Corresponds, Buffer, Asked, Parts, SHIPPED, DERIVED
<1> HIDE DEF mix, rest, part
<1>8. ASSUME NEW gain \in PartGains, NEW s \in Sounds
      PROVE  Faded(mix, shipped.parts, gain)[s] =
               gain["harmonics"] * part("harmonics").of[s] + gain["vocals"] * part("vocals").of[s]
                 + gain[DERIVED] * part(DERIVED).of[s]
  <2>1. /\ gain["harmonics"] \in {0, 2} /\ gain["vocals"] \in {0, 2} /\ gain[DERIVED] \in {0, 2}
    BY DEF PartGains, Parts, SHIPPED, DERIVED
  <2>2. PICK h \in {0, 2}, v \in {0, 2}, d \in {0, 2} :
           h = gain["harmonics"] /\ v = gain["vocals"] /\ d = gain[DERIVED]
    BY <2>1
  <2>3. Mixed[s] \in Int /\ HarmonicsOf(Mixed)[s] \in Int /\ VocalsOf(Mixed)[s] \in Int
    BY MixedParts DEF Samples
  <2>4. PICK m \in Int, x \in Int, y \in Int :
           m = Mixed[s] /\ x = HarmonicsOf(Mixed)[s] /\ y = VocalsOf(Mixed)[s]
    BY <2>3
  <2>5. DerivedOf(Mixed)[s] = (m - x) - y
    BY <2>4 DEF DerivedOf, Less
  <2>6. Faded(mix, shipped.parts, gain)[s] = d * m + (h - d) * x + (v - d) * y
    BY <1>4, <2>2, <2>4 DEF Faded
  <2>7. d * m + (h - d) * x + (v - d) * y = h * x + v * y + d * ((m - x) - y)
    BY FaderArithmetic
  <2> QED
    BY <1>4, <2>2, <2>4, <2>5, <2>6, <2>7
<1> QED
  BY <1>2, <1>3, <1>5, <1>6, <1>7, <1>8, ChainedRemainder

\* A model is given what it was trained on.
LEMMA FedBuffer ==
  ASSUME NEW h, NEW of, NEW path
  PROVE  LET fed == ToModel(h, Buffer(of, path))
         IN  fed.norm = IF IsDemucs(h) THEN <<fed.of>> ELSE <<>>
<1>1. CASE IsDemucs(h)
  <2>1. ToModel(h, Buffer(of, path)) = [of |-> of, path |-> path, norm |-> <<of>>]
    BY <1>1 DEF ToModel, Buffer, Statistics
  <2> QED
    BY <1>1, <2>1
<1>2. CASE ~IsDemucs(h)
  <2>1. ToModel(h, Buffer(of, path)) = [of |-> of, path |-> path, norm |-> <<>>]
    BY <1>2 DEF ToModel, Buffer
  <2> QED
    BY <1>2, <2>1
<1> QED
  BY <1>1, <1>2

LEMMA IsFedAsTrained == ASSUME PipeInv PROVE FedAsTrained
<1>a. SUFFICES ASSUME phase = "publish"
      PROVE  /\ \A h \in DOMAIN stems.given :
                  stems.given[h].norm = (IF IsDemucs(h) THEN <<stems.given[h].of>> ELSE <<>>)
             /\ \A p \in SHIPPED : stems.parts[p].norm = <<>>
  BY DEF FedAsTrained
<1>1. Separation
  BY <1>a DEF PipeInv, UploadInv, Made
<1>2. MixAt(sub) = Buffer(Mixed, ModelPath) /\ stems.given = Given(Buffer(Mixed, ModelPath))
  BY <1>1, SeparatedParts DEF Separation
<1>3. \E of : ForDrums(Buffer(Mixed, ModelPath)) = Buffer(of, ModelPath)
  <2>1. Minus(Buffer(Mixed, ModelPath), Buffer(VocalsOf(Mixed), ModelPath))
          = Buffer(Less(Mixed, VocalsOf(Mixed)), ModelPath)
    BY MixedParts, Difference
  <2>2. Vocals(Buffer(Mixed, ModelPath)) = Buffer(VocalsOf(Mixed), ModelPath)
    BY MixedParts, HalvesOf
  <2> QED
    BY <2>1, <2>2 DEF ForDrums
<1>4. PICK of : ForDrums(Buffer(Mixed, ModelPath)) = Buffer(of, ModelPath)
  BY <1>3
<1> DEFINE one == ToModel(1, Buffer(Mixed, ModelPath))
           two == ToModel(2, Buffer(of, ModelPath))
<1>5. /\ one.norm = (IF IsDemucs(1) THEN <<one.of>> ELSE <<>>)
      /\ two.norm = (IF IsDemucs(2) THEN <<two.of>> ELSE <<>>)
  BY FedBuffer
<1>6. stems.given = <<one>> \/ stems.given = <<one, two>>
  BY <1>2, <1>4 DEF Given
<1> HIDE DEF one, two
<1>7. ASSUME NEW h \in DOMAIN stems.given
      PROVE  stems.given[h].norm = (IF IsDemucs(h) THEN <<stems.given[h].of>> ELSE <<>>)
  <2>1. (h = 1 /\ stems.given[h] = one) \/ (h = 2 /\ stems.given[h] = two)
    BY <1>6
  <2> QED
    BY <1>5, <2>1
<1>8. \A p \in SHIPPED : stems.parts[p].norm = <<>>
  <2>1. /\ stems.parts["vocals"] = Buffer(VocalsOf(Mixed), ModelPath)
        /\ stems.parts["harmonics"] = Buffer(HarmonicsOf(Mixed), ModelPath)
    BY <1>1, SeparatedParts
  <2> QED
    BY <2>1 DEF SHIPPED, Buffer
<1> QED
  BY <1>7, <1>8

\* A gain of the transfer and the level it was taken off.
LEMMA GainUndone ==
  ASSUME NEW peak \in {FULL, FULL + Loudness}, NEW format
  PROVE  (Written(peak, format) * TransferGain(peak, format)) \div FULL = peak
<1>1. PICK n \in Nat \ {0} : n = peak /\ FULL = 100 /\ n >= 100
  BY PipelineAssumption, SMT DEF FULL
<1>2. (n * 100) \div 100 = n /\ (100 * n) \div n = 100 /\ (100 * n) \div 100 = n
  <2>1. 100 * n = n * 100
    BY SMT
  <2> QED
    BY <2>1, WholeShare
<1>3. CASE HasHeadroom(format)
  <2>1. TransferGain(peak, format) = 100 /\ AsPcm(format) = {"f32le"}
    BY <1>1, <1>3 DEF TransferGain, HasHeadroom, AsPcm
  <2>2. Written(peak, format) = n
    BY <1>1, <1>2, <2>1 DEF Written
  <2> QED
    BY <1>1, <1>2, <2>1, <2>2
<1>4. CASE ~HasHeadroom(format) /\ n <= 100
  <2>1. TransferGain(peak, format) = 100 /\ n = 100
    BY <1>1, <1>4 DEF TransferGain
  <2>2. Written(peak, format) = 100
    BY <1>1, <1>2, <2>1 DEF Written, Least
  <2> QED
    BY <1>1, <1>2, <2>1, <2>2
<1>5. CASE ~HasHeadroom(format) /\ ~(n <= 100)
  <2>1. TransferGain(peak, format) = n
    BY <1>1, <1>5 DEF TransferGain
  <2>2. n * 100 = 100 * n
    BY SMT
  <2>3. (peak * FULL) \div TransferGain(peak, format) = 100
    BY <1>1, <1>2, <2>1, <2>2
  <2>4. Written(peak, format) = 100
    BY <1>1, <2>3 DEF Written, Least
  <2> QED
    BY <1>1, <1>2, <2>1, <2>4
<1> QED
  BY <1>3, <1>4, <1>5

LEMMA IsRestored == ASSUME PipeInv PROVE LevelRestored
<1>a. SUFFICES ASSUME phase = "done", NEW e \in index, NEW p \in DOMAIN e.peak
      PROVE  (e.peak[p] * e.gain[p]) \div FULL = stems.peak[p]
  BY DEF LevelRestored
<1>1. Separation /\ index = {Entry}
  BY <1>a DEF PipeInv, UploadInv, Made
<1>2. e = Entry
  BY <1>1
<1>3. e.peak = [q \in Asked |-> Written(stems.peak[q], sub.format)]
      /\ e.gain = [q \in Asked |-> TransferGain(stems.peak[q], sub.format)]
  BY <1>2 DEF Entry
<1>4. p \in Asked /\ p \in Parts
  BY <1>3 DEF Asked, Parts
<1>5. stems.peak[p] \in {FULL, FULL + Loudness}
  BY <1>1, <1>4 DEF Separation, Peaks
<1> QED
  BY <1>3, <1>4, <1>5, GainUndone

-----------------------------------------------------------------------------
(* The slices of mode 1 *)

\* Quotient and remainder are the only ones.
LEMMA DivisionIsUnique ==
  ASSUME NEW a \in Nat, NEW t \in Nat \ {0}, NEW q \in Nat, NEW r \in Nat, a = t * q + r, r < t
  PROVE  a \div t = q /\ a % t = r
<1> DEFINE p == a \div t
<1>1. p \in Int /\ t * p <= a /\ a < t * p + t /\ a % t = a - t * p
  BY SMT
<1> HIDE DEF p
<1>2. ~(p < q)
  <2> SUFFICES ASSUME p < q PROVE FALSE
    OBVIOUS
  <2>1. t * (p + 1) <= t * q
    BY <1>1, SMT
  <2>2. t * (p + 1) = t * p + t
    BY <1>1, SMT
  <2> QED
    BY <1>1, <2>1, <2>2, SMT
<1>3. ~(q < p)
  <2> SUFFICES ASSUME q < p PROVE FALSE
    OBVIOUS
  <2>1. t * (q + 1) <= t * p
    BY <1>1, SMT
  <2>2. t * (q + 1) = t * q + t
    BY <1>1, SMT
  <2> QED
    BY <1>1, <2>1, <2>2, SMT
<1>4. p = q
  BY <1>1, <1>2, <1>3, SMT
<1>5. a % t = r
  BY <1>1, <1>4, SMT
<1> QED
  BY <1>4, <1>5 DEF p

Carried(p) ==
  IF p.r + DOWN >= UP THEN [newest |-> p.newest + 1, r |-> (p.r + DOWN) - UP]
  ELSE [p EXCEPT !.r = p.r + DOWN]

\* Carrying one forward is placing the next.
LEMMA NextPlace == ASSUME NEW m \in Nat PROVE Carried(Place(m)) = Place(m + 1)
<1> DEFINE a == m * 147
           q == a \div 320
           r == a % 320
<1>1. a \in Nat /\ q \in Nat /\ r \in Nat /\ r < 320 /\ a = 320 * q + r
  BY SMT
<1>2. (m + 1) * 147 = a + 147
  BY SMT
<1>3. Place(m) = [newest |-> q, r |-> r]
  BY DEF Place, UP, DOWN
<1>4. Place(m + 1) = [newest |-> (a + 147) \div 320, r |-> ((a + 147) % 320)]
  BY <1>2 DEF Place, UP, DOWN
<1> HIDE DEF a, q, r
<1>5. CASE r + 147 >= 320
  <2>1. a + 147 = 320 * (q + 1) + (r + 147 - 320) /\ r + 147 - 320 \in Nat /\ r + 147 - 320 < 320
        /\ q + 1 \in Nat /\ a + 147 \in Nat
    BY <1>1, <1>5, SMT
  <2>2. (a + 147) \div 320 = q + 1 /\ (a + 147) % 320 = r + 147 - 320
    BY <2>1, DivisionIsUnique
  <2>3. Place(m).r = r /\ Place(m).newest = q
    BY <1>3
  <2>4. Carried(Place(m)) = [newest |-> q + 1, r |-> r + 147 - 320]
    <3>1. Place(m).r + DOWN >= UP /\ (Place(m).r + DOWN) - UP = r + 147 - 320
      BY <1>1, <1>5, <2>3 DEF UP, DOWN
    <3> QED
      BY <2>3, <3>1 DEF Carried
  <2>5. Place(m + 1) = [newest |-> q + 1, r |-> r + 147 - 320]
    BY <1>4, <2>2
  <2> QED
    BY <2>4, <2>5
<1>6. CASE ~(r + 147 >= 320)
  <2>1. a + 147 = 320 * q + (r + 147) /\ r + 147 \in Nat /\ r + 147 < 320 /\ a + 147 \in Nat
    BY <1>1, <1>6, SMT
  <2>2. (a + 147) \div 320 = q /\ (a + 147) % 320 = r + 147
    BY <1>1, <2>1, DivisionIsUnique
  <2>3. Place(m).r = r /\ [Place(m) EXCEPT !.r = r + 147] = [newest |-> q, r |-> r + 147]
    BY <1>3
  <2>4. Carried(Place(m)) = [Place(m) EXCEPT !.r = r + 147]
    BY <1>6, <2>3 DEF Carried, UP, DOWN
  <2> QED
    BY <1>4, <2>2, <2>3, <2>4, Zenon
<1> QED
  BY <1>5, <1>6

LEMMA LeastNumber ==
  ASSUME NEW T, T \subseteq Nat, T # {}
  PROVE  \E m \in T : \A k \in T : m <= k
<1>1. \E m \in T : \A k \in T : <<k, m>> \notin OpToRel(<, Nat)
  BY NatLessThanWellFounded, WFMin, Zenon
<1>2. \A k, m \in Nat : <<k, m>> \notin OpToRel(<, Nat) => m <= k
  BY DEF OpToRel
<1> QED
  BY <1>1, <1>2

IsFilled(f, m0, count) ==
  f = [i \in 0 .. count |-> IF i = 0 THEN Place(m0) ELSE Carried(f[i - 1])]

LEMMA FillUnfolds ==
  \A m0, count :
    Fill(m0, count) = [m \in m0 .. m0 + count - 1 |-> (CHOOSE f : IsFilled(f, m0, count))[m - m0]]
  BY Zenon DEF Fill, IsFilled, Carried

LEMMA FilledIsPlaced ==
  ASSUME NEW m0 \in Nat, NEW count \in Nat, NEW f, IsFilled(f, m0, count), NEW i \in 0 .. count
  PROVE  f[i] = Place(m0 + i)
<1> DEFINE C == {j \in 0 .. count : f[j] # Place(m0 + j)}
<1>a. SUFFICES ASSUME C # {} PROVE FALSE
  BY DEF C
<1>1. \A j \in 0 .. count : f[j] = IF j = 0 THEN Place(m0) ELSE Carried(f[j - 1])
  BY DEF IsFilled
<1>2. PICK j \in C : \A k \in C : j <= k
  <2>1. C \subseteq Nat
    OBVIOUS
  <2> HIDE DEF C
  <2> QED
    BY <1>a, <2>1, LeastNumber
<1>3. j \in 0 .. count /\ f[j] # Place(m0 + j)
  OBVIOUS
<1>4. j # 0
  <2>1. m0 + 0 = m0
    OBVIOUS
  <2> QED
    BY <1>1, <1>3, <2>1
<1>5. j - 1 \in 0 .. count /\ j - 1 \notin C /\ m0 + (j - 1) \in Nat /\ (m0 + (j - 1)) + 1 = m0 + j
  BY <1>2, <1>3, <1>4
<1>6. f[j - 1] = Place(m0 + (j - 1))
  BY <1>5
<1>7. Carried(f[j - 1]) = Place(m0 + j)
  BY <1>5, <1>6, NextPlace
<1> QED
  BY <1>1, <1>3, <1>4, <1>7

LEMMA FilledExists ==
  ASSUME NEW m0 \in Nat, NEW count \in Nat
  PROVE  \E f : IsFilled(f, m0, count)
<1> DEFINE f == [i \in 0 .. count |-> Place(m0 + i)]
<1>1. ASSUME NEW i \in 0 .. count PROVE Place(m0 + i) = IF i = 0 THEN Place(m0) ELSE Carried(f[i - 1])
  <2>1. CASE i = 0
    <3>1. m0 + 0 = m0
      OBVIOUS
    <3> QED
      BY <2>1, <3>1
  <2>2. CASE i # 0
    <3>1. i - 1 \in 0 .. count /\ m0 + (i - 1) \in Nat /\ (m0 + (i - 1)) + 1 = m0 + i
      BY <2>2
    <3>2. f[i - 1] = Place(m0 + (i - 1))
      BY <3>1
    <3> QED
      BY <2>2, <3>1, <3>2, NextPlace
  <2> QED
    BY <2>1, <2>2
<1>2. f = [i \in 0 .. count |-> IF i = 0 THEN Place(m0) ELSE Carried(f[i - 1])]
  BY <1>1
<1> QED
  BY <1>2 DEF IsFilled

\* A run of output frames carried forward from the first is each one placed.
LEMMA FillPlaces ==
  ASSUME NEW m0 \in Nat, NEW count \in Nat
  PROVE  Fill(m0, count) = [m \in m0 .. m0 + count - 1 |-> Place(m)]
<1> DEFINE f == CHOOSE f : IsFilled(f, m0, count)
<1>1. IsFilled(f, m0, count)
  BY FilledExists, Zenon
<1> HIDE DEF f
<1>2. ASSUME NEW m \in m0 .. m0 + count - 1 PROVE f[m - m0] = Place(m)
  <2>1. m - m0 \in 0 .. count /\ m0 + (m - m0) = m
    OBVIOUS
  <2> QED
    BY <1>1, <2>1, FilledIsPlaced
<1>3. Fill(m0, count) = [m \in m0 .. m0 + count - 1 |-> f[m - m0]]
  BY FillUnfolds, Zenon DEF f
<1> QED
  BY <1>2, <1>3

LEMMA InItsSlice ==
  ASSUME NEW n \in Nat, NEW c \in Nat \ {0}, NEW m \in 0 .. n - 1
  PROVE  LET s == (m \div c) * c
             count == Least(c, n - s)
         IN  s \in Nat /\ count \in Nat /\ s + (m % c) = m /\ m \in s .. s + count - 1
<1>1. PICK q \in Nat, r \in Nat : q = m \div c /\ r = m % c /\ m = c * q + r /\ r < c
  <2>1. m \div c \in Nat /\ m % c \in Nat /\ m = c * (m \div c) + (m % c) /\ m % c < c
    BY SMT
  <2> QED
    BY <2>1
<1>2. PICK s \in Nat : s = q * c /\ s = c * q
  <2>1. q * c \in Nat /\ q * c = c * q
    BY SMT
  <2> QED
    BY <2>1
<1>3. Least(c, n - s) \in Nat /\ r < Least(c, n - s) /\ s + r = m
  BY <1>1, <1>2 DEF Least
<1>4. PICK k \in Nat : k = Least(c, n - s)
  BY <1>3
<1>5. m \in s .. s + k - 1
  BY <1>3, <1>4
<1>6. (m \div c) * c = s /\ m % c = r
  BY <1>1, <1>2
<1> QED
  BY <1>3, <1>4, <1>5, <1>6

LEMMA SlicesPlace ==
  ASSUME NEW frames \in Nat, NEW threads \in Nat \ {0}, NEW channels \in Nat \ {0}
  PROVE  LET n == OutFrames(frames)
         IN  /\ n \in Nat
             /\ Filled(frames, channels, threads) = [m \in 0 .. n - 1 |-> Place(m)]
<1>1. PICK n \in Nat : n = OutFrames(frames)
  BY SMT DEF OutFrames, UP, DOWN
<1>2. CeilDiv(n, Slices(threads, channels)) \in Nat
  <2>1. ASSUME NEW a \in Nat, NEW b \in Nat \ {0} PROVE (a + b - 1) \div b \in Nat
    BY SMT
  <2>2. threads + channels - 1 \in Nat /\ channels <= threads + channels - 1
    BY SMT
  <2>3. (1 * channels) \div channels = 1 /\ 1 * channels = channels
    BY WholeShare, SMT
  <2>4. 1 <= (threads + channels - 1) \div channels /\ (threads + channels - 1) \div channels \in Nat
    BY <2>2, <2>3, QuotientsGrow
  <2>5. Slices(threads, channels) \in Nat \ {0}
    BY <2>4 DEF Slices, CeilDiv
  <2> QED
    BY <2>1, <2>5 DEF CeilDiv
<1>3. PICK c \in Nat \ {0} : c = Max({CeilDiv(n, Slices(threads, channels)), 1})
  <2>1. PICK d \in Nat : d = CeilDiv(n, Slices(threads, channels))
    BY <1>2
  <2>2. \E x \in {d, 1} : \A y \in {d, 1} : x >= y
    OBVIOUS
  <2>3. Max({d, 1}) \in {d, 1} /\ Max({d, 1}) >= 1
    BY <2>2, Zenon DEF Max
  <2> QED
    BY <2>1, <2>3
<1>4. ASSUME NEW m \in 0 .. n - 1
      PROVE  Fill(SliceStart(m \div c, c), Least(c, n - (m \div c) * c))[SliceStart(m \div c, c) + (m % c)] = Place(m)
  <2> DEFINE s == (m \div c) * c
             count == Least(c, n - s)
  <2>1. s \in Nat /\ count \in Nat /\ s + (m % c) = m /\ m \in s .. s + count - 1
    BY InItsSlice
  <2> HIDE DEF s, count
  <2>2. Fill(s, count)[m] = Place(m)
    BY <2>1, FillPlaces
  <2> QED
    BY <2>1, <2>2 DEF s, count, SliceStart
<1>5. Filled(frames, channels, threads)
        = [m \in 0 .. n - 1 |->
             Fill(SliceStart(m \div c, c), Least(c, n - (m \div c) * c))[SliceStart(m \div c, c) + (m % c)]]
  BY <1>1, <1>3, Zenon DEF Filled
<1> QED
  BY <1>1, <1>4, <1>5

LEMMA SlicesDoAgree == ASSUME PipeInv PROVE SlicesAgree
<1>a. SUFFICES ASSUME phase = "write"
      PROVE  LET n == OutFrames(audio.frames)
                 placed == [m \in 0 .. n - 1 |-> Place(m)]
             IN  /\ Fill(0, n) = placed
                 /\ \A threads \in {1, 4, 6} : Filled(audio.frames, audio.channels, threads) = placed
  BY DEF SlicesAgree
<1>1. audio.frames \in Nat /\ audio.channels = 2
  <2>1. phase \in Reached /\ phase \in Admitted /\ phase \in Fitting /\ phase # "idle"
    BY <1>a, PhaseSets DEF Made
  <2>2. Parsing /\ Decoding /\ audio.channels = MODEL_CHANNELS /\ RequestsInv
    BY <2>1 DEF PipeInv, UploadInv
  <2> QED
    BY <2>1, <2>2, UploadDecodes DEF Decoding, MODEL_CHANNELS
<1>2. PICK frames \in Nat, channels \in Nat \ {0} : frames = audio.frames /\ channels = audio.channels
  BY <1>1
<1>3. PICK n \in Nat : n = OutFrames(frames)
  BY SlicesPlace
<1>4. Fill(0, n) = [m \in 0 .. n - 1 |-> Place(m)]
  <2>1. 0 + n = n
    OBVIOUS
  <2> QED
    BY <2>1, FillPlaces
<1>5. \A threads \in Nat \ {0} : Filled(frames, channels, threads) = [m \in 0 .. n - 1 |-> Place(m)]
  BY <1>3, SlicesPlace
<1> QED
  BY <1>2, <1>3, <1>4, <1>5

-----------------------------------------------------------------------------
(* What the client makes of a result *)

LEMMA ServerHasIt ==
  ASSUME PipeInv, phase = "done"
  PROVE  /\ Separation /\ Conversion /\ Parsing /\ Result = Entry
         /\ Entry.parts = shipped.parts /\ DOMAIN Entry.parts = Asked /\ Entry.rate = sub.out
         /\ \A p \in Asked : (Entry.peak[p] * Entry.gain[p]) \div FULL = stems.peak[p]
         /\ \A p \in Asked : stems.peak[p] \in {FULL, FULL + Loudness}
<1>1. phase \in Made /\ phase \in Admitted /\ UploadInv
  BY PhaseSets DEF Made, PipeInv
<1>2. Separation /\ Conversion /\ Parsing /\ index = {Entry}
  BY <1>1 DEF UploadInv
<1>3. Entry.key = Key(req, sub) /\ Entry.parts = shipped.parts /\ Entry.rate = sub.out
      /\ Entry.peak = [q \in Asked |-> Written(stems.peak[q], sub.format)]
      /\ Entry.gain = [q \in Asked |-> TransferGain(stems.peak[q], sub.format)]
  BY DEF Entry
<1>4. Result = Entry
  BY <1>2, <1>3 DEF Result
<1>5. \A p \in Asked : stems.peak[p] \in {FULL, FULL + Loudness}
  <2>1. Asked \subseteq Parts
    BY DEF Asked, Parts
  <2> QED
    BY <1>2, <2>1 DEF Separation, Peaks
<1>6. \A p \in Asked : (Entry.peak[p] * Entry.gain[p]) \div FULL = stems.peak[p]
  BY <1>3, <1>5, GainUndone
<1>7. DOMAIN Entry.parts = Asked
  BY <1>2, <1>3, ShippedParts
<1> QED
  BY <1>2, <1>3, <1>4, <1>5, <1>6, <1>7

\* One scale for all of a set.
LEMMA OneScale ==
  ASSUME NEW a \in {FULL, FULL + Loudness}, NEW b \in {FULL, FULL + Loudness},
         NEW d \in {FULL, FULL + Loudness}, a <= d, b <= d
  PROVE  /\ Least((a * FULL) \div d, FULL) * b = Least((b * FULL) \div d, FULL) * a
         /\ Least((a * FULL) \div d, FULL) * b <= FULL * a
<1>1. PICK l \in Nat \ {0} : l = FULL + Loudness /\ FULL = 100 /\ l >= 100 /\ 10000 % l = 0
  BY PipelineAssumption, SMT DEF FULL
<1>2. PICK k \in Nat : k = 10000 \div l /\ l * k = 10000 /\ k * l = 10000
  <2>1. 10000 = l * (10000 \div l) + (10000 % l) /\ 10000 \div l \in Nat
    BY <1>1, SMT
  <2>2. ((10000 \div l)) * l = l * (10000 \div l)
    BY <2>1, SMT
  <2>3. l * (10000 \div l) = 10000
    BY <1>1, <2>1, SMT
  <2> QED
    BY <2>1, <2>2, <2>3
<1>3. k <= 100
  <2> SUFFICES ASSUME k >= 101 PROVE FALSE
    BY <1>2, SMT
  <2>1. k * l >= 101 * l
    BY <1>1, SMT
  <2> QED
    BY <1>1, <1>2, <2>1, SMT
<1>4. (l * 100) \div l = 100
  <2>1. l * 100 = 100 * l
    BY SMT
  <2> QED
    BY <2>1, WholeShare, SMT
<1>5. CASE d = 100
  BY <1>1, <1>5, SMT DEF Least
<1>6. CASE d = l
  <2>1. \A x \in {100, l} : Least((x * 100) \div d, 100) = IF x = l THEN 100 ELSE k
    BY <1>1, <1>2, <1>3, <1>4, <1>6, SMT DEF Least
  <2>2. k * 100 <= 100 * 100 /\ k * l = 100 * 100 /\ 100 * l <= l * l /\ 100 * 100 <= 100 * l /\ 100 * l = l * 100
        /\ k * 100 <= 100 * l
    BY <1>1, <1>2, <1>3, SMT
  <2> QED
    BY <1>1, <1>2, <1>3, <2>1, <2>2, SMT
<1> QED
  BY <1>1, <1>5, <1>6

LEMMA DivisorFits ==
  ASSUME NEW parts, ~args.wav_f32, \A q \in DOMAIN parts : parts[q].level \in {FULL, FULL + Loudness}
  PROVE  /\ Divisor(parts) \in {FULL, FULL + Loudness}
         /\ \A q \in DOMAIN parts : parts[q].level <= Divisor(parts)
<1> DEFINE S == {FULL} \cup {parts[q].level : q \in DOMAIN parts}
<1>1. S \subseteq {FULL, FULL + Loudness} /\ FULL \in S
  OBVIOUS
<1>2. FULL \in Nat /\ FULL + Loudness \in Nat /\ FULL <= FULL + Loudness
  BY PipelineAssumption, SMT DEF FULL
<1> DEFINE top == Max(S)
<1>3. Divisor(parts) = top
  BY DEF Divisor
<1>4. \A q \in DOMAIN parts : parts[q].level \in S
  OBVIOUS
<1> HIDE DEF S
<1>5. \E x \in S : \A y \in S : x >= y
  BY <1>1, <1>2
<1>6. top \in S /\ \A y \in S : top >= y
  BY <1>5, Zenon DEF Max
<1> HIDE DEF top
<1> QED
  BY <1>1, <1>2, <1>3, <1>4, <1>6

-----------------------------------------------------------------------------
(* The steps a client takes, and those it waits for *)

LEMMA SameFiles ==
  ASSUME UNCHANGED cli
  PROVE  FilesInv' = FilesInv
  BY DEF FilesInv, WholeSet, FileOf, FileLevel, Divisor, RebuiltSums, WrittenTogether, CutFiles, Corresponds,
         Unexplained, args

\* Nothing is written before there is a set to write.
LEMMA NoFiles ==
  ASSUME cli'.at \notin Writing, DOMAIN cli'.written = {}
  PROVE  FilesInv'
  BY DEF FilesInv, RebuiltSums, WrittenTogether, Writing

LEMMA SameClient ==
  ASSUME ClientInv, UNCHANGED <<cli, requests, sub, audio, phase, stems, shipped>>
  PROVE  ClientInv'
<1>1. Asked' = Asked /\ file' = file
  BY DEF Asked, file
<1>2. cli.at = "fetch" => (DOMAIN cli.fetched \subseteq Asked /\ \A p \in DOMAIN cli.fetched : Fetched(p, cli.fetched[p]))
         = (DOMAIN cli.fetched \subseteq Asked /\ \A p \in DOMAIN cli.fetched : Fetched(p, cli.fetched[p]))'
  BY <1>1 DEF Fetched
<1>3. TooLongHere(cli.audio)' = TooLongHere(cli.audio)
  BY DEF TooLongHere, Health, args
<1>4. Submission(cli, DecodeFile(file))' = Submission(cli, DecodeFile(file))
  BY <1>1 DEF Submission
<1> QED
  BY <1>1, <1>2, <1>3, <1>4, SameFiles DEF ClientInv

\* A client has one request or none.
LEMMA OneRequest ==
  ASSUME ClientInv, cli.at # "none"
  PROVE  ~(Len(requests) > 1)
<1>1. requests = <<>> \/ requests = <<Submission(cli, DecodeFile(file))>>
  BY DEF ClientInv
<1>2. \A r : Len(<<>>) = 0 /\ Len(<<r>>) = 1
  OBVIOUS
<1>3. Len(requests) = 0 \/ Len(requests) = 1
  BY <1>1, <1>2
<1>4. \A n : n = 0 \/ n = 1 => ~(n > 1)
  OBVIOUS
<1> QED
  BY <1>3, <1>4

\* What is answered, or not begun, stays so.
LEMMA AnsweredIsEnd ==
  ASSUME PipelineNext, phase \in Answered \cup {"idle"}
  PROVE  NextRequest
  BY DEF PipelineNext, Answered, Post, Lookup, Decode, Geometry, Separate, Separated, Convert, WriteStems

\* An upload that has not been decoded leaves no audio.
LEMMA BeforeDecoding ==
  ASSUME PipelineNext, ~NextRequest
  PROVE  /\ phase' \notin {"idle", "post"} /\ UNCHANGED requests
         /\ phase' \in Passed => phase \in {"post"} \cup Passed /\ UNCHANGED audio
<1>1. CASE Post \/ Lookup
  BY <1>1 DEF Post, Lookup, Answer, Passed
<1>2. CASE Decode \/ Geometry
  BY <1>2 DEF Decode, Geometry, Answer, Passed
<1>3. CASE Separate
  BY <1>3 DEF Separate, pipeVars, Passed
<1>4. CASE Separated \/ Convert \/ WriteStems
  BY <1>4 DEF Separated, Convert, WriteStems, Answer, Passed
<1> QED
  BY <1>1, <1>2, <1>3, <1>4 DEF PipelineNext

LEMMA ServerMoves ==
  ASSUME ClientInv, PipelineNext, UNCHANGED cli
  PROVE  ClientInv'
<1>a. SUFFICES ASSUME cli.at # "none" PROVE ClientInv'
  BY DEF ClientInv
<1>1. ~NextRequest
  BY <1>a, OneRequest DEF NextRequest
<1>2. phase \notin Answered /\ phase # "idle"
  BY <1>1, AnsweredIsEnd
<1>3. /\ UNCHANGED requests
      /\ phase' \notin {"idle", "post"} /\ (phase' \in Passed => phase \in {"post"} \cup Passed /\ UNCHANGED audio)
  BY <1>1, BeforeDecoding
<1>4. cli.at \notin Looking \cup {"too long here", "upload", "told", "fetch"} \cup Writing
  <2>1. "done" \in Answered
    BY DEF Answered
  <2> QED
    BY <1>2, <1>a, <2>1 DEF ClientInv
<1>5. cli.at \in {"wait", "unreachable"}
  BY <1>4, <1>a DEF ClientInv, Holding, Writing
<1>6. TooLongHere(cli.audio)' = TooLongHere(cli.audio)
  BY DEF TooLongHere, Health, args
<1>7. file' = file /\ Submission(cli, DecodeFile(file))' = Submission(cli, DecodeFile(file))
  BY DEF Submission, file
<1>8. cli'.at \notin {"none", "told", "fetch", "too long here"} \cup Writing
      /\ cli'.at \notin Looking \cup {"too long here", "upload"}
  BY <1>4, <1>5
<1>9. FilesInv'
  BY <1>a, SameFiles DEF ClientInv
<1> QED
  BY <1>3, <1>6, <1>7, <1>8, <1>9, <1>a DEF ClientInv

\* A client that moves on, and changes nothing but where it is.
LEMMA ClientMoves ==
  ASSUME ClientInv, cli.at # "none", NEW place, GoTo(place), place # "none",
         UNCHANGED <<requests, sub, audio, stems, shipped>>
  PROVE  /\ cli'.at = place /\ cli'.audio = cli.audio /\ cli'.fetched = cli.fetched /\ cli'.file = cli.file
         /\ cli'.written = cli.written /\ cli'.args = cli.args
         /\ file' = file /\ DOMAIN cli' = DOMAIN cli
         /\ Submission(cli, DecodeFile(file))' = Submission(cli, DecodeFile(file))
         /\ TooLongHere(cli.audio)' = TooLongHere(cli.audio)
         /\ requests' = IF IsRefused(DecodeFile(file))' THEN <<>> ELSE <<Submission(cli, DecodeFile(file))>>'
         /\ \/ IsRefused(DecodeFile(file))'
            \/ DecodeFile(file)' \in [frames : Nat \ {0}, channels : {2}, rate : Nat \ {0}]
<1>1. DOMAIN cli = {"at", "args", "file", "audio", "fetched", "parts", "written", "null"}
  BY DEF ClientInv
<1>2. /\ cli'.at = place /\ cli'.audio = cli.audio /\ cli'.fetched = cli.fetched /\ cli'.file = cli.file
      /\ cli'.written = cli.written /\ cli'.args = cli.args /\ DOMAIN cli' = DOMAIN cli
  BY <1>1 DEF GoTo
<1>3. file' = file /\ Submission(cli, DecodeFile(file))' = Submission(cli, DecodeFile(file))
  BY <1>2 DEF Submission, file
<1>4. TooLongHere(cli.audio)' = TooLongHere(cli.audio)
  BY <1>2 DEF TooLongHere, Health, args
<1>5. /\ requests = IF IsRefused(DecodeFile(file)) THEN <<>> ELSE <<Submission(cli, DecodeFile(file))>>
      /\ \/ IsRefused(DecodeFile(file))
         \/ DecodeFile(file) \in [frames : Nat \ {0}, channels : {2}, rate : Nat \ {0}]
  BY DEF ClientInv
<1> QED
  BY <1>2, <1>3, <1>4, <1>5

LEMMA EmptyDomain == DOMAIN <<>> = {}
<1>1. \A n : n \in 1 .. 0 <=> FALSE
  OBVIOUS
<1>2. 1 .. 0 = {}
  BY <1>1, Zenon
<1>3. \A e \in Seq({}) : DOMAIN e = 1 .. Len(e)
  BY LenProperties
<1>4. DOMAIN <<>> = 1 .. Len(<<>>)
  BY <1>3, EmptySeq, Zenon
<1>5. Len(<<>>) = 0
  BY EmptySeq, Zenon
<1> QED
  BY <1>2, <1>4, <1>5, Zenon

\* Where it goes without anything to show for it.
LEMMA PlainMove ==
  ASSUME ClientInv, cli.at \notin {"none"} \cup Writing, NEW place, GoTo(place),
         UNCHANGED <<requests, sub, audio, phase, stems, shipped>>,
         \/ place = "unreachable"
         \/ place \in {"health", "no server", "not offered", "load", "undecoded"} /\ cli.at \in Looking
         \/ cli.at = "wait" /\ place = "told" /\ phase \in Answered
         \/ cli.at = "wait" /\ place = "fetch" /\ phase = "done"
  PROVE  ClientInv'
<1>0. place # "none" /\ place \notin Writing /\ cli.at # "none"
  BY DEF Writing
<1>1. /\ cli'.at = place /\ cli'.audio = cli.audio /\ cli'.fetched = cli.fetched
      /\ cli'.written = cli.written
      /\ file' = file /\ DOMAIN cli' = DOMAIN cli
      /\ TooLongHere(cli.audio)' = TooLongHere(cli.audio)
      /\ requests' = IF IsRefused(DecodeFile(file))' THEN <<>> ELSE <<Submission(cli, DecodeFile(file))>>'
      /\ \/ IsRefused(DecodeFile(file))'
         \/ DecodeFile(file)' \in [frames : Nat \ {0}, channels : {2}, rate : Nat \ {0}]
  BY <1>0, ClientMoves
<1>2. DOMAIN cli = {"at", "args", "file", "audio", "fetched", "parts", "written", "null"}
      /\ (phase \in {"idle", "post"} \cup Passed => audio = Nothing)
      /\ FilesInv
  BY <1>0 DEF ClientInv
<1>f. FilesInv'
  <2>1. DOMAIN cli'.written = {}
    BY <1>1, <1>2 DEF FilesInv
  <2> QED
    BY <1>0, <1>1, <2>1, NoFiles
<1>3. CASE place = "unreachable"
  <2>1. cli'.at \notin Looking \cup Holding
    BY <1>1, <1>3 DEF Looking, Holding, Writing
  <2>2. cli'.at \notin {"none", "too long here", "upload", "wait", "told", "fetch"} \cup Writing
    BY <1>1, <1>3 DEF Writing
  <2> QED
    BY <1>0, <1>1, <1>2, <1>f, <1>3, <2>1, <2>2 DEF ClientInv
<1>4. CASE place \in {"health", "no server", "not offered", "load", "undecoded"} /\ cli.at \in Looking
  <2>1. cli'.at \in Looking /\ cli'.at \notin Holding
    BY <1>1, <1>4 DEF Looking, Holding, Writing
  <2>2. phase = "idle" /\ cli.fetched = <<>>
    BY <1>0, <1>4 DEF ClientInv, Looking
  <2>3. cli'.at \notin {"none", "too long here", "upload", "wait", "told", "fetch"} \cup Writing
    BY <1>1, <1>4 DEF Writing
  <2> QED
    BY <1>0, <1>1, <1>2, <1>f, <2>1, <2>2, <2>3 DEF ClientInv
<1>5. CASE cli.at = "wait" /\ place \in {"told", "fetch"} /\ phase \in Answered /\ (place = "fetch" => phase = "done")
  <2>1. cli.fetched = <<>> /\ ~IsRefused(DecodeFile(file)) /\ cli.audio = DecodeFile(file) /\ ~TooLongHere(cli.audio)
    BY <1>5 DEF ClientInv, Holding
  <2>2. cli'.at \in Holding /\ cli'.at \notin Looking
        /\ cli'.at \notin {"none", "too long here", "upload", "wait"} \cup Writing
    BY <1>1, <1>5 DEF Looking, Holding, Writing
  <2>3. DOMAIN cli'.fetched = {}
    <3>1. cli'.fetched = <<>>
      BY <1>1, <2>1
    <3>2. DOMAIN <<>> = {}
      BY EmptyDomain
    <3> QED
      BY <3>1, <3>2, Zenon
  <2>4. phase' = phase /\ (cli'.at = "fetch" => phase = "done")
    BY <1>1, <1>5
  <2> QED
    BY <1>0, <1>1, <1>2, <1>f, <1>5, <2>1, <2>2, <2>3, <2>4 DEF ClientInv
<1> QED
  BY <1>3, <1>4, <1>5 DEF Answered

\* A client that is asked for nothing of the server but what is there.
LEMMA AsksStep ==
  ASSUME PipeInv, ClientInv, Connect \/ CheckRate \/ Unreachable \/ Wait
  PROVE  ClientInv'
<1>0. ASSUME UNCHANGED allVars PROVE UNCHANGED <<requests, sub, audio, phase, stems, shipped>>
  BY <1>0 DEF allVars, pipeVars
<1>1. CASE Connect
  <2>1. cli.at = "connect" /\ UNCHANGED allVars /\ \E place \in {"health", "no server"} : GoTo(place)
    BY <1>1 DEF Connect, Discover
  <2>2. cli.at \in Looking /\ cli.at \notin {"none"} \cup Writing
    BY <2>1 DEF Looking, Writing
  <2> QED
    BY <1>0, <2>1, <2>2, PlainMove
<1>2. CASE CheckRate
  <2>1. cli.at = "health" /\ UNCHANGED allVars /\ \E place \in {"load", "not offered"} : GoTo(place)
    BY <1>2 DEF CheckRate
  <2>2. cli.at \in Looking /\ cli.at \notin {"none"} \cup Writing
    BY <2>1 DEF Looking, Writing
  <2> QED
    BY <1>0, <2>1, <2>2, PlainMove
<1>3. CASE Unreachable
  <2>1. cli.at \notin {"none"} \cup Writing /\ UNCHANGED allVars /\ GoTo("unreachable")
    BY <1>3 DEF Unreachable, Writing
  <2> QED
    BY <1>0, <2>1, PlainMove
<1>4. CASE Wait
  <2>1. cli.at = "wait" /\ phase \in Answered /\ UNCHANGED allVars
        /\ GoTo(IF phase \in {"done", "hit"} THEN "fetch" ELSE "told")
        /\ cli.at \notin {"none"} \cup Writing
    BY <1>4 DEF Wait, Writing
  <2>2. phase # "hit"
    <3> SUFFICES ASSUME phase = "hit" PROVE FALSE
      OBVIOUS
    <3>1. audio = Nothing /\ index # {}
      BY <2>1 DEF ClientInv, PipeInv, UploadInv, Hits, Passed
    <3> QED
      BY <3>1 DEF PipeInv, UploadInv
  <2>3. CASE phase = "done"
    <3>1. GoTo("fetch")
      BY <2>1, <2>3
    <3> QED
      BY <1>0, <2>1, <2>3, <3>1, PlainMove
  <2>4. CASE phase # "done"
    <3>1. GoTo("told")
      BY <2>1, <2>2, <2>4
    <3> QED
      BY <1>0, <2>1, <3>1, PlainMove
  <2> QED
    BY <2>3, <2>4
<1> QED
  BY <1>1, <1>2, <1>3, <1>4

LEMMA LoadStep == ASSUME ClientInv, LoadInput PROVE ClientInv'
<1>1. cli.at = "load" /\ UNCHANGED <<requests, sub, audio, phase, stems, shipped>>
  BY DEF LoadInput, allVars, pipeVars
<1>2. cli.at \notin {"none"} \cup Writing /\ cli.at \in Looking
  BY <1>1 DEF Looking, Writing
<1>3. CASE IsRefused(DecodeFile(file))
  <2>1. GoTo("undecoded")
    BY <1>3 DEF LoadInput
  <2> QED
    BY <1>1, <1>2, <2>1, PlainMove
<1>4. CASE ~IsRefused(DecodeFile(file))
  <2> DEFINE place == IF TooLongHere(DecodeFile(file)) THEN "too long here" ELSE "upload"
  <2>1. cli' = [cli EXCEPT !.audio = DecodeFile(file), !.at = place]
    BY <1>4 DEF LoadInput
  <2>2. DOMAIN cli = {"at", "args", "file", "audio", "fetched", "parts", "written", "null"}
        /\ phase = "idle" /\ cli.fetched = <<>> /\ audio = Nothing /\ DOMAIN cli.written = {}
        /\ requests = (IF IsRefused(DecodeFile(file)) THEN <<>> ELSE <<Submission(cli, DecodeFile(file))>>)
        /\ DecodeFile(file) \in [frames : Nat \ {0}, channels : {2}, rate : Nat \ {0}]
    BY <1>2, <1>4 DEF ClientInv, FilesInv, Looking
  <2>3. /\ cli'.at = place /\ cli'.audio = DecodeFile(file) /\ cli'.file = cli.file /\ cli'.args = cli.args
        /\ cli'.fetched = cli.fetched /\ cli'.written = cli.written /\ DOMAIN cli' = DOMAIN cli
    BY <2>1, <2>2
  <2>4. file' = file /\ Submission(cli, DecodeFile(file))' = Submission(cli, DecodeFile(file))
        /\ TooLongHere(cli.audio)' = TooLongHere(DecodeFile(file))
    BY <2>3 DEF Submission, file, TooLongHere, Health, args
  <2>5. cli'.at \in {"too long here", "upload"} /\ cli'.at \in Holding /\ cli'.at \notin Looking
        /\ cli'.at \notin {"none", "wait", "told", "fetch", "unreachable"} \cup Writing
        /\ (cli'.at = "too long here" <=> TooLongHere(DecodeFile(file)))
    BY <2>3 DEF Holding, Looking, Writing
  <2> HIDE DEF place
  <2>6. FilesInv'
    BY <2>2, <2>3, <2>5, NoFiles
  <2> QED
    BY <1>1, <1>4, <2>2, <2>3, <2>4, <2>5, <2>6 DEF ClientInv
<1> QED
  BY <1>3, <1>4

LEMMA SubmitClient == ASSUME PipeInv, ClientInv, Submit PROVE ClientInv'
<1>1. /\ cli.at = "upload" /\ phase' = "post" /\ GoTo("wait")
      /\ UNCHANGED <<requests, sub, audio, stems, shipped>>
  BY DEF Submit
<1>2. /\ cli'.at = "wait" /\ cli'.audio = cli.audio /\ cli'.fetched = cli.fetched /\ cli'.written = cli.written
      /\ file' = file /\ DOMAIN cli' = DOMAIN cli
      /\ TooLongHere(cli.audio)' = TooLongHere(cli.audio)
      /\ requests' = IF IsRefused(DecodeFile(file))' THEN <<>> ELSE <<Submission(cli, DecodeFile(file))>>'
      /\ \/ IsRefused(DecodeFile(file))'
         \/ DecodeFile(file)' \in [frames : Nat \ {0}, channels : {2}, rate : Nat \ {0}]
  BY <1>1, ClientMoves
<1>3. cli.at \in Holding \ {"too long here"} /\ cli.at # "none"
  BY <1>1 DEF Holding
<1>4. /\ ~IsRefused(DecodeFile(file)) /\ cli.audio = DecodeFile(file) /\ ~TooLongHere(cli.audio)
      /\ DOMAIN cli = {"at", "args", "file", "audio", "fetched", "parts", "written", "null"}
      /\ audio = Nothing /\ cli.fetched = <<>> /\ FilesInv
  BY <1>1, <1>3 DEF ClientInv
<1>5. cli'.at \in Holding /\ cli'.at \notin Looking
  BY <1>2 DEF Holding, Looking
<1>6. cli'.at \notin {"none", "too long here", "upload", "told", "fetch"} \cup Writing /\ cli.at \notin Writing
  BY <1>1, <1>2 DEF Writing
<1>7. FilesInv'
  <2>1. DOMAIN cli'.written = {}
    BY <1>2, <1>4, <1>6 DEF FilesInv
  <2> QED
    BY <1>6, <2>1, NoFiles
<1> QED
  BY <1>1, <1>2, <1>4, <1>5, <1>6, <1>7 DEF ClientInv

LEMMA FetchStep == ASSUME PipeInv, ClientInv, Fetch PROVE ClientInv'
<1>1. PICK p \in DOMAIN Result.parts \ DOMAIN cli.fetched :
        cli' = [cli EXCEPT !.fetched =
                 With(@, p, [samples |-> Result.parts[p], origin |-> "downloaded",
                             level |-> (Result.peak[p] * Result.gain[p]) \div FULL])]
  BY DEF Fetch, InTurn
<1>2. cli.at = "fetch" /\ UNCHANGED <<requests, sub, audio, phase, stems, shipped>>
  BY DEF Fetch, allVars, pipeVars
<1>3. /\ DOMAIN cli = {"at", "args", "file", "audio", "fetched", "parts", "written", "null"} /\ phase = "done"
      /\ DOMAIN cli.fetched \subseteq Asked /\ \A q \in DOMAIN cli.fetched : Fetched(q, cli.fetched[q])
      /\ FilesInv
  BY <1>2 DEF ClientInv
<1>4. /\ Result = Entry /\ Entry.parts = shipped.parts /\ DOMAIN Entry.parts = Asked
      /\ \A q \in Asked : (Entry.peak[q] * Entry.gain[q]) \div FULL = stems.peak[q]
  BY <1>3, ServerHasIt
<1> DEFINE part == [samples |-> Result.parts[p], origin |-> "downloaded",
                    level |-> (Result.peak[p] * Result.gain[p]) \div FULL]
           fetched == With(cli.fetched, p, part)
<1>5. Fetched(p, part) /\ p \in Asked
  BY <1>4 DEF Fetched
<1> HIDE DEF part
<1>6. DOMAIN fetched = {p} \cup DOMAIN cli.fetched /\ fetched[p] = part
      /\ \A q \in DOMAIN cli.fetched : q # p /\ fetched[q] = cli.fetched[q]
  BY DEF With
<1>7. cli' = [cli EXCEPT !.fetched = fetched]
  BY <1>1 DEF part
<1> HIDE DEF fetched
<1>8. /\ cli'.fetched = fetched /\ cli'.at = "fetch" /\ cli'.args = cli.args /\ cli'.file = cli.file
      /\ cli'.audio = cli.audio /\ cli'.written = cli.written /\ DOMAIN cli' = DOMAIN cli
  BY <1>2, <1>3, <1>7
<1>9. DOMAIN fetched \subseteq Asked /\ \A q \in DOMAIN fetched : Fetched(q, fetched[q])
  BY <1>3, <1>5, <1>6
<1>10. Asked' = Asked /\ \A q, r : Fetched(q, r)' = Fetched(q, r)
  BY <1>2 DEF Asked, Fetched
<1>11. file' = file /\ Submission(cli, DecodeFile(file))' = Submission(cli, DecodeFile(file))
       /\ TooLongHere(cli.audio)' = TooLongHere(cli.audio)
  BY <1>8 DEF Submission, file, TooLongHere, Health, args
<1>12. cli'.at \notin Looking /\ cli'.at \notin {"none", "too long here", "upload", "wait", "told"} \cup Writing
       /\ cli.at \in Holding /\ cli'.at \in Holding \ {"too long here"} /\ cli.at # "none"
       /\ cli.at \in Holding \ {"too long here"} /\ cli.at \notin Writing
  BY <1>2, <1>8 DEF Looking, Holding, Writing
<1>13. /\ requests = (IF IsRefused(DecodeFile(file)) THEN <<>> ELSE <<Submission(cli, DecodeFile(file))>>)
       /\ \/ IsRefused(DecodeFile(file))
          \/ DecodeFile(file) \in [frames : Nat \ {0}, channels : {2}, rate : Nat \ {0}]
       /\ ~IsRefused(DecodeFile(file)) /\ cli.audio = DecodeFile(file) /\ ~TooLongHere(cli.audio)
       /\ phase \notin {"idle", "post"} \cup Passed
  BY <1>3, <1>12 DEF ClientInv, Passed
<1>14. FilesInv'
  <2>1. DOMAIN cli'.written = {}
    BY <1>3, <1>8, <1>12 DEF FilesInv
  <2> QED
    BY <1>12, <2>1, NoFiles
<1> QED
  BY <1>2, <1>3, <1>8, <1>9, <1>10, <1>11, <1>12, <1>13, <1>14 DEF ClientInv

-----------------------------------------------------------------------------
(* The set a client writes *)

\* A part of the set, before it is scaled.
IsPart(p, part) ==
  /\ DOMAIN part = {"samples", "origin", "level"}
  /\ part.level \in {FULL, FULL + Loudness}
  /\ p = "vocals" => part.samples = Buffer(VocalsOf(Mixed), OutPath)
  /\ p = "harmonics" => part.samples = Buffer(HarmonicsOf(Mixed), OutPath)
  /\ p = DERIVED => \/ part.samples = Buffer(DerivedOf(Mixed), OutPath)
                    \/ part.samples = Buffer(DerivedOf(Mixed), <<>>) /\ sub.out = cli.audio.rate

LEMMA AssembledSet ==
  ASSUME PipeInv, ClientInv, Assemble, NEW peak \in {FULL, FULL + Loudness}
  PROVE  LET parts == Assembled(cli.fetched, peak)
         IN  /\ DOMAIN parts \in {SHIPPED, Parts}
             /\ \A p \in DOMAIN parts : IsPart(p, parts[p])
<1>1. cli.at = "fetch" /\ DOMAIN cli.fetched = DOMAIN Result.parts
  BY DEF Assemble
<1>2. phase = "done" /\ \A p \in DOMAIN cli.fetched : Fetched(p, cli.fetched[p])
  BY <1>1 DEF ClientInv
<1>3. /\ Separation /\ Conversion /\ Result = Entry /\ DOMAIN Entry.parts = Asked /\ Entry.rate = sub.out
      /\ \A p \in Asked : stems.peak[p] \in {FULL, FULL + Loudness}
  BY <1>2, ServerHasIt
<1>4. /\ shipped.parts["vocals"] = Buffer(VocalsOf(Mixed), OutPath)
      /\ shipped.parts["harmonics"] = Buffer(HarmonicsOf(Mixed), OutPath)
      /\ DERIVED \in Asked => shipped.parts[DERIVED] = Buffer(DerivedOf(Mixed), OutPath)
  BY <1>3, ShippedParts
<1>5. DOMAIN cli.fetched = Asked /\ Asked \in {SHIPPED, Parts} /\ Result.rate = sub.out
  BY <1>1, <1>3 DEF Asked
<1>6. SHIPPED = {"harmonics", "vocals"} /\ DERIVED \notin SHIPPED /\ Parts = SHIPPED \cup {DERIVED}
      /\ DERIVED \notin {"vocals", "harmonics"}
  BY DEF SHIPPED, Parts, DERIVED
<1>7. ASSUME NEW p \in Asked PROVE IsPart(p, cli.fetched[p])
  <2>1. cli.fetched[p] = [samples |-> shipped.parts[p], origin |-> "downloaded", level |-> stems.peak[p]]
    BY <1>2, <1>5 DEF Fetched
  <2>2. DOMAIN cli.fetched[p] = {"samples", "origin", "level"} /\ cli.fetched[p].samples = shipped.parts[p]
        /\ cli.fetched[p].level \in {FULL, FULL + Loudness}
    BY <1>3, <2>1
  <2> QED
    BY <1>4, <2>2 DEF IsPart
<1>8. CASE DERIVED \in Asked \/ Result.rate # cli.audio.rate
  BY <1>5, <1>7, <1>8 DEF Assembled
<1>9. CASE ~(DERIVED \in Asked \/ Result.rate # cli.audio.rate)
  <2> DEFINE part == [samples |-> Rebuilt(cli.fetched), level |-> peak, origin |-> "rebuilt here"]
  <2>1. Assembled(cli.fetched, peak) = With(cli.fetched, DERIVED, part)
    BY <1>5, <1>9 DEF Assembled
  <2>2. part.samples = Buffer(DerivedOf(Mixed), <<>>)
    <3>1. LocalMix = Buffer(Mixed, <<>>)
      BY DEF LocalMix, Buffer, Mixed
    <3>2. /\ cli.fetched["harmonics"].samples = Buffer(HarmonicsOf(Mixed), OutPath)
          /\ cli.fetched["vocals"].samples = Buffer(VocalsOf(Mixed), OutPath)
      BY <1>5, <1>6, <1>7 DEF IsPart
    <3>3. Minus(Buffer(Mixed, <<>>), Buffer(HarmonicsOf(Mixed), OutPath)) = Buffer(Less(Mixed, HarmonicsOf(Mixed)), <<>>)
          /\ Less(Mixed, HarmonicsOf(Mixed)) \in Samples
      BY MixedParts, Difference
    <3>4. Minus(Buffer(Less(Mixed, HarmonicsOf(Mixed)), <<>>), Buffer(VocalsOf(Mixed), OutPath)) = Buffer(DerivedOf(Mixed), <<>>)
      BY <3>3, MixedParts, Difference DEF DerivedOf
    <3>5. Rebuilt(cli.fetched) = Buffer(DerivedOf(Mixed), <<>>)
      BY <3>1, <3>2, <3>3, <3>4 DEF Rebuilt
    <3> QED
      BY <3>5
  <2>3. DOMAIN part = {"samples", "origin", "level"} /\ part.level = peak
    OBVIOUS
  <2> HIDE DEF part
  <2>4. IsPart(DERIVED, part)
    BY <1>5, <1>6, <1>9, <2>2, <2>3 DEF IsPart
  <2>5. DOMAIN With(cli.fetched, DERIVED, part) = Asked \cup {DERIVED}
        /\ \A p \in Asked \cup {DERIVED} :
             With(cli.fetched, DERIVED, part)[p] = IF p = DERIVED THEN part ELSE cli.fetched[p]
    BY <1>5 DEF With
  <2>6. Asked \cup {DERIVED} = Parts
    BY <1>5, <1>6
  <2>7. \A p \in Parts : IsPart(p, With(cli.fetched, DERIVED, part)[p])
    BY <1>7, <2>4, <2>5, <2>6
  <2> QED
    BY <2>1, <2>5, <2>6, <2>7
<1> QED
  BY <1>8, <1>9

\* Nothing is left over of the three parts.
LEMMA NothingIsLeft ==
  ASSUME NEW parts, DOMAIN parts = Parts, \A p \in Parts : IsPart(p, parts[p])
  PROVE  Unexplained(parts) = Only({})
<1>1. /\ parts["vocals"].samples.of = VocalsOf(Mixed) /\ parts["harmonics"].samples.of = HarmonicsOf(Mixed)
      /\ parts["drums"].samples.of = DerivedOf(Mixed)
  BY DEF IsPart, Parts, SHIPPED, DERIVED, Buffer
<1>2. ASSUME NEW s \in Sounds
      PROVE  LocalMix.of[s] - SumFunction([p \in DOMAIN parts |-> parts[p].samples.of[s]]) = 0
  <2> DEFINE f == [p \in DOMAIN parts |-> parts[p].samples.of[s]]
  <2>1. PICK m \in Int, h \in Int, v \in Int :
          m = Mixed[s] /\ h = HarmonicsOf(Mixed)[s] /\ v = VocalsOf(Mixed)[s]
    <3>1. Mixed[s] \in Int /\ HarmonicsOf(Mixed)[s] \in Int /\ VocalsOf(Mixed)[s] \in Int
      BY MixedParts DEF Samples
    <3> QED
      BY <3>1
  <2>2. DerivedOf(Mixed)[s] = (m - h) - v
    BY <2>1 DEF DerivedOf, Less
  <2>3. DOMAIN f = {"harmonics", "vocals", "drums"} /\ f["harmonics"] = h /\ f["vocals"] = v
        /\ f["drums"] = (m - h) - v
    BY <1>1, <2>1, <2>2 DEF Parts, SHIPPED, DERIVED
  <2> HIDE DEF f
  <2>4. PICK g : IsTally(f, g) /\ SumFunction(f) = g[DOMAIN f]
    <3>1. DOMAIN f \subseteq {"harmonics", "vocals", "drums"} /\ \A x \in DOMAIN f : f[x] \in Int
      BY <2>3
    <3> QED
      BY <3>1, SumIsTally
  <2>5. g[{"harmonics", "vocals", "drums"}] = f["harmonics"] + f["vocals"] + f["drums"]
    <3>1. /\ "harmonics" \in DOMAIN f /\ "vocals" \in DOMAIN f /\ "drums" \in DOMAIN f
          /\ f["harmonics"] \in Int /\ f["vocals"] \in Int /\ f["drums"] \in Int
      BY <2>3
    <3>2. ASSUME NEW x \in DOMAIN f, NEW y \in DOMAIN f, NEW z \in DOMAIN f, x # y, y # z, x # z,
                 f[x] \in Int, f[y] \in Int, f[z] \in Int
          PROVE  g[{x, y, z}] = f[x] + f[y] + f[z]
      BY <2>4, <3>2, TallyOfThree
    <3>3. "harmonics" # "vocals" /\ "vocals" # "drums" /\ "harmonics" # "drums"
      OBVIOUS
    <3> QED
      BY ONLY <3>1, <3>2, <3>3
  <2>6. SumFunction(f) = m
    BY <2>3, <2>4, <2>5
  <2>7. LocalMix.of[s] = m
    BY <2>1 DEF LocalMix, Mixed
  <2> QED
    BY <2>6, <2>7 DEF f
<1>3. Only({}) = [s \in Sounds |-> 0]
  BY DEF Only
<1> QED
  BY <1>2, <1>3 DEF Unexplained

LEMMA SetIsWhole ==
  ASSUME PipeInv, ClientInv, Assemble, NEW peak \in {FULL, FULL + Loudness}
  PROVE  LET parts == Assembled(cli.fetched, peak)
         IN  /\ DOMAIN parts \in {SHIPPED, Parts}
             /\ \A p \in DOMAIN parts : parts[p].level \in {FULL, FULL + Loudness}
             /\ cli.audio.rate = MODEL_RATE /\ DERIVED \in DOMAIN parts =>
                  /\ \A p, q \in Parts : Corresponds(parts[p].samples, parts[q].samples)
                  /\ Unexplained(parts) = Only({})
<1> DEFINE parts == Assembled(cli.fetched, peak)
<1>1. DOMAIN parts \in {SHIPPED, Parts} /\ \A p \in DOMAIN parts : IsPart(p, parts[p])
  BY AssembledSet
<1>2. cli.at = "fetch"
  BY DEF Assemble
<1>3. /\ phase = "done" /\ ~IsRefused(DecodeFile(file)) /\ cli.audio = DecodeFile(file)
      /\ requests = (IF IsRefused(DecodeFile(file)) THEN <<>> ELSE <<Submission(cli, DecodeFile(file))>>)
  BY <1>2 DEF ClientInv, Holding
<1> HIDE DEF parts
<1>4. ASSUME cli.audio.rate = MODEL_RATE, DERIVED \in DOMAIN parts
      PROVE  /\ \A p, q \in Parts : Corresponds(parts[p].samples, parts[q].samples)
             /\ Unexplained(parts) = Only({})
  <2>1. DOMAIN parts = Parts
    BY <1>1, <1>4 DEF SHIPPED, Parts, DERIVED
  <2>2. Unexplained(parts) = Only({})
    BY <1>1, <2>1, NothingIsLeft
  <2>3. ModelPath = <<>>
    <3>1. Parsing
      BY <1>3, ServerHasIt
    <3>2. requests = <<Submission(cli, DecodeFile(file))>>
      BY <1>3
    <3>3. req = Submission(cli, DecodeFile(file))
      BY <3>2 DEF req
    <3>4. sub.rate = MODEL_RATE
      BY <1>3, <1>4, <3>1, <3>3 DEF Parsing, Parsed, Submission
    <3> QED
      BY <3>4 DEF ModelPath, PathOf
  <2>4. \A p \in Parts : parts[p].samples.path = OutPath
    <3>1. sub.out = cli.audio.rate => OutPath = <<>>
      BY <1>4, <2>3 DEF OutPath, PathOf
    <3>2. \A of, path : Buffer(of, path).path = path
      BY DEF Buffer
    <3>3. parts["vocals"].samples.path = OutPath /\ parts["harmonics"].samples.path = OutPath
      BY <1>1, <2>1, <3>2 DEF IsPart, Parts, SHIPPED
    <3>4. parts[DERIVED].samples.path = OutPath
      <4>1. IsPart(DERIVED, parts[DERIVED])
        BY <1>1, <1>4
      <4> QED
        BY <3>1, <3>2, <4>1 DEF IsPart
    <3> QED
      BY <3>3, <3>4 DEF Parts, SHIPPED
  <2> QED
    BY <2>2, <2>4 DEF Corresponds
<1>5. \A p \in DOMAIN parts : parts[p].level \in {FULL, FULL + Loudness}
  BY <1>1 DEF IsPart
<1> QED
  BY <1>1, <1>4, <1>5 DEF parts

\* A step of a client that writes, and changes nothing else.
LEMMA WriteKeeps ==
  ASSUME ClientInv, UNCHANGED <<requests, sub, audio, phase, stems, shipped>>,
         cli.at \in {"fetch", "write"}, cli'.at \in Writing, cli'.audio = cli.audio, cli'.args = cli.args,
         cli'.file = cli.file, DOMAIN cli' = DOMAIN cli, FilesInv'
  PROVE  ClientInv'
<1>1. cli.at # "none" /\ cli.at \in Holding \ {"too long here"} /\ cli.at \in {"fetch"} \cup Writing
  BY DEF Holding, Writing
<1>2. /\ DOMAIN cli = {"at", "args", "file", "audio", "fetched", "parts", "written", "null"} /\ phase = "done"
      /\ requests = (IF IsRefused(DecodeFile(file)) THEN <<>> ELSE <<Submission(cli, DecodeFile(file))>>)
      /\ \/ IsRefused(DecodeFile(file))
         \/ DecodeFile(file) \in [frames : Nat \ {0}, channels : {2}, rate : Nat \ {0}]
      /\ ~IsRefused(DecodeFile(file)) /\ cli.audio = DecodeFile(file) /\ ~TooLongHere(cli.audio)
  BY <1>1 DEF ClientInv
<1>3. file' = file /\ Submission(cli, DecodeFile(file))' = Submission(cli, DecodeFile(file))
      /\ TooLongHere(cli.audio)' = TooLongHere(cli.audio)
  BY DEF Submission, file, TooLongHere, Health, args
<1>4. cli'.at \notin Looking /\ cli'.at \notin {"none", "too long here", "upload", "wait", "told", "fetch"}
      /\ cli'.at \in Holding
  BY DEF Looking, Holding, Writing
<1>5. phase \notin {"idle", "post"} \cup Passed
  BY <1>2 DEF Passed
<1> QED
  BY <1>2, <1>3, <1>4, <1>5 DEF ClientInv

\* The files of a set agree, and one scale fits those still to come.
LEMMA FilesAgree ==
  ASSUME NEW parts, \A r \in DOMAIN parts : parts[r].level \in {FULL, FULL + Loudness},
         NEW p \in DOMAIN parts, NEW q \in DOMAIN parts
  PROVE  /\ FileLevel(parts[p], Divisor(parts)) * parts[q].level = FileLevel(parts[q], Divisor(parts)) * parts[p].level
         /\ ~args.wav_f32 => FileLevel(parts[p], Divisor(parts)) * parts[q].level <= FULL * parts[p].level
<1>1. PICK a \in {FULL, FULL + Loudness}, b \in {FULL, FULL + Loudness} :
         a = parts[p].level /\ b = parts[q].level
  OBVIOUS
<1>2. CASE args.wav_f32
  <2>1. a * b = b * a
    BY PipelineAssumption, SMT DEF FULL
  <2> QED
    BY <1>1, <1>2, <2>1 DEF FileLevel
<1>3. CASE ~args.wav_f32
  <2>1. Divisor(parts) \in {FULL, FULL + Loudness} /\ a <= Divisor(parts) /\ b <= Divisor(parts)
    BY <1>1, <1>3, DivisorFits
  <2>2. PICK d \in {FULL, FULL + Loudness} : d = Divisor(parts)
    BY <2>1
  <2>3. /\ Least((a * FULL) \div d, FULL) * b = Least((b * FULL) \div d, FULL) * a
        /\ Least((a * FULL) \div d, FULL) * b <= FULL * a
    BY <2>1, <2>2, OneScale
  <2>4. /\ FileLevel(parts[p], Divisor(parts)) = Least((a * FULL) \div d, FULL)
        /\ FileLevel(parts[q], Divisor(parts)) = Least((b * FULL) \div d, FULL)
    BY <1>1, <1>3, <2>2 DEF FileLevel
  <2> QED
    BY <1>1, <2>3, <2>4
<1> QED
  BY <1>2, <1>3

LEMMA AssembleStep == ASSUME PipeInv, ClientInv, Assemble PROVE ClientInv'
<1>1. cli.at = "fetch" /\ UNCHANGED <<requests, sub, audio, phase, stems, shipped>>
  BY DEF Assemble, allVars, pipeVars
<1>2. DOMAIN cli = {"at", "args", "file", "audio", "fetched", "parts", "written", "null"}
      /\ DOMAIN cli.written = {}
  BY <1>1 DEF ClientInv, FilesInv, Writing
<1>3. CASE GoTo("unwritten")
  <2>1. /\ cli'.at = "unwritten" /\ cli'.audio = cli.audio /\ cli'.args = cli.args /\ cli'.file = cli.file
        /\ DOMAIN cli' = DOMAIN cli /\ cli'.written = cli.written
    BY <1>2, <1>3 DEF GoTo
  <2>2. FilesInv'
    BY <1>2, <2>1 DEF FilesInv, Writing, RebuiltSums, WrittenTogether, CutFiles
  <2> QED
    BY <1>1, <2>1, <2>2, WriteKeeps DEF Writing
<1>4. CASE \E peak \in {FULL, FULL + Loudness} :
             cli' = [cli EXCEPT !.at = "write", !.parts = Assembled(cli.fetched, peak)]
  <2>1. PICK peak \in {FULL, FULL + Loudness} :
          cli' = [cli EXCEPT !.at = "write", !.parts = Assembled(cli.fetched, peak)]
    BY <1>4
  <2> DEFINE parts == Assembled(cli.fetched, peak)
  <2>2. /\ DOMAIN parts \in {SHIPPED, Parts}
        /\ \A p \in DOMAIN parts : parts[p].level \in {FULL, FULL + Loudness}
        /\ cli.audio.rate = MODEL_RATE /\ DERIVED \in DOMAIN parts =>
             /\ \A p, q \in Parts : Corresponds(parts[p].samples, parts[q].samples)
             /\ Unexplained(parts) = Only({})
    BY SetIsWhole
  <2> HIDE DEF parts
  <2>3. /\ cli'.at = "write" /\ cli'.audio = cli.audio /\ cli'.args = cli.args /\ cli'.file = cli.file
        /\ DOMAIN cli' = DOMAIN cli /\ cli'.written = cli.written /\ cli'.parts = parts
    BY <1>2, <2>1 DEF parts
  <2>4. WholeSet'
    BY <2>2, <2>3 DEF WholeSet, Unexplained, Corresponds
  <2>5. FilesInv'
    BY <1>2, <2>3, <2>4 DEF FilesInv, Writing, RebuiltSums, WrittenTogether, CutFiles
  <2> QED
    BY <1>1, <2>3, <2>5, WriteKeeps DEF Writing
<1> QED
  BY <1>3, <1>4 DEF Assemble

\* What WrittenTogether asks of files that are each FileOf its part.
LEMMA FilesTogether ==
  ASSUME WholeSet, cli'.parts = cli.parts, cli'.args = cli.args,
         DOMAIN cli'.written \subseteq DOMAIN cli.parts,
         \A p \in DOMAIN cli'.written : \E whole \in BOOLEAN : cli'.written[p] = FileOf(p, whole),
         CutFiles' = {} \/ (cli'.at = "unwritten" /\ \E p \in Parts : CutFiles' = {p}),
         cli'.at = "written" => DOMAIN cli'.written = DOMAIN cli.parts
  PROVE  WrittenTogether'
<1>1. ASSUME NEW r \in DOMAIN cli'.written
      PROVE  /\ cli'.written[r].part = cli.parts[r]
             /\ cli'.written[r].level = FileLevel(cli.parts[r], Divisor(cli.parts))
  <2>1. PICK whole \in BOOLEAN : cli'.written[r] = FileOf(r, whole)
    OBVIOUS
  <2> QED
    BY <2>1 DEF FileOf
<1>2. ASSUME NEW p \in DOMAIN cli'.written, NEW q \in DOMAIN cli.parts
      PROVE  /\ q \in DOMAIN cli'.written =>
                  cli'.written[p].level * cli'.written[q].part.level
                    = cli'.written[q].level * cli'.written[p].part.level
             /\ ~args.wav_f32 =>
                  cli'.written[p].level * cli.parts[q].level <= FULL * cli'.written[p].part.level
  <2>1. p \in DOMAIN cli.parts /\ \A r \in DOMAIN cli.parts : cli.parts[r].level \in {FULL, FULL + Loudness}
    BY DEF WholeSet
  <2>2. PICK parts : parts = cli.parts
    OBVIOUS
  <2>3. /\ FileLevel(parts[p], Divisor(parts)) * parts[q].level = FileLevel(parts[q], Divisor(parts)) * parts[p].level
        /\ ~args.wav_f32 => FileLevel(parts[p], Divisor(parts)) * parts[q].level <= FULL * parts[p].level
    BY <2>1, <2>2, FilesAgree
  <2> QED
    BY <1>1, <2>2, <2>3
<1>3. SHIPPED \subseteq DOMAIN cli.parts
  BY DEF WholeSet, Parts
<1>4. args' = args
  BY DEF args
<1> QED
  BY <1>2, <1>3, <1>4 DEF WrittenTogether

LEMMA WritePartStep == ASSUME PipeInv, ClientInv, WritePart PROVE ClientInv'
<1>1. cli.at = "write" /\ UNCHANGED <<requests, sub, audio, phase, stems, shipped>>
  BY DEF WritePart, allVars, pipeVars
<1>2. /\ DOMAIN cli = {"at", "args", "file", "audio", "fetched", "parts", "written", "null"}
      /\ WholeSet /\ DOMAIN cli.written \subseteq DOMAIN cli.parts
      /\ \A p \in DOMAIN cli.written : cli.written[p] = FileOf(p, TRUE)
  BY <1>1 DEF ClientInv, FilesInv
<1>3. PICK p \in DOMAIN cli.parts \ DOMAIN cli.written :
        \/ cli' = [cli EXCEPT !.written = With(@, p, FileOf(p, TRUE))]
        \/ cli' = [cli EXCEPT !.at = "unwritten", !.written = With(@, p, FileOf(p, FALSE))]
        \/ cli' = [cli EXCEPT !.at = "unwritten"]
  BY DEF WritePart, InTurn, FileOf, GoTo
<1>4. p \in Parts
  BY <1>2 DEF WholeSet, Parts
<1>5. ASSUME cli'.parts = cli.parts, cli'.audio = cli.audio, cli'.args = cli.args, NEW whole \in BOOLEAN
      PROVE  WholeSet' /\ \A r : FileOf(r, whole)' = FileOf(r, whole)
  <2>1. WholeSet'
    BY <1>2, <1>5 DEF WholeSet, Unexplained, Corresponds
  <2>2. \A r : FileOf(r, whole)' = FileOf(r, whole)
    BY <1>5 DEF FileOf, FileLevel, Divisor, args
  <2> QED
    BY <2>1, <2>2
<1>6. ASSUME NEW whole \in BOOLEAN, NEW place \in {"write", "unwritten"}, whole \/ place = "unwritten",
             cli' = [cli EXCEPT !.at = place, !.written = With(@, p, FileOf(p, whole))]
      PROVE  ClientInv'
  <2>0. PICK written : written = With(cli.written, p, FileOf(p, whole))
    OBVIOUS
  <2>1. DOMAIN written = DOMAIN cli.written \cup {p} /\ written[p] = FileOf(p, whole)
        /\ \A q \in DOMAIN cli.written : written[q] = FileOf(q, TRUE)
    BY <1>2, <1>3, <2>0 DEF With
  <2>2. cli' = [cli EXCEPT !.at = place, !.written = written]
    BY <1>6, <2>0
  <2>3. /\ cli'.at = place /\ cli'.audio = cli.audio /\ cli'.args = cli.args /\ cli'.file = cli.file
        /\ DOMAIN cli' = DOMAIN cli /\ cli'.written = written /\ cli'.parts = cli.parts
    BY <1>2, <2>2
  <2>4. WholeSet' /\ (\A r : FileOf(r, TRUE)' = FileOf(r, TRUE)) /\ (\A r : FileOf(r, whole)' = FileOf(r, whole))
    BY <1>5, <2>3
  <2>5. FileOf(p, whole).whole = whole /\ \A q : FileOf(q, TRUE).whole = TRUE
    BY DEF FileOf
  <2>6. /\ DOMAIN cli'.written \subseteq DOMAIN cli.parts
        /\ \A q \in DOMAIN cli'.written : \E w \in BOOLEAN : cli'.written[q] = FileOf(q, w)
    <3>1. ASSUME NEW q \in DOMAIN written PROVE \E w \in BOOLEAN : written[q] = FileOf(q, w)
      <4>1. CASE q = p
        BY <2>1, <4>1
      <4>2. CASE q # p
        BY <2>1, <3>1, <4>2
      <4> QED
        BY <4>1, <4>2
    <3> QED
      BY <1>2, <1>3, <2>1, <2>3, <3>1
  <2>7. CutFiles' = IF whole THEN {} ELSE {p}
    <3>1. \A q \in DOMAIN written : written[q].whole = (IF q = p THEN whole ELSE TRUE)
      BY <2>1, <2>5
    <3>2. CutFiles' = {q \in DOMAIN written : ~written[q].whole}
      BY <2>3 DEF CutFiles
    <3> QED
      BY <2>1, <3>1, <3>2
  <2>8. WrittenTogether'
    <3>1. CutFiles' = {} \/ (cli'.at = "unwritten" /\ \E x \in Parts : CutFiles' = {x})
      BY <1>4, <1>6, <2>3, <2>7
    <3>2. cli'.at # "written"
      BY <2>3
    <3> QED
      BY <1>2, <2>3, <2>6, <3>1, <3>2, FilesTogether
  <2>9. RebuiltSums'
    BY <2>3 DEF RebuiltSums
  <2>10. cli'.at = "write" => \A q \in (DOMAIN cli.written)' : cli'.written[q] = FileOf(q, TRUE)'
    <3>1. ASSUME place = "write" PROVE FileOf(p, whole) = FileOf(p, TRUE)
      <4>1. place # "unwritten"
        BY <3>1
      <4>2. whole = TRUE
        BY <1>6, <4>1, Zenon
      <4> QED
        BY <4>2
    <3>2. ASSUME place = "write", NEW q \in DOMAIN written PROVE written[q] = FileOf(q, TRUE)'
      <4>1. written[q] = FileOf(q, TRUE)
        BY <2>1, <3>1, <3>2
      <4> QED
        BY <2>4, <4>1
    <3> QED
      BY <2>3, <3>2
  <2>11. FilesInv'
    BY <2>3, <2>4, <2>6, <2>8, <2>9, <2>10 DEF FilesInv, Writing
  <2> QED
    BY <1>1, <2>3, <2>11, WriteKeeps DEF Writing
<1>7. CASE cli' = [cli EXCEPT !.at = "unwritten"]
  <2>1. /\ cli'.at = "unwritten" /\ cli'.audio = cli.audio /\ cli'.args = cli.args /\ cli'.file = cli.file
        /\ DOMAIN cli' = DOMAIN cli /\ cli'.written = cli.written /\ cli'.parts = cli.parts
    BY <1>2, <1>7
  <2>2. WrittenTogether
    BY <1>1 DEF ClientInv, FilesInv
  <2>3. CutFiles = {}
    BY <1>2 DEF CutFiles, FileOf
  <2>4. WrittenTogether'
    BY <1>1, <2>1, <2>2, <2>3 DEF WrittenTogether, CutFiles, args
  <2>5. FilesInv'
    BY <2>1, <2>4 DEF FilesInv, RebuiltSums, Writing
  <2> QED
    BY <1>1, <2>1, <2>5, WriteKeeps DEF Writing
<1>8. CASE cli' = [cli EXCEPT !.written = With(@, p, FileOf(p, TRUE))]
  <2>1. cli' = [cli EXCEPT !.at = "write", !.written = With(@, p, FileOf(p, TRUE))]
    BY <1>1, <1>2, <1>8
  <2> QED
    BY <1>6, <2>1
<1> QED
  BY <1>3, <1>6, <1>7, <1>8

LEMMA ReportStep == ASSUME PipeInv, ClientInv, ReportNull PROVE ClientInv'
<1>1. /\ cli.at = "write" /\ DOMAIN cli.written = DOMAIN cli.parts
      /\ UNCHANGED <<requests, sub, audio, phase, stems, shipped>>
      /\ cli' = [cli EXCEPT !.at = "written", !.null = Reconstruction(cli.parts)]
  BY DEF ReportNull, allVars, pipeVars
<1>2. /\ DOMAIN cli = {"at", "args", "file", "audio", "fetched", "parts", "written", "null"}
      /\ WholeSet /\ \A p \in DOMAIN cli.written : cli.written[p] = FileOf(p, TRUE)
  BY <1>1 DEF ClientInv, FilesInv
<1>3. /\ cli'.at = "written" /\ cli'.audio = cli.audio /\ cli'.args = cli.args /\ cli'.file = cli.file
      /\ DOMAIN cli' = DOMAIN cli /\ cli'.written = cli.written /\ cli'.parts = cli.parts
      /\ cli'.null = Reconstruction(cli.parts)
  BY <1>1, <1>2
<1>4. WrittenTogether'
  <2>1. \A q : FileOf(q, TRUE).whole = TRUE
    BY DEF FileOf
  <2>2. \A q \in DOMAIN cli'.written : \E w \in BOOLEAN : cli'.written[q] = FileOf(q, w)
    BY <1>2, <1>3
  <2>3. CutFiles' = {}
    <3>1. ASSUME NEW q \in DOMAIN cli'.written PROVE cli'.written[q].whole = TRUE
      <4>1. cli'.written[q] = FileOf(q, TRUE)
        BY <1>2, <1>3
      <4>2. FileOf(q, TRUE).whole = TRUE
        BY DEF FileOf
      <4> QED
        BY <4>1, <4>2, Zenon
    <3> QED
      BY <3>1 DEF CutFiles
  <2> QED
    BY <1>1, <1>2, <1>3, <2>2, <2>3, FilesTogether
<1>5. RebuiltSums'
  <2>1. SUFFICES ASSUME cli.audio.rate = MODEL_RATE, DERIVED \in DOMAIN cli.written
        PROVE  /\ \A p, q \in Parts : Corresponds(cli.written[p].part.samples, cli.written[q].part.samples)
               /\ Unexplained([p \in Parts |-> cli.written[p].part]) = Only({})
               /\ \A x \in Reconstruction(cli.parts) : x = Only({})
    BY <1>3 DEF RebuiltSums, Unexplained, Corresponds
  <2>2. DOMAIN cli.parts = Parts
    BY <1>1, <1>2, <2>1 DEF WholeSet, SHIPPED, Parts, DERIVED
  <2>3. /\ \A p, q \in Parts : Corresponds(cli.parts[p].samples, cli.parts[q].samples)
        /\ Unexplained(cli.parts) = Only({})
    BY <1>1, <1>2, <2>1 DEF WholeSet
  <2>4. \A p \in Parts : cli.written[p].part = cli.parts[p]
    <3>1. \A p : FileOf(p, TRUE).part = cli.parts[p]
      BY DEF FileOf
    <3> QED
      BY <1>1, <1>2, <2>2, <3>1
  <2>5. Unexplained([p \in Parts |-> cli.written[p].part]) = Unexplained(cli.parts)
    <3> DEFINE same == [p \in Parts |-> cli.written[p].part]
    <3>1. DOMAIN same = DOMAIN cli.parts /\ \A p \in DOMAIN cli.parts : same[p] = cli.parts[p]
      BY <2>2, <2>4
    <3> HIDE DEF same
    <3>2. \A s : [p \in DOMAIN same |-> same[p].samples.of[s]] = [p \in DOMAIN cli.parts |-> cli.parts[p].samples.of[s]]
      BY <3>1
    <3> QED
      BY <3>2 DEF Unexplained, same
  <2>6. \A x \in Reconstruction(cli.parts) : x = Only({})
    BY <2>3 DEF Reconstruction
  <2> QED
    BY <2>3, <2>4, <2>5, <2>6
<1>6. FilesInv'
  BY <1>3, <1>4, <1>5 DEF FilesInv, Writing
<1> QED
  BY <1>1, <1>3, <1>6, WriteKeeps DEF Writing

\* Another upload has no client, and one that has a client is not the window's.
LEMMA ClientKeeps ==
  ASSUME PipeInv, ClientInv, DropsNext \/ UNCHANGED DropsSees
  PROVE  ClientInv'
<1>1. CASE PipelineNext /\ UNCHANGED cli
  BY <1>1, ServerMoves
<1>2. CASE Connect \/ CheckRate \/ Unreachable \/ Wait
  BY <1>2, AsksStep
<1>3. CASE LoadInput \/ Submit \/ Fetch
  BY <1>3, LoadStep, SubmitClient, FetchStep
<1>w. CASE Assemble \/ WritePart \/ ReportNull
  BY <1>w, AssembleStep, WritePartStep, ReportStep
<1>4. CASE DropStep
  BY <1>4, WindowIsElsewhere, SameClient
<1>5. CASE UNCHANGED DropsSees
  <2>1. UNCHANGED <<cli, requests, sub, audio, phase, stems, shipped>>
    BY <1>5 DEF DropsSees, clientVars, allVars, pipeVars
  <2> QED
    BY <2>1, SameClient
<1> QED
  BY <1>1, <1>2, <1>3, <1>w, <1>4, <1>5 DEF DropsNext, ClientNext

LEMMA ClientBegins == ASSUME DropsInit PROVE ClientInv
<1>a. SUFFICES ASSUME cli.at # "none" PROVE ClientInv
  BY DEF ClientInv
<1>1. /\ cli.at = "connect" /\ cli.fetched = <<>> /\ cli.written = <<>> /\ phase = "idle" /\ audio = Nothing
      /\ DOMAIN cli = {"at", "args", "file", "audio", "fetched", "parts", "written", "null"}
      /\ requests = IF IsRefused(DecodeFile(file)) THEN <<>> ELSE <<Submission(cli, DecodeFile(file))>>
      /\ IsRefused(DecodeFile(file))
           \/ DecodeFile(file) \in [frames : Nat \ {0}, channels : {2}, rate : Nat \ {0}]
  BY <1>a, CaseBegins DEF DropsInit
<1>2. cli.at \in Looking /\ cli.at \notin Holding
      /\ cli.at \notin {"none", "told", "fetch", "too long here"} \cup Writing
  BY <1>1 DEF Looking, Holding, Writing
<1>3. FilesInv
  <2>1. DOMAIN cli.written = {}
    BY <1>1, EmptyDomain, Zenon
  <2> QED
    BY <1>2, <2>1 DEF FilesInv, RebuiltSums, WrittenTogether, Writing
<1> QED
  BY <1>1, <1>2, <1>3 DEF ClientInv

\* A body is divided into the frames it was made of.
LEMMA FramesOfABody ==
  ASSUME NEW n \in Nat, NEW w \in {4, 8}
  PROVE  (n * w) \div w = n
  BY SMT

\* Where the two limits meet.
LEMMA LimitsMeet == ASSUME PipeInv, ClientInv PROVE OneLimit
<1>a. SUFFICES ASSUME cli.at \in {"too long here", "told"} PROVE OneLimit
  BY DEF OneLimit
<1> DEFINE d == DecodeFile(file)
           r == Submission(cli, d)
<1>1. ~IsRefused(d) /\ cli.audio = d /\ requests = <<r>> /\ d \in [frames : Nat \ {0}, channels : {2}, rate : Nat \ {0}]
  BY <1>a DEF ClientInv, Holding
<1>2. req = r
  BY <1>1 DEF req
<1>3. /\ r.channels = 2 /\ r.rate = d.rate /\ r.bytes \in Nat
      /\ r.bytes = d.frames * (2 * BytesPerSample(r.in)) /\ BytesPerSample(r.in) \in {2, 4}
  BY <1>1, SubmittedSize
<1> HIDE DEF r, d
<1>4. PICK n \in Nat \ {0}, q \in Nat \ {0}, m \in {2, 4}, h \in Nat, limit \in Nat :
        n = d.frames /\ q = d.rate /\ m = BytesPerSample(r.in) /\ h = HighestRate /\ limit = MaxTrack
  BY <1>1, <1>3, HighestIsNumber, PipelineAssumption
<1>5. r.bytes = n * (2 * m) /\ (n * (2 * m)) \div (2 * m) = n
  BY <1>3, <1>4, FramesOfABody
<1>6. TooLong(req) <=> n * h > limit * q
  BY <1>2, <1>3, <1>4, <1>5 DEF TooLong
<1>7. TooLongHere(cli.audio) <=> n * h > limit * q
  BY <1>1, <1>4 DEF TooLongHere, Health
<1>8. cli.at = "too long here" => TooLong(req)
  BY <1>6, <1>7 DEF ClientInv
<1>9. ASSUME cli.at = "told", ~(cli.audio.rate > HighestRate) PROVE phase \notin {"too large", "too long"}
  <2>1. ~TooLong(req)
    BY <1>6, <1>7, <1>9 DEF ClientInv, Holding
  <2>2. ASSUME req.bytes > MaxBody PROVE FALSE
    <3>1. MaxBody = limit * 8
      BY <1>4, EightBytes DEF MaxBody, MODEL_CHANNELS, BytesPerSample
    <3>2. n * (2 * m) > limit * 8
      BY <1>2, <1>5, <2>2, <3>1
    <3>3. n > limit
      <4>1. n <= limit => n * (2 * m) <= limit * 8
        BY ONLY <1>4, SMT
      <4> QED
        BY <3>2, <4>1
    <3>4. q <= h
      BY <1>1, <1>4, <1>9
    <3>5. n * h > limit * q
      BY <3>3, <3>4, AtMostHighest
    <3> QED
      BY <1>6, <2>1, <3>5
  <2> QED
    BY <2>1, <2>2 DEF PipeInv, UploadInv
<1> QED
  BY <1>8, <1>9 DEF OneLimit

-----------------------------------------------------------------------------
(* The folders of the window's drops *)

LEMMA SameSeq ==
  ASSUME NEW s, s \in Seq(Range(s)), NEW f, f = [m \in DOMAIN s |-> f[m]]
  PROVE  f \in Seq(Range(f)) /\ DOMAIN f = DOMAIN s
<1>1. Len(s) \in Nat /\ DOMAIN s = 1 .. Len(s)
  OBVIOUS
<1>2. \A i \in 1 .. Len(s) : f[i] \in Range(f)
  BY <1>1 DEF Range
<1> QED
  BY <1>1, <1>2

LEMMA OwnRange ==
  ASSUME NEW S, NEW s \in Seq(S)
  PROVE  s \in Seq(Range(s))
<1>1. s = [m \in 1 .. Len(s) |-> s[m]] /\ Len(s) \in Nat /\ DOMAIN s = 1 .. Len(s)
  OBVIOUS
<1>2. \A i \in 1 .. Len(s) : s[i] \in Range(s)
  BY <1>1 DEF Range
<1> QED
  BY <1>1, <1>2

\* A folder nobody touches, and nobody else begins to write to, is as it was.
LEMMA LeftAlone ==
  ASSUME NEW n \in DOMAIN item, DropInv(n), DOMAIN item \subseteq DOMAIN item',
         DOMAIN item'[n] = DOMAIN item[n], item'[n].at = item[n].at, item'[n].entry = item[n].entry,
         item'[n].copied = item[n].copied, item'[n].disturbed = item[n].disturbed,
         \A m \in DOMAIN item : item'[m].source = item[m].source,
         \A m \in DOMAIN item' \ {n} : item'[m].at = "copy" /\ Dir(m)' = Dir(n) =>
           m \in DOMAIN item /\ item[m].at = "copy" /\ Dir(m) = Dir(n),
         n \in recent' => n \in recent,
         folder'[Dir(n)] = folder[Dir(n)]
  PROVE  DropInv(n)'
<1>1. Dir(n)' = Dir(n) /\ \A m \in DOMAIN item : Dir(m)' = Dir(m)
  BY DEF Dir
<1>2. ASSUME InFolderInv(n), item[n].at \in {"copy", "done"} PROVE InFolderInv(n)'
  <2>1. Apart(n)'
    BY <1>1, <1>2 DEF InFolderInv, Apart
  <2>2. ASSUME (item[n].at = "copy" \/ n \in recent)' PROVE item[n].at = "copy" \/ n \in recent
    BY <2>2
  <2>3. (\E m \in DOMAIN item \ {n} : Dir(m) = Dir(n)) => (\E m \in DOMAIN item \ {n} : Dir(m) = Dir(n))'
    BY <1>1
  <2>4. \A p : Present(n, p)' = Present(n, p)
    BY <1>1 DEF Present, Copied
  <2>5. Scaled(n)' = Scaled(n)
    BY DEF Scaled
  <2> QED
    BY <1>1, <1>2, <2>1, <2>2, <2>3, <2>4, <2>5 DEF InFolderInv
<1> QED
  BY <1>2 DEF DropInv

\* A drop that writes has a folder of its own, or has been seen in it.
LEMMA Disturbs ==
  ASSUME DropsInv, NEW n \in DOMAIN item, item[n].at = "copy",
         NEW m \in DOMAIN item \ {n}, Dir(m) = Dir(n), item[m].at \in {"copy", "done"}
  PROVE  item[m].disturbed
  BY DEF DropsInv, DropInv, InFolderInv, Apart

LEMMA OwnFolder == ASSUME DropsInv, NEW n \in DOMAIN item PROVE Dir(n) \in Folders
  BY DEF DropsInv, DropInv, Dir, Folders

\* A drop that goes on, and writes to no folder but the one it has opened.
LEMMA OneDrop ==
  ASSUME DropsInv, NEW n \in DOMAIN item, NEW x, item' = [item EXCEPT ![n] = x],
         x.source = item[n].source, recent' \subseteq recent,
         x.at = "copy" => item[n].at = "copy",
         DOMAIN folder' = Folders, \A d \in Folders : DOMAIN folder'[d] = {"there", "files", "gains"},
         \A d \in Folders \ {Dir(n)} : folder'[d] = folder[d],
         folder'[Dir(n)] = folder[Dir(n)] \/ item[n].at = "copy",
         DropInv(n)'
  PROVE  DropsInv'
<1>1. item' \in Seq(Range(item')) /\ DOMAIN item' = DOMAIN item
  <2>1. item \in Seq(Range(item))
    BY DEF DropsInv
  <2>2. item' = [m \in DOMAIN item |-> item'[m]]
    OBVIOUS
  <2> QED
    BY <2>1, <2>2, SameSeq
<1>2. item'[n] = x /\ \A m \in DOMAIN item \ {n} : item'[m] = item[m]
  OBVIOUS
<1>3. \A m \in DOMAIN item : Dir(m)' = Dir(m) /\ item'[m].source = item[m].source
  BY <1>2 DEF Dir
<1>4. ASSUME NEW m \in DOMAIN item \ {n} PROVE DropInv(m)'
  <2>1. DropInv(m) /\ item'[m] = item[m]
    BY <1>2 DEF DropsInv
  <2>2. CASE item[m].at \in {"copy", "done"} /\ ~item[m].disturbed
    <3>1. folder'[Dir(m)] = folder[Dir(m)]
      <4>1. Dir(m) \in Folders
        BY OwnFolder
      <4>2. Dir(m) = Dir(n) => item[n].at # "copy"
        BY <2>2, Disturbs
      <4> QED
        BY <4>1, <4>2
    <3>2. \A k \in DOMAIN item : item'[k].at = "copy" => item[k].at = "copy"
      BY <1>2
    <3> QED
      BY <1>1, <1>3, <2>1, <3>1, <3>2, LeftAlone
  <2>3. CASE ~(item[m].at \in {"copy", "done"} /\ ~item[m].disturbed)
    BY <2>1, <2>3 DEF DropInv
  <2> QED
    BY <2>2, <2>3
<1>5. \A m \in DOMAIN item' : DropInv(m)'
  BY <1>1, <1>4
<1>6. recent' \subseteq DOMAIN item'
  BY <1>1 DEF DropsInv
<1> QED
  BY <1>1, <1>5, <1>6 DEF DropsInv, Folders

LEMMA AcceptStep == ASSUME DropsInv, NEW song \in Songs, Accept(song) PROVE DropsInv'
<1>n. PICK new : new = Len(item) + 1
  OBVIOUS
<1> DEFINE x == [source |-> song, at |-> "reading", output |-> Nothing, entry |-> Nothing,
                  copied |-> 0, disturbed |-> FALSE]
<1>1. item' = Append(item, x) /\ recent' = Remember(new, song) /\ UNCHANGED folder
  BY <1>n DEF Accept
<1>x. /\ DOMAIN x = {"source", "at", "output", "entry", "copied", "disturbed"} /\ x.source \in Songs
      /\ x.at = "reading" /\ x.copied = 0 /\ x.disturbed \in BOOLEAN
  OBVIOUS
<1> HIDE DEF x
<1>2. /\ item' \in Seq(Range(item')) /\ DOMAIN item' = DOMAIN item \cup {new} /\ new \notin DOMAIN item
      /\ item'[new] = x /\ \A m \in DOMAIN item : item'[m] = item[m]
  <2>1. item \in Seq(Range(item))
    BY DEF DropsInv
  <2>2. item' = Append(item, x)
    BY <1>1
  <2>3. Len(item) \in Nat /\ DOMAIN item = 1 .. Len(item) /\ item \in Seq(Range(item) \cup {x})
    BY <2>1
  <2>4. item' \in Seq(Range(item) \cup {x}) /\ Len(item') = Len(item) + 1 /\ DOMAIN item' = 1 .. Len(item) + 1
        /\ item'[Len(item) + 1] = x /\ \A m \in 1 .. Len(item) : item'[m] = item[m]
    BY <2>2, <2>3
  <2>5. item' \in Seq(Range(item'))
    BY <2>4, OwnRange
  <2> QED
    BY <1>n, <2>3, <2>4, <2>5
<1>3. recent' \subseteq recent \cup {new}
  BY <1>1 DEF Remember
<1>4. DropInv(new)'
  BY <1>2, <1>x DEF DropInv
<1>5. ASSUME NEW m \in DOMAIN item PROVE DropInv(m)'
  <2>1. DropInv(m) /\ item'[m] = item[m] /\ m # new
    BY <1>2 DEF DropsInv
  <2>2. m \in recent' => m \in recent
    BY <1>3, <2>1
  <2>3. folder'[Dir(m)] = folder[Dir(m)]
    BY <1>1
  <2>4. item'[new].at # "copy"
    BY <1>2, <1>x
  <2>5. ASSUME NEW k \in DOMAIN item', item'[k].at = "copy" PROVE k \in DOMAIN item /\ item[k].at = "copy" /\ Dir(k)' = Dir(k)
    <3>1. k \in DOMAIN item
      BY <1>2, <2>4, <2>5
    <3> QED
      BY <1>2, <2>5, <3>1 DEF Dir
  <2>6. Dir(m)' = Dir(m)
    BY <2>1 DEF Dir
  <2> QED
    BY <1>2, <2>1, <2>2, <2>3, <2>5, <2>6, LeftAlone
<1>6. recent' \subseteq DOMAIN item'
  BY <1>2, <1>3 DEF DropsInv
<1>7. \A m \in DOMAIN item' : DropInv(m)'
  BY <1>2, <1>4, <1>5
<1>8. DOMAIN folder' = Folders /\ \A d \in Folders : DOMAIN folder'[d] = {"there", "files", "gains"}
  BY <1>1 DEF DropsInv
<1>9. item' \in Seq(Range(item'))
  BY <1>2
<1> QED
  BY <1>6, <1>7, <1>8, <1>9 DEF DropsInv, Folders

\* A drop that has no folder yet, or will have none.
LEMMA Folderless ==
  ASSUME DropsInv, NEW n \in DOMAIN item, NEW x, item' = [item EXCEPT ![n] = x],
         UNCHANGED <<recent, folder>>,
         DOMAIN x = {"source", "at", "output", "entry", "copied", "disturbed"},
         x.source = item[n].source, x.copied = item[n].copied, x.disturbed = item[n].disturbed,
         x.at \in {"separate", "open", "failed"},
         x.at # "failed" => x.copied = 0,
         x.at = "open" => x.entry.song = item[n].source
  PROVE  DropsInv'
<1>1. item'[n] = x
  OBVIOUS
<1>2. DropInv(n)'
  BY <1>1 DEF DropsInv, DropInv
<1>3. DOMAIN folder' = Folders /\ \A d \in Folders : DOMAIN folder'[d] = {"there", "files", "gains"}
  BY DEF DropsInv
<1> QED
  BY <1>2, <1>3, OneDrop

LEMMA FailsStep ==
  ASSUME DropsInv, NEW n \in DOMAIN item, Goes(n, "failed"), UNCHANGED <<recent, folder>>
  PROVE  DropsInv'
<1> DEFINE x == [item[n] EXCEPT !.at = "failed"]
<1>1. item' = [item EXCEPT ![n] = x]
  BY DEF Goes
<1>2. DropInv(n)
  BY DEF DropsInv
<1>3. /\ DOMAIN x = {"source", "at", "output", "entry", "copied", "disturbed"} /\ x.at = "failed"
      /\ x.source = item[n].source /\ x.copied = item[n].copied /\ x.disturbed = item[n].disturbed
  BY <1>2 DEF DropInv
<1> HIDE DEF x
<1> QED
  BY <1>1, <1>3, Folderless

LEMMA ReadStep == ASSUME DropsInv, NEW n \in DOMAIN item, Read(n) PROVE DropsInv'
<1>1. item[n].at = "reading" /\ UNCHANGED <<recent, folder>>
  BY DEF Read
<1>2. CASE Goes(n, "failed")
  BY <1>1, <1>2, FailsStep
<1>3. CASE item' = [item EXCEPT ![n].at = "separate", ![n].output = defaults]
  <2> DEFINE x == [item[n] EXCEPT !.at = "separate", !.output = defaults]
  <2>1. DropInv(n)
    BY DEF DropsInv
  <2>2. item' = [item EXCEPT ![n] = x]
    BY <1>3
  <2>3. /\ DOMAIN x = {"source", "at", "output", "entry", "copied", "disturbed"} /\ x.at = "separate"
        /\ x.source = item[n].source /\ x.copied = item[n].copied /\ x.disturbed = item[n].disturbed /\ item[n].copied = 0
    BY <1>1, <2>1 DEF DropInv
  <2> HIDE DEF x
  <2> QED
    BY <1>1, <2>2, <2>3, Folderless
<1> QED
  BY <1>2, <1>3 DEF Read

LEMMA SeparateDropStep == ASSUME DropsInv, NEW n \in DOMAIN item, SeparateDrop(n) PROVE DropsInv'
<1>1. item[n].at = "separate" /\ UNCHANGED <<recent, folder>>
  BY DEF SeparateDrop
<1>2. CASE Goes(n, "failed")
  BY <1>1, <1>2, FailsStep
<1>3. CASE item' = [item EXCEPT ![n].at = "open", ![n].entry = EntryFor(n)]
  <2> DEFINE x == [item[n] EXCEPT !.at = "open", !.entry = EntryFor(n)]
  <2>1. DropInv(n)
    BY DEF DropsInv
  <2>2. item' = [item EXCEPT ![n] = x]
    BY <1>3
  <2>3. EntryFor(n).song = item[n].source
    BY DEF EntryFor
  <2>4. /\ DOMAIN x = {"source", "at", "output", "entry", "copied", "disturbed"} /\ x.at = "open"
        /\ x.source = item[n].source /\ x.copied = item[n].copied /\ x.disturbed = item[n].disturbed /\ item[n].copied = 0
        /\ x.entry = EntryFor(n)
    BY <1>1, <2>1 DEF DropInv
  <2> HIDE DEF x
  <2> QED
    BY <1>1, <2>2, <2>3, <2>4, Folderless
<1> QED
  BY <1>2, <1>3 DEF SeparateDrop

LEMMA OpenFolderStep == ASSUME DropsInv, NEW n \in DOMAIN item, OpenFolder(n) PROVE DropsInv'
<1>1. item[n].at = "open" /\ UNCHANGED recent
  BY DEF OpenFolder
<1>2. CASE Goes(n, "failed") /\ UNCHANGED folder
  BY <1>1, <1>2, FailsStep
<1>3. CASE /\ folder' = [folder EXCEPT ![Dir(n)].there = TRUE]
           /\ item' = [m \in DOMAIN item |->
                IF m = n
                THEN [item[n] EXCEPT !.at = "copy",
                        !.disturbed = \E o \in DOMAIN item : Dir(o) = Dir(n) /\ item[o].at = "copy"]
                ELSE [item[m] EXCEPT !.disturbed = @ \/ Dir(m) = Dir(n)]]
  <2>1. DOMAIN item' = DOMAIN item /\ item' \in Seq(Range(item'))
    <3>1. item \in Seq(Range(item))
      BY DEF DropsInv
    <3>2. item' = [m \in DOMAIN item |-> item'[m]] /\ DOMAIN item' = DOMAIN item
      BY <1>3
    <3> QED
      BY <3>1, <3>2, SameSeq
  <2>2. \A m \in DOMAIN item : DropInv(m) /\ Dir(m) \in Folders
    BY OwnFolder DEF DropsInv
  <2>3. /\ item'[n] = [item[n] EXCEPT !.at = "copy",
                         !.disturbed = \E o \in DOMAIN item : Dir(o) = Dir(n) /\ item[o].at = "copy"]
        /\ \A m \in DOMAIN item \ {n} : item'[m] = [item[m] EXCEPT !.disturbed = @ \/ Dir(m) = Dir(n)]
    BY <1>3
  <2>4. /\ DOMAIN item[n] = {"source", "at", "output", "entry", "copied", "disturbed"}
        /\ item[n].copied = 0 /\ item[n].source \in Songs /\ item[n].entry.song = item[n].source
    BY <1>1, <2>2 DEF DropInv
  <2>5. /\ DOMAIN item'[n] = DOMAIN item[n] /\ item'[n].at = "copy" /\ item'[n].copied = 0
        /\ item'[n].source = item[n].source /\ item'[n].entry = item[n].entry
        /\ item'[n].disturbed = \E o \in DOMAIN item : Dir(o) = Dir(n) /\ item[o].at = "copy"
    BY <2>3, <2>4
  <2>6. ASSUME NEW m \in DOMAIN item \ {n}
        PROVE  /\ DOMAIN item'[m] = DOMAIN item[m] /\ item'[m].at = item[m].at /\ item'[m].copied = item[m].copied
               /\ item'[m].source = item[m].source /\ item'[m].entry = item[m].entry
               /\ item'[m].disturbed = (item[m].disturbed \/ Dir(m) = Dir(n))
    <3>1. DOMAIN item[m] = {"source", "at", "output", "entry", "copied", "disturbed"}
          /\ item[m].disturbed \in BOOLEAN
      BY <2>2 DEF DropInv
    <3>2. item'[m] = [item[m] EXCEPT !.disturbed = item[m].disturbed \/ Dir(m) = Dir(n)]
      BY <2>3
    <3>3. item'[m].disturbed = (item[m].disturbed \/ Dir(m) = Dir(n))
      BY <3>1, <3>2, Zenon
    <3> QED
      BY <3>1, <3>2, <3>3
  <2>7. \A m \in DOMAIN item : item'[m].source = item[m].source /\ Dir(m)' = Dir(m)
    BY <2>5, <2>6 DEF Dir
  <2>8. /\ DOMAIN folder' = Folders /\ folder'[Dir(n)].there = TRUE
        /\ \A d \in Folders : DOMAIN folder'[d] = {"there", "files", "gains"}
        /\ \A d \in Folders \ {Dir(n)} : folder'[d] = folder[d]
    <3>1. DOMAIN folder = Folders /\ \A d \in Folders : DOMAIN folder[d] = {"there", "files", "gains"}
      BY DEF DropsInv
    <3> QED
      BY <1>3, <2>2, <3>1
  <2>9. DropInv(n)'
    <3>1. ASSUME ~item'[n].disturbed PROVE InFolderInv(n)'
      <4>1. Apart(n)'
        <5> SUFFICES ASSUME NEW m \in DOMAIN item \ {n}, Dir(m)' = Dir(n)' PROVE item'[m].at # "copy"
          BY <2>1 DEF Apart
        <5>1. Dir(m) = Dir(n)
          BY <2>7
        <5>2. item[m].at # "copy"
          BY <2>5, <3>1, <5>1
        <5> QED
          BY <2>6, <5>2
      <4>2. folder'[Dir(n)'].there
        BY <2>7, <2>8
      <4>3. 1 .. item'[n].copied = {} /\ item'[n].at # "done"
        BY <2>5
      <4> QED
        BY <4>1, <4>2, <4>3 DEF InFolderInv
    <3> QED
      BY <2>4, <2>5, <3>1 DEF DropInv
  <2>10. ASSUME NEW m \in DOMAIN item \ {n} PROVE DropInv(m)'
    <3>1. CASE Dir(m) = Dir(n)
      <4>1. item'[m].disturbed
        BY <2>6, <3>1
      <4> QED
        BY <2>2, <2>6, <4>1 DEF DropInv
    <3>2. CASE Dir(m) # Dir(n)
      <4>1. ASSUME item[m].at \in {"copy", "done"}, ~item[m].disturbed PROVE InFolderInv(m)'
        <5>1. InFolderInv(m)
          BY <2>2, <4>1 DEF DropInv
        <5>2. Apart(m)'
          <6> SUFFICES ASSUME NEW k \in DOMAIN item \ {m}, Dir(k)' = Dir(m)' PROVE item'[k].at # "copy"
            BY <2>1 DEF Apart
          <6>1. Dir(k) = Dir(m) /\ k # n
            BY <2>7, <3>2
          <6>2. item[k].at # "copy"
            BY <5>1, <6>1 DEF InFolderInv, Apart
          <6> QED
            BY <2>6, <6>1, <6>2
        <5>3. folder'[Dir(m)'] = folder[Dir(m)] /\ Dir(m)' = Dir(m)
          BY <2>2, <2>7, <2>8, <3>2
        <5>4. \A p : Present(m, p)' = Present(m, p)
          BY <2>6, <5>3 DEF Present, Copied
        <5>5. Scaled(m)' = Scaled(m) /\ item'[m].entry = item[m].entry /\ item'[m].at = item[m].at
              /\ item'[m].copied = item[m].copied
          BY <2>6 DEF Scaled
        <5>6. (\E k \in DOMAIN item \ {m} : Dir(k) = Dir(m)) => (\E k \in DOMAIN item \ {m} : Dir(k) = Dir(m))'
          BY <2>1, <2>7
        <5> QED
          BY <1>1, <5>1, <5>2, <5>3, <5>4, <5>5, <5>6 DEF InFolderInv
      <4>2. DropInv(m) /\ item'[m].disturbed = item[m].disturbed
        <5>1. DropInv(m) /\ item[m].disturbed \in BOOLEAN
          BY <2>2 DEF DropInv
        <5>2. (item[m].disturbed \/ Dir(m) = Dir(n)) = item[m].disturbed
          BY <3>2, <5>1
        <5> QED
          BY <2>6, <5>1, <5>2
      <4> QED
        BY <2>6, <4>1, <4>2 DEF DropInv
    <3> QED
      BY <3>1, <3>2
  <2>11. \A m \in DOMAIN item' : DropInv(m)'
    BY <2>1, <2>9, <2>10
  <2>12. recent' \subseteq DOMAIN item'
    BY <1>1, <2>1 DEF DropsInv
  <2> QED
    BY <2>1, <2>8, <2>11, <2>12 DEF DropsInv, Folders
<1> QED
  BY <1>2, <1>3 DEF OpenFolder

LEMMA StemNames ==
  /\ Len(STEMS) = 3 /\ \A i, j \in 1 .. 3 : STEMS[i] = STEMS[j] => i = j
  /\ \A p \in Parts : \E i \in 1 .. 3 : STEMS[i] = p
  /\ \A i \in 1 .. 3 : STEMS[i] \in Parts
<1>1. STEMS[1] = "harmonics" /\ STEMS[2] = "vocals" /\ STEMS[3] = "drums" /\ Len(STEMS) = 3
  BY DEF STEMS, DERIVED
<1>2. \A i \in 1 .. 3 : i = 1 \/ i = 2 \/ i = 3
  OBVIOUS
<1> QED
  BY <1>1, <1>2 DEF Parts, SHIPPED, DERIVED

LEMMA CopyStemStep == ASSUME DropsInv, NEW n \in DOMAIN item, CopyStem(n) PROVE DropsInv'
<1> DEFINE part == STEMS[item[n].copied + 1]
           Writes(whole) ==
             /\ folder[Dir(n)].there
             /\ folder' = [folder EXCEPT ![Dir(n)].files =
                  With(@, <<part, item[n].entry.format>>,
                       [of |-> item[n].entry.song, gain |-> item[n].entry.gain[part], whole |-> whole])]
<1>1. /\ item[n].at = "copy" /\ item[n].copied < 3 /\ UNCHANGED recent
      /\ \/ Writes(TRUE) /\ item' = [item EXCEPT ![n].copied = @ + 1]
         \/ (Writes(FALSE) \/ UNCHANGED folder) /\ Goes(n, "failed")
  BY StemNames DEF CopyStem, CopyFails
<1>2. /\ DOMAIN folder = Folders /\ \A d \in Folders : DOMAIN folder[d] = {"there", "files", "gains"}
      /\ Dir(n) \in Folders /\ DropInv(n)
  BY OwnFolder DEF DropsInv
<1>3. ASSUME NEW whole, Writes(whole)
      PROVE  /\ DOMAIN folder' = Folders /\ \A d \in Folders : DOMAIN folder'[d] = {"there", "files", "gains"}
             /\ \A d \in Folders \ {Dir(n)} : folder'[d] = folder[d]
             /\ folder'[Dir(n)].there /\ folder'[Dir(n)].gains = folder[Dir(n)].gains
             /\ folder'[Dir(n)].files =
                  With(folder[Dir(n)].files, <<part, item[n].entry.format>>,
                       [of |-> item[n].entry.song, gain |-> item[n].entry.gain[part], whole |-> whole])
  BY <1>2, <1>3
<1>4. CASE (Writes(FALSE) \/ UNCHANGED folder) /\ Goes(n, "failed")
  <2> DEFINE x == [item[n] EXCEPT !.at = "failed"]
  <2>1. item' = [item EXCEPT ![n] = x]
    BY <1>4 DEF Goes
  <2>2. /\ DOMAIN x = DOMAIN item[n] /\ x.at = "failed" /\ x.source = item[n].source /\ x.copied = item[n].copied
        /\ x.disturbed = item[n].disturbed
    BY <1>2 DEF DropInv
  <2>3. item'[n] = x
    BY <2>1
  <2> HIDE DEF x
  <2>4. DropInv(n)'
    BY <1>2, <2>2, <2>3 DEF DropInv
  <2>5. /\ DOMAIN folder' = Folders /\ \A d \in Folders : DOMAIN folder'[d] = {"there", "files", "gains"}
        /\ \A d \in Folders \ {Dir(n)} : folder'[d] = folder[d]
    BY <1>2, <1>3, <1>4
  <2> QED
    BY <1>1, <2>1, <2>2, <2>4, <2>5, OneDrop
<1>5. CASE Writes(TRUE) /\ item' = [item EXCEPT ![n].copied = @ + 1]
  <2> DEFINE x == [item[n] EXCEPT !.copied = @ + 1]
  <2>1. item' = [item EXCEPT ![n] = x]
    BY <1>5
  <2>2. /\ DOMAIN x = DOMAIN item[n] /\ x.at = "copy" /\ x.source = item[n].source
        /\ x.copied = item[n].copied + 1 /\ x.entry = item[n].entry /\ x.disturbed = item[n].disturbed
    BY <1>1, <1>2 DEF DropInv
  <2>3. item'[n] = x /\ \A m \in DOMAIN item \ {n} : item'[m] = item[m]
    BY <2>1
  <2>0. DOMAIN item' = DOMAIN item
    BY <2>1
  <2> HIDE DEF x
  <2>4. PICK c \in 0 .. 2 : item[n].copied = c
    BY <1>1, <1>2 DEF DropInv
  <2>5. item[n].source \in Songs /\ item[n].entry.song = item[n].source
    BY <1>1, <1>2 DEF DropInv
  <2>6. ASSUME ~item[n].disturbed PROVE InFolderInv(n)'
    <3>1. InFolderInv(n)
      BY <1>1, <1>2, <2>6 DEF DropInv
    <3>2. \A m \in DOMAIN item : Dir(m)' = Dir(m)
      BY <2>2, <2>3 DEF Dir
    <3>3. Apart(n)'
      BY <2>0, <2>3, <3>1, <3>2 DEF InFolderInv, Apart
    <3>4. folder[Dir(n)].there
      BY <1>5
    <3>5. \A i \in 1 .. c : Present(n, STEMS[i])
      BY <1>1, <2>4, <3>1, <3>4 DEF InFolderInv
    <3>6. ASSUME NEW i \in 1 .. c + 1 PROVE Present(n, STEMS[i])'
      <4> DEFINE files == folder[Dir(n)].files
                 name(p) == <<p, item[n].entry.format>>
      <4>1. folder'[Dir(n)'].files = With(files, name(part), Copied(n, part))
        BY <1>3, <1>5, <2>5, <3>2 DEF Copied
      <4>2. Copied(n, STEMS[i])' = Copied(n, STEMS[i]) /\ item'[n].entry.format = item[n].entry.format
        BY <2>2, <2>3 DEF Copied
      <4>3. part = STEMS[c + 1]
        BY <2>4
      <4> HIDE DEF part, files
      <4>4. CASE i = c + 1
        BY <4>1, <4>2, <4>3, <4>4 DEF Present, With
      <4>5. CASE i # c + 1
        <5>1. i \in 1 .. c /\ STEMS[i] # STEMS[c + 1]
          <6>1. i \in 1 .. c /\ i \in 1 .. 3 /\ c + 1 \in 1 .. 3
            BY <4>5
          <6> QED
            BY <4>5, <6>1, StemNames
        <5>2. name(STEMS[i]) \in DOMAIN files /\ files[name(STEMS[i])] = Copied(n, STEMS[i])
          BY <3>5, <5>1 DEF Present, files
        <5>3. name(STEMS[i]) # name(part)
          BY <4>3, <5>1
        <5> QED
          BY <4>1, <4>2, <5>2, <5>3 DEF Present, With
      <4> QED
        BY <4>4, <4>5
    <3>7. folder'[Dir(n)'].there /\ item'[n].at # "done" /\ item'[n].copied = c + 1
      BY <1>3, <1>5, <2>2, <2>3, <2>4, <3>2
    <3> QED
      BY <3>3, <3>6, <3>7 DEF InFolderInv
  <2>7. DropInv(n)'
    <3>1. c + 1 \in 0 .. 3
      OBVIOUS
    <3> QED
      BY <1>2, <2>2, <2>3, <2>4, <2>5, <2>6, <3>1 DEF DropInv
  <2> QED
    BY <1>1, <1>3, <1>5, <2>1, <2>2, <2>7, OneDrop
<1> QED
  BY <1>1, <1>4, <1>5

LEMMA WriteGainsStep == ASSUME DropsInv, NEW n \in DOMAIN item, WriteGains(n) PROVE DropsInv'
<1>1. item[n].at = "copy" /\ item[n].copied = 3 /\ UNCHANGED recent
  BY StemNames DEF WriteGains
<1>2. /\ DOMAIN folder = Folders /\ \A d \in Folders : DOMAIN folder[d] = {"there", "files", "gains"}
      /\ Dir(n) \in Folders /\ DropInv(n)
  BY OwnFolder DEF DropsInv
<1>3. CASE Goes(n, "failed") /\ UNCHANGED folder
  BY <1>1, <1>3, FailsStep
<1>4. CASE /\ Goes(n, "done")
           /\ \/ Scaled(n) = {} /\ UNCHANGED folder
              \/ /\ Scaled(n) # {} /\ folder[Dir(n)].there
                 /\ folder' = [folder EXCEPT ![Dir(n)].gains = [p \in Scaled(n) |-> item[n].entry.gain[p]]]
  <2> DEFINE x == [item[n] EXCEPT !.at = "done"]
  <2>1. item' = [item EXCEPT ![n] = x]
    BY <1>4 DEF Goes
  <2>2. /\ DOMAIN x = DOMAIN item[n] /\ x.at = "done" /\ x.source = item[n].source
        /\ x.copied = 3 /\ x.entry = item[n].entry /\ x.disturbed = item[n].disturbed
    BY <1>1, <1>2 DEF DropInv
  <2>3. item'[n] = x /\ (\A m \in DOMAIN item \ {n} : item'[m] = item[m]) /\ DOMAIN item' = DOMAIN item
    BY <2>1
  <2> HIDE DEF x
  <2>4. /\ DOMAIN folder' = Folders /\ \A d \in Folders : DOMAIN folder'[d] = {"there", "files", "gains"}
        /\ \A d \in Folders \ {Dir(n)} : folder'[d] = folder[d]
        /\ folder'[Dir(n)].there = folder[Dir(n)].there /\ folder'[Dir(n)].files = folder[Dir(n)].files
    BY <1>2, <1>4
  <2>5. ASSUME ~item[n].disturbed PROVE InFolderInv(n)'
    <3>1. InFolderInv(n)
      BY <1>1, <1>2, <2>5 DEF DropInv
    <3>2. \A m \in DOMAIN item : Dir(m)' = Dir(m)
      BY <2>2, <2>3 DEF Dir
    <3>3. Apart(n)'
      BY <2>2, <2>3, <3>1, <3>2 DEF InFolderInv, Apart
    <3>4. \A p : Present(n, p)' = Present(n, p)
      BY <2>2, <2>3, <2>4, <3>2 DEF Present, Copied
    <3>5. ASSUME ~folder'[Dir(n)'].there PROVE \E m \in DOMAIN item' \ {n} : Dir(m)' = Dir(n)'
      <4>1. ~folder[Dir(n)].there
        BY <2>4, <3>2, <3>5
      <4>2. \E m \in DOMAIN item \ {n} : Dir(m) = Dir(n)
        BY <1>1, <3>1, <4>1 DEF InFolderInv
      <4> QED
        BY <2>3, <3>2, <4>2
    <3>6. ASSUME folder'[Dir(n)'].there PROVE \A i \in 1 .. item'[n].copied : Present(n, STEMS[i])'
      <4>1. folder[Dir(n)].there
        BY <2>4, <3>2, <3>6
      <4>2. \A i \in 1 .. 3 : Present(n, STEMS[i])
        BY <1>1, <3>1, <4>1 DEF InFolderInv
      <4>3. item'[n].copied = 3
        BY <2>2, <2>3
      <4> QED
        BY <3>4, <4>2, <4>3
    <3>7. ASSUME NEW p \in Scaled(n)'
          PROVE  p \in DOMAIN folder'[Dir(n)'].gains /\ folder'[Dir(n)'].gains[p] = item'[n].entry.gain[p]
      <4>1. p \in Scaled(n) /\ item'[n].entry = item[n].entry
        BY <2>2, <2>3, <3>7 DEF Scaled
      <4>2. folder' = [folder EXCEPT ![Dir(n)].gains = [q \in Scaled(n) |-> item[n].entry.gain[q]]]
        BY <1>4, <4>1
      <4>3. folder'[Dir(n)].gains = [q \in Scaled(n) |-> item[n].entry.gain[q]]
        BY <1>2, <4>2
      <4> QED
        BY <3>2, <4>1, <4>3
    <3> QED
      BY <3>3, <3>5, <3>6, <3>7 DEF InFolderInv
  <2>6. DropInv(n)'
    BY <1>1, <1>2, <2>2, <2>3, <2>5 DEF DropInv
  <2> QED
    BY <1>1, <2>1, <2>2, <2>4, <2>6, OneDrop
<1> QED
  BY <1>3, <1>4 DEF WriteGains

\* A row that goes takes no other drop's with it, but may take its folder.
LEMMA RowsGo ==
  ASSUME DropsInv, NEW n \in DOMAIN item, UNCHANGED item, recent' = recent \ {n}, item[n].at # "copy",
         UNCHANGED folder \/ (item[n].at = "done" /\ folder' = [folder EXCEPT ![Dir(n)] = NoFolder])
  PROVE  DropsInv'
<1>1. /\ DOMAIN folder = Folders /\ \A d \in Folders : DOMAIN folder[d] = {"there", "files", "gains"}
      /\ \A m \in DOMAIN item : Dir(m) \in Folders /\ DropInv(m)
  BY OwnFolder DEF DropsInv
<1>2. /\ DOMAIN folder' = Folders /\ \A d \in Folders : DOMAIN folder'[d] = {"there", "files", "gains"}
      /\ \A d \in Folders \ {Dir(n)} : folder'[d] = folder[d]
      /\ folder'[Dir(n)] = folder[Dir(n)] \/ folder'[Dir(n)].there = FALSE
  BY <1>1 DEF NoFolder
<1>3. \A m \in DOMAIN item : Dir(m)' = Dir(m)
  BY DEF Dir
<1>4. ASSUME NEW m \in DOMAIN item PROVE DropInv(m)'
  <2>1. CASE folder'[Dir(m)] = folder[Dir(m)]
    <3>1. \A k \in DOMAIN item' \ {m} : item'[k].at = "copy" /\ Dir(k)' = Dir(m) =>
            k \in DOMAIN item /\ item[k].at = "copy" /\ Dir(k) = Dir(m)
      BY <1>3
    <3>2. m \in recent' => m \in recent
      OBVIOUS
    <3> QED
      BY <1>1, <2>1, <3>1, <3>2, LeftAlone
  <2>2. CASE folder'[Dir(m)] # folder[Dir(m)]
    <3>1. Dir(m) = Dir(n) /\ folder'[Dir(m)].there = FALSE
      BY <1>1, <1>2, <2>2
    <3>2. ASSUME InFolderInv(m) PROVE InFolderInv(m)'
      <4>1. Apart(m)'
        BY <1>3, <3>2 DEF InFolderInv, Apart
      <4>2. ~folder'[Dir(m)'].there
        BY <1>3, <3>1
      <4>3. ASSUME (item[m].at = "copy" \/ m \in recent)' PROVE \E k \in DOMAIN item' \ {m} : Dir(k)' = Dir(m)'
        <5>1. m # n
          BY <4>3
        <5> QED
          BY <1>3, <3>1, <5>1
      <4> QED
        BY <4>1, <4>2, <4>3 DEF InFolderInv
    <3> QED
      BY <1>1, <3>2 DEF DropInv
  <2> QED
    BY <2>1, <2>2
<1>5. recent' \subseteq DOMAIN item' /\ item' \in Seq(Range(item'))
  BY DEF DropsInv
<1> QED
  BY <1>2, <1>4, <1>5 DEF DropsInv, Folders

\* A folder left half deleted is nobody's to answer for.
LEMMA HalfDeletedStep ==
  ASSUME DropsInv, NEW n \in DOMAIN item, HalfDeleted(n), recent' = recent \ {n}
  PROVE  DropsInv'
<1>1. PICK left, gains :
        folder' = [folder EXCEPT ![Dir(n)].files = Restrict(@, left), ![Dir(n)].gains = gains]
  BY DEF HalfDeleted
<1>2. Dir(n) \in Folders /\ DOMAIN folder = Folders
      /\ \A d \in Folders : DOMAIN folder[d] = {"there", "files", "gains"}
  BY OwnFolder DEF DropsInv
<1>3. /\ DOMAIN folder' = Folders /\ \A d \in Folders : DOMAIN folder'[d] = {"there", "files", "gains"}
      /\ \A d \in Folders : d # Dir(n) => folder'[d] = folder[d]
  BY <1>1, <1>2
<1>4. item' = [m \in DOMAIN item |-> [item[m] EXCEPT !.disturbed = @ \/ Dir(m) = Dir(n)]]
  BY DEF HalfDeleted
<1>5. item' \in Seq(Range(item')) /\ DOMAIN item' = DOMAIN item
  BY <1>4, SameSeq DEF DropsInv
<1>6. ASSUME NEW m \in DOMAIN item
      PROVE  /\ DOMAIN item'[m] = DOMAIN item[m] /\ item'[m].source = item[m].source /\ item'[m].at = item[m].at
             /\ item'[m].entry = item[m].entry /\ item'[m].copied = item[m].copied
             /\ item'[m].disturbed = (item[m].disturbed \/ Dir(m) = Dir(n)) /\ item'[m].disturbed \in BOOLEAN
             /\ Dir(m) # Dir(n) => item'[m].disturbed = item[m].disturbed
  <2>1. DropInv(m)
    BY DEF DropsInv
  <2>2. DOMAIN item[m] = {"source", "at", "output", "entry", "copied", "disturbed"} /\ item[m].disturbed \in BOOLEAN
    BY <2>1 DEF DropInv
  <2>3. item'[m] = [item[m] EXCEPT !.disturbed = @ \/ Dir(m) = Dir(n)]
    BY <1>4
  <2>4. item'[m].disturbed = (item[m].disturbed \/ Dir(m) = Dir(n))
    BY <2>2, <2>3, Zenon
  <2>5. (item[m].disturbed \/ Dir(m) = Dir(n)) \in BOOLEAN
    BY Zenon
  <2>6. Dir(m) # Dir(n) => (item[m].disturbed \/ Dir(m) = Dir(n)) = item[m].disturbed
    BY <2>2
  <2> QED
    BY <2>2, <2>3, <2>4, <2>5, <2>6
<1>7. \A m \in DOMAIN item : Dir(m)' = Dir(m)
  BY <1>6 DEF Dir
<1>8. ASSUME NEW m \in DOMAIN item PROVE DropInv(m)'
  <2>1. DropInv(m)
    BY DEF DropsInv
  <2>2. CASE Dir(m) = Dir(n)
    <3>1. item'[m].disturbed
      BY <1>6, <2>2
    <3> QED
      BY <1>6, <2>1, <3>1 DEF DropInv
  <2>3. CASE Dir(m) # Dir(n)
    <3>1. folder'[Dir(m)] = folder[Dir(m)]
      BY <1>3, <2>3, OwnFolder
    <3>2. \A k \in DOMAIN item' \ {m} : item'[k].at = "copy" /\ Dir(k)' = Dir(m) =>
            k \in DOMAIN item /\ item[k].at = "copy" /\ Dir(k) = Dir(m)
      BY <1>5, <1>6, <1>7
    <3> QED
      BY <1>5, <1>6, <2>1, <2>3, <3>1, <3>2, LeftAlone
  <2> QED
    BY <2>2, <2>3
<1>9. recent' \subseteq DOMAIN item'
  BY <1>5 DEF DropsInv
<1> QED
  BY <1>3, <1>5, <1>8, <1>9 DEF DropsInv, Folders

LEMMA RowStep == ASSUME DropsInv, NEW n \in DOMAIN item, Discard(n) \/ OpenRow(n) PROVE DropsInv'
<1>1. recent' = recent \ {n} /\ item[n].at # "copy"
  BY DEF Discard, OpenRow, Forget, IsRunning
<1>2. \/ HalfDeleted(n)
      \/ /\ UNCHANGED item
         /\ UNCHANGED folder \/ (item[n].at = "done" /\ folder' = [folder EXCEPT ![Dir(n)] = NoFolder])
  BY DEF Discard, OpenRow
<1> QED
  BY <1>1, <1>2, RowsGo, HalfDeletedStep

LEMMA SameDrops == ASSUME DropsInv, UNCHANGED <<item, recent, folder>> PROVE DropsInv'
<1>1. \A n \in DOMAIN item : DropInv(n)'
  <2> SUFFICES ASSUME NEW n \in DOMAIN item PROVE DropInv(n)'
    OBVIOUS
  <2>1. DropInv(n)
    BY DEF DropsInv
  <2>2. \A m \in DOMAIN item : Dir(m)' = Dir(m)
    BY DEF Dir
  <2> QED
    BY <2>1, <2>2, LeftAlone
<1> QED
  BY <1>1 DEF DropsInv, Folders

LEMMA DropsKeep == ASSUME DropsInv, DropsNext \/ UNCHANGED DropsSees PROVE DropsInv'
<1>1. CASE UNCHANGED <<item, recent, folder>>
  BY <1>1, SameDrops
<1>2. CASE \E song \in Songs : Accept(song)
  BY <1>2, AcceptStep
<1>3. CASE \E n \in DOMAIN item : \/ Read(n) \/ SeparateDrop(n) \/ OpenFolder(n) \/ CopyStem(n)
                                  \/ WriteGains(n) \/ Discard(n) \/ OpenRow(n)
  BY <1>3, ReadStep, SeparateDropStep, OpenFolderStep, CopyStemStep, WriteGainsStep, RowStep
<1> QED
  BY <1>1, <1>2, <1>3 DEF DropsNext, DropStep, PickFormat, SwitchModel, DropsSees, dropVars

LEMMA DropsBegin == ASSUME DropsInit PROVE DropsInv
<1>1. item = <<>> /\ recent = {} /\ folder = [d \in Folders |-> NoFolder]
  BY DEF DropsInit, Folders
<1>2. item \in Seq(Range(item))
  BY <1>1
<1>3. DOMAIN item = {}
  BY <1>1, EmptyDomain, Zenon
<1> QED
  BY <1>1, <1>2, <1>3 DEF DropsInv, NoFolder

LEMMA RowsAreTrue == ASSUME DropsInv PROVE DropsAreWritten
<1> SUFFICES ASSUME NEW n \in recent, item[n].at = "done", ~item[n].disturbed
             PROVE  LET entry == item[n].entry
                        at == folder[Dir(n)]
                    IN  IF ~at.there THEN \E m \in DOMAIN item \ {n} : Dir(m) = Dir(n)
                        ELSE \A p \in Parts :
                               /\ <<p, entry.format>> \in DOMAIN at.files
                               /\ at.files[<<p, entry.format>>] =
                                    [of |-> item[n].source, gain |-> entry.gain[p], whole |-> TRUE]
                               /\ entry.gain[p] = FULL \/ (p \in DOMAIN at.gains /\ at.gains[p] = entry.gain[p])
  BY DEF DropsAreWritten
<1>1. DropInv(n)
  BY DEF DropsInv
<1>2. InFolderInv(n) /\ item[n].copied = 3
  BY <1>1 DEF DropInv
<1>3. CASE ~folder[Dir(n)].there
  BY <1>2, <1>3 DEF InFolderInv
<1>4. CASE folder[Dir(n)].there
  <2> SUFFICES ASSUME NEW p \in Parts
               PROVE  /\ Present(n, p)
                      /\ item[n].entry.gain[p] = FULL
                           \/ (p \in DOMAIN folder[Dir(n)].gains /\ folder[Dir(n)].gains[p] = item[n].entry.gain[p])
    BY <1>4 DEF Present, Copied
  <2>1. Present(n, p)
    BY <1>2, <1>4, StemNames DEF InFolderInv
  <2>2. p \in Scaled(n) =>
          p \in DOMAIN folder[Dir(n)].gains /\ folder[Dir(n)].gains[p] = item[n].entry.gain[p]
    BY <1>2, <1>4 DEF InFolderInv
  <2> QED
    BY <2>1, <2>2 DEF Scaled
<1> QED
  BY <1>3, <1>4

-----------------------------------------------------------------------------
(* The theorems *)

Inv == TrackInv /\ PipeInv /\ ClientInv /\ DropsInv

LEMMA Begins == ASSUME DropsInit PROVE Inv
  BY DropsBeginATrack, InitTrack, TrackAssumption, PipeBegins, ClientBegins, DropsBegin DEF Inv

LEMMA Keeps == ASSUME Inv, [DropsNext]_DropsSees PROVE Inv'
<1>1. TrackInv'
  BY StepsOfATrack, StepTrack, TrackAssumption DEF Inv
<1> QED
  BY <1>1, PipeKeeps, ClientKeeps, DropsKeep DEF Inv

\* Where an upload, its client and the window are, together: the invariant the rest
\* follows from.
THEOREM UploadsKeepTheirShape == DropsSpec => []Inv
<1>1. DropsInit => Inv
  BY Begins
<1>2. Inv /\ [DropsNext]_<<clientVars, dropVars>> => Inv'
  BY Keeps DEF DropsSees
<1> QED
  BY <1>1, <1>2, PTL DEF DropsSpec

\* A request is turned away at the door, or it is served: no limit, format, rate or
\* filter that parse let through fails once the separation has been paid for, the body
\* limit spares every track that is short enough, and the client's own limit is the
\* server's.
THEOREM DoorsAgree == DropsSpec => []AdmissionAgrees
<1>1. Inv => AdmissionAgrees
  BY Admits, BodyLimitSpares, LimitsMeet DEF Inv, AdmissionAgrees
<1> QED
  BY <1>1, UploadsKeepTheirShape, PTL

\* What comes back, fresh or out of the cache, is what this very request asked for,
\* to the sample, on however many threads it was converted.
THEOREM AskedIsServed == DropsSpec => []ServedAsAsked
<1>1. Inv => ServedAsAsked
  BY WhatWasAsked, SlicesDoAgree DEF Inv, ServedAsAsked
<1> QED
  BY <1>1, UploadsKeepTheirShape, PTL

\* The parts sum to the mix: in the server, through the faders, under a chained preset,
\* and in the files a client writes, whether the derived part was sent or rebuilt.
THEOREM NothingIsLost == DropsSpec => []PartsSum
<1>1. Inv => PartsSum
  <2>1. ASSUME Inv PROVE RebuiltSums
    <3>1. cli.at = "written" => RebuiltSums
      BY <2>1 DEF Inv, ClientInv, FilesInv
    <3> QED
      BY <3>1 DEF RebuiltSums
  <2> QED
    BY <2>1, SumsToTheMix DEF Inv, PartsSum
<1> QED
  BY <1>1, UploadsKeepTheirShape, PTL

\* Every gain taken on the way is given back: what a model was normalised by, the
\* headroom of a stem over full scale, and the one scale of a set that is written.
THEOREM GainsAreGivenBack == DropsSpec => []LevelsAreKept
<1>1. Inv => LevelsAreKept
  <2>1. ASSUME Inv PROVE WrittenTogether
    <3>1. cli.at \in Writing => WrittenTogether
      BY <2>1 DEF Inv, ClientInv, FilesInv, Writing
    <3> QED
      BY <3>1 DEF WrittenTogether, Writing
  <2> QED
    BY <2>1, IsFedAsTrained, IsRestored DEF Inv, LevelsAreKept
<1> QED
  BY <1>1, UploadsKeepTheirShape, PTL

\* A row that says done tells the truth of its folder, unless another drop of that
\* title has written there since, however drops, crosses, failures and menus interleave.
THEOREM DoneRowsAreTrue == DropsSpec => []DropsAreWritten
<1>1. Inv => DropsAreWritten
  BY RowsAreTrue DEF Inv
<1> QED
  BY <1>1, UploadsKeepTheirShape, PTL
=============================================================================
