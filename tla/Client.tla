------------------------------- MODULE Client -------------------------------
(***************************************************************************)
(* The command-line client (stemd-cli) on top of Pipeline: it finds a       *)
(* server, asks it what it takes, decodes a file (AudioFile), uploads it,   *)
(* waits, fetches the stems one by one, rebuilds the part that was not      *)
(* sent, and writes the parts.                                              *)
(*                                                                         *)
(* A case with a client has no request of its own: the client submits it.   *)
(* One with neither is the window's: see Drops.                             *)
(***************************************************************************)
EXTENDS Pipeline, AudioFile

\* What decoding a case's file comes to, and that its client is the only one.
ASSUME ClientAssumption ==
  \A case \in Cases : "args" \in DOMAIN case =>
    /\ case.requests = <<>>
    /\ LET decoded == DecodeFile(case.file)
       IN  IsRefused(decoded) \/ decoded \in [frames : Nat \ {0}, channels : {2}, rate : Nat \ {0}]

VARIABLE
  cli   \* what the client holds; at = "none" where the requests come from elsewhere

clientVars == <<allVars, cli>>

file == cli.file
args == cli.args

\* Health, as this server fills it in; an older one names no rates or modes.
Health ==
  [sample_rate |-> MODEL_RATE, max_track |-> MaxTrack,
   rates |-> IF args.older THEN {} ELSE OutputRates,
   modes |-> IF args.older THEN {} ELSE DspModes]

\* check_rate: what is not advertised is left to the server to refuse.
RateIsOffered ==
  /\ args.rate # 0 /\ Health.rates # {} => args.rate \in Health.rates
  /\ args.dsp # -1 /\ Health.modes # {} => args.dsp \in Health.modes

\* load_input's limit, in the server's own terms.
TooLongHere(decoded) == decoded.frames * HighestRate > Health.max_track * decoded.rate

\* Formats and submit: always a pair of channels, and only what was asked for is named.
Submission(c, decoded) ==
  [body |-> "file", channels |-> 2, rate |-> decoded.rate,
   in      |-> IF c.args.f32 THEN "f32le" ELSE "s16le",
   bytes   |-> decoded.frames * 2 * BytesPerSample(IF c.args.f32 THEN "f32le" ELSE "s16le"),
   format  |-> IF c.args.f32 THEN "pcm32" ELSE "flac",
   out     |-> c.args.rate,
   derived |-> c.args.derived,
   dsp     |-> IF c.args.dsp = -1 THEN 0 ELSE c.args.dsp,
   finite  |-> TRUE]

\* The mix as it was decoded: no filter of the server's has touched it.
LocalMix == [of |-> Only(Sounds), path |-> <<>>, norm |-> <<>>]

Result == CHOOSE e \in index : e.key = Key(req, sub)

\* The parts in the order of the entry, and those of some whose turn it is.
STEMS == <<"harmonics", "vocals", DERIVED>>
Turn(p) == CHOOSE i \in DOMAIN STEMS : STEMS[i] = p
InTurn(rest) == {p \in rest : \A q \in rest : Turn(p) <= Turn(q)}

\* A part, file or stem that is added to those that are there, or replaces one.
With(parts, p, part) == [q \in DOMAIN parts \cup {p} |-> IF q = p THEN part ELSE parts[q]]

\* subtract, and what assemble makes of the stems that came.
Rebuilt(fetched) == Minus(Minus(LocalMix, fetched["harmonics"].samples), fetched["vocals"].samples)

Assembled(fetched, peak) ==
  IF DERIVED \in DOMAIN fetched \/ Result.rate # cli.audio.rate THEN fetched
  ELSE With(fetched, DERIVED, [samples |-> Rebuilt(fetched), level |-> peak, origin |-> "rebuilt here"])

\* Encoding::choose: one divisor for every part of a FLAC set, none for a wav.
Divisor_AsItGoes(parts) ==
  IF args.wav_f32 THEN FULL
  ELSE Max({FULL} \cup {parts[q].level : q \in InTurn(DOMAIN parts \ DOMAIN cli.written) \cup DOMAIN cli.written})
Divisor(parts) ==
  IF args.wav_f32 THEN FULL ELSE Max({FULL} \cup {parts[q].level : q \in DOMAIN parts})

\* output::write: a FLAC is clamped, a wav is not.
FileLevel(part, divisor) ==
  IF args.wav_f32 THEN part.level ELSE Least((part.level * FULL) \div divisor, FULL)

\* reconstruction_null_db, where the rates agree: what the parts do not add up to.
Unexplained(parts) ==
  [s \in Sounds |-> LocalMix.of[s] - SumFunction([p \in DOMAIN parts |-> parts[p].samples.of[s]])]
Reconstruction(parts) == IF Result.rate = cli.audio.rate THEN {Unexplained(parts)} ELSE {}

-----------------------------------------------------------------------------
\* What the client would upload if it gets that far; the track it makes is fixed
\* with the case, as Track wants it.
ClientInit ==
  \E case \in Cases :
    /\ defaults = case.defaults
    /\ chunk = case.chunk
    /\ overlap = case.overlap
    /\ cli = IF "args" \notin DOMAIN case THEN [at |-> "none"]
             ELSE [at |-> "connect", args |-> case.args, file |-> case.file,
                   audio |-> Nothing, fetched |-> <<>>, parts |-> <<>>, written |-> <<>>,
                   null |-> {}]
    /\ requests = IF "args" \notin DOMAIN case THEN case.requests
                  ELSE LET decoded == DecodeFile(case.file)
                       IN  IF IsRefused(decoded) THEN <<>> ELSE <<Submission(case, decoded)>>
    /\ length = IF requests = <<>> THEN 0 ELSE TrackLength(req)
    /\ Init
    /\ sub = Nothing /\ audio = Nothing /\ stems = Nothing /\ shipped = Nothing
    /\ phase = IF case.requests # <<>> THEN "post" ELSE "idle"
    /\ index = {}

GoTo(place) == cli' = [cli EXCEPT !.at = place]

\* The first server that resolves to an IPv4 address before the deadline, if any.
Discover == GoTo("health") \/ GoTo("no server")

Connect ==
  /\ cli.at = "connect"
  /\ IF args.host THEN GoTo("health") ELSE Discover
  /\ UNCHANGED allVars

CheckRate ==
  /\ cli.at = "health"
  /\ GoTo(IF RateIsOffered THEN "load" ELSE "not offered")
  /\ UNCHANGED allVars

LoadInput ==
  /\ cli.at = "load"
  /\ LET decoded == DecodeFile(file)
     IN  IF IsRefused(decoded) THEN GoTo("undecoded")
         ELSE cli' = [cli EXCEPT !.audio = decoded,
                                 !.at = IF TooLongHere(decoded) THEN "too long here" ELSE "upload"]
  /\ UNCHANGED allVars

Submit ==
  /\ cli.at = "upload"
  /\ phase' = "post"
  /\ GoTo("wait")
  /\ UNCHANGED <<vars, requests, defaults, sub, audio, stems, shipped, index>>

Wait ==
  /\ cli.at = "wait" /\ phase \in Answered
  /\ GoTo(IF phase \in {"done", "hit"} THEN "fetch" ELSE "told")
  /\ UNCHANGED allVars

\* The next stem, its transfer gain undone.
Fetch ==
  /\ cli.at = "fetch"
  /\ \E p \in InTurn(DOMAIN Result.parts \ DOMAIN cli.fetched) :
       cli' = [cli EXCEPT !.fetched =
                 With(@, p, [samples |-> Result.parts[p], origin |-> "downloaded",
                             level |-> (Result.peak[p] * Result.gain[p]) \div FULL])]
  /\ UNCHANGED allVars

\* write_parts: the parts put together, and the folder for them, which may fail.
Assemble ==
  /\ cli.at = "fetch" /\ DOMAIN cli.fetched = DOMAIN Result.parts
  /\ \/ GoTo("unwritten")
     \/ \E peak \in {FULL, FULL + Loudness} :
          cli' = [cli EXCEPT !.at = "write", !.parts = Assembled(cli.fetched, peak)]
  /\ UNCHANGED allVars

\* The next file.  One that fails ends it: what was begun of that file stays, and
\* so do the files before it.
WritePart ==
  /\ cli.at = "write"
  /\ \E p \in InTurn(DOMAIN cli.parts \ DOMAIN cli.written) :
     LET File(whole) ==
           [part |-> cli.parts[p], level |-> FileLevel(cli.parts[p], Divisor(cli.parts)), whole |-> whole]
     IN  \/ cli' = [cli EXCEPT !.written = With(@, p, File(TRUE))]
         \/ cli' = [cli EXCEPT !.at = "unwritten", !.written = With(@, p, File(FALSE))]
         \/ GoTo("unwritten")
  /\ UNCHANGED allVars

\* report_reconstruction, once they are all there.
ReportNull ==
  /\ cli.at = "write" /\ DOMAIN cli.written = DOMAIN cli.parts
  /\ cli' = [cli EXCEPT !.at = "written", !.null = Reconstruction(cli.parts)]
  /\ UNCHANGED allVars

\* Any of its calls may fail, and nothing is written then.
Unreachable ==
  /\ cli.at \in {"health", "upload", "wait", "fetch"}
  /\ GoTo("unreachable")
  /\ UNCHANGED allVars

ClientNext ==
  \/ PipelineNext /\ UNCHANGED cli
  \/ Connect \/ CheckRate \/ LoadInput \/ Submit \/ Wait \/ Fetch \/ Assemble \/ WritePart
  \/ ReportNull \/ Unreachable

ClientSpec == ClientInit /\ [][ClientNext]_clientVars

\* The server goes on with what it has begun.
FairClientSpec == ClientSpec /\ WF_clientVars(PipelineNext /\ UNCHANGED cli)
=============================================================================
