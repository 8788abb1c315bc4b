-------------------------------- MODULE Track --------------------------------
(***************************************************************************)
(* One separation of one track: over_track (stemd-mlx/src/apply.rs) cuts it *)
(* into overlapping chunks and crossfades what the model makes of them, and *)
(* the separators (stemd-core/src/hybrid.rs, mlx.rs) run it once per half,  *)
(* reporting on one bar and stopping where the sink says so.                *)
(*                                                                         *)
(* A sample is its index.  The model is the identity on indices, so that   *)
(* what ends up at a place of the result names the sample it belongs to.   *)
(***************************************************************************)
EXTENDS Integers, Sequences, FiniteSets

CONSTANTS
  Lengths,   \* how many frames a track may have
  Chunks,    \* how many samples a model may run on at once
  Overlaps   \* --overlap, in hundredths of a chunk

ASSUME TrackAssumption ==
  /\ Lengths \subseteq Nat
  /\ Chunks \subseteq Nat \ {0}
  /\ Overlaps \subseteq Int

Pad == -1         \* the zeros beyond either end of the track
UNITS == 1000
VOCALS_UNITS == 900

VARIABLES
  length,     \* frames of the mix
  overlap,
  chunk,      \* the chunk of each half's model: one for demucs, two for a hybrid
  half,       \* the half that is running
  offset,     \* where its next chunk begins
  out,        \* for each place, the samples added into it
  sum_weight, \* for each place, the weights added
  cancel,     \* the flag the sink reads
  bar,        \* Progress.fraction, in ten-thousandths
  pc

track == <<length, overlap, chunk>>
vars  == <<track, half, offset, out, sum_weight, cancel, bar, pc>>

Minimum(a, b) == IF a < b THEN a ELSE b
Places == 0 .. length - 1

-----------------------------------------------------------------------------
(* The window of a chunk *)

segment == chunk[half]
stride == ((100 - overlap) * segment) \div 100

take  == Minimum(segment, length - offset)
delta == segment - take

\* The window is centred on a short chunk, not padded on its right.
Start == offset - (delta \div 2)

\* What the model is given at position p of the window.
Fed(p) == IF Start + p \in Places THEN Start + p ELSE Pad

\* The output is centred too: this position of it belongs at `offset`.
trim_FromZero == 0
trim == delta \div 2

\* transition_weight: rising 1 .. half, then falling.
Weight_ToZero(i) == IF i < segment \div 2 THEN i ELSE segment - i
Weight(i) == IF i < segment \div 2 THEN i + 1 ELSE segment - i

Covers(t) == offset <= t /\ t < offset + take

-----------------------------------------------------------------------------
(* The bar *)

Floor(stage) == CASE stage = "analysing"      -> 200
                  [] stage = "separating"     -> 1000
                  [] stage = "reconstructing" -> 9000

\* Progress::counted(Separating, completed, total): that share of the stage,
\* whose ceiling is the next one's floor.
Counted(completed, total) ==
  LET width == Floor("reconstructing") - Floor("separating")
  IN  Floor("separating") + (IF total = 0 THEN 0 ELSE (width * completed) \div total)

\* How much of the bar each half has, and where it begins.
VocalsUnits == IF chunk[1] = chunk[2] THEN UNITS \div 2 ELSE VOCALS_UNITS
Base == IF half = 1 THEN 0 ELSE VocalsUnits
Span == IF half = 1 THEN VocalsUnits ELSE UNITS - VocalsUnits

Within_NoBase(done, total) == Counted((done * Span) \div total, UNITS)
Within(done, total) == Counted(Minimum(Base + (done * Span) \div total, UNITS), UNITS)

Report(done, total) == IF Len(chunk) = 1 THEN Counted(done, total) ELSE Within(done, total)

Total == (length + stride - 1) \div stride   \* offsets.len()
Done  == offset \div stride

-----------------------------------------------------------------------------
Blank == /\ offset' = 0
         /\ out' = [t \in Places |-> {}]
         /\ sum_weight' = [t \in Places |-> 0]

Init ==
  /\ length \in Lengths
  /\ overlap \in Overlaps
  /\ chunk \in {<<c>> : c \in Chunks} \cup {<<c, d>> : c, d \in Chunks}
  /\ half = 1 /\ offset = 0
  /\ out = [t \in Places |-> {}]
  /\ sum_weight = [t \in Places |-> 0]
  /\ cancel = FALSE
  /\ bar = 0
  /\ pc = "analyse"

\* A DELETE raises the flag on another thread.
Cancel ==
  /\ ~cancel
  /\ cancel' = TRUE
  /\ UNCHANGED <<track, half, offset, out, sum_weight, bar, pc>>

Analyse ==
  /\ pc = "analyse"
  /\ bar' = IF length # 0 /\ Len(chunk) = 2 THEN Floor("separating") ELSE Floor("analysing")
  /\ pc' = IF length = 0 THEN "empty" ELSE "begin"
  /\ UNCHANGED <<track, half, offset, out, sum_weight, cancel>>

\* An overlap that leaves no stride is refused before any chunk.
Begin ==
  /\ pc = "begin"
  /\ pc' = IF stride < 1 THEN "strideless" ELSE "chunks"
  /\ UNCHANGED <<track, half, offset, out, sum_weight, cancel, bar>>

\* The callback refuses to go on, before a chunk or after the last.
Refuse_InTheLastHalf == cancel /\ half = Len(chunk)
Refuse == cancel

Stopped ==
  /\ pc = "chunks"
  /\ Refuse
  /\ pc' = "cancelled"
  /\ UNCHANGED <<track, half, offset, out, sum_weight, cancel, bar>>

\* One chunk is reported, separated and added in.
Chunk ==
  /\ pc = "chunks" /\ offset < length
  /\ ~Refuse
  /\ bar' = Report(Done, Total)
  /\ out' = [t \in Places |-> IF Covers(t) THEN out[t] \cup {Fed(trim + (t - offset))} ELSE out[t]]
  /\ sum_weight' = [t \in Places |-> sum_weight[t] + (IF Covers(t) THEN Weight(t - offset) ELSE 0)]
  /\ offset' = offset + stride
  /\ UNCHANGED <<track, half, cancel, pc>>

\* Past the last chunk the weights are looked at before they are divided by.
Divide ==
  /\ pc = "chunks" /\ offset >= length
  /\ ~Refuse
  /\ bar' = Report(Total, Total)
  /\ pc' = IF \E t \in Places : sum_weight[t] <= 0 THEN "uncovered" ELSE "divided"
  /\ UNCHANGED <<track, half, offset, out, sum_weight, cancel>>

NextHalf ==
  /\ pc = "divided" /\ half < Len(chunk)
  /\ half' = half + 1
  /\ Blank
  /\ pc' = "begin"
  /\ UNCHANGED <<track, cancel, bar>>

Reconstruct ==
  /\ pc = "divided" /\ half = Len(chunk)
  /\ bar' = Floor("reconstructing")
  /\ pc' = "separated"
  /\ UNCHANGED <<track, half, offset, out, sum_weight, cancel>>

Next == Cancel \/ Analyse \/ Begin \/ Stopped \/ Chunk \/ Divide \/ NextHalf \/ Reconstruct

Spec == Init /\ [][Next]_vars
FairSpec == Spec /\ WF_vars(Next)
=============================================================================
