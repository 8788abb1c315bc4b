--------------------------- MODULE TrackProperties ---------------------------
(***************************************************************************)
(* What is claimed of one separation.                                       *)
(***************************************************************************)
EXTENDS Track

\* The type of every variable.
TrackTypeOK ==
  /\ length \in Lengths
  /\ overlap \in Overlaps
  /\ chunk \in Seq(Chunks) /\ Len(chunk) \in 1 .. 2
  /\ half \in 1 .. Len(chunk)
  /\ offset \in Nat
  /\ out \in [Places -> SUBSET (Places \cup {Pad})]
  /\ sum_weight \in [Places -> Nat]
  /\ cancel \in BOOLEAN
  /\ bar \in 0 .. Floor("reconstructing")
  /\ pc \in {"analyse", "begin", "chunks", "divided", "separated",
             "cancelled", "empty", "strideless", "uncovered"}

\* Every chunk's output is added in at the samples it was made of: no window is
\* shifted and no padding reaches the result.  (over_track: "shifts the last
\* segment by half the shortfall, which is inaudible on its own and nulls at -3 dB".)
Aligned == \A t \in Places : out[t] \subseteq {t}

\* No overlap the program means leaves a sample without a weight to divide by:
\* only a negative --overlap runs the whole track and then fails.
NeverUncovered == overlap >= 0 => pc # "uncovered"

\* The bar a client polls never goes back, over the chunks, the two halves and
\* the stages.  (hybrid.rs: "Both halves report onto one bar".)
BarNeverGoesBack == [][bar' >= bar]_vars

\* A flag raised among the chunks of either half ends the separation in that half,
\* and from then on no chunk is separated.  (hybrid.rs: "Setting a flag and reading
\* it afterwards is the version that looks right and freezes".)
CancelEndsIt ==
  /\ \A h \in 1 .. 2 : cancel /\ pc = "chunks" /\ half = h ~> pc = "cancelled" /\ half = h
  /\ [][cancel /\ pc = "chunks" => offset' = offset]_vars
=============================================================================
