---------------------------- MODULE TrackProofs ----------------------------
(***************************************************************************)
(* That the chunks of a track add up, for tracks, chunks and overlaps of   *)
(* every size.                                                             *)
(***************************************************************************)
EXTENDS TrackProperties, TLAPS

\* Whatever the track: the parts of the state the windows are computed from.
Shape ==
  /\ length \in Nat
  /\ overlap \in Int
  /\ chunk \in Seq(Nat \ {0})
  /\ half \in 1 .. Len(chunk)
  /\ offset \in Nat
  /\ out \in [Places -> SUBSET Int]
  /\ sum_weight \in [Places -> Nat]
  /\ pc = "chunks" => stride >= 1

\* The samples behind `offset` have been given a weight, chunk after chunk, and
\* the weights are only looked at once that is all of them.
CoveredBehind ==
  overlap >= 0 =>
    /\ pc \in {"analyse", "begin"} => offset = 0
    /\ pc = "chunks" => \A t \in Places : t < offset => sum_weight[t] > 0
    /\ pc # "uncovered"

TrackInv == Shape /\ Aligned /\ CoveredBehind

\* A stride is never longer than the chunk it strides over.
LEMMA StrideWithinChunk ==
  ASSUME NEW s \in Nat \ {0}, NEW o \in Int, o >= 0
  PROVE  /\ ((100 - o) * s) \div 100 \in Int
         /\ ((100 - o) * s) \div 100 <= s
  <1> DEFINE n == (100 - o) * s
  <1>1. n \in Int
    OBVIOUS
  <1>2. o * s >= 0
    BY SMT
  <1>3. n = 100 * s - o * s
    BY SMT
  <1>4. n <= 100 * s
    BY <1>2, <1>3, SMT
  <1> HIDE DEF n
  <1>5. n \div 100 \in Int /\ n \div 100 <= s
    BY <1>1, <1>4, SMT
  <1> QED
    BY <1>5 DEF n

\* A chunk has a weight for each of its samples.
LEMMA WeightPositive ==
  ASSUME Shape, NEW i \in Nat, i < segment
  PROVE  Weight(i) \in Nat \ {0}
  BY SMT DEF Shape, Weight, segment

\* What a chunk adds at a place it covers is that place's own sample.
LEMMA PieceInPlace ==
  ASSUME Shape, NEW t \in Places, Covers(t)
  PROVE  Fed(trim + (t - offset)) = t
  <1>1. segment \in Nat \ {0}
    BY DEF Shape, segment
  <1>2. take \in Int
    BY <1>1, SMT DEF Shape, take, Minimum
  <1>3. delta \div 2 \in Int
    BY <1>1, <1>2, SMT DEF delta
  <1>4. Start + (trim + (t - offset)) = t
    BY <1>3, SMT DEF Shape, Start, trim, Places
  <1> QED
    BY <1>4 DEF Fed

LEMMA InitTrack == ASSUME TrackAssumption PROVE Init => TrackInv
  <1> SUFFICES ASSUME Init PROVE TrackInv
    OBVIOUS
  <1>1. chunk \in Seq(Nat \ {0}) /\ Len(chunk) \in 1 .. 2
    <2>1. CASE \E c \in Chunks : chunk = <<c>>
      <3>1. PICK c \in Chunks : chunk = <<c>>
        BY <2>1
      <3> QED
        BY <3>1, TrackAssumption
    <2>2. CASE \E c, d \in Chunks : chunk = <<c, d>>
      <3>1. PICK c, d \in Chunks : chunk = <<c, d>>
        BY <2>2
      <3>2. c \in Nat \ {0} /\ d \in Nat \ {0}
        BY TrackAssumption DEF TrackAssumption
      <3>3. <<c, d>> \in Seq(Nat \ {0}) /\ Len(<<c, d>>) = 2
        BY <3>2
      <3> QED
        BY <3>1, <3>3
    <2> QED
      BY <2>1, <2>2 DEF Init
  <1>3. Shape
    <2>0. length \in Lengths /\ overlap \in Overlaps /\ half = 1 /\ offset = 0
      BY DEF Init
    <2>1. length \in Nat /\ overlap \in Int /\ half \in 1 .. Len(chunk) /\ offset = 0
      BY <1>1, <2>0, TrackAssumption DEF TrackAssumption
    <2>2. out \in [Places -> SUBSET Int] /\ sum_weight \in [Places -> Nat]
      BY DEF Init
    <2>3. pc # "chunks"
      BY DEF Init
    <2> QED
      BY <1>1, <2>1, <2>2, <2>3 DEF Shape
  <1>2. Aligned /\ CoveredBehind
    BY DEF Init, Aligned, CoveredBehind
  <1> QED
    BY <1>2, <1>3 DEF TrackInv

\* One step of a separation, action by action.
LEMMA StepTrack == TrackInv /\ [Next]_vars => TrackInv'
  <1> SUFFICES ASSUME TrackInv, [Next]_vars PROVE TrackInv'
    OBVIOUS
  <1>0. Shape /\ Aligned /\ CoveredBehind
    BY DEF TrackInv
  <1>1. segment \in Nat \ {0}
    BY <1>0 DEF Shape, segment
  <1>2. stride \in Int /\ (overlap >= 0 => stride <= segment)
    BY <1>0, <1>1, StrideWithinChunk, SMT DEF Shape, stride
  <1>3. CASE Chunk
    <2>1. /\ pc = "chunks" /\ offset < length
          /\ offset' = offset + stride
          /\ out' = [t \in Places |-> IF Covers(t) THEN out[t] \cup {Fed(trim + (t - offset))} ELSE out[t]]
          /\ sum_weight' = [t \in Places |-> sum_weight[t] + (IF Covers(t) THEN Weight(t - offset) ELSE 0)]
          /\ UNCHANGED <<track, half, pc>>
      BY <1>3 DEF Chunk
    <2>2. Places' = Places
      BY <2>1 DEF Places, track
    <2>3. ASSUME NEW t \in Places, Covers(t)
          PROVE  Weight(t - offset) \in Nat \ {0}
      <3>1. t - offset \in Nat /\ t - offset < segment
        BY <1>0, <1>1, <2>3, SMT DEF Covers, take, Minimum, Shape, Places
      <3> QED
        BY <1>0, <3>1, WeightPositive
    <2>4. sum_weight' \in [Places -> Nat]
      BY <1>0, <2>1, <2>3 DEF Shape
    <2>5. Aligned'
      BY <1>0, <2>1, <2>2, PieceInPlace DEF Aligned
    <2>6. out' \in [Places -> SUBSET Int]
      BY <1>0, <2>1, PieceInPlace DEF Shape, Places
    <2>7. offset' \in Nat /\ segment' = segment /\ stride' = stride
      BY <1>0, <1>2, <2>1 DEF Shape, segment, stride, track
    <2>8. Shape'
      BY <1>0, <2>1, <2>2, <2>4, <2>6, <2>7 DEF Shape, track
    <2>9. CoveredBehind'
      <3> SUFFICES ASSUME overlap >= 0, NEW t \in Places, t < offset + stride
                   PROVE  sum_weight'[t] > 0
        BY <2>1, <2>2 DEF CoveredBehind, track
      <3>1. CASE Covers(t)
        BY <1>0, <2>1, <2>3, <3>1 DEF Shape
      <3>2. CASE ~Covers(t)
        <4>1. t < offset
          BY <1>0, <1>1, <1>2, <3>2, SMT DEF Covers, take, Minimum, Shape, Places
        <4> QED
          BY <1>0, <2>1, <3>2, <4>1 DEF CoveredBehind, Shape
      <3> QED
        BY <3>1, <3>2
    <2> QED
      BY <2>5, <2>8, <2>9 DEF TrackInv
  <1>4. CASE Divide
    <2>1. /\ pc = "chunks" /\ offset >= length
          /\ pc' = IF \E t \in Places : sum_weight[t] <= 0 THEN "uncovered" ELSE "divided"
          /\ UNCHANGED <<track, half, offset, out, sum_weight, cancel>>
      BY <1>4 DEF Divide
    <2>2. overlap >= 0 => \A t \in Places : sum_weight[t] > 0
      BY <1>0, <2>1, SMT DEF CoveredBehind, Shape, Places
    <2>3. overlap >= 0 => pc' = "divided"
      BY <1>0, <2>1, <2>2, SMT DEF Shape
    <2>4. CoveredBehind'
      BY <2>1, <2>3 DEF CoveredBehind, track
    <2>5. Shape' /\ Aligned'
      BY <1>0, <2>1 DEF Shape, Aligned, track, Places
    <2> QED
      BY <2>4, <2>5 DEF TrackInv
  <1>5. CASE NextHalf
    <2>1. /\ half < Len(chunk) /\ half' = half + 1 /\ offset' = 0
          /\ out' = [t \in Places |-> {}]
          /\ sum_weight' = [t \in Places |-> 0]
          /\ pc' = "begin" /\ UNCHANGED track
      BY <1>5 DEF NextHalf, Blank
    <2>2. Shape'
      BY <1>0, <2>1 DEF Shape, track, Places
    <2>3. Aligned' /\ CoveredBehind'
      BY <2>1 DEF Aligned, CoveredBehind, track, Places
    <2> QED
      BY <2>2, <2>3 DEF TrackInv
  <1>6. CASE Begin
    <2>1. /\ pc = "begin" /\ pc' = (IF stride < 1 THEN "strideless" ELSE "chunks")
          /\ UNCHANGED <<track, half, offset, out, sum_weight>>
      BY <1>6 DEF Begin
    <2>2. Shape'
      BY <1>0, <1>2, <2>1 DEF Shape, track, Places, stride, segment
    <2>3. Aligned'
      BY <1>0, <2>1 DEF Aligned, track, Places
    <2>4. CoveredBehind'
      BY <1>0, <2>1, SMT DEF CoveredBehind, track, Places, Shape
    <2> QED
      BY <2>2, <2>3, <2>4 DEF TrackInv
  <1>7. CASE \/ Cancel \/ Analyse \/ Stopped \/ Reconstruct \/ UNCHANGED vars
    <2>1. /\ UNCHANGED <<track, half, offset, out, sum_weight>>
          /\ \/ pc' = pc
             \/ pc = "analyse" /\ pc' \in {"empty", "begin"}
             \/ pc' \in {"cancelled", "separated"}
      BY <1>7 DEF Cancel, Analyse, Stopped, Reconstruct, vars
    <2>2. Shape'
      BY <1>0, <2>1 DEF Shape, track, Places, stride, segment
    <2>3. Aligned'
      BY <1>0, <2>1 DEF Aligned, track, Places
    <2>4. CoveredBehind'
      BY <1>0, <2>1 DEF CoveredBehind, track, Places
    <2> QED
      BY <2>2, <2>3, <2>4 DEF TrackInv
  <1> QED
    BY <1>3, <1>4, <1>5, <1>6, <1>7 DEF Next

\* Whatever the track, the chunk and the overlap, a window's output lands on the
\* samples it was made of.  (over_track: the tail "shifted half the shortfall early".)
THEOREM ChunksLandInPlace == Spec => []Aligned
  <1>1. TrackInv => Aligned
    BY DEF TrackInv
  <1> QED
    BY InitTrack, StepTrack, TrackAssumption, <1>1, PTL DEF Spec

\* The division by the weights never meets a sample without one, for any overlap
\* that is not negative.  (over_track: "some samples were covered by no segment".)
THEOREM EverySampleIsCovered == Spec => []NeverUncovered
  <1>1. TrackInv => NeverUncovered
    BY DEF TrackInv, CoveredBehind, NeverUncovered
  <1> QED
    BY InitTrack, StepTrack, TrackAssumption, <1>1, PTL DEF Spec
-----------------------------------------------------------------------------
(* The bar *)

\* Quotients by one number are in the order of what is divided.
LEMMA QuotientsGrow ==
  ASSUME NEW a \in Nat, NEW b \in Nat, NEW t \in Nat \ {0}, a <= b
  PROVE  a \div t \in Nat /\ b \div t \in Nat /\ a \div t <= b \div t
<1> DEFINE q == a \div t
           p == b \div t
<1>1. /\ q \in Int /\ p \in Int
      /\ t * q <= a /\ a < t * q + t
      /\ t * p <= b /\ b < t * p + t
  BY SMT
<1> HIDE DEF q, p
<1>2. ASSUME NEW n \in Int, n < 0 PROVE t * n + t <= 0
  BY <1>2, SMT
<1>3. q >= 0 /\ p >= 0
  <2>1. ~(q < 0)
    BY <1>1, <1>2, SMT
  <2>2. ~(p < 0)
    BY <1>1, <1>2, SMT
  <2> QED
    BY <1>1, <2>1, <2>2
<1>4. q <= p
  <2> SUFFICES ASSUME p < q PROVE FALSE
    BY <1>1
  <2>1. p - q \in Int /\ p - q < 0
    BY <1>1
  <2>2. t * (p - q) + t <= 0
    BY <1>2, <2>1
  <2>3. t * (p - q) = t * p - t * q
    BY <1>1, SMT
  <2> QED
    BY <1>1, <2>2, <2>3, SMT
<1> QED
  BY <1>1, <1>3, <1>4 DEF q, p

\* All of a share is all of it.
LEMMA WholeShare ==
  ASSUME NEW n \in Nat, NEW t \in Nat \ {0}
  PROVE  (n * t) \div t = n
  BY SMT

\* A stage's share of the bar, in thousandths.
LEMMA CountedInUnits ==
  ASSUME NEW z \in Nat
  PROVE  Counted(z, UNITS) = 1000 + 8 * z
  BY SMT DEF Counted, Floor, UNITS

LEMMA CountedPlainly ==
  ASSUME NEW d \in Nat, NEW t \in Nat \ {0}
  PROVE  Counted(d, t) = 1000 + (8000 * d) \div t
<1>1. Floor("reconstructing") = 9000 /\ Floor("separating") = 1000
  BY DEF Floor
<1> QED
  BY <1>1 DEF Counted

\* The halves share the bar out between them.
LEMMA HalvesShare ==
  ASSUME half \in {1, 2}
  PROVE  /\ Base \in Nat /\ Span \in Nat /\ Base + Span <= 1000
         /\ half = 1 => Base = 0 /\ Span = VocalsUnits
         /\ half = 2 => Base = VocalsUnits /\ Base + Span = 1000
<1>1. VocalsUnits \in {500, 900}
  BY DEF VocalsUnits, UNITS, VOCALS_UNITS
<1> QED
  BY <1>1 DEF Base, Span, UNITS

\* Where a half finds the bar, and where it leaves it.
Low  == IF Len(chunk) = 1 THEN 1000 ELSE 1000 + 8 * Base
High == IF Len(chunk) = 1 THEN 9000 ELSE 1000 + 8 * (Base + Span)

\* More chunks done are more of the bar.
LEMMA ReportGrows ==
  ASSUME half \in {1, 2}, NEW t \in Nat \ {0}, NEW d \in Nat, NEW e \in Nat, d <= e, e <= t
  PROVE  /\ Report(d, t) \in Nat
         /\ Low <= Report(d, t) /\ Report(d, t) <= Report(e, t) /\ Report(t, t) = High
<1>1. /\ Base \in Nat /\ Span \in Nat /\ Base + Span <= 1000
  BY HalvesShare
<1>2. CASE Len(chunk) = 1
  <2>1. \A x \in Nat : Report(x, t) = 1000 + (8000 * x) \div t
    BY <1>2, CountedPlainly DEF Report
  <2>2. /\ (8000 * d) \div t \in Nat
        /\ (8000 * d) \div t <= (8000 * e) \div t
        /\ (8000 * e) \div t \in Nat
    <3>1. 8000 * d \in Nat /\ 8000 * e \in Nat /\ 8000 * d <= 8000 * e
      OBVIOUS
    <3> QED
      BY <3>1, QuotientsGrow
  <2>3. (8000 * t) \div t = 8000
    BY WholeShare
  <2> QED
    BY <1>2, <2>1, <2>2, <2>3 DEF Low, High
<1>3. CASE Len(chunk) # 1
  <2> DEFINE share(x) == (x * Span) \div t
  <2>1. /\ share(d) \in Nat /\ share(e) \in Nat /\ share(t) = Span
        /\ share(d) <= share(e) /\ share(e) <= Span
    <3>1. /\ d * Span \in Nat /\ e * Span \in Nat /\ t * Span \in Nat
          /\ d * Span <= e * Span /\ e * Span <= t * Span
      <4>1. \A x, y \in Nat : x <= y => x * Span \in Nat /\ x * Span <= y * Span
        BY <1>1, SMT
      <4> QED
        BY <4>1
    <3>2. (Span * t) \div t = Span /\ Span * t = t * Span
      BY <1>1, WholeShare
    <3> QED
      BY <3>1, <3>2, QuotientsGrow
  <2> HIDE DEF share
  <2>2. \A x \in {d, e, t} : Report(x, t) = 1000 + 8 * (Base + share(x))
    <3> TAKE x \in {d, e, t}
    <3>1. share(x) \in Nat /\ share(x) <= Span
      BY <1>1, <2>1
    <3>2. Minimum(Base + share(x), UNITS) = Base + share(x) /\ Base + share(x) \in Nat
      BY <1>1, <3>1 DEF Minimum, UNITS
    <3>3. Report(x, t) = Counted(Minimum(Base + share(x), UNITS), UNITS)
      BY <1>3 DEF Report, Within, share
    <3> QED
      BY <3>2, <3>3, CountedInUnits
  <2> QED
    BY <1>1, <1>3, <2>1, <2>2 DEF Low, High
<1> QED
  BY <1>2, <1>3

\* What the bar reads at each place of the separation.
BarInv ==
  /\ Len(chunk) \in {1, 2}
  /\ bar \in Nat
  /\ pc = "analyse" => offset = 0 /\ bar = 0
  /\ pc \in {"begin", "chunks", "divided"} => length > 0
  /\ pc = "begin" => offset = 0 /\ bar <= Low
  /\ pc = "chunks" => offset < length + stride /\ bar <= Report(Done, Total)
  /\ pc = "divided" => bar <= High

LEMMA StrideIsInteger == ASSUME Shape PROVE stride \in Int
<1>1. segment \in Nat \ {0}
  BY DEF Shape, segment
<1>2. (100 - overlap) * segment \in Int
  BY <1>1, SMT DEF Shape
<1> QED
  BY <1>2, SMT DEF stride

\* A track that is not empty has a chunk.
LEMMA TotalPositive ==
  ASSUME length \in Nat, length > 0, stride \in Nat \ {0}
  PROVE  Total \in Nat \ {0}
<1>1. stride <= length + stride - 1 /\ length + stride - 1 \in Nat
  OBVIOUS
<1>2. (1 * stride) \div stride = 1 /\ 1 * stride = stride
  BY WholeShare
<1> QED
  BY <1>1, <1>2, QuotientsGrow DEF Total

\* The chunks done are at most the chunks there are.
LEMMA DoneWithinTotal ==
  ASSUME Shape, BarInv, pc = "chunks"
  PROVE  /\ stride \in Nat \ {0}
         /\ Done \in Nat /\ Total \in Nat \ {0} /\ Done <= Total
         /\ offset < length => Done \in Nat /\ (offset + stride) \div stride \in Nat
                              /\ Done <= (offset + stride) \div stride
                              /\ (offset + stride) \div stride <= Total
<1>1. stride \in Nat \ {0}
  BY StrideIsInteger DEF Shape
<1> HIDE DEF stride
<1>2. /\ offset \in Nat /\ length + stride - 1 \in Nat /\ offset <= length + stride - 1
      /\ length > 0 /\ length \in Nat
  BY <1>1 DEF Shape, BarInv
<1>3. Done \in Nat /\ Total \in Nat /\ Done <= Total
  BY <1>1, <1>2, QuotientsGrow DEF Done, Total
<1>4. Total # 0
  BY <1>1, <1>2, TotalPositive
<1>5. ASSUME offset < length
      PROVE  /\ (offset + stride) \div stride \in Nat
             /\ Done <= (offset + stride) \div stride
             /\ (offset + stride) \div stride <= Total
  <2>1. /\ offset + stride \in Nat /\ offset <= offset + stride
        /\ offset + stride <= length + stride - 1
    BY <1>1, <1>2, <1>5
  <2> QED
    BY <1>1, <1>2, <2>1, QuotientsGrow DEF Done, Total
<1> QED
  BY <1>1, <1>3, <1>4, <1>5

LEMMA SameHalf ==
  ASSUME UNCHANGED <<length, overlap, chunk, half>>
  PROVE  /\ Low' = Low /\ High' = High /\ stride' = stride /\ Total' = Total
         /\ (Report(Done, Total))' = Report(Done', Total)
         /\ Done' = offset' \div stride
<1>1. segment' = segment /\ Base' = Base /\ Span' = Span
  BY DEF segment, Base, Span, VocalsUnits
<1>2. stride' = stride
  BY <1>1 DEF stride
<1>3. Total' = Total /\ Done' = offset' \div stride
  BY <1>2 DEF Total, Done
<1>4. Low' = Low /\ High' = High
  BY <1>1 DEF Low, High
<1>5. (Report(Done, Total))' = Report(Done', Total)
  BY <1>1, <1>3 DEF Report, Within
<1> QED
  BY <1>2, <1>3, <1>4, <1>5

LEMMA BarStep ==
  ASSUME Shape, BarInv, [Next]_vars
  PROVE  BarInv' /\ [bar' >= bar]_vars
<1>0. half \in {1, 2} /\ length \in Nat /\ offset \in Nat /\ bar \in Nat /\ Len(chunk) \in {1, 2}
  <2>1. length \in Nat /\ offset \in Nat /\ half \in 1 .. Len(chunk)
    BY DEF Shape
  <2>2. bar \in Nat /\ Len(chunk) \in {1, 2}
    BY DEF BarInv
  <2> QED
    BY <2>1, <2>2
<1>1. CASE Cancel \/ Stopped \/ UNCHANGED vars
  <2>1. /\ UNCHANGED <<length, overlap, chunk, half, offset, bar>>
        /\ pc' \in {pc, "cancelled"}
    BY <1>1 DEF Cancel, Stopped, vars, track
  <2>2. Done' = Done
    BY <2>1, SameHalf DEF Done
  <2> QED
    BY <1>0, <2>1, <2>2, SameHalf DEF BarInv
<1>2. CASE Analyse
  <2>1. /\ pc = "analyse" /\ bar = 0 /\ offset = 0 /\ bar' \in {200, 1000}
        /\ pc' = IF length = 0 THEN "empty" ELSE "begin"
        /\ UNCHANGED <<length, overlap, chunk, half, offset>>
    BY <1>2 DEF Analyse, BarInv, Floor, track
  <2>2. bar' <= Low
    BY <1>0, <2>1, HalvesShare DEF Low
  <2> QED
    BY <1>0, <2>1, <2>2, SameHalf DEF BarInv
<1>3. CASE Begin
  <2>1. /\ pc = "begin" /\ offset = 0 /\ bar <= Low /\ length > 0
        /\ pc' = (IF stride < 1 THEN "strideless" ELSE "chunks")
        /\ UNCHANGED <<length, overlap, chunk, half, offset, bar>>
    BY <1>3 DEF Begin, BarInv, track
  <2>2. CASE stride < 1
    BY <1>0, <2>1, <2>2 DEF BarInv
  <2>3. CASE ~(stride < 1)
    <3>1. stride \in Nat \ {0}
      BY <2>3, StrideIsInteger
    <3>2. Total \in Nat \ {0}
      BY <1>0, <2>1, <3>1, TotalPositive
    <3>3. Done' = 0
      <4>1. Done' = 0 \div stride
        BY <2>1, SameHalf
      <4>2. (0 * stride) \div stride = 0 /\ 0 * stride = 0
        BY <3>1, WholeShare
      <4> QED
        BY <4>1, <4>2
    <3>4. Low <= Report(0, Total)
      BY <1>0, <3>2, ReportGrows
    <3>5. Report(0, Total) \in Nat
      BY <1>0, <3>2, ReportGrows
    <3>6. Low \in Nat
      <4>1. Base \in Nat
        BY <1>0, HalvesShare
      <4> QED
        BY <4>1 DEF Low
    <3> QED
      BY <1>0, <2>1, <2>3, <3>1, <3>3, <3>4, <3>5, <3>6, SameHalf DEF BarInv
  <2> QED
    BY <2>2, <2>3
<1>4. CASE Chunk
  <2>1. /\ pc = "chunks" /\ offset < length /\ bar <= Report(Done, Total)
        /\ bar' = Report(Done, Total) /\ offset' = offset + stride
        /\ UNCHANGED <<length, overlap, chunk, half, pc>>
    BY <1>4 DEF Chunk, BarInv, track
  <2>2. /\ Done \in Nat /\ Total \in Nat \ {0} /\ stride \in Nat \ {0}
        /\ Done' \in Nat /\ Done <= Done' /\ Done' <= Total
    BY <2>1, SameHalf, DoneWithinTotal
  <2>3. Report(Done, Total) \in Nat /\ Report(Done, Total) <= Report(Done', Total)
    BY <1>0, <2>2, ReportGrows
  <2>4. offset' < length + stride
    BY <1>0, <2>1, <2>2
  <2> QED
    BY <1>0, <2>1, <2>3, <2>4, SameHalf DEF BarInv
<1>5. CASE Divide
  <2>1. /\ pc = "chunks" /\ bar <= Report(Done, Total)
        /\ bar' = Report(Total, Total)
        /\ pc' \in {"uncovered", "divided"}
        /\ UNCHANGED <<length, overlap, chunk, half, offset>>
    BY <1>5 DEF Divide, BarInv, track
  <2>2. Done \in Nat /\ Total \in Nat \ {0} /\ Done <= Total
    BY <2>1, DoneWithinTotal
  <2>3. /\ Report(Done, Total) \in Nat /\ Report(Total, Total) \in Nat
        /\ Report(Done, Total) <= Report(Total, Total) /\ Report(Total, Total) = High
    BY <1>0, <2>2, ReportGrows
  <2>4. length > 0
    BY <2>1 DEF BarInv
  <2> QED
    BY <1>0, <2>1, <2>3, <2>4, SameHalf DEF BarInv
<1>6. CASE NextHalf
  <2>1. /\ pc = "divided" /\ half < Len(chunk) /\ half' = half + 1 /\ offset' = 0
        /\ pc' = "begin" /\ bar <= High /\ length > 0
        /\ UNCHANGED <<length, overlap, chunk, bar>>
    BY <1>6 DEF NextHalf, Blank, BarInv, track
  <2>2. half = 1 /\ half' = 2 /\ Len(chunk) = 2
    <3>1. \A h, n \in {1, 2} : h < n => h = 1 /\ h + 1 = 2 /\ n = 2
      OBVIOUS
    <3> QED
      BY <1>0, <2>1, <3>1, Zenon
  <2>3. High = 1000 + 8 * VocalsUnits
    BY <1>0, <2>2, HalvesShare DEF High
  <2>4. Low' = 1000 + 8 * VocalsUnits
    BY <2>1, <2>2 DEF Low, Base, VocalsUnits
  <2> QED
    BY <1>0, <2>1, <2>3, <2>4 DEF BarInv
<1>7. CASE Reconstruct
  <2>1. pc = "divided" /\ bar <= High /\ bar' = 9000 /\ pc' = "separated" /\ UNCHANGED chunk
    BY <1>7 DEF Reconstruct, BarInv, Floor, track
  <2>2. High <= 9000
    BY <1>0, HalvesShare DEF High
  <2>3. High \in Nat
    BY <1>0, HalvesShare DEF High
  <2> QED
    BY <1>0, <2>1, <2>2, <2>3 DEF BarInv
<1> QED
  BY <1>1, <1>2, <1>3, <1>4, <1>5, <1>6, <1>7 DEF Next

\* The bar a client polls never goes back, whatever the lengths of the chunks of the
\* two halves and the overlap (Progress::counted, hybrid.rs: within).
THEOREM BarOnlyGrows == Spec => BarNeverGoesBack
<1>1. Init => BarInv
  <2> SUFFICES ASSUME Init PROVE BarInv
    OBVIOUS
  <2>1. chunk \in {<<c>> : c \in Chunks} \cup {<<c, d>> : c, d \in Chunks}
    BY DEF Init
  <2>2. Len(chunk) \in {1, 2}
    BY <2>1
  <2> QED
    BY <2>2 DEF Init, BarInv
<1>2. TrackInv => Shape
  BY DEF TrackInv
<1>3. Shape /\ BarInv /\ [Next]_vars => BarInv' /\ [bar' >= bar]_vars
  BY BarStep
<1> QED
  BY InitTrack, StepTrack, TrackAssumption, <1>1, <1>2, <1>3, PTL DEF Spec, BarNeverGoesBack

-----------------------------------------------------------------------------
(* The end *)

\* How many steps a separation may still take: what its half has before it, another
\* half's worth, and the flag that can be raised once.
Ahead == IF offset < length THEN length - offset ELSE 0
Left ==
  (IF half < Len(chunk) THEN length + 5 ELSE 0)
    + (CASE pc = "analyse" -> length + 4
         [] pc = "begin"   -> length + 3
         [] pc = "chunks"  -> Ahead + 2
         [] pc = "divided" -> 1
         [] OTHER          -> 0)
    + (IF cancel THEN 0 ELSE 1)

OneOrTwoHalves == Len(chunk) \in 1 .. 2 /\ cancel \in BOOLEAN

StepsRunOut == [][Left' < Left /\ Left \in Nat /\ (Left \in Nat)']_vars

LEMMA LeftIsNumber == ASSUME Shape, OneOrTwoHalves PROVE Left \in Nat /\ Ahead \in 0 .. length
<1>1. length \in Nat /\ offset \in Nat
  BY DEF Shape
<1>2. Ahead \in 0 .. length
  BY <1>1 DEF Ahead
<1> DEFINE a == IF half < Len(chunk) THEN length + 5 ELSE 0
           b == CASE pc = "analyse" -> length + 4
                  [] pc = "begin"   -> length + 3
                  [] pc = "chunks"  -> Ahead + 2
                  [] pc = "divided" -> 1
                  [] OTHER          -> 0
           c == IF cancel THEN 0 ELSE 1
<1>3. a \in Nat
  BY <1>1
<1>4. b \in Nat
  BY <1>1, <1>2
<1>5. c \in Nat
  OBVIOUS
<1>6. Left = a + b + c
  BY DEF Left
<1> HIDE DEF a, b, c
<1> QED
  BY <1>2, <1>3, <1>4, <1>5, <1>6

LEMMA StepCounts ==
  ASSUME TrackInv, OneOrTwoHalves, Next
  PROVE  Left' < Left
<1>0. Shape /\ length \in Nat /\ offset \in Nat /\ Ahead \in 0 .. length
  BY LeftIsNumber DEF TrackInv, Shape
<1> DEFINE a == IF half < Len(chunk) THEN length + 5 ELSE 0
           c == IF cancel THEN 0 ELSE 1
<1>1. a \in Nat /\ c \in Nat
  BY <1>0
<1>2. CASE Cancel
  <2>1. ~cancel /\ cancel' /\ UNCHANGED <<length, chunk, half, offset, pc>>
    BY <1>2 DEF Cancel, track
  <2> DEFINE b == CASE pc = "analyse" -> length + 4
                      [] pc = "begin"   -> length + 3
                      [] pc = "chunks"  -> Ahead + 2
                      [] pc = "divided" -> 1
                      [] OTHER          -> 0
  <2>3. b \in Nat
    BY <1>0
  <2>4. Left = a + b + 1 /\ Left' = a + b + 0
    BY <2>1 DEF Left, Ahead
  <2> QED
    <3> HIDE DEF a, b
    <3> QED
      BY <1>1, <2>3, <2>4
<1>10. PICK p \in Nat, q \in Nat, l \in Nat, n \in Nat :
         p = a /\ q = c /\ l = length /\ n = Ahead /\ n <= l
  BY <1>0, <1>1
<1>3. CASE Analyse
  <2>1. pc = "analyse" /\ (pc' = "empty" \/ pc' = "begin") /\ UNCHANGED <<length, chunk, half, offset, cancel>>
    BY <1>3 DEF Analyse, track
  <2>2. Left = p + (l + 4) + q
    BY <1>10, <2>1 DEF Left
  <2>3. Left' = p + 0 + q \/ Left' = p + (l + 3) + q
    BY <1>10, <2>1 DEF Left, Ahead
  <2> QED
    BY <2>2, <2>3
<1>4. CASE Begin
  <2>1. pc = "begin" /\ (pc' = "strideless" \/ pc' = "chunks") /\ UNCHANGED <<length, chunk, half, offset, cancel>>
    BY <1>4 DEF Begin, track
  <2>2. Left = p + (l + 3) + q
    BY <1>10, <2>1 DEF Left
  <2>3. Left' = p + 0 + q \/ Left' = p + (n + 2) + q
    BY <1>10, <2>1 DEF Left, Ahead
  <2> QED
    BY <1>10, <2>2, <2>3
<1>5. CASE Stopped
  <2>1. pc = "chunks" /\ pc' = "cancelled" /\ UNCHANGED <<length, chunk, half, offset, cancel>>
    BY <1>5 DEF Stopped, track
  <2>2. Left = p + (n + 2) + q
    BY <1>10, <2>1 DEF Left
  <2>3. Left' = p + 0 + q
    BY <1>10, <2>1 DEF Left, Ahead
  <2> QED
    BY <2>2, <2>3
<1>6. CASE Chunk
  <2>1. /\ pc = "chunks" /\ pc' = "chunks" /\ offset < length /\ offset' = offset + stride
        /\ UNCHANGED <<length, chunk, half, cancel>>
    BY <1>6 DEF Chunk, track
  <2>2. stride \in Int /\ stride >= 1
    <3>1. segment \in Nat \ {0}
      BY <1>0 DEF Shape, segment
    <3>2. stride \in Int
      BY <1>0, <3>1, SMT DEF Shape, stride
    <3> QED
      BY <1>0, <2>1, <3>2 DEF Shape
  <2>3. Ahead' < Ahead /\ Ahead' \in Nat
    <3>1. PICK s \in Nat : s = stride /\ s >= 1
      BY <2>2
    <3> QED
      BY <1>0, <2>1, <3>1 DEF Ahead
  <2>4. PICK m \in Nat : m = Ahead' /\ m < n
    BY <1>10, <2>3
  <2>5. Left = p + (n + 2) + q
    BY <1>10, <2>1 DEF Left
  <2>6. Left' = p + (m + 2) + q
    BY <1>10, <2>1, <2>4 DEF Left
  <2> QED
    <3>1. m < n
      BY <2>4
    <3>2. p + (m + 2) + q < p + (n + 2) + q
      BY <3>1
    <3> QED
      BY <2>5, <2>6, <3>2
<1>7. CASE Divide
  <2>1. pc = "chunks" /\ (pc' = "uncovered" \/ pc' = "divided") /\ UNCHANGED <<length, chunk, half, offset, cancel>>
    BY <1>7 DEF Divide, track
  <2>2. Left = p + (n + 2) + q
    BY <1>10, <2>1 DEF Left
  <2>3. Left' = p + 0 + q \/ Left' = p + 1 + q
    BY <1>10, <2>1 DEF Left, Ahead
  <2> QED
    BY <2>2, <2>3
<1>8. CASE NextHalf
  <2>1. half < Len(chunk) /\ half' = half + 1 /\ ~(half' < Len(chunk)')
    <3>1. PICK k \in {1, 2} : k = Len(chunk)
      BY DEF OneOrTwoHalves
    <3>2. half \in 1 .. k
      BY <1>0, <3>1 DEF Shape
    <3>3. half < k /\ half' = half + 1 /\ chunk' = chunk
      BY <1>8, <3>1 DEF NextHalf, track
    <3> QED
      BY <3>1, <3>2, <3>3
  <2>2. pc = "divided" /\ pc' = "begin" /\ UNCHANGED <<length, cancel>>
    BY <1>8 DEF NextHalf, track
  <2>3. Left = (l + 5) + 1 + q
    BY <1>10, <2>1, <2>2 DEF Left
  <2>4. Left' = 0 + (l + 3) + q
    BY <1>10, <2>1, <2>2 DEF Left
  <2> QED
    BY <2>3, <2>4
<1>9. CASE Reconstruct
  <2>1. pc = "divided" /\ pc' = "separated" /\ UNCHANGED <<length, chunk, half, offset, cancel>>
    BY <1>9 DEF Reconstruct, track
  <2>2. Left = p + 1 + q
    BY <1>10, <2>1 DEF Left
  <2>3. Left' = p + 0 + q
    BY <1>10, <2>1 DEF Left, Ahead
  <2> QED
    BY <2>2, <2>3
<1> QED
  BY <1>2, <1>3, <1>4, <1>5, <1>6, <1>7, <1>8, <1>9 DEF Next

\* No separation goes on for ever, whatever the track, the chunks and the overlap: each
\* step, the raising of the flag included, leaves fewer to take, so one whose thread
\* goes on ends.  (apply.rs: a stride below one frame is refused before the first chunk.)
THEOREM SeparationsEnd == Spec => StepsRunOut
<1>1. Init => OneOrTwoHalves
  <2> SUFFICES ASSUME Init PROVE OneOrTwoHalves
    OBVIOUS
  <2>1. cancel = FALSE
    BY DEF Init
  <2>2. Len(chunk) = 1 \/ Len(chunk) = 2
    BY DEF Init
  <2> QED
    <3>1. Len(chunk) \in 1 .. 2
      BY <2>2
    <3>2. cancel \in BOOLEAN
      BY <2>1
    <3> QED
      BY <3>1, <3>2 DEF OneOrTwoHalves
<1>2. OneOrTwoHalves /\ [Next]_vars => OneOrTwoHalves'
  BY DEF OneOrTwoHalves, Next, Cancel, Analyse, Begin, Stopped, Chunk, Divide, NextHalf, Reconstruct, vars, track
<1>3. (Shape /\ OneOrTwoHalves) => Left \in Nat
  BY LeftIsNumber
<1>4. TrackInv => Shape
  BY DEF TrackInv
<1>5. (TrackInv /\ OneOrTwoHalves /\ Next) => Left' < Left
  BY StepCounts
<1>6. [Next]_vars /\ (Next => Left' < Left) /\ Left \in Nat /\ (Left \in Nat)'
        => [Left' < Left /\ Left \in Nat /\ (Left \in Nat)']_vars
  OBVIOUS
<1> QED
  BY InitTrack, StepTrack, TrackAssumption, <1>1, <1>2, <1>3, <1>4, <1>5, <1>6, PTL DEF Spec, StepsRunOut
=============================================================================
