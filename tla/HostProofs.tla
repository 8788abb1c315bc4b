----------------------------- MODULE HostProofs -----------------------------
(***************************************************************************)
(* Theorems about the launches of one machine, for any number of them and   *)
(* any plans: what holds of their settings, their stems and the way their   *)
(* windows close.                                                          *)
(***************************************************************************)
EXTENDS HostProperties, FiniteSetTheorems, TLAPS

-----------------------------------------------------------------------------
(* The pair of format and rate *)

IsSettings(s) == s = [preset |-> s.preset, format |-> s.format, rate |-> s.rate]
IsCarried(s) == IsSettings(s) /\ Carries(s.format, s.rate)

\* There is a rate for every format, so what is reconciled is carried.
LEMMA HighestIsCarried ==
  ASSUME NEW f
  PROVE  /\ Carries(f, Max({r \in OutputRates : Carries(f, r)}))
         /\ Max({r \in OutputRates : Carries(f, r)}) \in OutputRates
<1> DEFINE S == {r \in OutputRates : Carries(f, r)}
<1>1. \E x \in S : \A y \in S : x >= y
  <2>1. CASE f = "mp3"
    <3>1. 48000 \in S /\ \A y \in S : 48000 >= y
      BY <2>1 DEF Carries, OutputRates
    <3> QED
      BY <3>1
  <2>2. CASE f # "mp3"
    <3>1. 96000 \in S /\ \A y \in S : 96000 >= y
      BY <2>2 DEF Carries, OutputRates
    <3> QED
      BY <3>1
  <2> QED
    BY <2>1, <2>2
<1>2. Max(S) \in S
  BY <1>1, Zenon DEF Max
<1> QED
  BY <1>2

LEMMA ReconciledIsCarried ==
  ASSUME NEW s, IsSettings(s)
  PROVE  IsCarried(Reconciled(s))
<1>1. CASE Carries(s.format, s.rate)
  BY <1>1 DEF Reconciled, IsCarried
<1>2. CASE ~Carries(s.format, s.rate)
  <2> DEFINE m == Max({r \in OutputRates : Carries(s.format, r)})
  <2>1. Reconciled(s) = [s EXCEPT !.rate = m]
    BY <1>2 DEF Reconciled
  <2>2. Carries(s.format, m)
    BY HighestIsCarried
  <2> HIDE DEF m
  <2>3. [s EXCEPT !.rate = m] = [preset |-> s.preset, format |-> s.format, rate |-> m]
    BY DEF IsSettings
  <2> QED
    BY <2>1, <2>2, <2>3 DEF IsCarried, IsSettings
<1> QED
  BY <1>1, <1>2

LEMMA LoadIsCarried ==
  ASSUME NEW content
  PROVE  IsCarried(Load(content))
<1>1. IsCarried(Defaults)
  BY DEF IsCarried, IsSettings, Defaults, Carries
<1>2. IsCarried(IntoSettings(Head(content)))
  <2> DEFINE doc == Head(content)
             s == [preset |-> IF FromArtefact(doc.model) \in Presets
                              THEN FromArtefact(doc.model) ELSE Defaults.preset,
                   format |-> IF doc.output_format \in StemFormats
                              THEN doc.output_format ELSE Defaults.format,
                   rate   |-> IF doc.output_sample_rate \in OutputRates
                              THEN doc.output_sample_rate ELSE Defaults.rate]
  <2>1. IsSettings(s)
    BY DEF IsSettings
  <2>2. IntoSettings(doc) = Reconciled(s)
    BY DEF IntoSettings
  <2> HIDE DEF s
  <2> QED
    BY <2>1, <2>2, ReconciledIsCarried
<1> QED
  BY <1>1, <1>2 DEF Load

\* One field is changed at a time.
LEMMA WithFormat ==
  ASSUME NEW s, IsSettings(s), NEW v
  PROVE  [s EXCEPT !.format = v] = [preset |-> s.preset, format |-> v, rate |-> s.rate]
  BY DEF IsSettings

LEMMA WithRate ==
  ASSUME NEW s, IsSettings(s), NEW v
  PROVE  [s EXCEPT !.rate = v] = [preset |-> s.preset, format |-> s.format, rate |-> v]
  BY DEF IsSettings

LEMMA WithPreset ==
  ASSUME NEW s, IsSettings(s), NEW v
  PROVE  [s EXCEPT !.preset = v] = [preset |-> v, format |-> s.format, rate |-> s.rate]
  BY DEF IsSettings

LEMMA PinIsCarried ==
  ASSUME NEW l, NEW s, IsCarried(s)
  PROVE  IsCarried(Pin(l, s))
<1> DEFINE f == IF Args(l).output_format = None THEN s.format ELSE Args(l).output_format
           r == IF Args(l).output_sample_rate = None THEN s.rate
                ELSE Args(l).output_sample_rate
           pinned == [s EXCEPT !.format = f]
<1>1. Pin_Loose(l, s) = [[s EXCEPT !.format = f] EXCEPT !.rate = r]
  BY Zenon DEF Pin_Loose
<1> HIDE DEF f, r
<1>2. IsSettings(pinned) /\ pinned = [preset |-> s.preset, format |-> f, rate |-> s.rate]
  BY WithFormat DEF IsCarried, IsSettings
<1> HIDE DEF pinned
<1>3. [pinned EXCEPT !.rate = r] = [preset |-> pinned.preset, format |-> pinned.format, rate |-> r]
  BY <1>2, WithRate
<1>4. IsSettings(Pin_Loose(l, s))
  BY <1>1, <1>3 DEF IsSettings, pinned
<1> QED
  BY <1>4, ReconciledIsCarried DEF Pin

LEMMA ChangedIsCarried ==
  ASSUME NEW s, IsCarried(s), NEW field \in {"preset", "format", "rate"}, NEW v
  PROVE  IsCarried(Reconciled([s EXCEPT ![field] = v]))
<1>1. IsSettings(s)
  BY DEF IsCarried
<1>2. CASE field = "preset"
  <2>1. IsSettings([s EXCEPT !.preset = v])
    BY <1>1, WithPreset DEF IsSettings
  <2> QED
    BY <1>2, <2>1, ReconciledIsCarried
<1>3. CASE field = "format"
  <2>1. IsSettings([s EXCEPT !.format = v])
    BY <1>1, WithFormat DEF IsSettings
  <2> QED
    BY <1>3, <2>1, ReconciledIsCarried
<1>4. CASE field = "rate"
  <2>1. IsSettings([s EXCEPT !.rate = v])
    BY <1>1, WithRate DEF IsSettings
  <2> QED
    BY <1>4, <2>1, ReconciledIsCarried
<1> QED
  BY <1>2, <1>3, <1>4

\* Settings are read once and changed by the window and by a switch.
SettingsInv ==
  /\ DOMAIN saved = Launches /\ DOMAIN current = Launches
  /\ \A l \in Launches : IsCarried(saved[l]) /\ IsCarried(current[l])

LEMMA FewStepsChangeSettings ==
  ASSUME [Next]_vars
  PROVE  \/ UNCHANGED <<saved, current>>
         \/ \E l \in Launches : OpenSettings(l) /\ ~BadFlag(l)
         \/ \E l \in Launches : LET t == SwitchThread(l) IN
              Is(t, "ready") /\ Change(l, t, "preset", FromArtefact(task[t].name))
         \/ \E l \in Launches : \E r \in plan.rates : Change(l, MainThread(l), "rate", r)
         \/ \E l \in Launches : \E f \in plan.formats : Change(l, MainThread(l), "format", f)
<1> USE DEF settingsVars
<1>1. CASE UNCHANGED vars
  BY <1>1 DEF vars
<1>2. ASSUME NEW l \in Launches, Boots(l)
      PROVE  UNCHANGED <<saved, current>> \/ (OpenSettings(l) /\ ~BadFlag(l))
  BY <1>2, Zenon DEF Boots, BindPort, ReadSettings, OpenStemCache, LoadModel, QueueStarts,
                     LoadFails, Advertise, InstallCuda
<1>3. ASSUME NEW l \in Launches, Ends(l)
      PROVE  UNCHANGED <<saved, current>>
  BY <1>3, Zenon DEF Ends, CloseRequested, SignalReceived, WindowClosed, Answer, StopWorker,
                     Withdraw, Exit, Crash, Dies, QuitOnly
<1>4. ASSUME \/ \E t \in Threads : Fetching(t[1], t) \/ Saves(t)
             \/ \E n \in Names : ServiceAnswers(n)
      PROVE  UNCHANGED <<saved, current>>
  BY <1>4, Zenon DEF Fetching, Saves, SaveStep, ServiceAnswers
<1>5. ASSUME NEW l \in Launches, Runs(l)
      PROVE  \/ UNCHANGED <<saved, current>>
             \/ LET t == SwitchThread(l) IN
                  Is(t, "ready") /\ Change(l, t, "preset", FromArtefact(task[t].name))
             \/ \E r \in plan.rates : Change(l, MainThread(l), "rate", r)
             \/ \E f \in plan.formats : Change(l, MainThread(l), "format", f)
  BY <1>5, Zenon DEF Runs, PickFromMenu, SwitchBegins, SwitchLoads, Builds, SwitchFails, JobStarts, JobEnds
<1> QED
  BY <1>1, <1>2, <1>3, <1>4, <1>5, Zenon DEF Next

LEMMA ChangeKeepsPairs ==
  ASSUME SettingsInv, NEW l \in Launches, NEW t, NEW v,
         NEW field \in {"preset", "format", "rate"}, Change(l, t, field, v)
  PROVE  SettingsInv'
<1> DEFINE Changed(s) == Reconciled([s EXCEPT ![field] = v])
<1>1. /\ saved' = [saved EXCEPT ![l] = Changed(saved[l])]
      /\ current' = [current EXCEPT ![l] = Changed(current[l])]
  BY Zenon DEF Change
<1>2. IsCarried(Changed(saved[l])) /\ IsCarried(Changed(current[l]))
  BY ChangedIsCarried DEF SettingsInv
<1> HIDE DEF Changed
<1> QED
  BY <1>1, <1>2 DEF SettingsInv

LEMMA SettingsStep ==
  ASSUME SettingsInv, [Next]_vars
  PROVE  SettingsInv'
<1>1. CASE UNCHANGED <<saved, current>>
  BY <1>1 DEF SettingsInv
<1>2. ASSUME NEW l \in Launches, OpenSettings(l) PROVE SettingsInv'
  <2> DEFINE s == Load(disk[JSON])
  <2>1. /\ saved' = [saved EXCEPT ![l] = s]
        /\ current' = [current EXCEPT ![l] = Pin(l, s)]
    BY <1>2 DEF OpenSettings
  <2>2. IsCarried(s) /\ IsCarried(Pin(l, s))
    BY LoadIsCarried, PinIsCarried
  <2> HIDE DEF s
  <2> QED
    BY <2>1, <2>2 DEF SettingsInv
<1> QED
  BY <1>1, <1>2, FewStepsChangeSettings, ChangeKeepsPairs

\* A launch never holds a format with a rate it does not carry, whatever the file,
\* the flags and the menus say (settings.rs: reconcile).
THEOREM EveryPairIsCarried == Spec => []PairIsCarried
<1>1. Init => SettingsInv
  BY DEF Init, SettingsInit, SettingsInv, IsCarried, IsSettings, Defaults, Carries
<1>2. SettingsInv /\ [Next]_vars => SettingsInv'
  BY SettingsStep
<1>3. SettingsInv => PairIsCarried
  BY DEF SettingsInv, PairIsCarried, IsCarried
<1> QED
  BY <1>1, <1>2, <1>3, PTL DEF Spec

-----------------------------------------------------------------------------
(* The port, and who may empty a cache directory *)

Holding == {"bound", "settled", "prepared", "loading", "loaded", "serving"}

PortsApart ==
  /\ DOMAIN phase = Launches
  /\ \A l, k \in Launches :
       l # k /\ phase[l] \in Holding /\ phase[k] \in Holding => Args(l).bind # Args(k).bind

ClearsApart == DOMAIN cleared = Launches /\ LoserClearsNothing

\* Nobody comes to hold a port but by binding it.
PhasesKept ==
  /\ DOMAIN phase' = DOMAIN phase
  /\ \A l \in Launches : phase'[l] \in Holding => phase[l] \in Holding

LEMMA FewStepsTakePorts ==
  ASSUME DOMAIN phase = Launches, [Next]_vars
  PROVE  /\ plan' = plan
         /\ PhasesKept \/ \E l \in Launches : BindPort(l)
         /\ UNCHANGED cleared \/ \E l \in Launches : OpenStemCache(l)
<1> USE DEF PhasesKept, Holding, processVars
<1>1. CASE UNCHANGED vars
  BY <1>1 DEF vars
<1>2. ASSUME NEW l \in Launches, Boots(l), plan' = plan
      PROVE  /\ PhasesKept \/ BindPort(l)
             /\ UNCHANGED cleared \/ OpenStemCache(l)
  <2>1. CASE BindPort(l)
    BY <2>1 DEF BindPort, OnlyPhase
  <2>2. CASE OpenStemCache(l)
    BY <2>2 DEF OpenStemCache, Goes, ClearsAt
  <2>3. CASE ReadSettings(l) \/ LoadModel(l) \/ Advertise(l)
    BY <2>3 DEF ReadSettings, LoadModel, Advertise, Goes, OnlyPhase
  <2>4. CASE QueueStarts(l)
    BY <2>4 DEF QueueStarts, Goes
  <2>5. CASE LoadFails(l)
    BY <2>5 DEF LoadFails, Goes, OnlyPhase
  <2>6. CASE InstallCuda(l)
    BY <2>6 DEF InstallCuda, Goes, OnlyPhase
  <2> QED
    BY <1>2, <2>1, <2>2, <2>3, <2>4, <2>5, <2>6 DEF Boots
<1>3. ASSUME NEW l \in Launches, Runs(l)
      PROVE  UNCHANGED <<phase, cleared>>
  BY <1>3, Zenon DEF Runs, PickFromMenu, SwitchBegins, SwitchLoads, SwitchFails, JobStarts, JobEnds
<1>4. ASSUME NEW l \in Launches, Ends(l)
      PROVE  PhasesKept /\ UNCHANGED cleared
  <2>1. CASE Dies(l)
    BY <2>1 DEF Dies
  <2>2. CASE UNCHANGED <<phase, cleared>>
    BY <2>2
  <2>3. Dies(l) \/ UNCHANGED <<phase, cleared>>
    BY <1>4, Zenon DEF Ends, CloseRequested, SignalReceived, WindowClosed, Answer, StopWorker,
                       Withdraw, Exit, Crash, QuitOnly
  <2> QED
    BY <2>1, <2>2, <2>3
<1>5. ASSUME \/ \E t \in Threads : Fetching(t[1], t) \/ Saves(t)
             \/ \E n \in Names : ServiceAnswers(n)
      PROVE  UNCHANGED <<phase, cleared>>
  BY <1>5, Zenon DEF Fetching, Saves, ServiceAnswers
<1>6. CASE Next
  <2>1. plan' = plan
    BY <1>6 DEF Next
  <2>2. CASE \E l \in Launches : Boots(l)
    BY <1>2, <2>1, <2>2
  <2>3. CASE \E l \in Launches : Runs(l) \/ Ends(l)
    BY <1>3, <1>4, <2>1, <2>3
  <2>4. CASE UNCHANGED <<phase, cleared>>
    BY <2>1, <2>4
  <2> QED
    BY <1>5, <1>6, <2>2, <2>3, <2>4, Zenon DEF Next
<1> QED
  BY <1>1, <1>6

LEMMA PortsStep ==
  ASSUME PortsApart, ClearsApart, [Next]_vars
  PROVE  PortsApart' /\ ClearsApart'
<1>1. plan' = plan /\ \A l : Args(l)' = Args(l)
  BY FewStepsTakePorts DEF PortsApart, Args
<1>2. PortsApart'
  <2>1. CASE PhasesKept
    BY <1>1, <2>1 DEF PhasesKept, PortsApart
  <2>2. ASSUME NEW l \in Launches, BindPort(l) PROVE PortsApart'
    <3>1. phase' = [phase EXCEPT ![l] = IF PortFree(l) THEN "bound" ELSE "over"]
      BY <2>2 DEF BindPort, Goes
    <3>2. PortFree(l) => \A k \in Launches : phase[k] \in Holding => Args(k).bind # Args(l).bind
      BY DEF PortFree, Holding
    <3> QED
      BY <1>1, <3>1, <3>2 DEF PortsApart, Holding
  <2> QED
    BY <2>1, <2>2, FewStepsTakePorts DEF PortsApart
<1>3. ClearsApart'
  <2>1. CASE UNCHANGED cleared
    BY <1>1, <2>1 DEF ClearsApart, LoserClearsNothing
  <2>2. ASSUME NEW l \in Launches, OpenStemCache(l) PROVE ClearsApart'
    <3> DEFINE emptied == {k \in Launches \ {l} :
                             phase[k] = "serving" /\ stems[Args(l).cache_dir] = k}
    <3>1. phase[l] = "settled" /\ cleared' = [cleared EXCEPT ![l] = emptied]
      BY <2>2 DEF OpenStemCache, Goes, ClearsAt
    <3>2. \A k \in emptied : k \in Launches /\ Args(l).bind # Args(k).bind
      BY <3>1 DEF PortsApart, Holding
    <3> HIDE DEF emptied
    <3> QED
      BY <1>1, <3>1, <3>2 DEF ClearsApart, LoserClearsNothing
  <2> QED
    BY <2>1, <2>2, FewStepsTakePorts DEF PortsApart
<1> QED
  BY <1>2, <1>3

\* The directory a launch empties is no server's on its port: it has bound by
\* then (main.rs, serve.rs: bind).
THEOREM PortComesFirst == Spec => []LoserClearsNothing
<1>1. Init => PortsApart /\ ClearsApart
  BY DEF Init, PortsApart, ClearsApart, LoserClearsNothing, Holding
<1>2. PortsApart /\ ClearsApart /\ [Next]_vars => (PortsApart /\ ClearsApart)'
  BY PortsStep
<1>3. ClearsApart => LoserClearsNothing
  BY DEF ClearsApart
<1> QED
  BY <1>1, <1>2, <1>3, PTL DEF Spec

-----------------------------------------------------------------------------
(* Closing the window *)

QuitVars == <<running, lost, quitVars>>

\* Nothing is asked any more once the answer was yes; a window on its way out has
\* asked about a job that had begun by then, and only such a window takes one with it.
LostWasAgreed(l) ==
  /\ asking[l] => ~agreed[l]
  /\ closing[l] /\ running[l] = "yes" => agreed[l]
  /\ caller[l]["window"] # "none" => closing[l]
  /\ lost[l] = "yes" => closing[l] /\ agreed[l]

QuitShape ==
  /\ running \in [Launches -> {"no", "yes", "late"}]
  /\ lost \in [Launches -> {"no", "yes", "late"}]
  /\ asking \in [Launches -> BOOLEAN]
  /\ agreed \in [Launches -> BOOLEAN]
  /\ closing \in [Launches -> BOOLEAN]
  /\ caller \in [Launches -> [Callers -> {"none", "called", "stopped", "withdrawing", "withdrawn"}]]

QuitInv == QuitShape /\ \A l \in Launches : LostWasAgreed(l)

\* Most steps have nothing to do with the window's way out.
LEMMA FewStepsQuit ==
  ASSUME [Next]_vars
  PROVE  \/ UNCHANGED QuitVars
         \/ \E l \in Launches : \/ JobStarts(l) \/ JobEnds(l) \/ CloseRequested(l) \/ Dies(l)
                               \/ WindowClosed(l) \/ SignalReceived(l)
                               \/ \E quit \in BOOLEAN : Answer(l, quit)
                               \/ \E c \in Callers : StopWorker(l, c) \/ Withdraw(l, c)
<1> USE DEF QuitVars, quitVars, processVars
<1>1. CASE UNCHANGED vars
  BY <1>1 DEF vars
<1>2. ASSUME NEW l \in Launches, Boots(l) PROVE UNCHANGED QuitVars
  BY <1>2, Zenon DEF Boots, BindPort, ReadSettings, OpenStemCache, LoadModel, QueueStarts, LoadFails,
                     Advertise, InstallCuda, OnlyPhase, NoQuit
<1>3. ASSUME NEW l \in Launches, Runs(l), ~JobStarts(l), ~JobEnds(l) PROVE UNCHANGED QuitVars
  BY <1>3, Zenon DEF Runs, PickFromMenu, SwitchBegins, SwitchLoads, SwitchFails
<1>4. ASSUME NEW l \in Launches, Ends(l)
      PROVE  \/ CloseRequested(l) \/ Dies(l) \/ WindowClosed(l) \/ SignalReceived(l)
             \/ \E quit \in BOOLEAN : Answer(l, quit)
             \/ \E c \in Callers : StopWorker(l, c) \/ Withdraw(l, c)
  BY <1>4, Zenon DEF Ends, Exit, Crash
<1>5. ASSUME \/ \E t \in Threads : Fetching(t[1], t) \/ Saves(t)
             \/ \E n \in Names : ServiceAnswers(n)
      PROVE  UNCHANGED QuitVars
  BY <1>5, Zenon DEF Fetching, Saves, ServiceAnswers
<1> QED
  BY <1>1, <1>2, <1>3, <1>4, <1>5, Zenon DEF Next

LEMMA QuitStep ==
  ASSUME QuitInv, [Next]_vars
  PROVE  QuitInv'
<1> USE DEF QuitInv, QuitShape, LostWasAgreed, Callers
<1>1. CASE UNCHANGED QuitVars
  BY <1>1 DEF QuitVars, quitVars
<1>2. ASSUME NEW l \in Launches, JobStarts(l) \/ JobEnds(l) PROVE QuitInv'
  BY <1>2 DEF JobStarts, JobEnds, Serving, QuitOnly, NoQuit, quitVars
<1>3. ASSUME NEW l \in Launches, CloseRequested(l) PROVE QuitInv'
  BY <1>3 DEF CloseRequested, Asks, Serving, QuitOnly, processVars
<1>4. ASSUME NEW l \in Launches, NEW quit \in BOOLEAN, Answer(l, quit) PROVE QuitInv'
  BY <1>4 DEF Answer, Serving, QuitOnly, processVars
<1>5. ASSUME NEW l \in Launches, WindowClosed(l) \/ SignalReceived(l) PROVE QuitInv'
  <2>1. UNCHANGED <<running, lost, asking, agreed, closing>>
    BY <1>5 DEF WindowClosed, SignalReceived, QuitOnly, processVars
  <2>2. CASE WindowClosed(l)
    BY <2>1, <2>2 DEF WindowClosed, Reaches
  <2>3. CASE SignalReceived(l)
    BY <2>1, <2>3 DEF SignalReceived, Reaches
  <2> QED
    BY <1>5, <2>2, <2>3
<1>6. ASSUME NEW l \in Launches, NEW c \in Callers, StopWorker(l, c) PROVE QuitInv'
  BY <1>6 DEF StopWorker, Reaches
<1>7. ASSUME NEW l \in Launches, NEW c \in Callers, Withdraw(l, c) PROVE QuitInv'
  <2>1. UNCHANGED <<running, lost, asking, agreed, closing>>
    BY <1>7 DEF Withdraw, processVars
  <2>2. PICK to \in {"withdrawing", "withdrawn"} :
          caller[l][c] # "none" /\ caller' = [caller EXCEPT ![l][c] = to]
    BY <1>7 DEF Withdraw, Reaches
  <2> QED
    BY <2>1, <2>2
<1>8. ASSUME NEW l \in Launches, Dies(l) PROVE QuitInv'
  BY <1>8 DEF Dies, quitVars
<1> QED
  BY <1>1, <1>2, <1>3, <1>4, <1>5, <1>6, <1>7, <1>8, FewStepsQuit, Zenon

-----------------------------------------------------------------------------
(* The record a launch puts up, and the one it takes down *)

Record(l) == advert[l].record

AdvertShape ==
  /\ DOMAIN phase = Launches
  /\ DOMAIN advert = Launches
  /\ withdrawn \in [Launches -> BOOLEAN]
  /\ onair \in [Names -> Launches \cup {None}]
  /\ \A l \in Launches : advert[l] # None =>
       /\ Record(l) \in Names
       /\ advert[l] = [name |-> advert[l].name, record |-> Record(l), refused |-> advert[l].refused]

OneRecordEach == \A n, m \in Names : onair[n] # None /\ onair[n] = onair[m] => n = m

LEMMA LeastNatural ==
  ASSUME NEW T, T \subseteq Nat, T # {}
  PROVE  \E m \in T : \A k \in T : m <= k
<1>1. \E m \in T : \A k \in T : <<k, m>> \notin OpToRel(<, Nat)
  BY NatLessThanWellFounded, WFMin, Zenon
<1>2. \A k, m \in Nat : <<k, m>> \notin OpToRel(<, Nat) => m <= k
  BY DEF OpToRel
<1> QED
  BY <1>1, <1>2

\* There are more numbers to try than launches that could have taken them.
LEMMA GrantedIsFree ==
  ASSUME AdvertShape, OneRecordEach, NEW l \in Launches, \A n \in Names : onair[n] # l
  PROVE  GrantedName(l) \in Names /\ onair[GrantedName(l)] = None
<1> DEFINE N == Cardinality(Launches)
           name(n) == <<Args(l).instance, n>>
           taken == {n \in 1 .. N : onair[name(n)] # None}
           first(n) == n \notin taken /\ \A k \in 1 .. n - 1 : k \in taken
<1>0. N \in Nat /\ \A n \in 1 .. N : name(n) \in Names
  BY LaunchesAssumption, FS_CardinalityType DEF Names
<1>1. \E n \in 1 .. N : n \notin taken
  <2> SUFFICES ASSUME \A n \in 1 .. N : onair[name(n)] # None
               PROVE  FALSE
    OBVIOUS
  <2> DEFINE f == [n \in 1 .. N |-> onair[name(n)]]
             others == Launches \ {l}
  <2>1. f \in [1 .. N -> others]
    BY <1>0 DEF AdvertShape
  <2>2. IsFiniteSet(others) /\ Cardinality(others) = N - 1
    BY LaunchesAssumption, FS_RemoveElement
  <2>3. IsFiniteSet(1 .. N) /\ Cardinality(1 .. N) = N
    BY <1>0, FS_Interval
  <2> HIDE DEF f, others, N
  <2>4. PICK x, y \in 1 .. N : x # y /\ f[x] = f[y]
    BY <1>0, <2>1, <2>2, <2>3, FS_PigeonHole
  <2>5. onair[name(x)] = onair[name(y)] /\ onair[name(x)] # None
    BY <2>4 DEF f
  <2>6. name(x) = name(y)
    BY <1>0, <2>4, <2>5 DEF OneRecordEach
  <2> QED
    BY <2>4, <2>6
<1>2. \E n \in 1 .. N + 1 : first(n)
  <2> DEFINE free == {n \in 1 .. N : n \notin taken}
  <2>1. PICK m \in free : \A k \in free : m <= k
    <3>1. free \subseteq Nat /\ free # {}
      BY <1>0, <1>1
    <3> HIDE DEF free
    <3> QED
      BY <3>1, LeastNatural
  <2>2. m \in 1 .. N + 1 /\ m \notin taken
    BY <1>0, <2>1
  <2>3. \A k \in 1 .. m - 1 : k \in taken
    BY <1>0, <2>1
  <2> QED
    BY <2>2, <2>3
<1> DEFINE granted == CHOOSE n \in 1 .. N + 1 : first(n)
<1>3. granted \in 1 .. N + 1 /\ first(granted)
  <2> HIDE DEF first, N
  <2> QED
    BY <1>2, Zenon
<1>4. GrantedName(l) = name(granted)
  BY DEF GrantedName
<1> HIDE DEF granted
<1>5. granted \in 1 .. N
  BY <1>0, <1>1, <1>3
<1> QED
  BY <1>0, <1>3, <1>4, <1>5

Early == {"off", "bound", "settled", "prepared", "loading", "loaded"}

\* Before it advertises, a launch is not on the air and takes nothing down.
NotYet(l) ==
  phase[l] \in Early =>
    /\ advert[l] = None /\ ~withdrawn[l]
    /\ \A c \in Callers : caller[l][c] = "none"
    /\ \A n \in Names : onair[n] # l

\* The record is up until the one caller that took the flag has taken it down.
StillUp(l) ==
  /\ phase[l] = "serving" /\ advert[l] # None /\ ~withdrawn[l] => onair[Record(l)] = l
  /\ withdrawn[l] => \E c \in Callers : caller[l][c] \in {"withdrawing", "withdrawn"}
  /\ \A c \in Callers : caller[l][c] = "withdrawing" =>
       /\ advert[l] # None /\ withdrawn[l]
       /\ \A d \in Callers \ {c} : caller[l][d] # "withdrawing"
       /\ phase[l] = "serving" => onair[Record(l)] = l /\ Record(l) \notin handed

\* The service withdraws by name: it has only names whose launch is done with them.
HandedIsDone ==
  \A n \in handed : /\ n \in Names /\ plan.windows
                    /\ \E l \in Launches : advert[l] # None /\ withdrawn[l] /\ Record(l) = n /\ onair[n] = l

\* Who alone went through withdraw() has its record down, or with the service.
TakenDown(l) ==
  advert[l] # None /\ ~advert[l].refused =>
    \A c \in Callers :
      caller[l][c] = "withdrawn" /\ (\A d \in Callers \ {c} : caller[l][d] = "none") =>
        onair[Record(l)] # l \/ Record(l) \in handed

AdvertInv ==
  /\ QuitShape /\ AdvertShape /\ OneRecordEach /\ HandedIsDone
  /\ \A l \in Launches : NotYet(l) /\ StillUp(l) /\ TakenDown(l)

\* A launch goes on in its life, and says nothing to the responder.
OnlyPhases ==
  /\ UNCHANGED <<discoveryVars, caller>>
  /\ DOMAIN phase' = DOMAIN phase
  /\ \A l \in Launches : /\ phase'[l] \in Early => phase[l] \in Early
                         /\ phase'[l] = "serving" => phase[l] = "serving"

LEMMA FewStepsAdvertise ==
  ASSUME DOMAIN phase = Launches, [Next]_vars
  PROVE  /\ plan' = plan
         /\ \/ OnlyPhases
            \/ \E l \in Launches : \/ Advertise(l) \/ Dies(l) \/ SignalReceived(l) \/ WindowClosed(l)
                                  \/ \E c \in Callers : StopWorker(l, c) \/ Withdraw(l, c)
            \/ \E n \in Names : ServiceAnswers(n)
<1> DEFINE Quiet == UNCHANGED <<discoveryVars, caller, phase>>
<1>0. Quiet => OnlyPhases
  BY DEF OnlyPhases
<1> USE DEF processVars, quitVars
<1>1. CASE UNCHANGED vars
  BY <1>0, <1>1 DEF vars
<1>2. ASSUME NEW l \in Launches, Boots(l), ~Advertise(l)
      PROVE  OnlyPhases
  <2>1. UNCHANGED <<discoveryVars, caller>>
    BY <1>2, Zenon DEF Boots, BindPort, ReadSettings, OpenStemCache, LoadModel, QueueStarts, LoadFails,
                       InstallCuda, NoQuit
  <2>2. PICK from \in Early \cup {"installing"},
             to \in (Early \ {"off"}) \cup {"installing", "over"} :
          Goes(l, from, to) /\ (from = "installing" => to = "over")
    BY <1>2 DEF Boots, BindPort, ReadSettings, OpenStemCache, ClearsAt, LoadModel, QueueStarts,
                LoadFails, InstallCuda, Early
  <2> QED
    BY <2>1, <2>2 DEF OnlyPhases, Goes, Early
<1>3. ASSUME NEW l \in Launches, Runs(l) PROVE Quiet
  BY <1>3, Zenon DEF Runs, PickFromMenu, SwitchBegins, SwitchLoads, SwitchFails, JobStarts, JobEnds, NoQuit
<1>4. ASSUME NEW l \in Launches, Ends(l)
      PROVE  \/ Quiet \/ Dies(l) \/ SignalReceived(l) \/ WindowClosed(l)
             \/ \E c \in Callers : StopWorker(l, c) \/ Withdraw(l, c)
  BY <1>4, Zenon DEF Ends, CloseRequested, Answer, Exit, Crash, QuitOnly
<1>5. ASSUME \E t \in Threads : Fetching(t[1], t) \/ Saves(t) PROVE Quiet
  BY <1>5, Zenon DEF Fetching, Saves
<1>6. CASE Next
  <2> HIDE DEF Quiet
  <2> QED
    BY <1>0, <1>2, <1>3, <1>4, <1>5, <1>6, Zenon DEF Next
<1> QED
  BY <1>1, <1>6 DEF vars

LEMMA NamesStay ==
  ASSUME plan' = plan
  PROVE  Names' = Names /\ \A l : Args(l)' = Args(l)
  BY DEF Names, Args

LEMMA PhasesKeepAdverts ==
  ASSUME AdvertInv, plan' = plan, OnlyPhases, QuitShape'
  PROVE  AdvertInv'
<1> USE DEF AdvertInv, AdvertShape, OnlyPhases, discoveryVars
<1>1. Names' = Names
  BY NamesStay
<1>2. AdvertShape' /\ OneRecordEach' /\ HandedIsDone'
  BY <1>1 DEF OneRecordEach, HandedIsDone, Record
<1>3. ASSUME NEW l \in Launches PROVE NotYet(l)' /\ StillUp(l)' /\ TakenDown(l)'
  BY <1>1, <1>3 DEF NotYet, StillUp, TakenDown, Record
<1> QED
  BY <1>2, <1>3

LEMMA AdvertiseKeepsAdverts ==
  ASSUME AdvertInv, plan' = plan, NEW l \in Launches, Advertise(l), QuitShape', misled' = {}
  PROVE  AdvertInv'
<1> USE DEF AdvertInv, AdvertShape
<1>0. Names' = Names
  BY NamesStay
<1>1. /\ phase[l] = "loaded" /\ phase' = [phase EXCEPT ![l] = "serving"]
      /\ UNCHANGED <<caller, withdrawn, handed>>
      /\ advert[l] = None /\ ~withdrawn[l] /\ \A c \in Callers : caller[l][c] = "none"
      /\ \A n \in Names : onair[n] # l
  BY DEF Advertise, Goes, NoQuit, quitVars, NotYet, Early, Advertised, AdvertiseFails,
         AdvertiseTimesOut, discoveryVars
<1>2. GrantedName(l) \in Names /\ onair[GrantedName(l)] = None
  BY <1>1, GrantedIsFree
<1> DEFINE g == GrantedName(l)
<1>3. \/ UNCHANGED <<onair, advert>>
      \/ onair' = [onair EXCEPT ![g] = l] /\ advert' = advert
      \/ /\ onair' = [onair EXCEPT ![g] = l]
         /\ \E told :
              advert' = [advert EXCEPT ![l] =
                [name |-> Logged(l, g, told), record |-> g, refused |-> FALSE]]
  <2>1. ASSUME NEW told, misled' = IF told \/ g = AskedName(l) THEN misled ELSE misled \cup {l}
        PROVE  Withdrawable(l, g, told) = g
    <3> HIDE DEF g
    <3> QED
      BY <2>1 DEF Withdrawable
  <2>2. CASE Advertised(l)
    <3>1. PICK told :
            /\ onair' = [onair EXCEPT ![g] = l]
            /\ advert' = [advert EXCEPT ![l] =
                 [name |-> Logged(l, g, told), record |-> Withdrawable(l, g, told), refused |-> FALSE]]
            /\ misled' = IF told \/ g = AskedName(l) THEN misled ELSE misled \cup {l}
      BY <2>2, Zenon DEF Advertised
    <3>2. Withdrawable(l, g, told) = g
      BY <2>1, <3>1, Zenon
    <3> HIDE DEF g
    <3> QED
      BY <3>1, <3>2, Zenon
  <2>3. Advertised(l) \/ AdvertiseFails \/ AdvertiseTimesOut(l)
    BY Zenon DEF Advertise
  <2> QED
    BY <2>2, <2>3, Zenon DEF AdvertiseFails, AdvertiseTimesOut, discoveryVars
<1> HIDE DEF g
<1>4. /\ g \in Names /\ onair[g] = None
      /\ \A n \in Names : n # g => onair'[n] = onair[n]
      /\ \A k \in Launches \ {l} : advert'[k] = advert[k] /\ phase'[k] = phase[k]
      /\ advert'[l] # None => Record(l)' = g /\ onair'[g] = l
      /\ onair'[g] \in {None, l}
  BY <1>1, <1>2, <1>3 DEF g, Record
<1>5. AdvertShape'
  BY <1>0, <1>1, <1>3, <1>4 DEF Record
<1>6. OneRecordEach'
  BY <1>0, <1>1, <1>4, LaunchesAssumption DEF OneRecordEach
<1>7. HandedIsDone'
  BY <1>0, <1>1, <1>4, LaunchesAssumption DEF HandedIsDone, Record
<1>8. ASSUME NEW k \in Launches PROVE NotYet(k)' /\ StillUp(k)' /\ TakenDown(k)'
  <2>1. CASE k = l
    BY <1>0, <1>1, <1>4, <2>1 DEF NotYet, Early, StillUp, TakenDown, Callers
  <2>2. CASE k # l
    <3>1. NotYet(k)'
      BY <1>0, <1>1, <1>4, <2>2, LaunchesAssumption DEF NotYet
    <3>2. StillUp(k)' /\ TakenDown(k)'
      BY <1>0, <1>1, <1>4, <2>2, LaunchesAssumption DEF StillUp, TakenDown, Record
    <3> QED
      BY <3>1, <3>2
  <2> QED
    BY <2>1, <2>2
<1> QED
  BY <1>5, <1>6, <1>7, <1>8

LEMMA DeathKeepsAdverts ==
  ASSUME AdvertInv, plan' = plan, NEW l \in Launches, Dies(l), QuitShape'
  PROVE  AdvertInv'
<1> USE DEF AdvertInv, AdvertShape
<1>0. Names' = Names
  BY NamesStay
<1>1. /\ phase' = [phase EXCEPT ![l] = "over"]
      /\ UNCHANGED <<caller, advert, withdrawn, handed>>
      /\ onair' = IF plan.windows THEN onair
                  ELSE [n \in Names |-> IF onair[n] = l THEN None ELSE onair[n]]
  BY DEF Dies, Gone, quitVars
<1>2. /\ plan.windows => onair' = onair
      /\ \A n \in Names : onair'[n] = onair[n] \/ (onair[n] = l /\ onair'[n] = None)
      /\ onair' \in [Names -> Launches \cup {None}]
  BY <1>1
<1>3. AdvertShape' /\ OneRecordEach' /\ HandedIsDone'
  BY <1>0, <1>1, <1>2, LaunchesAssumption DEF OneRecordEach, HandedIsDone, Record
<1>4. ASSUME NEW k \in Launches PROVE NotYet(k)' /\ StillUp(k)' /\ TakenDown(k)'
  BY <1>0, <1>1, <1>2, LaunchesAssumption DEF NotYet, Early, StillUp, TakenDown, Record
<1> QED
  BY <1>3, <1>4

\* A caller that has not got to withdraw() yet.
LEMMA CallersKeepAdverts ==
  ASSUME AdvertInv, plan' = plan, NEW l \in Launches, NEW c \in Callers,
         phase[l] = "serving", UNCHANGED <<discoveryVars, phase>>,
         NEW to \in {"called", "stopped"},
         caller[l][c] \in {"none", "called"}, caller' = [caller EXCEPT ![l][c] = to], QuitShape'
  PROVE  AdvertInv'
<1> USE DEF AdvertInv, AdvertShape, discoveryVars
<1>0. Names' = Names
  BY NamesStay
<1>1. AdvertShape' /\ OneRecordEach' /\ HandedIsDone'
  BY <1>0 DEF OneRecordEach, HandedIsDone, Record
<1>2. /\ caller'[l][c] = to
      /\ \A k \in Launches, d \in Callers : k # l \/ d # c => caller'[k][d] = caller[k][d]
  BY DEF QuitShape
<1>3. ASSUME NEW k \in Launches PROVE NotYet(k)' /\ StillUp(k)' /\ TakenDown(k)'
  <2>1. NotYet(k)'
    BY <1>0, <1>2 DEF NotYet, Early
  <2>2. StillUp(k)'
    BY <1>0, <1>2 DEF StillUp, Record
  <2>3. TakenDown(k)'
    BY <1>0, <1>2 DEF TakenDown, Record
  <2> QED
    BY <2>1, <2>2, <2>3
<1> QED
  BY <1>1, <1>3

LEMMA Refuse ==
  ASSUME NEW a, a = [name |-> a.name, record |-> a.record, refused |-> a.refused], NEW v
  PROVE  [a EXCEPT !.refused = v] = [name |-> a.name, record |-> a.record, refused |-> v]
  OBVIOUS

LEMMA WithdrawKeepsAdverts ==
  ASSUME AdvertInv, plan' = plan, NEW l \in Launches, NEW c \in Callers, Withdraw(l, c), QuitShape'
  PROVE  AdvertInv'
<1> USE DEF AdvertInv, AdvertShape
<1>0. Names' = Names /\ phase' = phase /\ phase[l] = "serving"
  BY NamesStay DEF Withdraw, processVars
<1> DEFINE To(to) == /\ caller'[l][c] = to
                       /\ \A k \in Launches, d \in Callers :
                            k # l \/ d # c => caller'[k][d] = caller[k][d]
<1>1. ASSUME NEW from, NEW to, Reaches(l, c, from, to) PROVE caller[l][c] = from /\ To(to)
  BY <1>1 DEF Reaches, QuitShape
<1>2. CASE /\ advert[l] = None \/ withdrawn[l]
           /\ Reaches(l, c, "stopped", "withdrawn") /\ UNCHANGED discoveryVars
  <2>1. AdvertShape' /\ OneRecordEach' /\ HandedIsDone'
    BY <1>0, <1>2 DEF OneRecordEach, HandedIsDone, Record, discoveryVars
  <2>2. ASSUME NEW k \in Launches PROVE NotYet(k)' /\ StillUp(k)' /\ TakenDown(k)'
    <3>1. NotYet(k)'
      BY <1>0, <1>1, <1>2 DEF NotYet, Early, discoveryVars
    <3>2. StillUp(k)'
      BY <1>0, <1>1, <1>2 DEF StillUp, Record, discoveryVars
    <3>3. TakenDown(k)'
      BY <1>0, <1>1, <1>2 DEF TakenDown, StillUp, Record, discoveryVars
    <3> QED
      BY <3>1, <3>2, <3>3
  <2> QED
    BY <2>1, <2>2
<1>3. CASE /\ advert[l] # None /\ ~withdrawn[l]
           /\ Reaches(l, c, "stopped", "withdrawing") /\ Swap(l)
  <2> USE DEF Swap
  <2>1. AdvertShape' /\ OneRecordEach' /\ HandedIsDone'
    BY <1>0, <1>3 DEF OneRecordEach, HandedIsDone, Record
  <2>2. Record(l) \notin handed
    BY <1>0, <1>3 DEF StillUp, HandedIsDone, Record
  <2>3. ASSUME NEW k \in Launches PROVE NotYet(k)' /\ StillUp(k)' /\ TakenDown(k)'
    <3>1. NotYet(k)'
      BY <1>0, <1>1, <1>3 DEF NotYet, Early
    <3>2. StillUp(k)'
      BY <1>0, <1>1, <1>3, <2>2 DEF StillUp, Record
    <3>3. TakenDown(k)'
      BY <1>0, <1>1, <1>3 DEF TakenDown, Record
    <3> QED
      BY <3>1, <3>2, <3>3
  <2> QED
    BY <2>1, <2>3
<1>4. CASE /\ Reaches(l, c, "withdrawing", "withdrawn")
           /\ WithdrawDone(l) \/ WithdrawPending(l) \/ WithdrawRefused(l)
  <2> DEFINE r == Record(l)
  <2>0. /\ advert[l] # None /\ withdrawn[l] /\ r \in Names /\ onair[r] = l /\ r \notin handed
        /\ \A d \in Callers \ {c} : caller[l][d] # "withdrawing"
    BY <1>0, <1>1, <1>4 DEF StillUp
  <2>1. CASE WithdrawDone(l)
    <3>1. /\ onair' = [onair EXCEPT ![r] = None] /\ UNCHANGED <<advert, withdrawn, handed>>
      BY <2>1 DEF WithdrawDone, Record
    <3>2. AdvertShape' /\ OneRecordEach' /\ HandedIsDone'
      BY <1>0, <2>0, <3>1 DEF OneRecordEach, HandedIsDone, Record
    <3>3. ASSUME NEW k \in Launches PROVE NotYet(k)' /\ StillUp(k)' /\ TakenDown(k)'
      <4>1. NotYet(k)'
        BY <1>0, <1>1, <1>4, <2>0, <3>1, LaunchesAssumption DEF NotYet, Early
      <4>2. StillUp(k)'
        BY <1>0, <1>1, <1>4, <2>0, <3>1 DEF StillUp, Record
      <4>3. TakenDown(k)'
        BY <1>0, <1>1, <1>4, <2>0, <3>1, LaunchesAssumption DEF TakenDown, Record
      <4> QED
        BY <4>1, <4>2, <4>3
    <3> QED
      BY <3>2, <3>3
  <2>2. CASE WithdrawPending(l)
    <3>1. /\ plan.windows /\ handed' = handed \cup {r} /\ UNCHANGED <<onair, advert, withdrawn>>
      BY <2>2 DEF WithdrawPending, Record
    <3>2. AdvertShape' /\ OneRecordEach' /\ HandedIsDone'
      BY <1>0, <2>0, <3>1 DEF OneRecordEach, HandedIsDone, Record
    <3>3. ASSUME NEW k \in Launches PROVE NotYet(k)' /\ StillUp(k)' /\ TakenDown(k)'
      <4>1. NotYet(k)'
        BY <1>0, <1>1, <1>4, <2>0, <3>1 DEF NotYet, Early
      <4>2. StillUp(k)'
        BY <1>0, <1>1, <1>4, <2>0, <3>1 DEF StillUp, Record
      <4>3. TakenDown(k)'
        BY <1>0, <1>1, <1>4, <2>0, <3>1 DEF TakenDown, Record
      <4> QED
        BY <4>1, <4>2, <4>3
    <3> QED
      BY <3>2, <3>3
  <2>3. CASE WithdrawRefused(l)
    <3>1. /\ UNCHANGED <<onair, withdrawn, handed>>
          /\ advert' = [advert EXCEPT ![l] = [advert[l] EXCEPT !.refused = TRUE]]
      BY <2>3 DEF WithdrawRefused
    <3>2. advert'[l] = [name |-> advert[l].name, record |-> r, refused |-> TRUE]
      <4>1. /\ r = advert[l].record
            /\ advert[l] = [name |-> advert[l].name, record |-> r, refused |-> advert[l].refused]
        BY <2>0 DEF Record
      <4>2. advert'[l] = [advert[l] EXCEPT !.refused = TRUE]
        BY <3>1
      <4> HIDE DEF r
      <4> QED
        BY <4>1, <4>2, Refuse
    <3> HIDE DEF r
    <3>3. /\ DOMAIN advert' = Launches
          /\ \A k \in Launches \ {l} : advert'[k] = advert[k]
          /\ Record(l)' = r /\ advert'[l].refused
          /\ advert'[l] = [name |-> advert'[l].name, record |-> r, refused |-> advert'[l].refused]
      BY <3>1, <3>2 DEF Record
    <3>4. AdvertShape' /\ OneRecordEach'
      <4>1. AdvertShape'
        <5>1. ASSUME NEW k \in Launches, advert'[k] # None
              PROVE  /\ Record(k)' \in Names
                     /\ advert'[k] = [name |-> advert'[k].name, record |-> Record(k)',
                                     refused |-> advert'[k].refused]
          <6>1. CASE k = l
            BY <2>0, <3>3, <6>1 DEF r
          <6>2. CASE k # l
            BY <3>3, <5>1, <6>2 DEF Record
          <6> QED
            BY <6>1, <6>2
        <5> QED
          BY <1>0, <3>1, <3>3, <5>1
      <4> QED
        BY <1>0, <3>1, <4>1 DEF OneRecordEach
    <3>5. HandedIsDone'
      BY <1>0, <2>0, <3>1, <3>3 DEF HandedIsDone, Record, r
    <3>6. ASSUME NEW k \in Launches PROVE NotYet(k)' /\ StillUp(k)' /\ TakenDown(k)'
      <4>1. NotYet(k)'
        BY <1>0, <1>1, <1>4, <3>1, <3>3 DEF NotYet, Early
      <4>2. StillUp(k)'
        BY <1>0, <1>1, <1>4, <2>0, <3>1, <3>3 DEF StillUp, Record, r
      <4>3. TakenDown(k)'
        BY <1>0, <1>1, <1>4, <3>1, <3>3 DEF TakenDown, Record
      <4> QED
        BY <4>1, <4>2, <4>3
    <3> QED
      BY <3>4, <3>5, <3>6
  <2> QED
    BY <1>4, <2>1, <2>2, <2>3
<1> QED
  BY <1>2, <1>3, <1>4 DEF Withdraw

LEMMA ServiceKeepsAdverts ==
  ASSUME AdvertInv, plan' = plan, NEW n \in Names, ServiceAnswers(n), QuitShape'
  PROVE  AdvertInv'
<1> USE DEF AdvertInv, AdvertShape
<1>0. Names' = Names
  BY NamesStay
<1>1. /\ n \in handed /\ handed' = handed \ {n} /\ onair' = [onair EXCEPT ![n] = None]
      /\ UNCHANGED <<advert, withdrawn, caller, phase>>
  BY DEF ServiceAnswers, ServiceWithdraws, quitVars, processVars
<1>2. PICK o \in Launches : advert[o] # None /\ withdrawn[o] /\ Record(o) = n /\ onair[n] = o
  BY <1>1 DEF HandedIsDone
<1>3. AdvertShape' /\ OneRecordEach' /\ HandedIsDone'
  BY <1>0, <1>1 DEF OneRecordEach, HandedIsDone, Record
<1>4. ASSUME NEW k \in Launches PROVE NotYet(k)' /\ StillUp(k)' /\ TakenDown(k)'
  <2>1. NotYet(k)'
    BY <1>0, <1>1, LaunchesAssumption DEF NotYet, Early
  <2>2. StillUp(k)'
    BY <1>0, <1>1, <1>2 DEF StillUp, Record
  <2>3. TakenDown(k)'
    BY <1>0, <1>1, <1>2, LaunchesAssumption DEF TakenDown, Record
  <2> QED
    BY <2>1, <2>2, <2>3
<1> QED
  BY <1>3, <1>4

\* Who was renamed without a word never learns of it.
LEMMA MisledForGood ==
  ASSUME [Next]_vars
  PROVE  misled \subseteq misled'
<1> DEFINE Kept == misled' = misled
<1> USE DEF discoveryVars
<1>1. CASE UNCHANGED vars
  BY <1>1 DEF vars
<1>2. ASSUME NEW l \in Launches, Boots(l), ~Advertise(l) PROVE Kept
  BY <1>2, Zenon DEF Boots, BindPort, ReadSettings, OpenStemCache, LoadModel, QueueStarts, LoadFails,
                     InstallCuda
<1>3. ASSUME NEW l \in Launches, Advertise(l) PROVE misled \subseteq misled'
  BY <1>3 DEF Advertise, Advertised, AdvertiseFails, AdvertiseTimesOut
<1>4. ASSUME NEW l \in Launches, Runs(l) PROVE Kept
  BY <1>4, Zenon DEF Runs, PickFromMenu, SwitchBegins, SwitchLoads, SwitchFails, JobStarts, JobEnds
<1>5. ASSUME NEW l \in Launches, Ends(l) PROVE Kept
  BY <1>5, Zenon DEF Ends, CloseRequested, Answer, SignalReceived, WindowClosed, StopWorker, Withdraw,
                     Swap, WithdrawDone, WithdrawPending, WithdrawRefused, Exit, Crash, Dies, Gone, QuitOnly
<1>6. ASSUME \/ \E t \in Threads : Fetching(t[1], t) \/ Saves(t)
             \/ \E n \in Names : ServiceAnswers(n)
      PROVE  Kept
  BY <1>6, Zenon DEF Fetching, Saves, ServiceAnswers, ServiceWithdraws
<1>7. CASE Next
  <2> HIDE DEF Kept
  <2>1. Kept => misled \subseteq misled'
    BY DEF Kept
  <2> QED
    BY <1>2, <1>3, <1>4, <1>5, <1>6, <1>7, <2>1, Zenon DEF Next
<1> QED
  BY <1>1, <1>7

LEMMA AdvertStep ==
  ASSUME AdvertInv, QuitInv, misled' = {}, [Next]_vars
  PROVE  AdvertInv'
<1>0. plan' = plan /\ QuitShape'
  BY QuitStep, FewStepsAdvertise DEF QuitInv, AdvertInv, AdvertShape
<1>1. ASSUME NEW l \in Launches, SignalReceived(l) \/ WindowClosed(l) PROVE AdvertInv'
  BY <1>0, <1>1, CallersKeepAdverts DEF SignalReceived, WindowClosed, Reaches, QuitOnly, processVars, Callers
<1>2. ASSUME NEW l \in Launches, NEW c \in Callers, StopWorker(l, c) PROVE AdvertInv'
  BY <1>0, <1>2, CallersKeepAdverts DEF StopWorker, Reaches
<1> QED
  BY <1>0, <1>1, <1>2, FewStepsAdvertise, PhasesKeepAdverts, AdvertiseKeepsAdverts, DeathKeepsAdverts,
     WithdrawKeepsAdverts, ServiceKeepsAdverts, Zenon DEF AdvertInv, AdvertShape

\* A launch goes as it was asked to: as long as none is renamed without a word, the
\* record it takes down is its own, whatever names were taken, and none that the
\* system would have taken stays behind; and no separation is ended that nobody gave
\* up (shutdown::now, Advertiser::withdraw).
THEOREM LaunchesLeaveCleanly == Spec => []LeavesCleanly
<1> DEFINE Inv == misled = {} => AdvertInv
<1>1. Init => Inv /\ QuitInv
  BY LaunchesAssumption
     DEF Init, DiscoveryInit, AdvertInv, QuitInv, QuitShape, LostWasAgreed, AdvertShape,
         OneRecordEach, HandedIsDone, NotYet, StillUp, TakenDown, Callers
<1>2. Inv /\ QuitInv /\ [Next]_vars => (Inv /\ QuitInv)'
  BY AdvertStep, QuitStep, MisledForGood
<1>3. Inv => WithdrawsItsOwn
  BY DEF AdvertInv, StillUp, WithdrawsItsOwn, Record
<1>4. Inv => SaysGoodbye
  <2> SUFFICES ASSUME AdvertInv, NEW l \in Launches,
                      phase[l] = "over", advert[l] # None, ~advert[l].refused,
                      NEW cs, cs = {c \in Callers : caller[l][c] # "none"}, Cardinality(cs) = 1,
                      \A c \in cs : caller[l][c] = ExitsAt
               PROVE  onair[Record(l)] # l \/ Record(l) \in handed
    BY DEF SaysGoodbye, Record
  <2>1. IsFiniteSet(Callers)
    <3>1. IsFiniteSet({"signal"}) /\ Callers = {"signal"} \cup {"window"}
      BY FS_Singleton DEF Callers
    <3> QED
      BY <3>1, FS_AddElement
  <2>2. PICK c : cs = {c}
    <3>1. IsFiniteSet(cs)
      BY <2>1, FS_Subset
    <3> QED
      BY <3>1, FS_Singleton
  <2>3. /\ c \in Callers /\ caller[l][c] = "withdrawn"
        /\ \A d \in Callers \ {c} : caller[l][d] = "none"
    BY <2>2 DEF ExitsAt
  <2> QED
    BY <2>3 DEF AdvertInv, TakenDown
<1>5. QuitInv => OnlyTheAgreedIsLost
  BY DEF QuitInv, LostWasAgreed, OnlyTheAgreedIsLost
<1> HIDE DEF Inv
<1> QED
  BY <1>1, <1>2, <1>3, <1>4, <1>5, PTL DEF Spec, LeavesCleanly
=============================================================================
