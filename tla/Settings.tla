------------------------------ MODULE Settings ------------------------------
(***************************************************************************)
(* The preferences the window changes and the next launch reads             *)
(* (stemd-server/src/settings.rs).                                          *)
(*                                                                         *)
(* A launch holds two copies: what the file says, and what this run uses.   *)
(* A change takes both under the lock; the file is written after it is let  *)
(* go, by whichever thread made the change.                                 *)
(***************************************************************************)
EXTENDS Staged, Models, Formats

VARIABLES
  saved,    \* per launch: State.saved
  current,  \* State.current
  writing   \* what each thread is writing to the file, and how far it is

settingsVars == <<saved, current, writing>>

JSON == "settings.json"

Defaults == [preset |-> DEFAULT_PRESET, format |-> "flac", rate |-> 44100]

\* The highest rate the format can carry, when it cannot carry this one.
Reconciled(s) ==
  IF Carries(s.format, s.rate) THEN s
  ELSE [s EXCEPT !.rate = Max({r \in OutputRates : Carries(s.format, r)})]

-----------------------------------------------------------------------------
(* The document *)

FromSettings(s) == [model |-> Artefact(s.preset),
                    output_format |-> s.format,
                    output_sample_rate |-> s.rate]

\* A field that is absent or not recognised costs that field.
IntoSettings_Trusting(doc) ==
  Reconciled([preset |-> FromArtefact(doc.model),
              format |-> doc.output_format, rate |-> doc.output_sample_rate])
IntoSettings(doc) ==
  Reconciled(
    [preset |-> IF FromArtefact(doc.model) \in Presets
                THEN FromArtefact(doc.model) ELSE Defaults.preset,
     format |-> IF doc.output_format \in StemFormats
                THEN doc.output_format ELSE Defaults.format,
     rate   |-> IF doc.output_sample_rate \in OutputRates
                THEN doc.output_sample_rate ELSE Defaults.rate])

\* Longer names make a longer document: written over a shorter one it hides it,
\* the other way round the end of the longer one is left.
Text(doc) == IF doc.model = "htdemucs" THEN <<doc>> ELSE <<doc, doc>>
Parses(content) == content \notin {None, <<>>} /\ content = Text(Head(content))

\* open(): an absent or damaged file is the defaults.
Load(content) == IF Parses(content) THEN IntoSettings(Head(content)) ELSE Defaults

\* pin(): the flags, on what this run uses only.
Pin_Loose(l, s) ==
  [s EXCEPT !.format = IF Args(l).output_format = None THEN @ ELSE Args(l).output_format,
            !.rate = IF Args(l).output_sample_rate = None THEN @ ELSE Args(l).output_sample_rate]
Pin(l, s) == Reconciled(Pin_Loose(l, s))

Pinned(l, field) == CASE field = "format" -> Args(l).output_format # None
                      [] field = "rate"   -> Args(l).output_sample_rate # None
                      [] OTHER            -> FALSE

\* open_settings(): a flag that does not parse fails the launch.
BadFlag(l) == \/ Args(l).output_format \notin StemFormats \cup {None}
              \/ Args(l).output_sample_rate \notin OutputRates \cup {None}

SettingsInit ==
  /\ saved = [l \in Launches |-> Defaults]
  /\ current = [l \in Launches |-> Defaults]
  /\ writing = [t \in Threads |-> None]

OpenSettings(l) ==
  /\ saved' = [saved EXCEPT ![l] = Load(disk[JSON])]
  /\ current' = [current EXCEPT ![l] = Pin(l, Load(disk[JSON]))]
  /\ UNCHANGED writing

-----------------------------------------------------------------------------
(* write() *)

\* What is serialised is the copy no flag has touched.
Written_Current(l, s, c) == c
Serialised(l, s, c) == s

\* Under the lock: both copies change.
Change(l, t, field, value) ==
  LET Changed(s) == Reconciled([s EXCEPT ![field] = value]) IN
  /\ writing[t] = None
  /\ ~Pinned(l, field)
  /\ saved' = [saved EXCEPT ![l] = Changed(@)]
  /\ current' = [current EXCEPT ![l] = Changed(@)]
  /\ writing' = [writing EXCEPT ![t] =
       [doc |-> FromSettings(Serialised(l, saved'[l], current'[l])), at |-> "create"]]

At(t, step) == writing[t] # None /\ writing[t].at = step
OnTo(t, step) == writing' = [writing EXCEPT ![t].at = step]

\* save(), with the lock let go: through a temporary.
SaveCreate(t) == At(t, "create") /\ Create(t, JSON) /\ OnTo(t, "fill")
SaveFill(t)   == At(t, "fill") /\ Put(t, Text(writing[t].doc)) /\ OnTo(t, "rename")
SaveRename(t) == /\ At(t, "rename")
                 /\ Rename(t, JSON)
                 /\ writing' = [writing EXCEPT ![t] = None]

\* A failed write is a warning: the change stays with this run.  So is a
\* temporary another thread has renamed away.
SaveFails(t) ==
  /\ writing[t] # None
  /\ Close({t})
  /\ writing' = [writing EXCEPT ![t] = None]

SaveGone(t) == At(t, "rename") /\ part[JSON] = None /\ SaveFails(t)

SaveStep(t) ==
  /\ \/ (SaveCreate(t) \/ SaveFill(t) \/ SaveRename(t) \/ SaveGone(t)) /\ Smooth
     \/ SaveFails(t) /\ Trouble
  /\ UNCHANGED <<saved, current>>
=============================================================================
