------------------------------ MODULE MCSwitch ------------------------------
(* Small instances of the model switch for TLC. *)
EXTENDS SwitchProperties, TLC

\* The thread that is asked for something first, and the preset other than the
\* loaded one that is asked for first.
CONSTANTS FirstThread, FirstPreset

\* Threads are interchangeable, and so are the presets that are not loaded at the
\* start: each behaviour has one like it that asks for them in this order.
InOrder ==
  /\ (\E i \in Installers : thread[i] # "idle") => thread[FirstThread] # "idle"
  /\ (\E i \in Installers : picked[i] \notin {None, BootPreset, FirstPreset})
       => \E i \in Installers : picked[i] = FirstPreset

\* Jobs are keyed before anything else happens and submitted at any time: their keys
\* decide nothing else here.
KeyedFirst ==
  (\E i \in Installers : thread[i] # "idle") \/ shutdown => \A j \in Jobs : ident[j] # None

\* To everybody but the window's label, a download is a verification that takes longer.
OneLabel == state # "downloading"

OrderedSwitchSpec ==
  SwitchInit /\ [][SwitchNext /\ (InOrder /\ KeyedFirst /\ OneLabel)']_allVars /\ SwitchFairness
=============================================================================
