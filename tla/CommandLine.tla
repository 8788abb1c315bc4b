---------------------------- MODULE CommandLine ----------------------------
(***************************************************************************)
(* How the launches of one machine are started: each launch's command line  *)
(* (stemd-server/src/cli.rs), what is on the machine, and what is done to   *)
(* it.  A plan is chosen once and never changes; a flag that was not given  *)
(* is None.                                                                *)
(***************************************************************************)
EXTENDS Integers

CONSTANTS Launches, Plans, None

VARIABLES
  plan,      \* the plan
  troubles   \* how many more things may go wrong (Plans bounds it)

\* A launch's main thread boots, then draws the window; its switch thread
\* stages a model and saves the choice.
Threads == Launches \X {"main", "switch"}
MainThread(l) == <<l, "main">>
SwitchThread(l) == <<l, "switch">>
ThreadsOf(l) == {t \in Threads : t[1] = l}

Args(l) == plan.args[l]
ForcedPrecision(l) == Args(l).full_precision

\* Something goes wrong that the plan still allows.
Trouble == troubles > 0 /\ troubles' = troubles - 1
Smooth == UNCHANGED troubles
=============================================================================
