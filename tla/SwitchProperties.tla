-------------------------- MODULE SwitchProperties --------------------------
(***************************************************************************)
(* What is claimed of a model switch.                                       *)
(***************************************************************************)
EXTENDS Switch, QueueProperties

NoneInFlight == \A i \in Installers : thread[i] \notin InFlight

\* The presets that were loaded on this machine, by the launch or by a switch.
LoadedPresets == {BootPreset} \cup {picked[i] : i \in {k \in Installers : reply[k] = "ok"}}

\* Once no switch is in flight, the preset the server names, keys its stems with
\* and will start on next time is the one the worker runs (run: "Blocks until the
\* worker has actually swapped, which is what makes everything below true"): unless
\* the switch it runs for ran beside another, which a second click can start before
\* the first one's thread has written `state`.  That lasts until a switch that runs
\* alone is loaded.  While one does, past its first step, the window says so: the
\* menu is shut and no failure or idle state of an earlier switch covers it.  And
\* whatever was clicked, what is named and what is saved has been loaded here ("Only
\* once it has loaded").
NamedModelIsLoaded ==
  /\ NoneInFlight => info = separator
  /\ NoneInFlight /\ separator \notin crossed => current = PresetOf(separator) /\ saved = current
  /\ \A i \in Installers \ crossed : thread[i] \in InFlight \ {"spawned"} => state \in Busy
  /\ {current, saved} \subseteq LoadedPresets

\* Stems are filed under the model that made them.  (docs/internals.md:11: "A hit
\* is provably the bytes a miss would have produced".)
StemsMatchTheirKey ==
  \A j \in Jobs : made[j] # None => ident[j] = PresetOf(made[j])

\* Every switch ends, loaded or told why not, crossed or alone, a shutdown included;
\* and every job beside it ends too, unless the worker leaves it in line.
EverySwitchEnds ==
  /\ ~NoneInFlight ~> NoneInFlight
  /\ \A j \in Jobs : Waiting(j) \/ running = j
       ~> IsTerminal(j) \/ (wpc = "finished" /\ Waiting(j))
-----------------------------------------------------------------------------
(* What NamedModelIsLoaded rests on *)

SwitchShape ==
  /\ state \in SwitchState
  /\ clicked \in Installers \cup {None}
  /\ thread \in [Installers -> ThreadState]
  /\ picked \in [Installers -> Presets \cup {None}]
  /\ crossed \subseteq Installers

\* Two switches run beside one another only where the later request overlooked the
\* earlier; past its first step, one that runs alone is what the window shows.
CrossedOrAlone ==
  /\ \A i \in Installers : thread[i] = "checked" <=> clicked = i
  /\ \A i, k \in Installers :
       thread[i] \in InFlight /\ thread[k] \in InFlight /\ i # k => i \in crossed /\ k \in crossed
  /\ \A i, k \in Installers : thread[i] = "checked" /\ thread[k] \in InFlight => i \in crossed
  /\ \A i \in Installers \ crossed : thread[i] \in InFlight \ {"spawned"} => state \in Busy

\* A call that is staged, being built or displaced is so once, and has no answer yet.
HeldOnce ==
  /\ \A i \in Installers : i = incoming \/ i = building \/ (\E k \in Installers : ousted[k] = i)
       => inst[i] \in {"staged", "waiting"} /\ reply[i] = None
  /\ incoming # None => incoming # building /\ \A k \in Installers : ousted[k] # incoming
  /\ building # None => \A k \in Installers : ousted[k] # building
  /\ \A k, m \in Installers : ousted[k] = ousted[m] /\ k # m => ousted[k] = None

\* A thread calls install() while it is loading, and the model that runs is of one
\* that was told so.
CallsAreTheThreads ==
  \A i \in Installers :
    /\ inst[i] # "idle" => thread[i] \in {"loading", "adopted", "saved", "over"}
    /\ inst[i] = "idle" => reply[i] = None
    /\ inst[i] \in {"staged", "waiting"} => thread[i] = "loading"
    /\ separator = i => reply[i] = "ok"
    /\ thread[i] \in {"adopted", "saved"} => reply[i] = "ok"

\* The worker has swapped for the switch, and its thread may know.
Swapped(i) == \/ thread[i] \in {"adopted", "saved"}
              \/ thread[i] = "loading" /\ reply[i] = "ok"

\* How far the names follow the model of a switch that ran alone: not at all before
\* its thread is told, and one more with each of its steps after that.
NamesFollow ==
  /\ info = IF wpc = "reply" THEN building ELSE separator
  /\ separator \notin crossed =>
       /\ \A k \in Installers \ {separator} : ~Swapped(k)
       /\ separator = Boot \/ thread[separator] \in {"adopted", "saved", "over"}
            => current = PresetOf(separator)
       /\ separator = Boot \/ thread[separator] \in {"saved", "over"} => saved = current
  /\ {current, saved} \subseteq LoadedPresets
=============================================================================
