----------------------------- MODULE Discovery -----------------------------
(***************************************************************************)
(* Announcing the server over mDNS (stemd-server/src/discovery.rs), through *)
(* the system's own responder.                                              *)
(*                                                                         *)
(* Bonjour and avahi tie a record to a reference the process holds: it goes *)
(* when the reference does.  Windows' DNS Client service answers later, by  *)
(* name, and keeps the record of a process that died (plan.windows).  A     *)
(* name that is taken is settled by granting the next one.                  *)
(***************************************************************************)
EXTENDS CommandLine, FiniteSets

ASSUME LaunchesAssumption == IsFiniteSet(Launches) /\ None \notin Launches

VARIABLES
  onair,      \* what the responder publishes: name -> the launch it is of
  advert,     \* per launch: the Advertiser, None without one
  withdrawn,  \* its flag
  handed,     \* withdrawals the service has and nobody waits for
  misled      \* launches that were renamed without a word

discoveryVars == <<onair, advert, withdrawn, handed, misled>>

Names == {<<Args(l).instance, n>> : l \in Launches, n \in 1 .. Cardinality(Launches) + 1}
AskedName(l) == <<Args(l).instance, 1>>
GrantedName(l) ==
  LET taken == {n \in 1 .. Cardinality(Launches) : onair[<<Args(l).instance, n>>] # None}
  IN  <<Args(l).instance,
        CHOOSE n \in 1 .. Cardinality(Launches) + 1 :
          n \notin taken /\ \A k \in 1 .. n - 1 : k \in taken>>

DiscoveryInit ==
  /\ onair = [n \in Names |-> None]
  /\ advert = [l \in Launches |-> None]
  /\ withdrawn = [l \in Launches |-> FALSE]
  /\ handed = {}
  /\ misled = {}

\* The instance a withdrawal has to name: the one the system said it registered,
\* and the one asked for when it reported success without any (told).
Withdrawable_Asked(l, granted, told) == AskedName(l)
Withdrawable(l, granted, told) == IF told THEN granted ELSE AskedName(l)

\* Bonjour's name arrives at a callback nobody passes: the log says the one asked for.
Logged(l, granted, told) == IF plan.windows /\ told THEN granted ELSE AskedName(l)

Advertised(l) ==
  LET granted == GrantedName(l) IN
  \E told \in IF plan.windows THEN BOOLEAN ELSE {TRUE} :
    /\ onair' = [onair EXCEPT ![granted] = l]
    /\ advert' = [advert EXCEPT ![l] =
         [name |-> Logged(l, granted, told), record |-> Withdrawable(l, granted, told), refused |-> FALSE]]
    /\ misled' = IF told \/ granted = AskedName(l) THEN misled ELSE misled \cup {l}
    /\ UNCHANGED <<withdrawn, handed>>

\* No interface, or the system refuses.
AdvertiseFails == UNCHANGED discoveryVars

\* The service takes longer than anyone waits: it may still publish the record.
AdvertiseTimesOut(l) ==
  /\ plan.windows
  /\ onair' = [onair EXCEPT ![GrantedName(l)] = l]
  /\ UNCHANGED <<advert, withdrawn, handed, misled>>

-----------------------------------------------------------------------------
(* withdraw() *)

\* The flag is taken once; whoever comes second goes on at once.
Swap(l) ==
  /\ withdrawn' = [withdrawn EXCEPT ![l] = TRUE]
  /\ UNCHANGED <<onair, advert, handed, misled>>

WithdrawDone(l) ==
  /\ onair' = [onair EXCEPT ![advert[l].record] = None]
  /\ UNCHANGED <<advert, withdrawn, handed, misled>>

WithdrawRefused(l) ==
  /\ plan.windows
  /\ advert' = [advert EXCEPT ![l].refused = TRUE]
  /\ UNCHANGED <<onair, withdrawn, handed, misled>>

WithdrawPending(l) ==
  /\ plan.windows
  /\ handed' = handed \cup {advert[l].record}
  /\ UNCHANGED <<onair, advert, withdrawn, misled>>

\* The service gets to it, whether the process is still there or not.
ServiceWithdraws(n) ==
  /\ n \in handed
  /\ handed' = handed \ {n}
  /\ onair' = [onair EXCEPT ![n] = None]
  /\ UNCHANGED <<advert, withdrawn, misled>>

\* The process ends: a reference it held is gone with it.
Gone(l) ==
  /\ onair' = IF plan.windows THEN onair
              ELSE [n \in Names |-> IF onair[n] = l THEN None ELSE onair[n]]
  /\ UNCHANGED <<advert, withdrawn, handed, misled>>
=============================================================================
