--------------------------- MODULE HostProperties ---------------------------
(***************************************************************************)
(* What the launches of one machine promise each other and the next one.    *)
(***************************************************************************)
EXTENDS Host

Phases == {"off", "bound", "settled", "prepared", "loading", "loaded", "serving",
           "installing", "over"}
SettingsRecords == [preset : Presets, format : StemFormats, rate : OutputRates]

\* Every variable holds what its part of the code can hold.
HostTypeOK ==
  /\ phase \in [Launches -> Phases]
  /\ saved \in [Launches -> SettingsRecords]
  /\ \A l \in Launches : current[l].preset \in Presets /\ current[l].rate \in OutputRates
  /\ \A t \in Threads : handle[t] # None => handle[t].at \in {"part", "disk", "gone"}
  /\ mingled \cup spilt \cup unread \subseteq Paths
  /\ caller \in [Launches -> [Callers -> {"none", "called", "stopped", "withdrawing", "withdrawn"}]]

\* Whatever flags, menus, a hand-edited file and another version's file come
\* to, the pair a client is given by default is one an encoder has
\* (settings.rs:36).
PairIsCarried ==
  \A l \in Launches : /\ Carries(saved[l].format, saved[l].rate)
                      /\ Carries(current[l].format, current[l].rate)

\* A flag is for one run: a format the file and the menus never named is in no
\* launch's saved copy and in no document written (settings.rs:6, :150).
FlagsStayOut ==
  LET Named == plan.formats \cup {Defaults.format} \cup
               (IF Parses(plan.disk[JSON]) THEN {Head(plan.disk[JSON]).output_format} ELSE {})
  IN  /\ \A l \in Launches : saved[l].format \in Named
      /\ Load(disk[JSON]).format \in Named

\* A launch that reads the settings at any moment, after any crash or failed
\* write, finds the last document that was written, whole (settings.rs:286).
\* Two threads saving at once are the exception: settings_race shows it.
FileSurvives == ~raced => Load(disk[JSON]) = committed

\* Every change the window makes is saved (settings.rs:12): with no write under
\* way and none failed, the file says what the one launch running last saved.
EveryChangeIsSaved ==
  \A l \in Launches :
    /\ Serving(l) /\ ~failed
    /\ \A t \in Threads : writing[t] = None
    /\ \A k \in Launches \ {l} : phase[k] = "off"
    => Load(disk[JSON]) = saved[l]

\* What a launch runs from the download cache is what the digests pin, whatever
\* was corrupt there, on the wire or cut short (download.rs:3, startup.rs:349);
\* unless two launches were at the same file, its last bytes were lost, or it was
\* damaged already when the other file of its preset was fetched (download.rs:34).
WeightsAreThePinned ==
  \A l \in Launches : loaded[l] # None /\ loaded[l].dir = "cache" /\ IsPreset(loaded[l].name) =>
    \A f \in ToSet(Files(loaded[l].name)) \ (mingled \cup spilt \cup unread) : loaded[l].weights[f] = Whole(f)

\* Two installations at once mingle the library too.
Mingled(f) == f \in mingled \/ \E z \in ToSet(COMPONENTS) \cap mingled : f = Library(z)

\* A library beside the executable is whole, so the probe never loads half of
\* one (cuda.rs:189).
LibrariesAreWhole ==
  \A z \in ToSet(COMPONENTS) :
    LET f == Library(z) IN ~Mingled(f) => disk[f] \in {None, Whole(f)}

\* A whole file is never taken away, and a machine that may not download
\* touches none (integrity.rs:110).
KeepsWhatItCannotReplace ==
  [][/\ \A f \in Paths \ ({JSON} \cup ToSet(COMPONENTS)) :
          ~Mingled(f) /\ disk[f] = Whole(f) => disk'[f] = Whole(f)
     /\ (\A l \in Launches : Args(l).offline /\ ~Args(l).install_cuda) =>
          \A f \in Paths \ {JSON} : disk'[f] = disk[f]]_vars

\* A launch that cannot have the port leaves the server that has it its stems
\* (main.rs:10, serve.rs:17).
LoserClearsNothing ==
  \A l \in Launches : \A k \in cleared[l] : Args(l).bind # Args(k).bind

\* The record a withdrawal names is the launch's own, however names collided
\* with another server or with one that died (discovery.rs:587).  A launch that was renamed
\* without a word can only name what it asked for (discovery.rs:642), another's.
WithdrawsItsOwn ==
  misled = {} => \A l \in Launches :
    phase[l] = "serving" /\ advert[l] # None /\ ~withdrawn[l] => onair[advert[l].record] = l

\* A server that ends through shutdown::now leaves no record behind that the
\* system would have taken (shutdown.rs:14), when nobody else was ending it too.
SaysGoodbye ==
  misled = {} => \A l \in Launches :
    LET callers == {c \in Callers : caller[l][c] # "none"} IN
    /\ phase[l] = "over" /\ advert[l] # None /\ ~advert[l].refused
    /\ Cardinality(callers) = 1 /\ \A c \in callers : caller[l][c] = ExitsAt
    => onair[advert[l].record] # l \/ advert[l].record \in handed

\* A separation the closing window ends was given up in so many words, or began
\* when the window was already on its way out (ui/quit.rs:57).
OnlyTheAgreedIsLost == \A l \in Launches : lost[l] = "yes" => agreed[l]

\* Two launches share a cache key exactly when they would make the same samples,
\* and a client files their stems under one name exactly when the weights and
\* their arrangement are the same (switch.rs:113, :128, ident.rs).
IdentityTellsAudioApart ==
  \A l, k \in {m \in Launches : loaded[m] # None} :
    LET Name(m) == loaded[m].name
        Full(m) == ForcedPrecision(m)
        Same == Files(Name(l)) = Files(Name(k))
        Made(m) == [i \in DOMAIN Families(Name(m)) |->
                      PrecisionOf(Full(m), Families(Name(m))[i], plan.on)]
    IN  /\ (IdentityOf(Name(l), Full(l), plan.on, Args(l).overlap)
              = IdentityOf(Name(k), Full(k), plan.on, Args(k).overlap))
             <=> (Same /\ Made(l) = Made(k) /\ Args(l).overlap = Args(k).overlap)
        /\ (ClientSees(PublishedIdentity(Name(l))) = ClientSees(PublishedIdentity(Name(k))))
             <=> Same
-----------------------------------------------------------------------------
(* What a run checks of them together *)

\* Nothing that is loaded, weights or libraries, is other than what was shipped.
FilesAreThePinned == WeightsAreThePinned /\ LibrariesAreWhole

\* A launch goes as it was asked to: its own record withdrawn and no other, and no
\* separation ended that nobody gave up; records only as long as no launch is renamed without a word.
LeavesCleanly == WithdrawsItsOwn /\ SaysGoodbye /\ OnlyTheAgreedIsLost
=============================================================================
