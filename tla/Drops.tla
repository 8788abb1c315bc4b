-------------------------------- MODULE Drops --------------------------------
(***************************************************************************)
(* Files dropped on the window (stemd-server/src/drops.rs, and what ui/     *)
(* mod.rs and ui/recents.rs do with them): the list, a thread for each      *)
(* drop, the folder it copies the stems to, and the cross that deletes it.  *)
(*                                                                         *)
(* How a drop claims, joins and waits for a job beside the decks is         *)
(* Server's; here a separation ends with an entry or without.  One file is  *)
(* copied in one step.                                                      *)
(***************************************************************************)
EXTENDS Client

CONSTANTS
  Songs,       \* the files that may be dropped
  Formats,     \* the formats picked from the menu
  Loud,        \* the parts each of two models leaves over full scale
  Remembered,  \* REMEMBERED
  MaxDrops     \* bound: files dropped

ASSUME DropsAssumption == Formats \subseteq StemFormats /\ Loud \in [1 .. 2 -> SUBSET Parts]

VARIABLES
  model,   \* which of two models the worker runs
  item,    \* every Dropped there was, oldest first
  recent,  \* Drops.recent: the drops that have a row, the newest on top
  folder   \* the folders of stems, with their stems.json

dropVars == <<model, item, recent, folder>>

\* The window is at work where there is neither an upload nor a client.
Windowed == requests = <<>> /\ cli.at = "none"

AUDIO_EXTENSIONS == {"wav", "flac", "mp3", "m4a", "aac", "aif", "aiff", "mp4", "ogg"}
LooksLikeAudio(song) == song.extension \in AUDIO_EXTENSIONS

\* output_dir: beside the file, by its title alone.
OutputDir(song) == <<song.parent, song.title>>
Dir(n) == OutputDir(item[n].source)
NoFolder == [there |-> FALSE, files |-> <<>>, gains |-> <<>>]

IsRunning(n) == item[n].at \notin {"done", "failed"}

\* Drops::remember: a row for each file; the oldest beyond Remembered go.
Remember(n, song) ==
  LET rows == {n} \cup {other \in recent : item[other].source # song}
  IN  {m \in rows : Cardinality({newer \in rows : newer > m}) < Remembered}
Forget(n) == recent' = recent \ {n}

\* What transfer_gain made of each part.
EntryFor(n) ==
  LET format == item[n].output.format
      peak(p) == IF p \in Loud[model] THEN FULL + Loudness ELSE FULL
  IN  [song |-> item[n].source, format |-> format,
       gain |-> [p \in Parts |-> TransferGain(peak(p), format)]]
Scaled(n) == {p \in Parts : item[n].entry.gain[p] # FULL}

DropsInit ==
  /\ ClientInit
  /\ model = 1
  /\ item = <<>> /\ recent = {}
  /\ folder = [d \in {OutputDir(s) : s \in Songs} |-> NoFolder]

-----------------------------------------------------------------------------
Goes(n, to) == item' = [item EXCEPT ![n].at = to]

\* take_drops, pick_a_file, accept: what is not audio never gets here.
Accept(song) ==
  /\ Windowed /\ LooksLikeAudio(song)
  /\ Len(item) < MaxDrops
  /\ item' = Append(item, [source |-> song, at |-> "reading", output |-> Nothing, entry |-> Nothing,
                           copied |-> 0, disturbed |-> FALSE])
  /\ recent' = Remember(Len(item) + 1, song)
  /\ UNCHANGED <<clientVars, model, folder>>

\* read, and then the settings.
Read(n) ==
  /\ item[n].at = "reading"
  /\ LET decoded == DecodeFile(item[n].source.file)
     IN  IF \/ IsRefused(decoded)
            \/ decoded.frames * HighestRate > MaxTrack * decoded.rate
            \/ IsRefused(ToRate(decoded, MODEL_RATE, 0))
         THEN Goes(n, "failed")
         ELSE item' = [item EXCEPT ![n].at = "separate", ![n].output = defaults]
  /\ UNCHANGED <<clientVars, model, recent, folder>>

\* separate: a hit, a job of its own or one it joined; or the job was stopped, it
\* failed, or there was no room for it.
SeparateDrop(n) ==
  /\ item[n].at = "separate"
  /\ \/ Goes(n, "failed")
     \/ item' = [item EXCEPT ![n].at = "open", ![n].entry = EntryFor(n)]
  /\ UNCHANGED <<clientVars, model, recent, folder>>

\* write_out: the folder may be there.  Who else has been or is in it is kept for
\* the properties.
OpenFolder(n) ==
  /\ item[n].at = "open"
  /\ \/ Goes(n, "failed") /\ UNCHANGED folder
     \/ /\ folder' = [folder EXCEPT ![Dir(n)].there = TRUE]
        /\ item' = [m \in DOMAIN item |->
             IF m = n
             THEN [item[n] EXCEPT !.at = "copy",
                     !.disturbed = \E o \in DOMAIN item : Dir(o) = Dir(n) /\ item[o].at = "copy"]
             ELSE [item[m] EXCEPT !.disturbed = @ \/ Dir(m) = Dir(n)]]
  /\ UNCHANGED <<clientVars, model, recent>>

\* A copy fails where the cache has let the entry go, the disk is full, or the
\* folder is gone; what was begun of it stays.
CopyFails_Skipped(n) == item' = [item EXCEPT ![n].copied = @ + 1]
CopyFails(n) == Goes(n, "failed")

CopyStem(n) ==
  LET part == STEMS[item[n].copied + 1]
      entry == item[n].entry
      Writes(whole) ==
        /\ folder[Dir(n)].there
        /\ folder' = [folder EXCEPT ![Dir(n)].files =
             With(@, <<part, entry.format>>,
                  [of |-> entry.song, gain |-> entry.gain[part], whole |-> whole])]
  IN  /\ item[n].at = "copy" /\ item[n].copied < Len(STEMS)
      /\ \/ Writes(TRUE) /\ item' = [item EXCEPT ![n].copied = @ + 1]
         \/ (Writes(FALSE) \/ UNCHANGED folder) /\ CopyFails(n)
      /\ UNCHANGED <<clientVars, model, recent>>

\* write_gains, only where there is a gain to record.
WriteGains(n) ==
  /\ item[n].at = "copy" /\ item[n].copied = Len(STEMS)
  /\ \/ Scaled(n) = {} /\ Goes(n, "done") /\ UNCHANGED folder
     \/ /\ Scaled(n) # {} /\ folder[Dir(n)].there /\ Goes(n, "done")
        /\ folder' = [folder EXCEPT ![Dir(n)].gains = [p \in Scaled(n) |-> item[n].entry.gain[p]]]
     \/ Scaled(n) # {} /\ Goes(n, "failed") /\ UNCHANGED folder
  /\ UNCHANGED <<clientVars, model, recent>>

-----------------------------------------------------------------------------
(* The window *)

\* remove_dir_all, stopped by a file it cannot delete: what it came to first is gone.
HalfDeleted(n) ==
  /\ folder[Dir(n)].there
  /\ \E left \in SUBSET DOMAIN folder[Dir(n)].files, gains \in {folder[Dir(n)].gains, <<>>} :
       folder' = [folder EXCEPT ![Dir(n)].files = Restrict(@, left), ![Dir(n)].gains = gains]
  /\ item' = [m \in DOMAIN item |-> [item[m] EXCEPT !.disturbed = @ \/ Dir(m) = Dir(n)]]

\* The cross of a row, there once the drop is over: a done one's folder goes too,
\* if it can be deleted.
Discard(n) ==
  /\ n \in recent /\ ~IsRunning(n)
  /\ \/ item[n].at = "done" /\ folder' = [folder EXCEPT ![Dir(n)] = NoFolder] /\ UNCHANGED item
     \/ item[n].at = "done" /\ HalfDeleted(n)
     \/ UNCHANGED <<folder, item>>
  /\ Forget(n)
  /\ UNCHANGED <<clientVars, model>>

\* A click on a row whose folder has gone.
OpenRow(n) ==
  /\ n \in recent /\ item[n].at = "done" /\ ~folder[Dir(n)].there
  /\ Forget(n)
  /\ UNCHANGED <<clientVars, model, item, folder>>

\* The menus, while no more than MaxDrops drops are to come.
PickFormat(format) ==
  /\ Windowed /\ Len(item) < MaxDrops
  /\ defaults' = [defaults EXCEPT !.format = format]
  /\ UNCHANGED <<vars, requests, sub, audio, phase, stems, shipped, index, cli, dropVars>>

SwitchModel ==
  /\ Windowed /\ Len(item) < MaxDrops
  /\ model' = 3 - model
  /\ UNCHANGED <<clientVars, item, recent, folder>>

DropStep ==
  \/ \E song \in Songs : Accept(song)
  \/ \E n \in DOMAIN item : \/ Read(n) \/ SeparateDrop(n) \/ OpenFolder(n) \/ CopyStem(n)
                            \/ WriteGains(n) \/ Discard(n) \/ OpenRow(n)
  \/ \E format \in Formats : PickFormat(format)
  \/ SwitchModel

DropsNext == (ClientNext /\ UNCHANGED dropVars) \/ DropStep

DropsSpec == DropsInit /\ [][DropsNext]_<<clientVars, dropVars>>

FairDropsSpec ==
  /\ DropsSpec
  /\ WF_<<clientVars, dropVars>>(PipelineNext /\ UNCHANGED <<cli, dropVars>>)
=============================================================================
