------------------------------- MODULE Staged -------------------------------
(***************************************************************************)
(* Files that are written to a temporary sibling and renamed into place:    *)
(* settings.json, the weights, the CUDA libraries.  What the operating      *)
(* system does with a path, a temporary and a handle on either.             *)
(*                                                                         *)
(* A file's content is a sequence of cells.  A handle stays with the file   *)
(* it was opened on: after a rename it writes into the published file.      *)
(***************************************************************************)
EXTENDS CommandLine, Sequences, FiniteSets

CONSTANT Paths

VARIABLES
  disk,   \* what each path holds, None when it is not there
  part,   \* its temporary sibling
  handle  \* what each thread has open for writing

fileVars == <<disk, part, handle>>

Longer(a, b) == IF a > b THEN a ELSE b

\* A write at an offset: over what is there, past its end with a hole.
WriteAt(content, off, cells) ==
  [i \in 1 .. Longer(Len(content), off + Len(cells)) |->
     IF i > off /\ i <= off + Len(cells) THEN cells[i - off]
     ELSE IF i <= Len(content) THEN content[i]
     ELSE "hole"]

\* Creating truncates, whoever else has the temporary open.
Create_InPlace(t, f) ==
  /\ disk' = [disk EXCEPT ![f] = <<>>]
  /\ handle' = [handle EXCEPT ![t] = [path |-> f, at |-> "disk", off |-> 0]]
  /\ UNCHANGED part
Create(t, f) ==
  /\ part' = [part EXCEPT ![f] = <<>>]
  /\ handle' = [handle EXCEPT ![t] = [path |-> f, at |-> "part", off |-> 0]]
  /\ UNCHANGED disk

Put(t, cells) ==
  LET h == handle[t] IN
  /\ part' = IF h.at = "part" THEN [part EXCEPT ![h.path] = WriteAt(@, h.off, cells)] ELSE part
  /\ disk' = IF h.at = "disk" THEN [disk EXCEPT ![h.path] = WriteAt(@, h.off, cells)] ELSE disk
  /\ handle' = [handle EXCEPT ![t] = [h EXCEPT !.off = @ + Len(cells)]]

\* What every other handle on the path points to once its temporary moved.
Moved(h, f) ==
  IF h = None THEN None
  ELSE IF h.path # f THEN h
  ELSE [h EXCEPT !.at = IF @ = "part" THEN "disk" ELSE "gone"]

\* The thread has closed its own handle; whatever the temporary holds is published.
Rename(t, f) ==
  /\ part[f] # None
  /\ disk' = [disk EXCEPT ![f] = part[f]]
  /\ part' = [part EXCEPT ![f] = None]
  /\ handle' = [u \in Threads |-> IF u = t THEN None ELSE Moved(handle[u], f)]

Unlinked(h, fs, where) ==
  IF h # None /\ h.path \in fs /\ h.at = where THEN [h EXCEPT !.at = "gone"] ELSE h

Delete(fs) ==
  /\ disk' = [f \in Paths |-> IF f \in fs THEN None ELSE disk[f]]
  /\ handle' = [u \in Threads |-> Unlinked(handle[u], fs, "disk")]
  /\ UNCHANGED part

RemovePart(t, f) ==
  /\ part' = [part EXCEPT ![f] = None]
  /\ handle' = [u \in Threads |-> IF u = t THEN None ELSE Unlinked(handle[u], {f}, "part")]
  /\ UNCHANGED disk

Close(ts) ==
  /\ handle' = [u \in Threads |-> IF u \in ts THEN None ELSE handle[u]]
  /\ UNCHANGED <<disk, part>>
=============================================================================
