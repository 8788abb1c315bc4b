------------------------------ MODULE MCServer ------------------------------
(* Small instances of the server for TLC. *)
EXTENDS ServerProperties, TLC

\* Jobs are interchangeable, and so are tracks.
JobSymmetry == Permutations(Jobs) \cup Permutations(Keys)

\* So are the decks, where every one of them, or none, may leave.
DeckSymmetry == JobSymmetry \cup Permutations(Clients)
=============================================================================
