------------------------------- MODULE Models -------------------------------
(***************************************************************************)
(* The model catalogue (stemd-server/src/models/preset.rs), the precision   *)
(* each model runs at (precision.rs), and the two identities a model has:   *)
(* the server's own cache key and the id clients store (switch.rs,          *)
(* ident.rs).                                                              *)
(*                                                                         *)
(* An artefact is named by a string; Spelled gives its characters.  A       *)
(* digest is what it was taken of.                                          *)
(***************************************************************************)
EXTENDS Integers, Sequences, FiniteSets, SequencesExt

CONSTANT Spelled

-----------------------------------------------------------------------------
(* The presets *)

Presets == {"Fast", "Balanced", "Quality"}
DEFAULT_PRESET == "Fast"

\* The naming artefact first.  A preset's files are its artefacts' weights.
Artefacts(p) == CASE p = "Fast"     -> <<"htdemucs">>
                  [] p = "Balanced" -> <<"htdemucs_ft">>
                  [] p = "Quality"  -> <<"bs_polarformer", "htdemucs_ft">>
Artefact(p) == Head(Artefacts(p))

RETIRED == {"hdemucs_mmi_mps", "htdemucs_mps", "htdemucs_ft_mps", "bs_roformer_viperx"}

\* An artefact no preset is named for is one the operator made.
FromArtefact(name) ==
  IF \E p \in Presets : Artefact(p) = name
  THEN CHOOSE p \in Presets : Artefact(p) = name
  ELSE "custom"

\* What has to be in a directory for an artefact to be found there.
Files(name) == IF FromArtefact(name) = "custom" THEN <<name>> ELSE Artefacts(FromArtefact(name))

Families(name) ==
  CASE FromArtefact(name) = "Quality"  -> <<"roformer", "htdemucs">>
    [] FromArtefact(name) = "Balanced" -> <<"htdemucs", "htdemucs">>
    [] OTHER                           -> <<"htdemucs">>

\* Bumped when a preset uses the same weights otherwise.
Recipe(p) == IF p = "Fast" THEN 1 ELSE 2

\* The pinned digest of the first weights file.
DigestOf(p) == Head(Artefacts(p))

-----------------------------------------------------------------------------
(* Precision *)

Preferred(family, on) ==
  CASE on = "cpu"                              -> "f32"
    [] on = "cuda" /\ family = "roformer"      -> "f32"
    [] OTHER                                   -> "f16"

PrecisionOf(full, family, on) == IF full THEN "f32" ELSE Preferred(family, on)

Precisions(full, name, on) ==
  [i \in DOMAIN Families(name) |-> PrecisionOf(full, Families(name)[i], on)]

\* One value when every model of the preset agrees.
Key_First(precisions) == <<Head(precisions)>>
Key(precisions) == IF \A i \in DOMAIN precisions : precisions[i] = Head(precisions)
                   THEN <<Head(precisions)>>
                   ELSE precisions

-----------------------------------------------------------------------------
(* Identities *)

MAX_ID == 31
DIGEST_CHARS == 8
CUSTOM_CHARS == 6   \* "custom"

\* A preset's name leaves room for its digest, as the tests of ident.rs see to.
ASSUME SpelledAssumption ==
  /\ \A name \in DOMAIN Spelled : Spelled[name] \in Seq(ToSet(Spelled[name]))
  /\ \A p \in Presets : /\ Artefact(p) \in DOMAIN Spelled
                        /\ Len(Spelled[Artefact(p)]) + 1 + DIGEST_CHARS <= MAX_ID

Portable(c) == c \notin {" ", "/", "(", ")"}
AsPortable(chars) == [i \in DOMAIN chars |-> IF Portable(chars[i]) THEN chars[i] ELSE "_"]

ModelIdentity(name) ==
  LET p == FromArtefact(name)
  IN  IF p = "custom" THEN <<name, 0>> ELSE <<DigestOf(p), Recipe(p)>>

\* identity(): every input that changes the samples.
IdentityOf(name, full, on, overlap) ==
  <<ModelIdentity(name), Key(Precisions(full, name, on)), overlap>>

\* tagged(): a name no preset has is shortened; the digest covers all of it.
Tagged(chars) ==
  SubSeq(AsPortable(chars), 1,
         LET room == MAX_ID - (CUSTOM_CHARS + 2 + DIGEST_CHARS)
         IN  IF Len(chars) < room THEN Len(chars) ELSE room)

\* published_identity(): which weights, and how they are arranged.
PublishedIdentity(name) ==
  IF FromArtefact(name) = "custom"
  THEN [prefix |-> CUSTOM_CHARS + 1, head |-> Tagged(Spelled[name]), digest |-> ModelIdentity(name)]
  ELSE [prefix |-> 0, head |-> Spelled[name], digest |-> ModelIdentity(name)]

\* What a client makes of an id (the C code ident.rs quotes): a fixed buffer and
\* the conservative charset.  A digest that does not fit is not told apart.
ClientSees(id) ==
  [id EXCEPT !.head   = AsPortable(@),
             !.digest = IF id.prefix + Len(id.head) + 1 + DIGEST_CHARS <= MAX_ID
                        THEN @ ELSE <<"cut", 0>>]
=============================================================================
