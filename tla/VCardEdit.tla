------------------------------ MODULE VCardEdit ------------------------------
(***************************************************************************)
(* The edits of the user's own vCard (src/src/vcard-manager.c, the         *)
(* gabble_vcard_manager_edit_info_apply_* functions).  A vCard is the      *)
(* sequence of the children of its <vCard/> node, each with a name and     *)
(* everything below it as one value.                                       *)
(***************************************************************************)
EXTENDS Sequences, SequencesExt

CONSTANTS
    Limited,      \* GABBLE_CONNECTION_FEATURES_GOOGLE_ROSTER
    CachedAlias,  \* our alias, if better than what a vCard says ...
    NoAlias       \* ... and the value for none

ASSUME LimitedAssumption == Limited \in BOOLEAN

Node(n, x) == [name |-> n, value |-> x]

(* An edit list is a sequence of these: the GabbleVCardEditTypes.  The     *)
(* fields an edit does not use are NoAlias.                                *)
Replace(n, x) == [type |-> "replace", name |-> n, value |-> x]
AppendNode(n, x) == [type |-> "append", name |-> n, value |-> x]
Delete(n) == [type |-> "delete", name |-> n, value |-> NoAlias]
Clear == [type |-> "clear", name |-> "", value |-> NoAlias]
SetAlias(x) == [type |-> "set_alias", name |-> "", value |-> x]

\* gabble_vcard_manager_can_use_vcard_field
CanUse(n) == ~Limited \/ n \in {"N", "FN", "PHOTO", "URL"}

Named(v, n) == SelectSeq(v, LAMBDA c : c.name = n)
Unnamed(v, n) == SelectSeq(v, LAMBDA c : c.name # n)

\* What an edit function does to the vCard, and whether it returns TRUE.
Result(v, changed) == [vcard |-> v, changed |-> changed]

\* Defect: a field that is there twice counts as replaced already.
SignificantFirstOnly(n, x, v) ==
    Named(v, n) = <<>> \/ Head(Named(v, n)) # Node(n, x)

(* gabble_vcard_manager_replace_is_significant: unless the vCard has the   *)
(* field exactly once, with this very content.                             *)
ReplaceIsSignificant(n, x, v) == Named(v, n) # <<Node(n, x)>>

ApplyReplace(n, x, v) ==
    IF CanUse(n) /\ ReplaceIsSignificant(n, x, v)
    THEN Result(Append(Unnamed(v, n), Node(n, x)), TRUE)
    ELSE Result(v, FALSE)

ApplyAppend(n, x, v) ==
    IF CanUse(n) THEN Result(Append(v, Node(n, x)), TRUE) ELSE Result(v, FALSE)

ApplyDelete(n, v) == Result(Unnamed(v, n), Named(v, n) # <<>>)

\* Defect: everything goes, the photo too.
ApplyClearAll(v) == Result(<<>>, v # <<>>)

\* Everything but the photo goes: SetContactInfo does not touch photos.
ApplyClear(v) == Result(Named(v, "PHOTO"), Unnamed(v, "PHOTO") # <<>>)

\* Defect: the alias field is not looked for, and the field set is NICKNAME.
ApplySetAliasNickname(x, v) ==
    IF x # NoAlias THEN ApplyReplace("NICKNAME", x, v)
    ELSE IF CachedAlias = NoAlias THEN Result(v, FALSE)
    ELSE ApplyReplace("NICKNAME", CachedAlias, v)

(* SET_ALIAS is a REPLACE of the field that holds the alias on this        *)
(* server.  Without a new alias it only fills in a missing field with the  *)
(* cached one.                                                             *)
ApplySetAlias(x, v) ==
    LET field == IF CanUse("NICKNAME") THEN "NICKNAME" ELSE "FN"
    IN  IF x # NoAlias THEN ApplyReplace(field, x, v)
        ELSE IF Named(v, field) # <<>> \/ CachedAlias = NoAlias
        THEN Result(v, FALSE)
        ELSE ApplyReplace(field, CachedAlias, v)

\* gabble_vcard_manager_edit_info_apply: the table edit_functions.
Apply(e, v) ==
    CASE e.type = "replace"   -> ApplyReplace(e.name, e.value, v)
      [] e.type = "append"    -> ApplyAppend(e.name, e.value, v)
      [] e.type = "delete"    -> ApplyDelete(e.name, v)
      [] e.type = "clear"     -> ApplyClear(v)
      [] e.type = "set_alias" -> ApplySetAlias(e.value, v)

\* Defect: only the last edit decides whether anything changed.
PatchLastDecides(edits, v) ==
    FoldLeft(LAMBDA r, e : Apply(e, r.vcard), Result(v, FALSE), edits)

(* The loop of manager_patch_vcard: the edits in order, each on the result *)
(* of the one before it.                                                   *)
Patch(edits, v) ==
    FoldLeft(LAMBDA r, e : LET a == Apply(e, r.vcard)
                           IN  Result(a.vcard, r.changed \/ a.changed),
             Result(v, FALSE), edits)
==============================================================================
