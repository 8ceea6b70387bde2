-------------------------- MODULE MCArchiveTrigger --------------------------
(***************************************************************************)
(* Instances of ArchiveTrigger for TLC: one item linked directly, one both  *)
(* directly and through the collection, the others through the collection.  *)
(***************************************************************************)
EXTENDS ArchiveTrigger

CONSTANTS u1, u2, u3, c1, a1, a2, m1, m2

MCUrls        == {u1, u2, u3}
MCDirect      == {u1, u2}
MCMembers     == [c \in Collections |-> {u2, u3}]
MCAssetsOf    == [u \in Urls |-> CASE u = u1 -> {a1} [] u = u2 -> {a2} [] OTHER -> {a1, a2}]
MCMetValid    == [m \in Mets |-> "valid"]
MCMetKinds    == [m \in Mets |-> IF m = m1 THEN "mistyped" ELSE "valid"]
=============================================================================
