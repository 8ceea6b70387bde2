------------------------- MODULE MCCollectionArchive -------------------------
(***************************************************************************)
(* Instances of CollectionArchive for TLC.                                  *)
(***************************************************************************)
EXTENDS CollectionArchive

MCRequests == Items \X (1..(MaxChanges + 1))
MCItemOf   == [r \in MCRequests |-> r[1]]
MCFilesOf  == [t \in Targets |-> Files]

Symmetry == Permutations(Ids) \union Permutations(Items)
=============================================================================
