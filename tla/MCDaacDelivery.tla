--------------------------- MODULE MCDaacDelivery ---------------------------
(***************************************************************************)
(* Instances of DaacDelivery for TLC.                                       *)
(***************************************************************************)
EXTENDS DaacDeliveryInv, StatusReport, TLC

\* Distinct items for distinct requests, as far as there are enough.
MCItemOf ==
  CHOOSE f \in [Requests -> Items] : \A i \in Items : \E r \in Requests : f[r] = i
MCCollectionOf == [i \in Items |-> 1]
MCFilesOf == [t \in Targets |-> Files]

Symmetry == Permutations(Ids) \union Permutations(Messages)
=============================================================================
