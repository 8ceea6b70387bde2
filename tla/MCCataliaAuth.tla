---------------------------- MODULE MCCataliaAuth ----------------------------
(***************************************************************************)
(* Instance of CataliaAuth: the patterns overlap, so that rows of different *)
(* closeness and with different access compete for one decision.  The user  *)
(* is in two groups, one of them the algorithm's, so that few groups show   *)
(* both rows that compete across groups and rows only one evaluation sees.  *)
(***************************************************************************)
EXTENDS CataliaAuth, TLC

CONSTANTS user, algorithm, admin, exact, general, daac1, daac2

\* "exact" shares more with the collection, and with daac1, than "general".
MCPatterns        == {exact, general}
MCSourceMatches   == {exact, general}
MCSourceCloseness == exact :> 2 @@ general :> 1

\* Only "general" matches other DAAC collections.
MCTargetMatches ==
  [t \in Targets |-> IF t = exact THEN {daac1} ELSE Daacs]
MCTargetCloseness ==
  [td \in Targets \X Daacs |->
     IF td[1] = general THEN 1 ELSE IF td[2] = daac1 THEN 2 ELSE 0]

\* An administrator, who is in a user group too, and somebody else.
MCCallers == {{user, admin}, {user}}

\* Rows come in the order of the groups, then of the key "source->target".
Rank(v) == CASE v \in {user, exact} -> 0
             [] v \in {algorithm, general} -> 1
MCPosition == [k \in Keys |-> 4 * Rank(k[1]) + 2 * Rank(k[2]) + Rank(k[3])]
=============================================================================
