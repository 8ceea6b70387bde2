-------------------------- MODULE CataliaAuth_proofs --------------------------
(***************************************************************************)
(* CataliaAuth for any tables, patterns and groups: a grant rests on rows   *)
(* that allow it, whatever others change meanwhile; undisturbed, it is what *)
(* the rule says; and no agreement is written without such a row.           *)
(***************************************************************************)
EXTENDS CataliaAuth, FiniteSetTheorems, TLAPS

\* A set of naturals has a least element.
LEMMA LeastNatural ==
  ASSUME NEW T \in SUBSET Nat, T # {}
  PROVE  \E x \in T : \A y \in T : x <= y
<1> DEFINE Below == {1..x : x \in T}
<1>1. Below \subseteq FiniteSubsetsOf(Nat) /\ Below # {}
  <2>1. \A x \in T : 1..x \in SUBSET Nat /\ IsFiniteSet(1..x)
    BY FS_Interval
  <2> QED
    BY <2>1 DEF FiniteSubsetsOf
<1>2. PICK X \in Below : \A Y \in Below : ~(<<Y, X>> \in StrictSubsetOrdering(Nat))
  <2> HIDE DEF Below
  <2> QED
    BY <1>1, WFMin, FS_StrictSubsetOrderingWellFounded
<1>3. PICK x \in T : X = 1..x
  OBVIOUS
<1>4. ASSUME NEW y \in T PROVE x <= y
  <2>1. SUFFICES ASSUME y < x PROVE FALSE
    OBVIOUS
  <2>2. 1..y \subseteq 1..x /\ x \in 1..x /\ x \notin 1..y
    BY <2>1
  <2>3. <<1..y, 1..x>> \in StrictSubsetOrdering(Nat)
    BY <2>2 DEF StrictSubsetOrdering
  <2> QED
    BY <2>3, <1>2, <1>3
<1> QED
  BY <1>4

\* min over a list of rows returns one of them.
LEMMA FirstIsMember ==
  ASSUME NEW S \in SUBSET Row, S # {}
  PROVE  FirstOf(S) \in S
<1> DEFINE T == {Position[r.key] : r \in S}
<1>1. T \in SUBSET Nat /\ T # {}
  BY AuthAssumption DEF Row
<1>2. PICK x \in T : \A y \in T : x <= y
  <2> HIDE DEF T
  <2> QED
    BY <1>1, LeastNatural
<1>3. \E r \in S : \A q \in S : Position[r.key] <= Position[q.key]
  BY <1>2
<1> QED
  BY <1>3 DEF FirstOf

\* Some row is closest to the DAAC collection.
LEMMA TargetClosestExists ==
  ASSUME NEW S \in SUBSET Row, S # {}, NEW d \in Daacs
  PROVE  TargetClosest(S, d) # {}
<1> DEFINE Far(q) == NameLength - TargetCloseness[<<Target(q), d>>]
           T == {Far(q) : q \in S}
<1>1. \A q \in S : TargetCloseness[<<Target(q), d>>] \in 0..NameLength
  BY AuthAssumption DEF Row, Keys, Target
<1>2. NameLength \in Nat
  BY AuthAssumption
<1>3. T \in SUBSET Nat /\ T # {}
  <2>1. \A q \in S : Far(q) \in Nat
    BY <1>1, <1>2
  <2>2. T # {}
    OBVIOUS
  <2> HIDE DEF Far
  <2> QED
    BY <2>1, <2>2
<1>4. PICK x \in T : \A y \in T : x <= y
  <2> HIDE DEF T
  <2> QED
    BY <1>3, LeastNatural
<1>5. PICK r \in S : x = Far(r)
  OBVIOUS
<1>6. ASSUME NEW q \in S PROVE Far(r) <= Far(q)
  <2>1. Far(q) \in T
    OBVIOUS
  <2> HIDE DEF T, Far
  <2> QED
    BY <2>1, <1>4, <1>5
<1>7. r \in TargetClosest(S, d)
  BY <1>1, <1>2, <1>6 DEF TargetClosest
<1> QED
  BY <1>7

\* Some row is closest to the collection.
LEMMA SourceClosestExists ==
  ASSUME NEW S \in SUBSET Row, S # {}
  PROVE  SourceClosest(S) # {}
<1> DEFINE Far(q) == NameLength - SourceCloseness[Source(q)]
           T == {Far(q) : q \in S}
<1>1. \A q \in S : SourceCloseness[Source(q)] \in 0..NameLength
  BY AuthAssumption DEF Row, Keys, Source
<1>2. NameLength \in Nat
  BY AuthAssumption
<1>3. T \in SUBSET Nat /\ T # {}
  BY <1>1, <1>2
<1>4. PICK x \in T : \A y \in T : x <= y
  <2> HIDE DEF T
  <2> QED
    BY <1>3, LeastNatural
<1>5. PICK r \in S : x = Far(r)
  OBVIOUS
<1>6. \A q \in S : Far(r) <= Far(q)
  BY <1>4, <1>5
<1>7. r \in SourceClosest(S)
  BY <1>1, <1>2, <1>6 DEF SourceClosest
<1> QED
  BY <1>7

\* The row get_authorized_daac settles on is one the rule lets decide.
LEMMA DecisionFollowsRule ==
  ASSUME NEW S \in SUBSET Row, NEW d \in Daacs
  PROVE  /\ AuthorizedDaac(S, d) => MayAllow(S, d)
         /\ ~AuthorizedDaac(S, d) => MayDeny(S, d)
<1>1. CASE Candidates(S, d) = {}
  BY <1>1 DEF AuthorizedDaac, MayDeny
<1>2. CASE Candidates(S, d) # {}
  <2> DEFINE matches == Candidates(S, d)
             t == FirstOf(TargetClosest(matches, d))
             final == SameTarget(matches, t)
             s == FirstOf(SourceClosest(final))
             final1 == SameSource(final, s)
             r == FirstOf(final1)
  <2>1. matches \in SUBSET Row
    BY DEF Candidates
  <2>2. t \in matches /\ t \in TargetClosest(matches, d)
    BY <2>1, <1>2, TargetClosestExists, FirstIsMember DEF TargetClosest
  <2>3. final \in SUBSET Row /\ final # {} /\ final \subseteq matches
    BY <2>1, <2>2 DEF SameTarget
  <2>4. s \in final /\ s \in SourceClosest(final)
    BY <2>3, SourceClosestExists, FirstIsMember DEF SourceClosest
  <2>5. final1 \in SUBSET Row /\ final1 # {} /\ final1 \subseteq final
    BY <2>3, <2>4 DEF SameSource
  <2>6. r \in final1
    BY <2>5, FirstIsMember
  <2>7. r \in matches /\ Target(r) = Target(t) /\ Source(r) = Source(s) /\ r \in final
    BY <2>6, <2>5, <2>3 DEF SameTarget, SameSource
  <2>8. r \in TargetClosest(matches, d)
    BY <2>2, <2>7 DEF TargetClosest
  <2>9. final = SameTarget(matches, r)
    BY <2>7 DEF SameTarget
  <2>10. r \in SourceClosest(final)
    BY <2>4, <2>7 DEF SourceClosest
  <2>11. r \in Deciding(S, d)
    BY <2>8, <2>9, <2>10 DEF Deciding
  <2>12. AuthorizedDaac(S, d) <=> r.access
    BY <1>2 DEF AuthorizedDaac
  <2> HIDE DEF r
  <2> QED
    BY <2>11, <2>12 DEF MayAllow, MayDeny
<1> QED
  BY <1>1, <1>2

\* What is allowed, some matching row allows.
LEMMA AllowingRow ==
  ASSUME NEW S \in SUBSET Row, NEW d \in Daacs, AuthorizedDaac(S, d)
  PROVE  \E r \in Candidates(S, d) : r.access
<1>1. MayAllow(S, d)
  BY DecisionFollowsRule
<1> QED
  BY <1>1 DEF MayAllow, Deciding, TargetClosest

-----------------------------------------------------------------------------
(***************************************************************************)
(* Whatever others do.                                                      *)
(***************************************************************************)

\* Rows that allow d to the groups of evaluation p and have been there since
\* the request came.
LiveGrant(p, d) ==
  \E r \in Candidates(live, d) : Group(r) \in GroupsOf(p) /\ r.access

\* What has been read is this evaluation's and has been there, and what the
\* finished evaluations allowed had its row.
LiveSoFar ==
  /\ step = "idle" => phase = 1 /\ results = {}
  /\ step # "idle" => table \subseteq live
  /\ step = "read" => \A r \in results : Group(r) \in GroupsOf(phase)
  /\ \A d \in allowed : \A p \in 1..Phases : p < phase => LiveGrant(p, d)
  /\ step \in {"granted", "done", "failed"} => \A d \in allowed : \A p \in 1..Phases : LiveGrant(p, d)

AuthInv == TypeOK /\ LiveSoFar

\* There are one or two evaluations.
LEMMA PhasesAreFew == Phases \in {1, 2}
  BY DEF Phases

LEMMA InitEstablishes == Init => AuthInv
<1> SUFFICES ASSUME Init PROVE AuthInv
  OBVIOUS
<1>1. table \subseteq Row /\ \A r, q \in table : r.key = q.key => r = q
  <2>1. PICK K \in SUBSET Keys :
          \E f \in [K -> BOOLEAN] : table = {[key |-> k, access |-> f[k]] : k \in DOMAIN f}
    BY DEF Init
  <2> QED
    BY <2>1 DEF Row
<1>2. asked \subseteq Daacs
  BY DEF Init
<1>3. phase \in 1..Phases
  BY PhasesAreFew DEF Init
<1>4. TypeOK
  BY <1>1, <1>2, <1>3, AuthAssumption DEF Init, TypeOK
<1> QED
  BY <1>4, PhasesAreFew DEF Init, AuthInv, LiveSoFar

\* A larger live set keeps what it grants.
LEMMA LiveGrantsGrow ==
  ASSUME live \subseteq live', UNCHANGED kind, NEW p, NEW d, LiveGrant(p, d)
  PROVE  LiveGrant(p, d)'
  BY DEF LiveGrant, Candidates, GroupsOf, Group, Source, Target

LEMMA RequestPreserves == AuthInv /\ Request => AuthInv'
<1> SUFFICES ASSUME AuthInv, Request PROVE AuthInv'
  OBVIOUS
<1>1. TypeOK'
  BY DEF AuthInv, TypeOK, LiveSoFar, Request, Phases, GroupsOf
<1>2. LiveSoFar'
  BY PhasesAreFew DEF AuthInv, TypeOK, LiveSoFar, Request, Phases, GroupsOf
<1> QED
  BY <1>1, <1>2 DEF AuthInv

LEMMA SearchPreserves == AuthInv /\ Search => AuthInv'
<1> SUFFICES ASSUME AuthInv, Search PROVE AuthInv'
  OBVIOUS
<1>1. /\ step = "search" /\ step' \in {"rejected", "read"} /\ results' = {}
      /\ configs' = Configured /\ unread' = GroupsOf(phase)
      /\ UNCHANGED <<table, agreements, kind, asked, phase, allowed, live, changes>>
  BY DEF Search
<1>2. TypeOK'
  BY <1>1 DEF AuthInv, TypeOK, Configured, Phases, GroupsOf
<1>3. LiveSoFar'
  BY <1>1 DEF AuthInv, LiveSoFar, LiveGrant, Phases, GroupsOf, Candidates, Group
<1> QED
  BY <1>2, <1>3 DEF AuthInv

LEMMA ReadGroupPreserves == AuthInv /\ ReadGroup => AuthInv'
<1> SUFFICES ASSUME AuthInv, ReadGroup PROVE AuthInv'
  OBVIOUS
<1>1. PICK g \in unread : /\ unread' = unread \ {g}
                          /\ results' = results \union {r \in table : Group(r) = g}
  BY DEF ReadGroup
<1>2. /\ step = "read"
      /\ UNCHANGED <<table, agreements, kind, asked, step, phase, configs, allowed, live, changes>>
  BY DEF ReadGroup
<1>3. TypeOK'
  BY <1>1, <1>2 DEF AuthInv, TypeOK, LiveSoFar, Phases, GroupsOf
<1>4. \A r \in results' : Group(r) \in GroupsOf(phase)
  BY <1>1, <1>2 DEF AuthInv, TypeOK, LiveSoFar
<1>5. LiveSoFar'
  BY <1>2, <1>4 DEF AuthInv, LiveSoFar, LiveGrant, Phases, GroupsOf, Candidates, Group
<1> QED
  BY <1>3, <1>5 DEF AuthInv

\* What an evaluation allows rests on a row it has read.
LEMMA AuthorisedIsLive ==
  ASSUME AuthInv, step = "read", NEW d \in Authorised
  PROVE  d \in Daacs /\ LiveGrant(phase, d)
<1>1. d \in Daacs /\ results \in SUBSET Row /\ AuthorizedDaac(results, d) /\ results \subseteq live
  BY DEF AuthInv, TypeOK, Authorised
<1>2. PICK r \in Candidates(results, d) : r.access
  BY <1>1, AllowingRow
<1> QED
  BY <1>1, <1>2 DEF LiveGrant, Candidates, AuthInv, LiveSoFar

LEMMA DecidePreserves == AuthInv /\ Decide => AuthInv'
<1> SUFFICES ASSUME AuthInv, Decide PROVE AuthInv'
  OBVIOUS
<1>1. /\ step = "read" /\ unread = {} /\ allowed' = allowed \intersect Authorised
      /\ UNCHANGED <<table, agreements, kind, asked, configs, unread, results, live, changes>>
      /\ phase \in 1..Phases /\ phase \in Nat /\ Phases \in Nat /\ Phases' = Phases
  BY PhasesAreFew DEF Decide, AuthInv, TypeOK, Phases
<1>2. \/ step' = "rejected" /\ phase' = phase
      \/ step' = "search" /\ phase < Phases /\ phase' = phase + 1
      \/ step' = "granted" /\ phase' = phase /\ phase = Phases
  BY <1>1 DEF Decide
<1>3. TypeOK'
  <2>1. phase' \in 1..Phases
    BY <1>1, <1>2
  <2>2. step' \in {"rejected", "search", "granted"}
    BY <1>2
  <2> QED
    BY <1>1, <2>1, <2>2 DEF AuthInv, TypeOK, GroupsOf
<1>4. ASSUME NEW d \in allowed', NEW p \in 1..Phases, p <= phase PROVE LiveGrant(p, d)'
  <2>1. LiveGrant(p, d)
    BY <1>1, <1>4, AuthorisedIsLive DEF AuthInv, LiveSoFar
  <2> QED
    BY <2>1, <1>1, LiveGrantsGrow
<1>5. LiveSoFar'
  <2>1. step' # "idle" /\ step' # "read" /\ step' \notin {"done", "failed"} /\ table' \subseteq live'
    BY <1>1, <1>2 DEF AuthInv, LiveSoFar
  <2>2. \A d \in allowed' : \A p \in 1..Phases : p < phase' => LiveGrant(p, d)'
    BY <1>1, <1>2, <1>4
  <2>3. step' = "granted" => \A d \in allowed' : \A p \in 1..Phases : LiveGrant(p, d)'
    BY <1>1, <1>2, <1>4
  <2> QED
    BY <1>1, <2>1, <2>2, <2>3 DEF LiveSoFar
<1> QED
  BY <1>3, <1>5 DEF AuthInv

LEMMA ConfigurePreserves == AuthInv /\ Configure => AuthInv'
<1> SUFFICES ASSUME AuthInv, Configure PROVE AuthInv'
  OBVIOUS
<1>1. /\ step = "granted" /\ step' \in {"done", "failed"} /\ agreements' \in {agreements, Written}
      /\ UNCHANGED <<table, kind, asked, phase, configs, unread, results, allowed, live, changes>>
  BY DEF Configure
<1>2. agreements' \subseteq Daacs
  BY <1>1 DEF Written, AuthInv, TypeOK
<1>3. TypeOK'
  BY <1>1, <1>2 DEF AuthInv, TypeOK, Phases, GroupsOf
<1>4. LiveSoFar'
  BY <1>1 DEF AuthInv, LiveSoFar, LiveGrant, Phases, GroupsOf, Candidates, Group
<1> QED
  BY <1>3, <1>4 DEF AuthInv

\* What others do leaves the request, and everything that was live, alone.
LEMMA DisturbPreserves ==
  ASSUME AuthInv, Disturb, live \subseteq live', live' \subseteq Row, table' \subseteq live',
         \A r, q \in table' : r.key = q.key => r = q, agreements' \subseteq Daacs
  PROVE  AuthInv'
<1>1. /\ step # "idle"
      /\ UNCHANGED <<kind, asked, step, phase, configs, unread, results, allowed>>
      /\ changes' \in 0..MaxChanges
  BY AuthAssumption DEF Disturb, AuthInv, TypeOK
<1>2. TypeOK'
  BY <1>1 DEF AuthInv, TypeOK, Phases, GroupsOf
<1>3. \A p, d : LiveGrant(p, d) => LiveGrant(p, d)'
  BY <1>1, LiveGrantsGrow
<1>4. Phases' = Phases /\ \A p : GroupsOf(p)' = GroupsOf(p) /\ \A r : Group(r)' = Group(r)
  BY <1>1 DEF Phases, GroupsOf, Group
<1>5. LiveSoFar'
  BY <1>1, <1>3, <1>4 DEF AuthInv, LiveSoFar
<1> QED
  BY <1>2, <1>5 DEF AuthInv

LEMMA OthersPreserve ==
  ASSUME AuthInv,
         \/ \E c \in Callers : \E r \in Row : AddMapping(c, r) \/ DeleteMapping(c, r)
         \/ \E d \in Daacs : ChangeAgreement(d)
  PROVE  AuthInv'
<1>1. ASSUME NEW c \in Callers, NEW r \in Row, AddMapping(c, r) PROVE AuthInv'
  <2>1. /\ Disturb /\ live' = live \union {r} /\ agreements' = agreements
        /\ table' = {q \in table : q.key # r.key} \union {r}
    BY <1>1 DEF AddMapping
  <2>2. table \subseteq live
    BY <2>1 DEF Disturb, AuthInv, LiveSoFar
  <2>3. \A p, q \in table' : p.key = q.key => p = q
    BY <2>1 DEF AuthInv, TypeOK
  <2> QED
    BY <2>1, <2>2, <2>3, DisturbPreserves DEF AuthInv, TypeOK
<1>2. ASSUME NEW c \in Callers, NEW r \in Row, DeleteMapping(c, r) PROVE AuthInv'
  <2>1. /\ Disturb /\ live' = live /\ agreements' = agreements /\ table' = table \ {r}
    BY <1>2 DEF DeleteMapping
  <2>2. table \subseteq live
    BY <2>1 DEF Disturb, AuthInv, LiveSoFar
  <2> QED
    BY <2>1, <2>2, DisturbPreserves DEF AuthInv, TypeOK
<1>3. ASSUME NEW d \in Daacs, ChangeAgreement(d) PROVE AuthInv'
  <2>1. /\ Disturb /\ live' = live /\ table' = table /\ agreements' \subseteq Daacs
    BY <1>3 DEF ChangeAgreement, AuthInv, TypeOK
  <2>2. table \subseteq live
    BY <2>1 DEF Disturb, AuthInv, LiveSoFar
  <2> QED
    BY <2>1, <2>2, DisturbPreserves DEF AuthInv, TypeOK
<1> QED
  BY <1>1, <1>2, <1>3

LEMMA NextPreserves == AuthInv /\ [Next]_authVars => AuthInv'
<1> SUFFICES ASSUME AuthInv, [Next]_authVars PROVE AuthInv'
  OBVIOUS
<1>1. CASE Request \/ Search \/ ReadGroup \/ Decide \/ Configure
  BY <1>1, RequestPreserves, SearchPreserves, ReadGroupPreserves, DecidePreserves,
     ConfigurePreserves
<1>2. CASE \/ \E c \in Callers : \E r \in Row : AddMapping(c, r) \/ DeleteMapping(c, r)
           \/ \E d \in Daacs : ChangeAgreement(d)
  BY <1>2, OthersPreserve
<1>3. CASE UNCHANGED authVars
  BY <1>3
  DEF authVars, AuthInv, TypeOK, LiveSoFar, LiveGrant, Phases, GroupsOf, Candidates, Group,
      Source, Target
<1> QED
  BY <1>1, <1>2, <1>3 DEF Next

\* The invariant holds throughout.
THEOREM AuthInvariant == Spec => []AuthInv
  BY InitEstablishes, NextPreserves, PTL DEF Spec

\* Types of the authorisation component.
THEOREM AuthTypes == Spec => []TypeOK
<1>1. AuthInv => TypeOK
  BY DEF AuthInv
<1> QED
  BY <1>1, AuthInvariant, PTL

\* No grant without a live row of each evaluation's groups.
THEOREM GrantsRestOnLiveRows == Spec => []GrantRestsOnLiveRows
<1>1. AuthInv => GrantRestsOnLiveRows
  BY DEF AuthInv, LiveSoFar, LiveGrant, GrantRestsOnLiveRows, Granted
<1> QED
  BY <1>1, AuthInvariant, PTL
-----------------------------------------------------------------------------
(***************************************************************************)
(* As long as nobody interferes.                                            *)
(***************************************************************************)

\* Evaluation p allows d.
Passes(p, d) == AuthorizedDaac(RowsOf(p), d)

\* allowed and results are what the tables say.
RuleInv ==
  changes = 0 =>
       /\ step \in {"idle", "search", "read"} =>
            allowed = {d \in Daacs : \A p \in 1..Phases : p < phase => d \in Configured /\ Passes(p, d)}
       /\ step = "read" =>
            /\ configs = Configured
            /\ results = {r \in table : Group(r) \in GroupsOf(phase) \ unread}
       /\ step \in {"granted", "done", "failed"} =>
            /\ allowed # {}
            /\ allowed = {d \in configs : \A p \in 1..Phases : Passes(p, d)}
       /\ step = "granted" => configs = Configured
       /\ step = "rejected" => \A d \in Configured : \E p \in 1..Phases : ~Passes(p, d)

\* The same tables allow the same.
LEMMA PassesStands ==
  ASSUME UNCHANGED <<table, kind>>
  PROVE  Phases' = Phases /\ \A p, d : Passes(p, d)' <=> Passes(p, d)
<1>1. \A p : RowsOf(p)' = RowsOf(p)
  BY DEF RowsOf, Group, GroupsOf
<1> QED
  BY <1>1 DEF Passes, Phases

LEMMA RuleInit == Init => RuleInv
<1> SUFFICES ASSUME Init PROVE RuleInv
  OBVIOUS
<1>2. step = "idle" /\ phase = 1 /\ allowed = Daacs
  BY DEF Init
<1>3. \A p \in 1..Phases : ~(p < phase)
  BY <1>2, PhasesAreFew
<1> QED
  BY <1>2, <1>3 DEF RuleInv

LEMMA RequestKeepsRule == AuthInv /\ RuleInv /\ Request => RuleInv'
<1> SUFFICES ASSUME RuleInv, Request PROVE RuleInv'
  OBVIOUS
<1>1. /\ step = "idle" /\ step' = "search"
      /\ UNCHANGED <<table, agreements, kind, asked, phase, configs, unread, results, allowed, changes>>
  BY DEF Request
<1>2. Phases' = Phases /\ Configured' = Configured /\ \A p, d : Passes(p, d)' <=> Passes(p, d)
  BY <1>1, PassesStands DEF Configured
<1> QED
  BY <1>1, <1>2 DEF RuleInv

LEMMA SearchKeepsRule == AuthInv /\ RuleInv /\ Search => RuleInv'
<1> SUFFICES ASSUME RuleInv, Search PROVE RuleInv'
  OBVIOUS
<1>1. /\ step = "search" /\ configs' = Configured /\ unread' = GroupsOf(phase) /\ results' = {}
      /\ step' = IF Configured = {} THEN "rejected" ELSE "read"
      /\ UNCHANGED <<table, agreements, kind, asked, phase, allowed, live, changes>>
  BY DEF Search
<1>2. Phases' = Phases /\ Configured' = Configured /\ \A p, d : Passes(p, d)' <=> Passes(p, d)
  BY <1>1, PassesStands DEF Configured
<1>3. GroupsOf(phase)' = GroupsOf(phase)
  BY <1>1 DEF GroupsOf
<1> QED
  BY <1>1, <1>2, <1>3 DEF RuleInv

LEMMA ReadGroupKeepsRule == AuthInv /\ RuleInv /\ ReadGroup => RuleInv'
<1> SUFFICES ASSUME AuthInv, RuleInv, ReadGroup PROVE RuleInv'
  OBVIOUS
<1>1. PICK g \in unread : /\ unread' = unread \ {g}
                          /\ results' = results \union {r \in table : Group(r) = g}
  BY DEF ReadGroup
<1>2. /\ step = "read"
      /\ UNCHANGED <<table, agreements, kind, asked, step, phase, configs, allowed, live, changes>>
  BY DEF ReadGroup
<1>3. /\ Phases' = Phases /\ Configured' = Configured /\ GroupsOf(phase)' = GroupsOf(phase)
      /\ \A p, d : Passes(p, d)' <=> Passes(p, d)
  BY <1>2, PassesStands DEF Configured, GroupsOf
<1>4. results = {r \in table : Group(r) \in GroupsOf(phase) \ unread} =>
        results' = {r \in table : Group(r) \in GroupsOf(phase) \ unread'}
  BY <1>1 DEF AuthInv, TypeOK
<1> QED
  BY <1>2, <1>3, <1>4 DEF RuleInv, Group

\* An evaluation that nobody disturbed allows what the table says.
LEMMA AuthorisedIsThePasses ==
  ASSUME AuthInv, RuleInv, step = "read", unread = {}, changes = 0
  PROVE  Authorised = {d \in Configured : Passes(phase, d)}
<1>1. results = RowsOf(phase) /\ configs = Configured
  BY DEF RuleInv, RowsOf
<1> QED
  BY <1>1 DEF Authorised, Passes

LEMMA DecideKeepsRule == AuthInv /\ RuleInv /\ Decide => RuleInv'
<1> SUFFICES ASSUME AuthInv, RuleInv, Decide PROVE RuleInv'
  OBVIOUS
<1>1. /\ step = "read" /\ unread = {} /\ allowed' = allowed \intersect Authorised
      /\ UNCHANGED <<table, agreements, kind, asked, configs, unread, results, live, changes>>
      /\ phase \in 1..Phases /\ phase \in Nat /\ Phases \in Nat
  BY PhasesAreFew DEF Decide, AuthInv, TypeOK
<1>2. \/ step' = "rejected" /\ (Authorised = {} \/ (allowed' = {} /\ phase = Phases))
      \/ step' = "search" /\ phase' = phase + 1
      \/ step' = "granted" /\ phase = Phases /\ allowed' # {}
  <2>1. CASE Authorised = {} \/ (phase = Phases /\ allowed' = {})
    BY <2>1, Zenon DEF Decide
  <2>2. CASE ~(Authorised = {} \/ (phase = Phases /\ allowed' = {}))
    <3>1. \/ step' = "search" /\ phase' = phase + 1
          \/ step' = "granted" /\ ~(phase < Phases)
      BY <2>2, Zenon DEF Decide
    <3>2. ~(phase < Phases) => phase = Phases
      BY <1>1
    <3> QED
      BY <2>2, <3>1, <3>2
  <2> QED
    BY <2>1, <2>2
<1>3. Phases' = Phases /\ Configured' = Configured /\ \A p, d : Passes(p, d)' <=> Passes(p, d)
  BY <1>1, PassesStands DEF Configured
<1>5. SUFFICES ASSUME changes = 0 PROVE RuleInv'
  BY <1>1 DEF RuleInv
<1>6. /\ Authorised = {d \in Configured : Passes(phase, d)}
      /\ configs = Configured
      /\ Configured \subseteq Daacs
      /\ allowed = {d \in Daacs : \A p \in 1..Phases : p < phase => d \in Configured /\ Passes(p, d)}
  BY <1>1, <1>5, AuthorisedIsThePasses DEF RuleInv, Configured, AuthInv, TypeOK
<1>7. allowed' = {d \in Daacs : \A p \in 1..Phases : p <= phase => d \in Configured /\ Passes(p, d)}
  BY <1>1, <1>6
<1>8. CASE step' = "rejected"
  <2>1. ASSUME NEW d \in Configured PROVE \E p \in 1..Phases : ~Passes(p, d)
    BY <1>1, <1>2, <1>6, <1>7, <1>8
  <2> QED
    BY <1>3, <1>8, <2>1 DEF RuleInv
<1>9. CASE step' = "search"
  <2>1. phase' = phase + 1 /\ \A p \in 1..Phases : p < phase' <=> p <= phase
    BY <1>1, <1>2, <1>9
  <2> QED
    BY <1>3, <1>7, <1>9, <2>1 DEF RuleInv
<1>10. CASE step' = "granted"
  <2>1. allowed' = {d \in configs : \A p \in 1..Phases : Passes(p, d)} /\ allowed' # {}
    BY <1>1, <1>2, <1>6, <1>7, <1>10
  <2> QED
    BY <1>1, <1>3, <1>6, <1>10, <2>1 DEF RuleInv
<1> QED
  BY <1>2, <1>8, <1>9, <1>10

LEMMA ConfigureKeepsRule == AuthInv /\ RuleInv /\ Configure => RuleInv'
<1> SUFFICES ASSUME RuleInv, Configure PROVE RuleInv'
  OBVIOUS
<1>1. /\ step = "granted" /\ step' \in {"done", "failed"}
      /\ UNCHANGED <<table, kind, asked, phase, configs, unread, results, allowed, live, changes>>
  BY DEF Configure
<1>2. Phases' = Phases /\ \A p, d : Passes(p, d)' <=> Passes(p, d)
  BY <1>1, PassesStands
<1> QED
  BY <1>1, <1>2 DEF RuleInv

LEMMA NextKeepsRule == AuthInv /\ RuleInv /\ [Next]_authVars => RuleInv'
<1> SUFFICES ASSUME AuthInv, RuleInv, [Next]_authVars PROVE RuleInv'
  OBVIOUS
<1>1. CASE Request \/ Search \/ ReadGroup \/ Decide \/ Configure
  BY <1>1, RequestKeepsRule, SearchKeepsRule, ReadGroupKeepsRule, DecideKeepsRule,
     ConfigureKeepsRule
<1>2. CASE \/ \E c \in Callers : \E r \in Row : AddMapping(c, r) \/ DeleteMapping(c, r)
           \/ \E d \in Daacs : ChangeAgreement(d)
  <2>1. changes' = changes + 1 /\ UNCHANGED <<kind, asked>>
    BY <1>2 DEF AddMapping, DeleteMapping, ChangeAgreement, Disturb
  <2>2. changes' # 0
    BY <2>1, AuthAssumption DEF AuthInv, TypeOK
  <2> QED
    BY <2>1, <2>2 DEF RuleInv
<1>3. CASE UNCHANGED authVars
  <2>1. UNCHANGED <<table, agreements, kind, asked, step, phase, configs, unread, results,
                    allowed, changes>>
    BY <1>3 DEF authVars
  <2>2. Phases' = Phases /\ Configured' = Configured /\ GroupsOf(phase)' = GroupsOf(phase)
    BY <2>1 DEF Phases, Configured, GroupsOf
  <2> QED
    BY <2>1, <2>2, PassesStands DEF RuleInv, Group
<1> QED
  BY <1>1, <1>2, <1>3 DEF Next

LEMMA RuleHolds == Spec => [](AuthInv /\ RuleInv)
  BY InitEstablishes, NextPreserves, RuleInit, NextKeepsRule, PTL DEF Spec

\* Every evaluation may allow what is granted, and what is refused is not in
\* question or one of them may refuse it.
THEOREM DecisionsFollowTheRule == Spec => []UndisturbedDecisionFollowsRule
<1>1. ASSUME AuthInv, RuleInv PROVE UndisturbedDecisionFollowsRule
  <2>1. SUFFICES ASSUME step \in {"granted", "rejected"}, changes = 0, NEW d \in Daacs
                 PROVE  IF d \in Granted
                          THEN d \in Configured /\ \A p \in 1..Phases : MayAllow(RowsOf(p), d)
                          ELSE d \notin Configured \/ \E p \in 1..Phases : MayDeny(RowsOf(p), d)
    BY DEF UndisturbedDecisionFollowsRule
  <2>2. \A p \in 1..Phases : /\ Passes(p, d) => MayAllow(RowsOf(p), d)
                             /\ ~Passes(p, d) => MayDeny(RowsOf(p), d)
    <3>1. \A p : RowsOf(p) \in SUBSET Row
      BY <1>1 DEF AuthInv, TypeOK, RowsOf
    <3> QED
      BY <3>1, DecisionFollowsRule DEF Passes
  <2>3. CASE step = "granted"
    BY <1>1, <2>1, <2>2, <2>3 DEF RuleInv, Granted
  <2>4. CASE step = "rejected"
    BY <1>1, <2>1, <2>2, <2>4 DEF RuleInv, Granted
  <2> QED
    BY <2>1, <2>3, <2>4
<1> QED
  BY <1>1, RuleHolds, PTL
-----------------------------------------------------------------------------
(***************************************************************************)
(* From the decision about an agreement to its write.                       *)
(***************************************************************************)

\* A request about an agreement is decided on the DAAC collection it names, and
\* granted, that one is allowed.
DecidedOnAsked ==
  kind \in Configuring =>
    /\ \E d \in Daacs : asked = {d}
    /\ step \in {"read", "granted"} => configs = asked
    /\ step = "granted" => asked \subseteq allowed

\* Only the decision of a single evaluation grants such a request, and it grants
\* all that is asked for or refuses.
LEMMA DecideKeepsAsked == AuthInv /\ DecidedOnAsked /\ Decide => DecidedOnAsked'
<1> SUFFICES ASSUME AuthInv, DecidedOnAsked, Decide, kind \in Configuring PROVE DecidedOnAsked'
  BY DEF Decide, DecidedOnAsked
<1>1. /\ step = "read" /\ allowed' = allowed \intersect Authorised
      /\ UNCHANGED <<kind, asked, configs>>
  BY DEF Decide
<1>2. Phases = 1 /\ phase = 1
  BY DEF Phases, Configuring, AuthInv, TypeOK
<1>3. step' = "rejected" \/ (step' = "granted" /\ allowed' # {})
  <2>1. CASE Authorised = {} \/ (phase = Phases /\ allowed' = {})
    BY <2>1, Zenon DEF Decide
  <2>2. CASE ~(Authorised = {} \/ (phase = Phases /\ allowed' = {}))
    <3>1. ~(phase < Phases)
      BY <1>2
    <3>2. step' = "granted"
      BY <2>2, <3>1, Zenon DEF Decide
    <3> QED
      BY <2>2, <3>2, <1>2
  <2> QED
    BY <2>1, <2>2
<1>4. PICK d \in Daacs : asked = {d}
  BY DEF DecidedOnAsked
<1>5. allowed' \subseteq {d}
  BY <1>1, <1>4 DEF DecidedOnAsked, Authorised
<1> QED
  BY <1>1, <1>3, <1>4, <1>5 DEF DecidedOnAsked

LEMMA NextKeepsAsked == AuthInv /\ DecidedOnAsked /\ [Next]_authVars => DecidedOnAsked'
<1> SUFFICES ASSUME AuthInv, DecidedOnAsked, [Next]_authVars PROVE DecidedOnAsked'
  OBVIOUS
<1>1. CASE Decide
  BY <1>1, DecideKeepsAsked
<1>2. CASE Search
  BY <1>2 DEF Search, Configured, DecidedOnAsked
<1>3. CASE Request \/ ReadGroup \/ Configure
  BY <1>3 DEF Request, ReadGroup, Configure, DecidedOnAsked
<1>4. CASE \/ \E c \in Callers : \E r \in Row : AddMapping(c, r) \/ DeleteMapping(c, r)
           \/ \E d \in Daacs : ChangeAgreement(d)
  BY <1>4 DEF AddMapping, DeleteMapping, ChangeAgreement, Disturb, DecidedOnAsked
<1>5. CASE UNCHANGED authVars
  BY <1>5 DEF authVars, DecidedOnAsked
<1> QED
  BY <1>1, <1>2, <1>3, <1>4, <1>5 DEF Next

LEMMA AskedHolds == Spec => [](AuthInv /\ DecidedOnAsked)
<1>1. Init => DecidedOnAsked
  BY DEF Init, DecidedOnAsked
<1> QED
  BY <1>1, InitEstablishes, NextPreserves, NextKeepsAsked, PTL DEF Spec

\* No request writes an agreement its groups were never allowed to, whatever
\* administrators and other users do between its decision and its write.
THEOREM AgreementsNeedARight == Spec => AgreementsChangeByRight
<1> DEFINE Rightful ==
      \/ agreements' = agreements
      \/ changes' # changes
      \/ \A d \in (agreements' \ agreements) \union (agreements \ agreements') :
           /\ d \in asked
           /\ \E r \in Candidates(live, d) : Group(r) \in UserGroups /\ r.access
<1>1. AuthInv /\ DecidedOnAsked /\ [Next]_authVars => [Rightful]_authVars
  <2> SUFFICES ASSUME AuthInv, DecidedOnAsked, Next PROVE Rightful
    OBVIOUS
  <2>1. CASE Configure
    <3>1. /\ step = "granted" /\ kind \in Configuring
          /\ agreements' = agreements \/ agreements' = Written
      BY <2>1 DEF Configure
    <3>2. SUFFICES ASSUME NEW d \in (Written \ agreements) \union (agreements \ Written)
                   PROVE  /\ d \in asked
                          /\ \E r \in Candidates(live, d) : Group(r) \in UserGroups /\ r.access
      BY <3>1
    <3>3. d \in asked /\ d \in allowed
      BY <3>1, <3>2 DEF Written, DecidedOnAsked
    <3>4. LiveGrant(1, d)
      BY <3>1, <3>3, PhasesAreFew DEF AuthInv, LiveSoFar
    <3> QED
      BY <3>3, <3>4 DEF LiveGrant, GroupsOf
  <2>2. CASE \E d \in Daacs : ChangeAgreement(d)
    BY <2>2, AuthAssumption DEF ChangeAgreement, Disturb, AuthInv, TypeOK
  <2>3. CASE \/ Request \/ Search \/ ReadGroup \/ Decide
             \/ \E c \in Callers : \E r \in Row : AddMapping(c, r) \/ DeleteMapping(c, r)
    BY <2>3 DEF Request, Search, ReadGroup, Decide, AddMapping, DeleteMapping
  <2> QED
    BY <2>1, <2>2, <2>3 DEF Next
<1> QED
  BY <1>1, AskedHolds, PTL DEF Spec, AgreementsChangeByRight
=============================================================================
