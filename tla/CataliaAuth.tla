----------------------------- MODULE CataliaAuth -----------------------------
(***************************************************************************)
(* Who may archive where: the authorisation table (catalia_auth_db.py), the *)
(* agreements (catalia_daac_handshakes_db.py) and the decision the API      *)
(* takes (internal_ddb_connector.py) before it archives, or before it reads *)
(* or changes an agreement (daac_archive_config_api.py), for one collection *)
(* and one requester.  The decision reads both tables in several steps and, *)
(* for verbose_archive, twice: once for the user's groups and once for the  *)
(* algorithm's; administrators (auth_admin_api.py) and other users change   *)
(* the tables meanwhile.                                                    *)
(*                                                                          *)
(* Patterns are values; which collection a pattern matches and how long a   *)
(* prefix it shares with it (the negated _string_distance) are constants.   *)
(***************************************************************************)
EXTENDS Integers, FiniteSets

CONSTANTS
  Groups,           \* user groups and algorithm___version groups
  UserGroups,       \* the requester's groups, from the request context
  AlgorithmGroup,   \* group algorithm___version of the algorithm it names
  AdminGroups,      \* ADMIN_COMMA_SEP_GROUPS
  Callers,          \* groups of those who call the administration API
  Sources,          \* sourceProject patterns
  Targets,          \* targetProject patterns
  Daacs,            \* DAAC collections
  SourceMatches,    \* patterns that match the collection
  SourceCloseness,  \* prefix a source pattern shares with the collection
  TargetMatches,    \* DAAC collections a target pattern matches
  TargetCloseness,  \* prefix a target pattern shares with a DAAC collection
  NameLength,       \* length of the longest name
  Position,         \* place of a row in the list the reads return
  MaxRows,          \* bound on the authorisation table
  MaxChanges        \* bound on the changes made while a request is evaluated

Keys == Groups \X Sources \X Targets

ASSUME AuthAssumption ==
  /\ UserGroups \subseteq Groups
  /\ AlgorithmGroup \in Groups
  /\ Callers \subseteq SUBSET (Groups \union AdminGroups)
  /\ NameLength \in Nat
  /\ SourceMatches \subseteq Sources
  /\ SourceCloseness \in [Sources -> 0..NameLength]
  /\ TargetMatches \in [Targets -> SUBSET Daacs]
  /\ TargetCloseness \in [Targets \X Daacs -> 0..NameLength]
  /\ Position \in [Keys -> Nat]
  /\ \A k, l \in Keys : Position[k] = Position[l] => k = l
  /\ MaxRows \in Nat /\ MaxChanges \in Nat

VARIABLES
  table,       \* authorisation rows; the key decides the access
  agreements,  \* DAAC collections the collection has an agreement with
  kind,        \* what is requested
  asked,       \* the DAAC collection the request names, if it names one
  step,        \* where the request is
  phase,       \* which evaluation it is at
  configs,     \* configured_daac_configs of this evaluation
  unread,      \* groups whose rows are still to be read
  results,     \* rows read so far
  allowed,     \* DAAC collections every finished evaluation allowed
  live,        \* history: rows that were in the table since the request came
  changes      \* history: changes since the request came

authVars == <<table, agreements, kind, asked, step, phase, configs, unread, results,
              allowed, live, changes>>

\* Requests that archive name no DAAC collection, those about an agreement do.
Archiving   == {"archive", "verbose"}
Configuring == {"add", "delete", "get"}

\* verbose_archive evaluates the user's groups, then the algorithm's.
Phases == IF kind = "verbose" THEN 2 ELSE 1
GroupsOf(p) == IF p = 1 THEN UserGroups ELSE {AlgorithmGroup}

Row == [key: Keys, access: BOOLEAN]

Group(r)  == r.key[1]
Source(r) == r.key[2]
Target(r) == r.key[3]

\* The table keeps one row per key, as DynamoDB does, and a request reads rows
\* that exist, of groups it may ask for.
TypeOK ==
  /\ table \subseteq Row
  /\ \A r, q \in table : r.key = q.key => r = q
  /\ agreements \subseteq Daacs
  /\ kind \in Archiving \union Configuring
  /\ asked \subseteq Daacs
  /\ step \in {"idle", "search", "read", "granted", "rejected", "done", "failed"}
  /\ phase \in 1..Phases
  /\ configs \subseteq Daacs
  /\ unread \subseteq GroupsOf(phase)
  /\ results \subseteq live
  /\ allowed \subseteq Daacs
  /\ live \subseteq Row
  /\ changes \in 0..MaxChanges

-----------------------------------------------------------------------------
(***************************************************************************)
(* The decision.                                                            *)
(***************************************************************************)

\* min() over a list returns the first of the smallest.
FirstOf(S) == CHOOSE r \in S : \A q \in S : Position[r.key] <= Position[q.key]

\* Rows whose patterns match the collection and the DAAC collection.
Candidates(S, d) == {r \in S : Source(r) \in SourceMatches /\ d \in TargetMatches[Target(r)]}

TargetClosest(S, d) ==
  {r \in S : \A q \in S : TargetCloseness[<<Target(q), d>>] <= TargetCloseness[<<Target(r), d>>]}
SourceClosest(S) ==
  {r \in S : \A q \in S : SourceCloseness[Source(q)] <= SourceCloseness[Source(r)]}

SameTarget(S, r) == {q \in S : Target(q) = Target(r)}
SameSource(S, r) == {q \in S : Source(q) = Source(r)}

\* Faulty variant of AuthorizedDaac: any row that allows is enough.
AnyRowAllows(S, d) == \E r \in Candidates(S, d) : r.access

\* get_authorized_daac for one DAAC collection.  Its shortcut for a single row
\* with access gives what the general case gives.
AuthorizedDaac(S, d) ==
  LET matches == Candidates(S, d)
      final   == SameTarget(matches, FirstOf(TargetClosest(matches, d)))
      final1  == SameSource(final, FirstOf(SourceClosest(final)))
  IN  matches # {} /\ FirstOf(final1).access

(***************************************************************************)
(* The docstring of authorize, the older form of this decision, as a rule:  *)
(* among the rows closest to the DAAC collection, one closest to the        *)
(* collection decides.  Two patterns may be equally close, so the rule may  *)
(* leave a choice.                                                          *)
(***************************************************************************)
Deciding(S, d) ==
  {r \in TargetClosest(Candidates(S, d), d) : r \in SourceClosest(SameTarget(Candidates(S, d), r))}

MayAllow(S, d) == \E r \in Deciding(S, d) : r.access
MayDeny(S, d)  == Candidates(S, d) = {} \/ \E r \in Deciding(S, d) : ~r.access

RowsOf(p) == {r \in table : Group(r) \in GroupsOf(p)}

-----------------------------------------------------------------------------
Init ==
  /\ table \in {{[key |-> k, access |-> f[k]] : k \in DOMAIN f} :
                  f \in UNION {[K -> BOOLEAN] : K \in {L \in SUBSET Keys : Cardinality(L) <= MaxRows}}}
  /\ agreements \in SUBSET Daacs
  /\ kind \in Archiving \union Configuring
  /\ asked \in IF kind \in Configuring THEN {{d} : d \in Daacs} ELSE {{}}
  /\ step = "idle"
  /\ phase = 1
  /\ configs = {}
  /\ unread = {}
  /\ results = {}
  /\ allowed = Daacs
  /\ live = {}
  /\ changes = 0

\* A request comes in.
Request ==
  /\ step = "idle"
  /\ step' = "search"
  /\ live' = table
  /\ UNCHANGED <<table, agreements, kind, asked, phase, configs, unread, results, allowed, changes>>

\* Faulty variant of Configured: a request about an agreement is decided on
\* those there are, not on the one it names.
ConfiguredAgreements == agreements

\* The DAAC collections an evaluation is about: the one the request names, or
\* those the collection has an agreement with.
Configured == IF kind \in Configuring THEN asked ELSE agreements

\* Faulty variant of Search: the rows of the last evaluation are kept.
SearchKeepsRows ==
  /\ step = "search"
  /\ configs' = Configured
  /\ unread' = GroupsOf(phase)
  /\ step' = IF Configured = {} THEN "rejected" ELSE "read"
  /\ UNCHANGED <<table, agreements, kind, asked, phase, results, allowed, live, changes>>

\* cdhsd.search, anew for every evaluation; without a DAAC collection, 403.
Search ==
  /\ step = "search"
  /\ configs' = Configured
  /\ unread' = GroupsOf(phase)
  /\ results' = {}
  /\ step' = IF Configured = {} THEN "rejected" ELSE "read"
  /\ UNCHANGED <<table, agreements, kind, asked, phase, allowed, live, changes>>

\* One query of get_authorized_catalia; the order of the groups is the token's.
ReadGroup ==
  /\ step = "read"
  /\ \E g \in unread :
       /\ unread' = unread \ {g}
       /\ results' = results \union {r \in table : Group(r) = g}
  /\ UNCHANGED <<table, agreements, kind, asked, step, phase, configs, allowed, live, changes>>

\* What this evaluation allows; an empty answer is a 403 at once.
Authorised == {d \in configs : AuthorizedDaac(results, d)}

\* Faulty variant of Decide: one evaluation too many.
DecideOnceMore ==
  /\ step = "read"
  /\ unread = {}
  /\ allowed' = allowed \intersect Authorised
  /\ IF Authorised = {} THEN step' = "rejected" /\ UNCHANGED phase
       ELSE IF phase <= Phases
         THEN step' = "search" /\ phase' = phase + 1
         ELSE step' = "granted" /\ UNCHANGED phase
  /\ UNCHANGED <<table, agreements, kind, asked, configs, unread, results, live, changes>>

\* The end of an evaluation: refuse, go on to the next, or grant what all of
\* them allowed.
Decide ==
  /\ step = "read"
  /\ unread = {}
  /\ allowed' = allowed \intersect Authorised
  /\ IF Authorised = {} \/ (phase = Phases /\ allowed' = {})
       THEN step' = "rejected" /\ UNCHANGED phase
       ELSE IF phase < Phases
         THEN step' = "search" /\ phase' = phase + 1
         ELSE step' = "granted" /\ UNCHANGED phase
  /\ UNCHANGED <<table, agreements, kind, asked, configs, unread, results, live, changes>>

\* What a granted request about an agreement makes of the agreements.
Written == CASE kind = "add"    -> agreements \union asked
             [] kind = "delete" -> agreements \ asked
             [] OTHER           -> agreements

\* add_daac_archive_config, delete_daac_archive_config and get once they are
\* granted.  An exception is a 500, whether or not the write took effect.
Configure ==
  /\ step = "granted"
  /\ kind \in Configuring
  /\ \/ agreements' = Written /\ step' = "done"
     \/ agreements' \in {agreements, Written} /\ step' = "failed"
  /\ UNCHANGED <<table, kind, asked, phase, configs, unread, results, allowed, live, changes>>

-----------------------------------------------------------------------------
(***************************************************************************)
(* Others, while a request is being evaluated: an administrator adds or     *)
(* removes a mapping, another user an agreement.  A request about an        *)
(* agreement can be overtaken between its decision and its write.           *)
(***************************************************************************)
Disturb ==
  /\ step \in {"search", "read"} \/ (step = "granted" /\ kind \in Configuring)
  /\ changes < MaxChanges
  /\ changes' = changes + 1
  /\ UNCHANGED <<kind, asked, step, phase, configs, unread, results, allowed>>

\* is_admin, which every route of the administration API asks first.
IsAdmin(caller) == caller \intersect AdminGroups # {}

\* add: the item with this key is replaced.
AddMapping(caller, r) ==
  /\ Disturb
  /\ IsAdmin(caller)
  /\ r \notin table
  /\ table' = {q \in table : q.key # r.key} \union {r}
  /\ Cardinality(table') <= MaxRows
  /\ live' = live \union {r}
  /\ UNCHANGED agreements

DeleteMapping(caller, r) ==
  /\ Disturb
  /\ IsAdmin(caller)
  /\ r \in table
  /\ table' = table \ {r}
  /\ UNCHANGED <<agreements, live>>

ChangeAgreement(d) ==
  /\ Disturb
  /\ agreements' = IF d \in agreements THEN agreements \ {d} ELSE agreements \union {d}
  /\ UNCHANGED <<table, live>>

Next ==
  \/ Request \/ Search \/ ReadGroup \/ Decide \/ Configure
  \/ \E c \in Callers : \E r \in Row : AddMapping(c, r) \/ DeleteMapping(c, r)
  \/ \E d \in Daacs : ChangeAgreement(d)

Spec == Init /\ [][Next]_authVars

-----------------------------------------------------------------------------
(***************************************************************************)
(* Properties.                                                              *)
(***************************************************************************)

\* What the request was granted: DAAC collections to archive to, or the one
\* whose agreement it may see or change.
Granted == IF step \in {"granted", "done", "failed"} THEN allowed \intersect configs ELSE {}

\* A request that nobody disturbed is decided by the rule: every evaluation may
\* allow what is granted, and what is refused is not in question or may be
\* refused by one of them.
UndisturbedDecisionFollowsRule ==
  (step \in {"granted", "rejected"} /\ changes = 0) =>
    \A d \in Daacs :
      IF d \in Granted
        THEN d \in Configured /\ \A p \in 1..Phases : MayAllow(RowsOf(p), d)
        ELSE d \notin Configured \/ \E p \in 1..Phases : MayDeny(RowsOf(p), d)

\* However the tables change under it, a grant rests, in every evaluation, on
\* a row of that evaluation's groups that allows it and that has been in the
\* table since the request came: a revocation that was complete before the
\* request is never overlooked, and no evaluation uses another one's rows.
GrantRestsOnLiveRows ==
  \A d \in Granted : \A p \in 1..Phases :
    \E r \in Candidates(live, d) : Group(r) \in GroupsOf(p) /\ r.access

\* Whatever a request writes into the agreements or takes out, also when the
\* write fails, is for the DAAC collection it names and rests on a row of the
\* requester's groups that allowed it when the request came or later.  The API
\* passes over what the decision returned (authorized_daacs) and writes what
\* its path names, and between decision and write rows may be revoked and
\* agreements changed by others - which is all the code rules out: the row need
\* no longer be there when the write is done.
AgreementsChangeByRight ==
  [][\/ agreements' = agreements
     \/ changes' # changes
     \/ \A d \in (agreements' \ agreements) \union (agreements \ agreements') :
          /\ d \in asked
          /\ \E r \in Candidates(live, d) : Group(r) \in UserGroups /\ r.access]_authVars

=============================================================================
