-------------------------- MODULE AssetStaging_proofs --------------------------
(***************************************************************************)
(* AssetStaging for any item, any agreement and any number of invocations:  *)
(* the messages leave only after one invocation staged everything, the      *)
(* copies stand, and the DAAC finds a file of another size only where the   *)
(* original is not what was described.                                      *)
(***************************************************************************)
EXTENDS AssetStaging, TLAPS

\* The blocks name the places the assets came from, and before there are any
\* nothing refers to one.
BlocksNameOrigins ==
  /\ \A b \in blocks : b.uri = Origin(b.asset)
  /\ step = "new" =>
       /\ blocks = {} /\ unsent = {} /\ sent = {} /\ answers = {}
       /\ hrefs = [a \in Assets |-> Origin(a)]

\* What is not altered is as described, and no original is another asset's.
OriginalsStand ==
  \A a \in Linked :
    /\ a \notin altered => Origin(a) \in DOMAIN objects /\ objects[Origin(a)] = <<a, 0>>
    /\ Origin(a) \in DOMAIN objects => objects[Origin(a)][1] = a

\* How far the running invocation has come: the assets before next have their
\* copies, the others their old hrefs.
StagedSoFar ==
  /\ step = "copy" => ~SkipStaging
  /\ (step \in Running /\ ~SkipStaging) =>
       /\ run > 0
       /\ step = "send" => next = AssetCount + 1
       /\ \A a \in Linked :
            IF a < next
              THEN /\ hrefs[a] = StagedAt(run, a)
                   /\ StagedAt(run, a) \in DOMAIN objects
                   /\ Holds(objects[StagedAt(run, a)][1], a, next)
              ELSE hrefs[a] = Origin(a)

\* What was sent was staged by an invocation that copies no more.
SentWhenStaged ==
  (sent # {} /\ ~SkipStaging) =>
    \E n \in 1..run : (n < run \/ step # "copy") /\ AllStaged(n)

StagingInv ==
  /\ TypeOK /\ BlocksNameOrigins /\ OriginalsStand /\ MismatchHasCause
  /\ StagedSoFar /\ SentWhenStaged

-----------------------------------------------------------------------------
\* Locations of originals and of copies are locations, and differ.
LEMMA Places ==
  ASSUME NEW a \in Assets
  PROVE  /\ Origin(a) \in Location
         /\ Origin(a)[1] = 0
         /\ \A n \in 1..MaxRuns : StagedAt(n, a) \in Location /\ StagedAt(n, a) # Origin(a)
         /\ \A n \in Nat, k \in Nat, b \in Assets :
              StagedAt(n, a) = StagedAt(k, b) <=> n = k /\ NameOf[a] = NameOf[b]
         /\ \A n \in Nat : StagedAt(n, a)[1] = n
         /\ \A b \in Assets : Origin(a) = Origin(b) => a = b
         /\ \A n \in 1..MaxRuns, b \in Assets : StagedAt(n, b) # Origin(a)
  BY StagingAssumption DEF Origin, StagedAt, Location, Assets

\* Everything is where it was in the beginning.
LEMMA InitEstablishes == Init => StagingInv
<1> SUFFICES ASSUME Init PROVE StagingInv
  OBVIOUS
<1>1. objects = [l \in {Origin(a) : a \in Linked} |-> <<l[2], IF l[2] \in altered THEN 1 ELSE 0>>]
  BY DEF Init
<1>2. \A a \in Linked : /\ Origin(a) \in DOMAIN objects
                       /\ objects[Origin(a)] = <<a, IF a \in altered THEN 1 ELSE 0>>
  BY <1>1 DEF Origin
<1>3. \A l \in DOMAIN objects : l \in Location /\ objects[l] \in Content
  <2> SUFFICES ASSUME NEW l \in DOMAIN objects PROVE l \in Location /\ objects[l] \in Content
    OBVIOUS
  <2>1. PICK a \in Linked : l = Origin(a)
    BY <1>1
  <2> QED
    <3>1. a \in Assets /\ l = Origin(a) /\ objects[l] = <<a, IF a \in altered THEN 1 ELSE 0>>
      BY <2>1, <1>2, StagingAssumption
    <3>2. l \in Location
      BY <3>1, Places
    <3> QED
      BY <3>1, <3>2 DEF Content
<1>4. hrefs \in [Assets -> Location]
  BY Places DEF Init
<1>5. TypeOK
  <2>1. next \in 1..(AssetCount + 1) /\ run \in 0..MaxRuns
    BY StagingAssumption DEF Init
  <2>2. types \in Agreements /\ altered \subseteq Assets /\ blocks = {} /\ step = "new" /\ unsent = {}
        /\ sent = {} /\ answers = {}
    BY StagingAssumption DEF Init
  <2> QED
    BY <1>3, <1>4, <2>1, <2>2 DEF TypeOK
<1>6. OriginalsStand
  BY <1>2 DEF OriginalsStand
<1> QED
  BY <1>5, <1>6
  DEF Init, StagingInv, BlocksNameOrigins, MismatchHasCause, StagedSoFar, SentWhenStaged, Running

\* The blocks are made before anything refers to one.
LEMMA ExtractPreserves == StagingInv /\ Extract => StagingInv'
<1> SUFFICES ASSUME StagingInv, Extract PROVE StagingInv'
  OBVIOUS
<1>1. Selected(types) \subseteq Assets
  BY DEF Selected, OfListedType
<1>2. \A a \in Assets : FileBlock(a) \in Block /\ FileBlock(a).uri = Origin(FileBlock(a).asset)
  BY Places DEF StagingInv, BlocksNameOrigins, Extract, FileBlock, Block
<1>3. TypeOK'
  BY <1>1, <1>2 DEF Extract, StagingInv, TypeOK, BlocksNameOrigins, Running
<1>4. BlocksNameOrigins'
  BY <1>1, <1>2 DEF Extract, StagingInv, BlocksNameOrigins, Origin
<1> QED
  BY <1>3, <1>4
  DEF Extract, StagingInv, BlocksNameOrigins, OriginalsStand, MismatchHasCause, StagedSoFar,
      SentWhenStaged, Running

\* A new invocation starts with the old hrefs and stages under a new prefix.
LEMMA InvokePreserves == StagingInv /\ Invoke => StagingInv'
<1> SUFFICES ASSUME StagingInv, Invoke PROVE StagingInv'
  OBVIOUS
<1> USE StagingAssumption
<1>1. TypeOK'
  <2>1. hrefs' \in [Assets -> Location]
    BY Places DEF Invoke
  <2> QED
    BY <2>1 DEF Invoke, StagingInv, TypeOK, Running, Assets
<1>2. BlocksNameOrigins' /\ OriginalsStand' /\ MismatchHasCause'
  BY DEF Invoke, StagingInv, BlocksNameOrigins, OriginalsStand, MismatchHasCause, Origin
<1>3. StagedSoFar'
  BY DEF Invoke, StagingInv, TypeOK, StagedSoFar, Running, Assets
<1>4. SentWhenStaged'
  BY DEF Invoke, StagingInv, TypeOK, SentWhenStaged, AllStaged, Holds, StagedAt
<1> QED
  BY <1>1, <1>2, <1>3, <1>4 DEF StagingInv

\* A copy goes where no earlier invocation's is, and over those of this one
\* that share the name.
LEMMA StageAssetPreserves == StagingInv /\ StageAsset => StagingInv'
<1> SUFFICES ASSUME StagingInv, StageAsset PROVE StagingInv'
  OBVIOUS
<1> USE StagingAssumption
<1> DEFINE l == StagedAt(run, next)
<1>1. /\ step = "copy" /\ next \in Linked /\ next \in Assets /\ next' = next + 1
      /\ hrefs[next] = Origin(next) /\ run \in 1..MaxRuns /\ run' = run /\ ~SkipStaging
      /\ \A a \in Linked : a \in Nat /\ a \in Assets
      /\ next \in Nat
  BY DEF StageAsset, StagingInv, TypeOK, StagedSoFar, Running, Assets
<1>2. /\ DOMAIN objects' = DOMAIN objects \union {l}
      /\ objects'[l] = objects[Origin(next)] /\ objects'[l][1] = next
      /\ Origin(next) \in DOMAIN objects
      /\ \A k \in DOMAIN objects : k # l => objects'[k] = objects[k]
  <2>1. objects' = Put(objects, l, objects[Origin(next)]) /\ Origin(next) \in DOMAIN objects
    BY <1>1 DEF StageAsset
  <2>2. objects[Origin(next)][1] = next
    BY <2>1, <1>1 DEF StagingInv, OriginalsStand
  <2> HIDE DEF l
  <2> QED
    BY <2>1, <2>2 DEF Put
<1>3. hrefs' = [hrefs EXCEPT ![next] = l]
  BY DEF StageAsset
<1>4. TypeOK'
  <2>1. l \in Location /\ objects[Origin(next)] \in Content
    BY <1>1, <1>2, Places DEF StagingInv, TypeOK
  <2>2. DOMAIN objects' \subseteq Location /\ \A k \in DOMAIN objects' : objects'[k] \in Content
    BY <2>1, <1>2 DEF StagingInv, TypeOK
  <2>3. hrefs' \in [Assets -> Location]
    BY <2>1, <1>3 DEF StagingInv, TypeOK
  <2> QED
    BY <2>2, <2>3, <1>1 DEF StageAsset, StagingInv, TypeOK, Assets
<1>5. BlocksNameOrigins' /\ MismatchHasCause'
  BY <1>1 DEF StageAsset, StagingInv, BlocksNameOrigins, MismatchHasCause, Origin
<1>6. OriginalsStand'
  <2>1. \A a \in Linked : Origin(a) # l
    BY <1>1, Places
  <2> QED
    BY <2>1, <1>2 DEF StageAsset, StagingInv, OriginalsStand, Origin
<1>7. StagedSoFar'
  <2> SUFFICES ASSUME NEW a \in Linked
               PROVE  IF a < next'
                        THEN /\ hrefs'[a] = StagedAt(run, a)
                             /\ StagedAt(run, a) \in DOMAIN objects'
                             /\ Holds(objects'[StagedAt(run, a)][1], a, next')
                        ELSE hrefs'[a] = Origin(a)
    BY <1>1 DEF StageAsset, StagingInv, StagedSoFar, Running, StagedAt, Origin, Holds
  <2>1. hrefs'[a] = IF a = next THEN l ELSE hrefs[a]
    BY <1>1, <1>3 DEF StagingInv, TypeOK
  <2>2. CASE a < next' /\ NameOf[a] = NameOf[next]
    <3>1. StagedAt(run, a) = l
      BY <2>2 DEF StagedAt
    <3>2. Holds(next, a, next')
      BY <1>1, <2>2 DEF Holds
    <3> QED
      BY <3>1, <3>2, <2>1, <2>2, <1>1, <1>2 DEF StagingInv, StagedSoFar, Running
  <2>3. CASE a < next' /\ NameOf[a] # NameOf[next]
    <3>1. a < next /\ a # next /\ StagedAt(run, a) # l
      <4>1. a # next
        BY <2>3
      <4>2. StagedAt(run, a) # l
        BY <2>3 DEF StagedAt
      <4> QED
        BY <4>1, <4>2, <1>1, <2>3
    <3>2. StagedAt(run, a) \in DOMAIN objects /\ Holds(objects[StagedAt(run, a)][1], a, next)
      BY <3>1, <1>1 DEF StagingInv, StagedSoFar, Running
    <3>3. ASSUME NEW c, Holds(c, a, next) PROVE Holds(c, a, next')
      <4>1. c \in Linked /\ c < next' /\ NameOf[c] = NameOf[a]
        BY <3>3, <1>1 DEF Holds
      <4>2. ASSUME NEW d \in Linked, d < next', NameOf[d] = NameOf[a] PROVE d <= c
        <5>1. d # next
          BY <4>2, <2>3
        <5>2. d < next
          BY <5>1, <4>2, <1>1
        <5> QED
          BY <5>2, <4>2, <3>3 DEF Holds
      <4> QED
        BY <4>1, <4>2 DEF Holds
    <3>4. hrefs[a] = StagedAt(run, a)
      BY <3>1, <1>1 DEF StagingInv, StagedSoFar, Running
    <3> HIDE DEF l
    <3> QED
      BY <3>1, <3>2, <3>3, <3>4, <2>1, <2>3, <1>2
  <2>4. CASE ~(a < next')
    <3>1. ~(a < next) /\ a # next
      BY <2>4, <1>1
    <3> QED
      BY <3>1, <2>1, <2>4, <1>1 DEF StagingInv, StagedSoFar, Running
  <2> QED
    BY <2>2, <2>3, <2>4
<1>8. SentWhenStaged'
  <2> SUFFICES ASSUME sent # {} PROVE \E n \in 1..run : n < run /\ AllStaged(n)'
    BY <1>1 DEF StageAsset, SentWhenStaged
  <2>1. PICK n \in 1..run : n < run /\ AllStaged(n)
    BY <1>1 DEF StagingInv, SentWhenStaged
  <2>2. \A a \in Linked : StagedAt(n, a) # l
    BY <2>1, <1>1, Places
  <2>3. AllStaged(n)'
    BY <2>1, <2>2, <1>2 DEF AllStaged, StagedAt, Holds
  <2> QED
    BY <2>1, <2>3
<1> QED
  BY <1>4, <1>5, <1>6, <1>7, <1>8 DEF StagingInv

\* An asset that is not linked holds no copy.
LEMMA PassOverPreserves == StagingInv /\ PassOver => StagingInv'
<1> SUFFICES ASSUME StagingInv, PassOver PROVE StagingInv'
  OBVIOUS
<1> USE StagingAssumption
<1>1. TypeOK'
  BY DEF PassOver, StagingInv, TypeOK, Running, Assets
<1>2. BlocksNameOrigins' /\ OriginalsStand' /\ MismatchHasCause'
  BY DEF PassOver, StagingInv, BlocksNameOrigins, OriginalsStand, MismatchHasCause, Origin
<1>3. StagedSoFar'
  <2>1. /\ next \in Nat /\ next \notin Linked /\ next' = next + 1 /\ step = "copy" /\ step' = "copy"
        /\ \A a \in Linked : a \in Nat
        /\ \A a \in Linked : a < next' <=> a < next
    BY DEF PassOver, StagingInv, TypeOK, Assets
  <2>2. \A c : \A a \in Linked : Holds(c, a, next) => Holds(c, a, next)'
    BY <2>1 DEF Holds
  <2> QED
    BY <2>1, <2>2 DEF PassOver, StagingInv, StagedSoFar, Running, StagedAt, Origin, Holds
<1>4. SentWhenStaged'
  BY DEF PassOver, StagingInv, SentWhenStaged, AllStaged, Holds, StagedAt
<1> QED
  BY <1>1, <1>2, <1>3, <1>4 DEF StagingInv

\* An invocation that leaves the copying or the sending leaves the copies.
LEMMA LeavingPreserves ==
  StagingInv /\ (StagingRaises \/ Finish \/ Crash) => StagingInv'
<1> SUFFICES ASSUME StagingInv, StagingRaises \/ Finish \/ Crash PROVE StagingInv'
  OBVIOUS
<1>1. /\ step \in Running /\ step' \in {"failed", "finished", "queued", "dropped"}
      /\ UNCHANGED <<types, objects, altered, hrefs, blocks, run, next, unsent, sent, answers>>
  BY DEF StagingRaises, Finish, Crash, Running
<1>2. TypeOK'
  BY <1>1 DEF StagingInv, TypeOK, Running
<1>3. SentWhenStaged'
  BY <1>1 DEF StagingInv, SentWhenStaged, AllStaged, Holds, StagedAt, Running
<1> QED
  BY <1>1, <1>2, <1>3
  DEF StagingInv, BlocksNameOrigins, OriginalsStand, MismatchHasCause, StagedSoFar, Running, Origin

\* Past the last asset, everything is staged.
LEMMA StagedPreserves == StagingInv /\ Staged => StagingInv'
<1> SUFFICES ASSUME StagingInv, Staged PROVE StagingInv'
  OBVIOUS
<1>1. TypeOK'
  BY DEF Staged, StagingInv, TypeOK, Running
<1>2. next = AssetCount + 1
  BY StagingAssumption DEF Staged, StagingInv, TypeOK
<1>3. StagedSoFar'
  BY <1>2 DEF Staged, StagingInv, StagedSoFar, Running, StagedAt, Origin, Holds
<1>4. SentWhenStaged'
  BY DEF Staged, StagingInv, SentWhenStaged, AllStaged, Holds, StagedAt
<1> QED
  BY <1>1, <1>3, <1>4
  DEF Staged, StagingInv, BlocksNameOrigins, OriginalsStand, MismatchHasCause, Running, Origin

\* What is sent now, this invocation has staged.
LEMMA SendBlockPreserves == StagingInv /\ SendBlock => StagingInv'
<1> SUFFICES ASSUME StagingInv, SendBlock PROVE StagingInv'
  OBVIOUS
<1>1. /\ unsent' \subseteq unsent /\ sent' \subseteq sent \union unsent /\ step = "send"
      /\ UNCHANGED <<types, objects, altered, hrefs, blocks, step, run, next, answers>>
  BY DEF SendBlock
<1>2. TypeOK'
  BY <1>1 DEF StagingInv, TypeOK
<1>3. SentWhenStaged'
  <2> SUFFICES ASSUME ~SkipStaging PROVE run \in 1..run /\ AllStaged(run)
    BY <1>1 DEF SentWhenStaged, AllStaged, Holds, StagedAt
  <2>1. \A a \in Linked : a < next
    BY <1>1, StagingAssumption DEF StagingInv, StagedSoFar, Running, Assets
  <2> QED
    BY <2>1, <1>1 DEF StagingInv, TypeOK, StagedSoFar, Running, AllStaged
<1> QED
  BY <1>1, <1>2, <1>3
  DEF StagingInv, BlocksNameOrigins, OriginalsStand, MismatchHasCause, StagedSoFar, Running, Origin,
      StagedAt, Holds

\* What is as described has the size the DAAC was told.
LEMMA DaacAnswersPreserves ==
  ASSUME StagingInv, NEW b \in blocks, DaacAnswers(b)
  PROVE  StagingInv'
<1>1. TypeOK'
  BY DEF DaacAnswers, StagingInv, TypeOK
<1>2. MismatchHasCause'
  <2>1. b.uri = Origin(b.asset)
    BY DEF StagingInv, BlocksNameOrigins
  <2>2. Present(b) /\ objects[b.uri] # <<b.asset, 0>> /\ b.asset \in Linked => b.asset \in altered
    BY <2>1 DEF StagingInv, OriginalsStand
  <2>3. \A c : <<c, "MISMATCHED">> \in answers' =>
          \/ <<c, "MISMATCHED">> \in answers
          \/ c = b /\ ((Present(b) /\ objects[b.uri] # <<b.asset, 0>>) \/ b.asset \notin Linked)
    BY DEF DaacAnswers, Elsewhere
  <2> QED
    BY <2>2, <2>3 DEF DaacAnswers, StagingInv, MismatchHasCause
<1> QED
  BY <1>1, <1>2
  DEF DaacAnswers, StagingInv, BlocksNameOrigins, OriginalsStand, StagedSoFar, SentWhenStaged,
      AllStaged, Running, Origin, StagedAt, Holds

\* The owner reaches the originals only.
LEMMA OwnerPreserves ==
  ASSUME StagingInv, NEW a \in Assets, OwnerRemoves(a) \/ OwnerRewrites(a)
  PROVE  StagingInv'
<1> USE StagingAssumption
<1>1. /\ \A l \in DOMAIN objects : l # Origin(a) => l \in DOMAIN objects' /\ objects'[l] = objects[l]
      /\ DOMAIN objects' \subseteq DOMAIN objects
      /\ Origin(a) \in DOMAIN objects' => objects'[Origin(a)] = <<a, 1>>
      /\ altered' = altered \union {a}
      /\ UNCHANGED <<types, hrefs, blocks, step, run, next, unsent, sent, answers>>
  BY DEF OwnerRemoves, OwnerRewrites, Put, Without
<1>2. TypeOK'
  <2>1. <<a, 1>> \in Content
    BY DEF Content
  <2>2. DOMAIN objects' \subseteq Location /\ \A k \in DOMAIN objects' : objects'[k] \in Content
    BY <2>1, <1>1 DEF StagingInv, TypeOK
  <2> QED
    BY <2>2, <1>1 DEF StagingInv, TypeOK
<1>3. OriginalsStand'
  <2> SUFFICES ASSUME NEW c \in Linked
               PROVE  /\ c \notin altered' => Origin(c) \in DOMAIN objects' /\ objects'[Origin(c)] = <<c, 0>>
                      /\ Origin(c) \in DOMAIN objects' => objects'[Origin(c)][1] = c
    BY DEF OriginalsStand, Origin
  <2>1. CASE c = a
    BY <2>1, <1>1
  <2>2. CASE c # a
    <3>1. Origin(c) # Origin(a)
      BY <2>2, Places
    <3> QED
      BY <3>1, <2>2, <1>1 DEF StagingInv, OriginalsStand
  <2> QED
    BY <2>1, <2>2
<1>4. \A n \in 1..MaxRuns, c \in Linked :
        StagedAt(n, c) \in DOMAIN objects =>
          StagedAt(n, c) \in DOMAIN objects' /\ objects'[StagedAt(n, c)] = objects[StagedAt(n, c)]
  BY <1>1, Places
<1>5. StagedSoFar'
  <2>1. step \in Running /\ ~SkipStaging => run \in 1..MaxRuns
    BY DEF StagingInv, TypeOK, StagedSoFar
  <2> QED
    BY <2>1, <1>1, <1>4 DEF StagingInv, StagedSoFar, Running, StagedAt, Origin, Holds
<1>6. SentWhenStaged'
  <2> SUFFICES ASSUME sent # {}, ~SkipStaging
               PROVE  \E n \in 1..run : (n < run \/ step # "copy") /\ AllStaged(n)'
    BY <1>1 DEF SentWhenStaged
  <2>1. PICK n \in 1..run : (n < run \/ step # "copy") /\ AllStaged(n)
    BY DEF StagingInv, SentWhenStaged
  <2>2. n \in 1..MaxRuns
    BY DEF StagingInv, TypeOK
  <2>3. AllStaged(n)'
    BY <2>1, <2>2, <1>4 DEF AllStaged, StagedAt, Holds
  <2> QED
    BY <2>1, <2>3
<1> QED
  BY <1>1, <1>2, <1>3, <1>5, <1>6 DEF StagingInv, BlocksNameOrigins, MismatchHasCause, Origin

\* Every step preserves the invariant.
LEMMA NextPreserves == StagingInv /\ [Next]_stagingVars => StagingInv'
<1> SUFFICES ASSUME StagingInv, [Next]_stagingVars PROVE StagingInv'
  OBVIOUS
<1>1. CASE Archiver
  BY <1>1, ExtractPreserves, InvokePreserves, StageAssetPreserves, PassOverPreserves,
     LeavingPreserves, StagedPreserves, SendBlockPreserves
  DEF Archiver
<1>2. CASE \E b \in blocks : DaacAnswers(b)
  BY <1>2, DaacAnswersPreserves
<1>3. CASE \E a \in Assets : OwnerRemoves(a) \/ OwnerRewrites(a)
  BY <1>3, OwnerPreserves
<1>4. CASE UNCHANGED stagingVars
  BY <1>4
  DEF stagingVars, StagingInv, TypeOK, BlocksNameOrigins, OriginalsStand, MismatchHasCause,
      StagedSoFar, SentWhenStaged, AllStaged, Running, Origin, StagedAt, Holds
<1> QED
  BY <1>1, <1>2, <1>3, <1>4 DEF Next

-----------------------------------------------------------------------------
\* The invariant holds throughout.
THEOREM StagingInvariant == Spec => []StagingInv
<1> QED
  BY InitEstablishes, NextPreserves, PTL DEF Spec

\* Types of the staging component.
THEOREM StagingTypes == Spec => []TypeOK
<1>1. StagingInv => TypeOK
  BY DEF StagingInv
<1> QED
  BY <1>1, StagingInvariant, PTL

\* stage_files never leaves an href it rewrote without a copy behind it.
THEOREM CopiesAreBehindHrefs == Spec => []CopiesBehindHrefs
<1>1. StagingInv => CopiesBehindHrefs
  <2> SUFFICES ASSUME StagingInv, NEW a \in Linked,
                      step \in Running /\ ~SkipStaging /\ a < next
               PROVE  hrefs[a] \in DOMAIN objects /\ hrefs[a][1] = run
                      /\ Holds(objects[hrefs[a]][1], a, next)
    BY DEF CopiesBehindHrefs, StagingInv, StagedSoFar, Running
  <2> QED
    <3>1. hrefs[a] = StagedAt(run, a) /\ StagedAt(run, a) \in DOMAIN objects
          /\ Holds(objects[StagedAt(run, a)][1], a, next)
      BY DEF StagingInv, StagedSoFar
    <3> QED
      BY <3>1 DEF StagedAt
<1> QED
  BY <1>1, StagingInvariant, PTL

\* No message precedes a complete staging.
THEOREM MessagesFollowStaging == Spec => []SentAfterStaging
<1>1. StagingInv => SentAfterStaging
  BY DEF StagingInv, SentWhenStaged, SentAfterStaging
<1> QED
  BY <1>1, StagingInvariant, PTL

\* The DAAC finds another size only where the original is not as described.
THEOREM MismatchesHaveACause == Spec => []MismatchHasCause
<1>1. StagingInv => MismatchHasCause
  BY DEF StagingInv
<1> QED
  BY <1>1, StagingInvariant, PTL

\* Copies outlive retries and the owner's changes.
THEOREM CopiesStand == Spec => StagedCopiesStand
<1>1. StagingInv /\ [Next]_stagingVars =>
        [\A l \in DOMAIN objects :
           (l[1] > 0 /\ (step # "copy" \/ l[1] < run)) =>
             l \in DOMAIN objects' /\ objects'[l] = objects[l]]_stagingVars
  <2> SUFFICES ASSUME StagingInv, Next, NEW l \in DOMAIN objects,
                      l[1] > 0, step # "copy" \/ l[1] < run
               PROVE  l \in DOMAIN objects' /\ objects'[l] = objects[l]
    OBVIOUS
  <2>1. CASE objects' = objects
    BY <2>1
  <2>2. CASE StageAsset
    <3>1. l # StagedAt(run, next)
      BY <2>2 DEF StageAsset, StagedAt, StagingInv, TypeOK
    <3> QED
      BY <3>1, <2>2 DEF StageAsset, Put
  <2>3. CASE \E a \in Assets : OwnerRemoves(a) \/ OwnerRewrites(a)
    <3>1. \A a \in Assets : l # Origin(a)
      BY DEF Origin
    <3> QED
      BY <3>1, <2>3 DEF OwnerRemoves, OwnerRewrites, Put, Without
  <2> QED
    BY <2>1, <2>2, <2>3
    DEF Next, Archiver, Extract, Invoke, PassOver, StagingRaises, Staged, SendBlock, Finish,
        Crash, DaacAnswers
<1> QED
  BY <1>1, StagingInvariant, PTL DEF Spec, StagedCopiesStand

\* The last entry of a data type is its only one when no type is listed twice.
LEMMA TheOnlyEntry ==
  ASSUME NEW list, DOMAIN list = 1..Len(list),
         \A i, j \in DOMAIN list : list[i].type = list[j].type => i = j,
         NEW i \in DOMAIN list
  PROVE  Entry(list, list[i].type) = list[i]
<1> DEFINE last(k) == /\ list[k].type = list[i].type
                      /\ \A j \in DOMAIN list : list[j].type = list[i].type => j <= k
<1>1. last(i)
  OBVIOUS
<1>2. \A k \in DOMAIN list : last(k) => k = i
  OBVIOUS
<1>3. (CHOOSE k \in DOMAIN list : last(k)) = i
  <2> HIDE DEF last
  <2> QED
    BY <1>1, <1>2
<1> QED
  BY <1>3 DEF Entry

\* What extract_files selects is what the handshake asks for.
LEMMA SelectedIsAskedFor ==
  ASSUME NEW list, list # NoTypes, DOMAIN list = 1..Len(list), NoneTwice(list)
  PROVE  Selected(list) = {a \in Assets : AskedFor(list, a)}
<1>1. CASE list = << >>
  BY <1>1 DEF Selected, AskedFor
<1>2. CASE list # << >>
  <2>1. \A i \in DOMAIN list : Entry(list, list[i].type) = list[i]
    BY TheOnlyEntry DEF NoneTwice
  <2> SUFFICES ASSUME NEW a \in Assets
               PROVE  a \in Selected(list) <=> AskedFor(list, a)
    BY DEF Selected, OfListedType
  <2>2. \A i \in DOMAIN list : list[i].type = RoleOf[a] => Entry(list, RoleOf[a]) = list[i]
    BY <2>1
  <2>3. a \in Selected(list) <=>
          \E i \in DOMAIN list :
            /\ list[i].type = RoleOf[a]
            /\ \/ Entry(list, RoleOf[a]).extensions = {}
               \/ Entry(list, RoleOf[a]).extensions \intersect EndingsOf[a] # {}
    BY <1>2 DEF Selected, OfListedType
  <2> QED
    BY <1>2, <2>2, <2>3 DEF AskedFor
<1> QED
  BY <1>1, <1>2

\* The files that are sent are those the agreement asks for, for every item and
\* every agreement that lists no type twice; without a list none are.
THEOREM FilesFollowTheHandshake == Spec => []SelectionFollowsHandshake
<1> DEFINE Chosen == step \notin {"new", "refused"} =>
                       types # NoTypes /\ {b.asset : b \in blocks} = Selected(types)
<1>1. Init => Chosen
  BY DEF Init
<1>2. Chosen /\ [Next]_stagingVars => Chosen'
  <2> SUFFICES ASSUME Chosen, [Next]_stagingVars PROVE Chosen'
    OBVIOUS
  <2>1. CASE Extract
    <3> DEFINE S == Selected(types)
    <3>1. S' = S
      BY <2>1 DEF Extract, Selected, OfListedType, Entry
    <3>2. CASE step' = "refused"
      BY <3>2
    <3>3. CASE blocks' = {FileBlock(a) : a \in S}
      <4>1. \A a \in S : FileBlock(a).asset = a
        BY DEF FileBlock
      <4>2. {b.asset : b \in {FileBlock(a) : a \in S}} = S
        <5> HIDE DEF S
        <5> QED
          BY <4>1
      <4> QED
        BY <3>1, <3>3, <4>2, <2>1 DEF Extract, Raises
    <3> QED
      BY <2>1, <3>2, <3>3 DEF Extract
  <2>2. CASE blocks' = blocks /\ types' = types /\ (step \in {"new", "refused"} => step' = step)
    <3>1. Selected(types)' = Selected(types)
      BY <2>2 DEF Selected, OfListedType, Entry
    <3> QED
      BY <2>2, <3>1
  <2>3. CASE Archiver /\ ~Extract
    <3>1. blocks' = blocks /\ types' = types /\ (step \in {"new", "refused"} => step' = step)
      BY <2>3
      DEF Archiver, Invoke, StageAsset, PassOver, StagingRaises, Staged, SendBlock, Finish,
          Crash, Running
    <3> HIDE DEF Chosen
    <3> QED
      BY <2>2, <3>1
  <2>4. CASE ~Archiver
    <3>1. blocks' = blocks /\ types' = types /\ step' = step
      BY <2>4 DEF Next, stagingVars, DaacAnswers, OwnerRemoves, OwnerRewrites
    <3> HIDE DEF Chosen
    <3> QED
      BY <2>2, <3>1
  <2> HIDE DEF Chosen
  <2> QED
    BY <2>1, <2>3, <2>4
<1>3. Spec => []Chosen
  BY <1>1, <1>2, PTL DEF Spec
<1>4. StagingInv /\ Chosen => SelectionFollowsHandshake
  <2> SUFFICES ASSUME StagingInv, Chosen, step \notin {"new", "refused"}, NoneTwice(types)
               PROVE  types # NoTypes /\ {b.asset : b \in blocks} = {a \in Assets : AskedFor(types, a)}
    BY DEF SelectionFollowsHandshake
  <2>1. DOMAIN types = 1..Len(types)
    BY StagingAssumption DEF StagingInv, TypeOK
  <2> QED
    BY <2>1, SelectedIsAskedFor
<1> QED
  BY <1>3, <1>4, StagingInvariant, PTL
=============================================================================
