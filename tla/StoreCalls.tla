----------------------------- MODULE StoreCalls -----------------------------
(***************************************************************************)
(* First part of the proof that the store implements DocDB: the pages, the *)
(* mapping of databases and calls, and the steps that write nothing and    *)
(* answer no read.                                                         *)
(***************************************************************************)
EXTENDS StoreProofs, StoreDocDB, FiniteSetTheorems, WellFoundedInduction

-----------------------------------------------------------------------------
(* Pages.  How many elements of R come before x.                           *)
Rank(R, x) == Cardinality({y \in R : y < x})

(* Elements before x, and x itself.                                        *)
LEMMA UpTo ==
    ASSUME NEW R, R \in SUBSET Nat, NEW x \in Nat
    PROVE  /\ \A y \in {y \in R : y < x} : y <= x
           /\ {y \in R : y < x} \in SUBSET Nat
           /\ x \in R => {y \in R : y <= x} = {y \in R : y < x} \cup {x}
<1>0. \A y \in R : y \in Nat
  BY Zenon
<1>1. \A y \in {y \in R : y < x} : y <= x
  BY <1>0
<1>2. {y \in R : y < x} \in SUBSET Nat
  BY Zenon
<1>3. ASSUME x \in R
      PROVE  {y \in R : y <= x} = {y \in R : y < x} \cup {x}
  <2>1. \A y \in R : y <= x <=> y < x \/ y = x
    BY <1>0
  <2> QED
    BY <1>3, <2>1, Zenon
<1> QED
  BY <1>1, <1>2, <1>3, Zenon

(* Every nonempty set of naturals has a least element.                     *)
LEMMA Least ==
    ASSUME NEW R, R \in SUBSET Nat, R # {}
    PROVE  \E x \in R : \A y \in R : x <= y
<1>0. \A y \in R : y \in Nat
  BY Zenon
<1>1. PICK z : z \in R
  BY Zenon
<1> DEFINE S == {y \in R : y <= z}
           Below(x) == {y \in R : y < x}
           T == {Below(x) : x \in S}
<1>2. IsFiniteSet(S)
  <2>1. S \in SUBSET Nat
    BY Zenon
  <2>2. \A s \in S : s <= z
    BY Zenon
  <2> QED
    BY Zenon, <1>1, <2>1, <2>2, FS_BoundedSetOfNaturals
<1>3. ASSUME NEW x \in S PROVE Below(x) \in SUBSET S
  <2>1. \A y \in R : y < x => y <= z
    BY <1>0, <1>1
  <2> QED
    BY <2>1, Zenon
<1>4. PICK t \in T : \A u \in T : <<u, t>> \notin StrictSubsetOrdering(S)
  <2>1. T \subseteq SUBSET S
    BY <1>3, Zenon
  <2>2. T # {}
    <3>1. z \in S
      BY <1>0, <1>1
    <3> QED
      BY <3>1, Zenon
  <2>3. T \subseteq FiniteSubsetsOf(S)
    <3> HIDE DEF T, S
    <3> QED
      BY Zenon, <1>2, <2>1, FS_FiniteSubsetsOfFinite
  <2> HIDE DEF T
  <2> QED
    BY <2>2, <2>3, FS_StrictSubsetOrderingWellFounded, WFMin, Zenon
<1>5. PICK x \in S : t = Below(x)
  BY Zenon
<1>6. ASSUME NEW y \in R, y < x PROVE FALSE
  <2>1. y \in S
    BY <1>0, <1>1, <1>5, <1>6
  <2>2. Below(y) \in SUBSET S /\ Below(x) \in SUBSET S /\ Below(y) \in T
    BY <1>3, <1>5, <2>1, Zenon
  <2>3. y \in Below(x)
    BY Zenon, <1>6
  <2>4. y \notin Below(y)
    BY <1>0
  <2>5. Below(y) \subseteq Below(x)
    <3>1. \A w \in R : w < y => w < x
      BY <1>0, <1>5, <1>6
    <3> QED
      BY <3>1, Zenon
  <2>6. <<Below(y), Below(x)>> \in StrictSubsetOrdering(S)
    <3> HIDE DEF Below, S
    <3> QED
      BY Zenon, <2>2, <2>3, <2>4, <2>5 DEF StrictSubsetOrdering
  <2> QED
    BY <1>4, <1>5, <2>2, <2>6, Zenon
<1> QED
  <2>1. \A y \in R : ~(y < x) => x <= y
    BY <1>0, <1>5
  <2> QED
    BY Zenon, <1>5, <1>6, <2>1

(* Ranks are natural numbers, and ascend.                                  *)
LEMMA RankType ==
    ASSUME NEW R, R \in SUBSET Nat, NEW x \in R
    PROVE  /\ IsFiniteSet({y \in R : y < x}) /\ Rank(R, x) \in Nat
           /\ Cardinality({y \in R : y <= x}) = Rank(R, x) + 1
<1> DEFINE below == {y \in R : y < x}
<1>0. x \in Nat
  BY Zenon
<1>1. below \in SUBSET Nat /\ \A s \in below : s <= x
  BY <1>0, UpTo, Zenon
<1>2. x \notin below
  BY <1>0
<1>3. {y \in R : y <= x} = below \cup {x}
  BY <1>0, UpTo, Zenon
<1> HIDE DEF below
<1>4. IsFiniteSet(below)
  BY Zenon, <1>0, <1>1, FS_BoundedSetOfNaturals
<1>5. Cardinality(below) \in Nat
  BY Zenon, <1>4, FS_CardinalityType
<1>6. Cardinality(below \cup {x}) = Cardinality(below) + 1
  BY Zenon, <1>2, <1>4, FS_AddElement
<1> QED
  BY <1>3, <1>4, <1>5, <1>6, Zenon DEF Rank, below

(* A greater element has a greater rank.                                   *)
LEMMA RankAscends ==
    ASSUME NEW R, R \in SUBSET Nat, NEW x \in R, NEW z \in R, x < z
    PROVE  Rank(R, x) < Rank(R, z)
<1> DEFINE upTo == {y \in R : y <= x}
           below == {y \in R : y < z}
<1>1. upTo \in SUBSET below
  <2>1. \A y \in R : y <= x => y < z
    OBVIOUS
  <2> QED
    BY <2>1, Zenon
<1>2. IsFiniteSet(below) /\ Rank(R, x) \in Nat /\ Rank(R, z) \in Nat
      /\ Cardinality(upTo) = Rank(R, x) + 1
  BY RankType, Zenon
<1>3. Cardinality(below) = Rank(R, z)
  BY Zenon DEF Rank
<1> HIDE DEF upTo, below
<1>4. Cardinality(upTo) <= Rank(R, z)
  BY Zenon, <1>1, <1>2, <1>3, FS_Subset
<1> QED
  BY <1>2, <1>4

(* What Seek yields are the elements of rank below n, and no more than n.  *)
LEMMA FewFirst ==
    ASSUME NEW R, R \in SUBSET Nat, NEW n \in Nat
    PROVE  /\ IsFiniteSet({x \in R : Rank(R, x) < n})
           /\ Cardinality({x \in R : Rank(R, x) < n}) <= n
<1> DEFINE first == {x \in R : Rank(R, x) < n}
           f == [x \in first |-> Rank(R, x) + 1]
<1>0. \A x \in R : x \in Nat /\ Rank(R, x) \in Nat
  BY Zenon, RankType
<1>1. f \in [first -> 1..n]
  <2>1. \A x \in first : Rank(R, x) + 1 \in 1..n
    BY <1>0
  <2> QED
    BY <2>1, Zenon
<1>2. ASSUME NEW x \in first, NEW z \in first, f[x] = f[z]
      PROVE  x = z
  <2>1. Rank(R, x) = Rank(R, z)
    BY <1>0, <1>2
  <2>2. ASSUME x < z PROVE FALSE
    <3>1. Rank(R, x) < Rank(R, z)
      BY Zenon, <2>2, RankAscends
    <3> QED
      BY <1>0, <2>1, <3>1
  <2>3. ASSUME z < x PROVE FALSE
    <3>1. Rank(R, z) < Rank(R, x)
      BY Zenon, <2>3, RankAscends
    <3> QED
      BY <1>0, <2>1, <3>1
  <2> QED
    BY <1>0, <2>2, <2>3
<1> HIDE DEF f
<1>3. f \in Injection(first, 1..n)
  BY <1>1, <1>2, Zenon DEF Injection, IsInjective
<1>4. IsFiniteSet(1..n) /\ Cardinality(1..n) = n
  BY FS_Interval
<1> HIDE DEF first
<1> QED
  BY <1>3, <1>4, FS_Injection DEF first

(* The loop that reads limit + 1 keys and drops the last owes its caller   *)
(* exactly the page.                                                       *)
LEMMA SeekIsPage ==
    ASSUME NEW S, S \in SUBSET Nat, NEW cursor \in Nat, NEW n \in Nat
    PROVE  Seek(S, cursor, n) = Page(S, n, cursor).ids
<1> DEFINE rest == {x \in S : x > cursor}
<1>1. rest \in SUBSET Nat
  BY Zenon
<1>2. ASSUME NEW x \in rest
      PROVE  Rank(rest, x) < n <=> Cardinality({y \in rest : y <= x}) <= n
  <2> HIDE DEF rest
  <2>1. Rank(rest, x) \in Nat /\ Cardinality({y \in rest : y <= x}) = Rank(rest, x) + 1
    BY <1>1, <1>2, RankType, Zenon
  <2> QED
    BY <2>1
<1>3. Seek(S, cursor, n) = {x \in rest : Rank(rest, x) < n}
  BY Zenon DEF Seek, Rank
<1>4. Page(S, n, cursor).ids = {x \in rest : Cardinality({y \in rest : y <= x}) <= n}
  BY Zenon DEF Page
<1> HIDE DEF rest
<1> QED
  BY <1>2, <1>3, <1>4, Zenon

(* listDocs and queryDocs: Cut of limit + 1 keys is the page.              *)
LEMMA CutIsPage ==
    ASSUME NEW S, S \in SUBSET Nat, NEW cursor \in Nat, NEW n \in Nat
    PROVE  Cut(Seek(S, cursor, n + 1), n) = Page(S, n, cursor)
<1> DEFINE rest == {x \in S : x > cursor}
           seen == {x \in rest : Rank(rest, x) < n + 1}
           ids == {x \in rest : Rank(rest, x) < n}
           rest0 == {x \in seen : x > 0}
<1>1. rest \in SUBSET Nat
  BY Zenon
<1>2. Seek(S, cursor, n + 1) = seen
  BY Zenon DEF Seek, Rank
<1>3. Page(S, n, cursor) = [ids |-> ids, more |-> ids # rest]
  <2>1. Page(S, n, cursor).ids = ids
    BY SeekIsPage, Zenon DEF Seek, Rank
  <2>2. Page(S, n, cursor) = [ids |-> Page(S, n, cursor).ids, more |-> Page(S, n, cursor).ids # rest]
    BY Zenon DEF Page
  <2> QED
    BY <2>1, <2>2, Zenon
<1>4. rest0 = seen
  BY <1>1
<1>5. Seek(seen, 0, n) = {x \in rest0 : Cardinality({y \in rest0 : y < x}) < n}
  BY Zenon DEF Seek
<1>r. \A x \in rest : x \in Nat
  BY Zenon
<1> HIDE DEF rest
<1>6. \A x \in rest : Rank(rest, x) \in Nat
  BY <1>1, RankType, Zenon
<1>7. ASSUME NEW x \in seen
      PROVE  {y \in seen : y < x} = {y \in rest : y < x}
  <2>1. ASSUME NEW y \in rest, y < x PROVE y \in seen
    <3>1. Rank(rest, y) < Rank(rest, x)
      BY Zenon, <1>1, <1>7, <2>1, RankAscends
    <3> QED
      BY <1>6, <1>7, <2>1, <3>1
  <2> QED
    BY <2>1, Zenon
<1>8. Seek(seen, 0, n) = ids
  <2>1. \A x \in rest : Rank(rest, x) < n => x \in seen
    BY <1>6
  <2>2. ids = {x \in seen : Cardinality({y \in seen : y < x}) < n}
    BY <1>7, <2>1, Zenon DEF Rank
  <2> QED
    BY <1>4, <1>5, <2>2, Zenon
<1>9. /\ IsFiniteSet(seen) /\ IsFiniteSet(ids) /\ Cardinality(ids) <= n
  <2>1. n + 1 \in Nat
    OBVIOUS
  <2> QED
    BY <1>1, <2>1, FewFirst, Zenon
<1>10. CASE Cardinality(seen) > n
  <2>1. ids # rest
    <3>1. seen # ids
      <4> HIDE DEF seen, ids
      <4> QED
        BY <1>9, <1>10, FS_CardinalityType
    <3>2. \A x \in rest : Rank(rest, x) < n => x \in seen
      BY <1>6
    <3> QED
      BY <3>1, <3>2, Zenon
  <2> QED
    BY <1>2, <1>3, <1>8, <1>10, <2>1, Zenon DEF Cut
<1>11. CASE ~(Cardinality(seen) > n)
  <2>1. ids = rest
    <3> SUFFICES ASSUME ids # rest PROVE FALSE
      BY Zenon
    <3> DEFINE late == rest \ ids
    <3>1. late \in SUBSET Nat /\ late # {}
      BY <1>1, Zenon
    <3>2. PICK m \in late : \A y \in late : m <= y
      BY Zenon, <3>1, Least
    <3>3. ~(Rank(rest, m) < n) /\ m \in rest /\ m \in Nat
      BY Zenon, <1>r
    <3> DEFINE below == {y \in rest : y < m}
    <3>4. below \in SUBSET ids
      <4>1. \A y \in rest : y < m => y \notin late
        BY <1>r, <3>2, <3>3
      <4> QED
        BY <4>1, Zenon
    <3>5. Cardinality(below) = Rank(rest, m) /\ IsFiniteSet(below)
      BY <1>1, <3>3, RankType, Zenon DEF Rank
    <3>6. Rank(rest, m) = n
      <4> HIDE DEF below, ids, late
      <4>1. Cardinality(below) <= Cardinality(ids)
        BY Zenon, <1>9, <3>4, FS_Subset
      <4>2. Cardinality(ids) \in Nat
        BY Zenon, <1>9, FS_CardinalityType
      <4> QED
        BY <1>6, <1>9, <3>3, <3>5, <4>1, <4>2
    <3>7. m \in seen
      BY <3>3, <3>6
    <3>8. below \cup {m} \in SUBSET seen
      <4>1. \A x \in rest : Rank(rest, x) < n => Rank(rest, x) < n + 1
        BY <1>6
      <4> QED
        BY <3>4, <3>7, <4>1, Zenon
    <3>9. m \notin below
      BY <3>3
    <3> HIDE DEF below, seen, ids, late
    <3>10. Cardinality(below \cup {m}) = n + 1
      BY Zenon, <3>5, <3>6, <3>9, FS_AddElement
    <3>11. Cardinality(below \cup {m}) <= Cardinality(seen) /\ Cardinality(seen) \in Nat
      BY Zenon, <1>9, <3>8, FS_Subset, FS_CardinalityType
    <3> QED
      BY <1>11, <3>10, <3>11
  <2>2. seen = rest
    <3>1. \A x \in rest : Rank(rest, x) < n => Rank(rest, x) < n + 1
      BY <1>6
    <3> QED
      BY <2>1, <3>1, Zenon
  <2> QED
    BY <1>2, <1>3, <1>11, <2>1, <2>2, Zenon DEF Cut
<1> QED
  BY Zenon, <1>10, <1>11

-----------------------------------------------------------------------------
USE DEF NoReq, NoRes, DBWrites, Updates, Inserts, SharedOps

(* What the refinement needs besides Inv: a goroutine has a result exactly *)
(* while it unlocks; what CheckDB and ReadDefs found is still so.          *)
Unlocking == {"unlockDocs", "unlockDB"}

Decided(c) ==
    /\ pc[c] \notin Unlocking => res[c] = NoRes
    /\ pc[c] \in Unlocking => res[c].err # "none"
    /\ pc[c] = "commit" /\ req[c].op = "deleteDB" => dbRec[req[c].db] # NoKey
    /\ pc[c] = "iterate" /\ req[c].op = "queryDocs" => idxDef[req[c].db][req[c].index] # NoPath

LInv == Inv /\ \A c \in Client : Decided(c)

(* A step of a goroutine decides its own result and no other.              *)
LEMMA DecidedBySelf ==
    ASSUME LInv, NEW c \in Client, Step(c)
    PROVE  Decided(c)'
<1> USE DEF Unlocking
<1>0. TypeOK /\ Inv /\ Decided(c) /\ Flow(c)
  BY Zenon DEF LInv, Inv
<1>1. CASE Answers(c, Returned)
  <2>1. pc'[c] = "unlockDocs" /\ res'[c].err \in Returned
    BY <1>0, <1>1, ReturnEffect, Zenon
  <2>2. res'[c].err # "none"
    BY Zenon, <2>1 DEF Returned
  <2> QED
    BY Zenon, <2>1, <2>2 DEF Decided
<1>2. CASE Returns(c)
  BY Zenon, <1>1, <1>2, ReturnsAnswer
<1>3. CASE ReadDoc(c)
  <2>1. CASE Goto(c, "defs") /\ UNCHANGED res
    BY Zenon, <1>0, <1>3, <2>1 DEF ReadDoc, Goto, Decided, TypeOK
  <2> QED
    BY Zenon, <1>1, <1>3, <2>1, ReturnsAnswer
<1>4. CASE Begin(c) \/ MakeID(c) \/ RLock(c) \/ WLock(c) \/ WWait(c) \/ LockDoc(c)
  <2>1. /\ pc[c] \notin Unlocking /\ UNCHANGED res
        /\ pc'[c] \notin Unlocking \cup {"commit", "iterate"}
    <3> USE <1>0 DEF TypeOK, Goto
    <3>1. CASE Begin(c)
      BY Zenon, <3>1 DEF Begin, FirstStep
    <3>2. CASE MakeID(c)
      BY Zenon, <3>2 DEF MakeID
    <3>3. CASE RLock(c)
      BY Zenon, <3>3 DEF RLock, AfterRLock
    <3>4. CASE WLock(c) \/ WWait(c)
      BY Zenon, <3>4 DEF WLock, WWait
    <3>5. CASE LockDoc(c)
      BY <3>5 DEF LockDoc, AfterLocks
    <3> QED
      BY Zenon, <1>4, <3>1, <3>2, <3>3, <3>4, <3>5
  <2> QED
    BY Zenon, <1>0, <2>1 DEF Decided
<1>5. CASE UnlockDocs(c)
  BY Zenon, <1>0, <1>5 DEF UnlockDocs, Goto, TypeOK, Decided
<1>6. CASE UnlockDB(c)
  BY Zenon, <1>0, <1>6 DEF UnlockDB, Goto, TypeOK, Decided
<1>7. CASE CheckDB(c)
  BY <1>0, <1>7 DEF CheckDB, Goto, Respond, Failed, TypeOK, Decided, pebble
<1>8. CASE ReadKey(c)
  BY <1>0, <1>8 DEF ReadKey, Goto, Respond, Failed, TypeOK, Decided, AfterKey, Flow,
     MissingDB
<1>9. CASE HasDoc(c)
  <2>1. /\ pc[c] = "hasDoc" /\ req' = req
        /\ \/ Respond(c, Failed("errDocExists"))
           \/ UNCHANGED res /\ \E s \in {"retry", "defs", "commit"} : Goto(c, s)
    BY <1>9, Zenon DEF HasDoc
  <2> QED
    BY <1>0, <2>1 DEF Goto, Respond, Failed, TypeOK, Decided, Flow
<1>10. CASE ReadDefs(c)
  <2>1. pc[c] = "defs" /\ req' = req /\ idxDef' = idxDef
    BY Zenon, <1>10 DEF ReadDefs, pebble
  <2>2. CASE Respond(c, Failed("errIndexNotFound"))
    BY Zenon, <1>0, <2>1, <2>2 DEF Goto, Respond, Failed, TypeOK, Decided
  <2>3. CASE /\ ~(req[c].op = "queryDocs" /\ idxDef[req[c].db][req[c].index] = NoPath)
             /\ Goto(c, AfterDefs(req[c].op)) /\ UNCHANGED res
    <3>1. pc'[c] = AfterDefs(req[c].op) /\ res'[c] = NoRes
      BY Zenon, <1>0, <2>1, <2>3 DEF Goto, TypeOK, Decided
    <3>2. AfterDefs(req[c].op) = "commit" => req[c].op # "deleteDB"
      BY Zenon, <1>0, <2>1 DEF Flow
    <3>3. AfterDefs(req[c].op) \in {"makeID", "iterate", "commit"}
      BY Zenon DEF AfterDefs
    <3> QED
      BY Zenon, <2>1, <2>3, <3>1, <3>2, <3>3 DEF Decided
  <2> QED
    BY <1>10, <2>2, <2>3, Zenon DEF ReadDefs
<1> QED
  BY <1>2, <1>3, <1>4, <1>5, <1>6, <1>7, <1>8, <1>9, <1>10, Zenon DEF Step, Local, Returns

(* What another goroutine has found holds under its database lock.         *)
LEMMA DecidedOfOthers ==
    ASSUME LInv, NEW c \in Client, Step(c), NEW e \in Client, e # c
    PROVE  Decided(e)'
<1>0. TypeOK /\ Inv /\ Decided(e) /\ Flow(e)
  BY Zenon DEF LInv, Inv
<1>1. pc'[e] = pc[e] /\ req'[e] = req[e] /\ res'[e] = res[e]
  BY <1>0, OthersUnchanged, Zenon
<1>2. /\ Shared(e) \/ Exclusive(e) => dbRec'[req[e].db] = dbRec[req[e].db]
      /\ Shared(e) => idxDef'[req[e].db] = idxDef[req[e].db]
  BY <1>0, PebbleOfOthers, Zenon
<1>3. pc[e] = "commit" /\ req[e].op = "deleteDB" => Exclusive(e)
  BY Zenon DEF Exclusive
<1>4. pc[e] = "iterate" /\ req[e].op = "queryDocs" => Shared(e)
  BY Zenon DEF Shared
<1> QED
  BY <1>0, <1>1, <1>2, <1>3, <1>4, Zenon DEF Decided

(* Inv and Decided hold in every reachable state.                          *)
LEMMA LInvIsInvariant == Spec => []LInv
<1>1. Init => LInv
  BY Zenon, InitInv DEF Init, LInv, Decided, Unlocking
<1>2. LInv /\ [Next]_vars => LInv'
  <2> SUFFICES ASSUME LInv, [Next]_vars PROVE LInv'
    BY Zenon
  <2>0. Inv
    BY Zenon DEF LInv
  <2>1. CASE Crash
    <3>1. Inv'
      BY Zenon, <2>0, <2>1, CrashKeepsInv
    <3>2. \A c \in Client : Decided(c)'
      BY Zenon, <2>1 DEF Crash, Decided, Unlocking
    <3> QED
      BY <3>1, <3>2, Zenon DEF LInv
  <2>2. CASE \E c \in Client : Step(c)
    <3>1. PICK c \in Client : Step(c)
      BY Zenon, <2>2
    <3>2. Inv'
      BY Zenon, <2>0, <3>1, StepKeepsInv
    <3>3. ASSUME NEW e \in Client PROVE Decided(e)'
      BY Zenon, <3>1, DecidedBySelf, DecidedOfOthers
    <3> QED
      BY <3>2, <3>3, Zenon DEF LInv
  <2>3. CASE UNCHANGED vars
    <3>1. Inv'
      BY Zenon, <2>0, <2>3, StutterKeepsInv
    <3>2. \A c \in Client : Decided(c)'
      BY <2>3, Zenon DEF vars, pebble, LInv, Decided
    <3> QED
      BY <3>1, <3>2, Zenon DEF LInv
  <2> QED
    BY Zenon, <2>1, <2>2, <2>3 DEF Next
<1> QED
  BY <1>1, <1>2, PTL DEF Spec

(* DocDB computes with the same functions.                                 *)
LEMMA SameOperators ==
    /\ \A j, d : Abstract!indexValues(j, d) = indexValues(j, d)
    /\ \A v : Abstract!Invalid(v) <=> Invalid(v)
    /\ \A m, r : Abstract!matchRevision(m, r) <=> matchRevision(m, r)
    /\ \A p : Abstract!makeRevision(p) = makeRevision(p)
    /\ \A r, d : Abstract!Updated(r, d) = Updated(r, d)
    /\ \A op : Abstract!MissingDB(op) = MissingDB(op)
    /\ \A op : Abstract!Failures(op) = Failures(op)
    /\ \A e : Abstract!Failed(e) = Failed(e)
    /\ \A r, i, v : Abstract!Inserted(r, i, v) = Inserted(r, i, v)
    /\ \A r, d : Abstract!Written(r, d) = Written(r, d)
    /\ \A o : Abstract!Done(o) = Done(o)
<1>1. \A j, d : Abstract!indexValues(j, d) = indexValues(j, d)
  BY Zenon DEF Abstract!indexValues, indexValues
<1>2. \A v : Abstract!Invalid(v) <=> Invalid(v)
  BY Zenon DEF Abstract!Invalid, Invalid
<1>3. \A m, r : Abstract!matchRevision(m, r) <=> matchRevision(m, r)
  BY Zenon DEF Abstract!matchRevision, matchRevision
<1>4. \A p : Abstract!makeRevision(p) = makeRevision(p)
  BY Zenon DEF Abstract!makeRevision, makeRevision
<1>5. \A r, d : Abstract!Updated(r, d) = Updated(r, d)
  BY Zenon DEF Abstract!Updated, Updated
<1>6. \A op : Abstract!MissingDB(op) = MissingDB(op)
  BY Zenon DEF Abstract!MissingDB, MissingDB
<1>7. \A op : Abstract!Failures(op) = Failures(op)
  BY Zenon DEF Abstract!Failures, Failures
<1>8. \A e : Abstract!Failed(e) = Failed(e)
  BY Zenon DEF Abstract!Failed, Failed
<1>9. \A r, i, v : Abstract!Inserted(r, i, v) = Inserted(r, i, v)
  BY Zenon DEF Abstract!Inserted, Inserted
<1>10. \A r, d : Abstract!Written(r, d) = Written(r, d)
  BY Zenon DEF Abstract!Written, Written
<1>11. \A o : Abstract!Done(o) = Done(o)
  BY Zenon DEF Abstract!Done, Done
<1> QED
  BY Zenon, <1>1, <1>2, <1>3, <1>4, <1>5, <1>6, <1>7, <1>8, <1>9, <1>10, <1>11

(* Pages, too, are the same.                                               *)
LEMMA SamePage == \A S, n, k : Abstract!Page(S, n, k) = Page(S, n, k)
<1>1. \A S : Abstract!Cardinality(S) = Cardinality(S)
  BY Zenon DEF Abstract!Cardinality, Cardinality
<1> QED
  BY <1>1, Zenon DEF Abstract!Page, Page

(* So are injections.                                                      *)
LEMMA SameInjection == \A S, T : Abstract!Injection(S, T) = Injection(S, T)
BY Zenon DEF Abstract!Injection, Injection, Abstract!IsInjective, IsInjective

-----------------------------------------------------------------------------
(* The mapping: databases.                                                 *)
LEMMA PlainFacts ==
    ASSUME NEW doc \in Sealed \cup {NoDoc}
    PROVE  /\ Plain(doc) \in StoredDoc \cup {NoDoc}
           /\ Plain(doc) = NoDoc <=> doc = NoDoc
           /\ doc # NoDoc => /\ Plain(doc) = [json |-> doc.json, rev |-> doc.rev]
                             /\ Plain(doc).json = doc.json /\ Plain(doc).rev = doc.rev
<1>1. CASE doc = NoDoc
  BY Zenon, <1>1 DEF Plain
<1>2. CASE doc # NoDoc
  <2>1. Plain(doc) = [json |-> doc.json, rev |-> doc.rev]
    BY <1>2, Zenon DEF Plain
  <2>2. doc.json \in Json /\ doc.rev \in Rev
    BY Zenon, <1>2 DEF Sealed
  <2>3. Plain(doc) \in StoredDoc
    BY <2>1, <2>2 DEF StoredDoc
  <2> QED
    BY <1>2, <2>1, <2>3, AbsenceAssumption
<1> QED
  BY Zenon, <1>1, <1>2

(* A database exists for DocDB when its record is there.                   *)
LEMMA StoredFacts ==
    ASSUME TypeOK, NEW d \in DB
    PROVE  /\ Abstract!Exists(d) <=> dbRec[d] # NoKey
           /\ dbRec[d] # NoKey =>
                /\ stored[d].defs = idxDef[d]
                /\ stored[d].docs = [i \in Id |-> Plain(docRec[d][i])]
                /\ \A i \in Id : stored[d].docs[i] = Plain(docRec[d][i])
                /\ Abstract!Docs(d) = Live(d)
<1>1. stored[d] = Contents(d)
  BY Zenon DEF stored
<1>2. CASE dbRec[d] = NoKey
  BY <1>1, <1>2, Zenon DEF Contents, Abstract!Exists
<1>3. CASE dbRec[d] # NoKey
  <2> DEFINE docs == [i \in Id |-> Plain(docRec[d][i])]
  <2>1. stored[d] = [defs |-> idxDef[d], docs |-> docs]
    BY <1>1, <1>3, Zenon DEF Contents
  <2>2. \A i \in Id : docRec[d][i] \in Sealed \cup {NoDoc}
    BY DEF TypeOK
  <2>3. docs \in [Id -> StoredDoc \cup {NoDoc}]
    BY <2>2, PlainFacts, Zenon
  <2>4. idxDef[d] \in Schema
    BY Zenon DEF TypeOK
  <2>5. \A i \in Id : docs[i] = Plain(docRec[d][i])
    BY Zenon
  <2> HIDE DEF docs
  <2>6. stored[d] \in [defs: Schema, docs: [Id -> StoredDoc \cup {NoDoc}]]
    BY <2>1, <2>3, <2>4
  <2>7. stored[d] # NoDoc
    BY <2>6, AbsenceAssumption, Zenon
  <2>8. stored[d].defs = idxDef[d] /\ stored[d].docs = docs
    BY <2>1
  <2>9. Abstract!Docs(d) = Live(d)
    BY <2>2, <2>5, <2>8, PlainFacts, Zenon DEF Abstract!Docs, Live
  <2> QED
    BY <1>3, <2>5, <2>7, <2>8, <2>9, Zenon DEF Abstract!Exists, docs
<1> QED
  BY <1>2, <1>3, Zenon

(* Without a write DocDB sees no change.                                   *)
LEMMA StoredUnchanged ==
    ASSUME UNCHANGED <<dbRec, docRec, idxDef>>
    PROVE  stored' = stored
BY Zenon DEF stored, Contents

(* The mapping: calls.                                                     *)
LEMMA CalledFacts ==
    ASSUME LInv, NEW c \in Client, pc[c] \notin Unlocking \cup {"idle"}
    PROVE  /\ served[c] = [st |-> "called", req |-> req[c]]
           /\ served[c].st = "called" /\ served[c].req = req[c]
<1>1. served[c] = Progress(c) /\ Decided(c)
  BY Zenon DEF served, LInv
<1>2. res[c].err = "none"
  BY <1>1 DEF Decided
<1>3. served[c] = [st |-> "called", req |-> req[c]]
  BY Zenon, <1>1, <1>2 DEF Progress
<1> QED
  BY <1>3

(* A step of one goroutine leaves the calls of the others.                 *)
LEMMA OthersProgress ==
    ASSUME TypeOK, NEW c \in Client, Step(c), NEW e \in Client, e # c
    PROVE  Progress(e)' = Progress(e)
<1>1. pc'[e] = pc[e] /\ req'[e] = req[e] /\ res'[e] = res[e]
  BY Zenon, OthersUnchanged
<1> QED
  BY <1>1, Zenon DEF Progress

(* It changes its own call to what Progress says,                          *)
LEMMA ServedStep ==
    ASSUME TypeOK, NEW c \in Client, Step(c), NEW x, Progress(c)' = x
    PROVE  served' = [served EXCEPT ![c] = x]
<1>1. ASSUME NEW e \in Client PROVE served'[e] = [served EXCEPT ![c] = x][e]
  BY Zenon, OthersProgress DEF served
<1> QED
  BY Zenon, <1>1 DEF served

(* or leaves it.                                                           *)
LEMMA ServedUnchanged ==
    ASSUME TypeOK, NEW c \in Client, Step(c), Progress(c)' = Progress(c)
    PROVE  served' = served
<1>1. ASSUME NEW e \in Client PROVE Progress(e)' = Progress(e)
  BY Zenon, OthersProgress
<1> QED
  BY Zenon, <1>1 DEF served

(* A return statement is the answer to the abstract call.                  *)
LEMMA AnswerStep ==
    ASSUME LInv, NEW c \in Client, Step(c), pc[c] \notin Unlocking \cup {"idle"},
           NEW r, r.err \notin {"none", "errDocExists"}, Respond(c, r), req' = req
    PROVE  Abstract!Answer(c, r)
<1>0. TypeOK
  BY Zenon DEF LInv, Inv
<1>1. pc'[c] = "unlockDocs" /\ res'[c] = r
  BY Zenon, <1>0 DEF Respond, Goto, TypeOK
<1>2. Progress(c)' = [st |-> "done", req |-> req[c], res |-> r]
  BY Zenon, <1>1 DEF Progress
<1>3. served' = [served EXCEPT ![c] = [st |-> "done", req |-> req[c], res |-> r]]
  BY <1>0, <1>2, ServedStep, Zenon
<1>4. served[c].req = req[c]
  BY Zenon, CalledFacts
<1> QED
  BY <1>3, <1>4, Zenon DEF Abstract!Answer

-----------------------------------------------------------------------------
(* A step of the store is a step of DocDB, or none.                        *)
Refines == Abstract!Next \/ UNCHANGED Abstract!vars

AtWork(c) == pc[c] \notin Unlocking \cup {"idle"}

Executes(c, r) ==
    \/ Abstract!CreateDB(c, r) \/ Abstract!DeleteDB(c, r) \/ Abstract!ListDBs(c, r)
    \/ Abstract!NoSuchDB(c, r) \/ Abstract!Insert(c, r) \/ Abstract!ReadPage(c, r)
    \/ Abstract!Export(c, r) \/ Abstract!OnDoc(c, r) \/ Abstract!Fail(c, r)

(* The instant at which a call takes effect is a step of DocDB.            *)
LEMMA ExecuteRefines ==
    ASSUME LInv, NEW c \in Client, AtWork(c), Executes(c, req[c])
    PROVE  Refines
<1>1. served[c].st = "called" /\ served[c].req = req[c]
  BY CalledFacts, Zenon DEF AtWork
<1>2. Abstract!Execute(c)
  BY <1>1, Zenon DEF Abstract!Execute, Executes
<1> QED
  BY <1>2, Zenon DEF Refines, Abstract!Next

(* A step that neither writes nor decides.                                 *)
LEMMA QuietRefines ==
    ASSUME LInv, NEW c \in Client, Step(c), AtWork(c), pc'[c] # "idle",
           res'[c].err \in {"none", "errDocExists"}, req'[c] = req[c],
           UNCHANGED <<dbRec, docRec, idxDef>>
    PROVE  Refines
<1>1. Progress(c)' = [st |-> "called", req |-> req[c]]
  BY Zenon DEF Progress
<1>2. Progress(c) = [st |-> "called", req |-> req[c]]
  BY CalledFacts, Zenon DEF AtWork, served
<1>3. served' = served
  BY <1>1, <1>2, ServedUnchanged, Zenon DEF LInv, Inv
<1>4. stored' = stored
  BY StoredUnchanged, Zenon
<1> QED
  BY <1>3, <1>4, Zenon DEF Refines, Abstract!vars

(* A return with an error, nothing written.                                *)
LEMMA ErrorStep ==
    ASSUME LInv, NEW c \in Client, Step(c), AtWork(c), req' = req,
           NEW e, e \notin {"none", "errDocExists"}, Respond(c, Failed(e)),
           UNCHANGED <<dbRec, docRec, idxDef>>
    PROVE  Abstract!Error(c, e)
<1>1. Failed(e).err = e
  BY Zenon DEF Failed
<1>2. Abstract!Answer(c, Failed(e))
  BY <1>1, AnswerStep, Zenon DEF AtWork
<1>3. stored' = stored
  BY StoredUnchanged, Zenon
<1> QED
  BY <1>2, <1>3, SameOperators, Zenon DEF Abstract!Error

(* A return with a result.                                                 *)
LEMMA DoneStep ==
    ASSUME LInv, NEW c \in Client, Step(c), AtWork(c), req' = req,
           NEW out, Respond(c, Done(out))
    PROVE  Abstract!Answer(c, Abstract!Done(out))
<1>1. Done(out).err = "nil"
  BY Zenon DEF Done
<1>2. Abstract!Answer(c, Done(out))
  BY <1>1, AnswerStep, Zenon DEF AtWork
<1> QED
  BY <1>2, SameOperators, Zenon

(* A return after a commit, where batch.Close may have failed.             *)
LEMMA FinishStep ==
    ASSUME LInv, NEW c \in Client, Step(c), AtWork(c), req' = req,
           NEW out, Committed(c, out)
    PROVE  Abstract!Finish(c, out)
<1>1. CASE Respond(c, Done(out))
  BY <1>1, DoneStep, Zenon DEF Abstract!Finish
<1>2. CASE Respond(c, Failed("errStoreUnavailable"))
  <2>1. Failed("errStoreUnavailable").err = "errStoreUnavailable"
    BY Zenon DEF Failed
  <2>2. Abstract!Answer(c, Failed("errStoreUnavailable"))
    BY <1>2, <2>1, AnswerStep, Zenon DEF AtWork
  <2> QED
    BY <2>2, SameOperators, Zenon DEF Abstract!Finish
<1> QED
  BY <1>1, <1>2, Zenon DEF Committed

(* The request of a goroutine at work.                                     *)
LEMMA WorkFacts ==
    ASSUME LInv, NEW c \in Client, AtWork(c)
    PROVE  /\ TypeOK /\ Inv /\ Flow(c) /\ ReadsHold(c) /\ Decided(c)
           /\ req[c] \in Requests
           /\ req[c].op \in SharedOps \cup DBWrites => req[c].db \in DB
           /\ req[c].op \in Updates \cup {"getDoc"} => req[c].id \in Id
<1>1. TypeOK /\ Inv /\ Flow(c) /\ ReadsHold(c) /\ Decided(c)
  BY Zenon DEF LInv, Inv
<1>2. req[c] \in Requests
  BY Zenon, <1>1 DEF TypeOK, AtWork
<1>3. /\ req[c].op \in SharedOps \cup DBWrites => req[c].db \in DB
      /\ req[c].op \in Updates \cup {"getDoc"} => req[c].id \in Id
  BY <1>2, RequestFacts, Zenon
<1> QED
  BY <1>1, <1>2, <1>3, Zenon

-----------------------------------------------------------------------------
(* hasDB decides a failing createDB or deleteDB.                           *)
LEMMA CheckDBRefines ==
    ASSUME LInv, NEW c \in Client, CheckDB(c)
    PROVE  Refines
<1>0. pc[c] = "check" /\ req' = req /\ UNCHANGED <<dbRec, docRec, idxDef>> /\ Step(c)
  BY Zenon DEF CheckDB, pebble, Step, Local
<1>1. AtWork(c)
  BY Zenon, <1>0 DEF AtWork, Unlocking
<1>2. TypeOK /\ req[c].op \in DBWrites /\ req[c].db \in DB /\ Decided(c)
  BY <1>0, <1>1, WorkFacts, Zenon DEF Flow
<1>3. CASE req[c].op = "createDB" /\ dbRec[req[c].db] # NoKey /\ Respond(c, Failed("errDBExists"))
  <2>1. Abstract!Error(c, "errDBExists")
    BY Zenon, <1>0, <1>1, <1>3, ErrorStep
  <2>2. Abstract!CreateDB(c, req[c])
    BY <1>2, <1>3, <2>1, StoredFacts, Zenon DEF Abstract!CreateDB
  <2> QED
    BY <1>1, <2>2, ExecuteRefines, Zenon DEF Executes
<1>4. CASE req[c].op = "deleteDB" /\ dbRec[req[c].db] = NoKey /\ Respond(c, Failed("errDBNotFound"))
  <2>1. Abstract!Error(c, "errDBNotFound")
    BY Zenon, <1>0, <1>1, <1>4, ErrorStep
  <2>2. Abstract!MissingDB(req[c].op) = "errDBNotFound"
    BY Zenon, <1>4, SameOperators DEF MissingDB
  <2>3. req[c].op \notin {"createDB", "listDBs"}
    BY Zenon, <1>4
  <2>4. Abstract!NoSuchDB(c, req[c])
    BY <1>2, <1>4, <2>1, <2>2, <2>3, StoredFacts, Zenon DEF Abstract!NoSuchDB
  <2> QED
    BY <1>1, <2>4, ExecuteRefines, Zenon DEF Executes
<1>5. CASE Goto(c, "commit") /\ UNCHANGED res
  <2>1. pc'[c] # "idle" /\ res'[c].err = "none"
    BY <1>0, <1>2, <1>5 DEF Goto, TypeOK, Decided, Unlocking
  <2> QED
    BY Zenon, <1>0, <1>1, <2>1, QuietRefines
<1> QED
  BY <1>3, <1>4, <1>5, Zenon DEF CheckDB

(* The key lookup decides a call on a missing database.                    *)
LEMMA ReadKeyRefines ==
    ASSUME LInv, NEW c \in Client, ReadKey(c)
    PROVE  Refines
<1>0. pc[c] = "key" /\ req' = req /\ UNCHANGED <<dbRec, docRec, idxDef>> /\ Step(c)
  BY Zenon DEF ReadKey, pebble, Step, Local
<1>1. AtWork(c)
  BY Zenon, <1>0 DEF AtWork, Unlocking
<1>2. TypeOK /\ req[c].op \in SharedOps /\ req[c].db \in DB /\ Decided(c)
  BY <1>0, <1>1, WorkFacts, Zenon DEF Flow
<1>3. CASE dbRec[req[c].db] = NoKey /\ Respond(c, Failed(MissingDB(req[c].op)))
  <2>1. MissingDB(req[c].op) \notin {"none", "errDocExists"}
    BY Zenon DEF MissingDB
  <2>2. Abstract!Error(c, MissingDB(req[c].op))
    BY Zenon, <1>0, <1>1, <1>3, <2>1, ErrorStep
  <2>3. req[c].op \notin {"createDB", "listDBs"}
    BY Zenon, <1>2
  <2>4. Abstract!NoSuchDB(c, req[c])
    BY <1>2, <1>3, <2>2, <2>3, StoredFacts, SameOperators, Zenon DEF Abstract!NoSuchDB
  <2> QED
    BY <1>1, <2>4, ExecuteRefines, Zenon DEF Executes
<1>4. CASE Goto(c, AfterKey(req[c].op)) /\ UNCHANGED res
  <2>1. pc'[c] # "idle" /\ res'[c].err = "none"
    BY <1>0, <1>2, <1>4 DEF Goto, TypeOK, Decided, Unlocking, AfterKey
  <2> QED
    BY Zenon, <1>0, <1>1, <2>1, QuietRefines
<1> QED
  BY <1>3, <1>4, Zenon DEF ReadKey

(* A taken ID decides nothing: the call is tried again.                    *)
LEMMA HasDocRefines ==
    ASSUME LInv, NEW c \in Client, HasDoc(c)
    PROVE  Refines
<1>0. /\ pc[c] = "hasDoc" /\ req' = req /\ UNCHANGED <<dbRec, docRec, idxDef>> /\ Step(c)
      /\ \/ Respond(c, Failed("errDocExists"))
         \/ UNCHANGED res /\ \E s \in {"retry", "defs", "commit"} : Goto(c, s)
  BY Zenon DEF HasDoc, pebble, Step, Local
<1>1. AtWork(c)
  BY Zenon, <1>0 DEF AtWork, Unlocking
<1>2. TypeOK /\ Decided(c)
  BY <1>1, WorkFacts, Zenon
<1>3. pc'[c] # "idle" /\ res'[c].err \in {"none", "errDocExists"}
  BY <1>0, <1>2 DEF Respond, Failed, Goto, TypeOK, Decided, Unlocking
<1> QED
  BY Zenon, <1>0, <1>1, <1>3, QuietRefines

(* The steps on the locks, and the draw of IDs.                            *)
LEMMA LocksRefine ==
    ASSUME LInv, NEW c \in Client, MakeID(c) \/ RLock(c) \/ WLock(c) \/ WWait(c) \/ LockDoc(c)
    PROVE  Refines
<1>0. /\ pc[c] \in {"makeID", "rlock", "wlock", "wwait", "lockDocs"}
      /\ req' = req /\ res' = res /\ UNCHANGED <<dbRec, docRec, idxDef>> /\ Step(c)
  BY Zenon DEF MakeID, RLock, WLock, WWait, LockDoc, pebble, Step, Local
<1>1. AtWork(c)
  BY Zenon, <1>0 DEF AtWork, Unlocking
<1>2. TypeOK /\ Decided(c)
  BY <1>1, WorkFacts, Zenon
<1>3. pc'[c] # "idle"
  BY Zenon, <1>0, <1>2 DEF MakeID, RLock, WLock, WWait, LockDoc, AfterRLock, AfterLocks,
     Goto, TypeOK
<1>4. res'[c].err = "none"
  BY <1>0, <1>2 DEF Decided, Unlocking
<1> QED
  BY Zenon, <1>0, <1>1, <1>3, <1>4, QuietRefines

(* A failure of Pebble, of the random source or of the context.            *)
LEMMA FailRefines ==
    ASSUME LInv, NEW c \in Client, Fail(c)
    PROVE  Refines
<1>0. /\ pc[c] \in {"makeID", "check", "key", "hasDoc", "readDoc", "listDBs", "defs",
                    "iterate", "commit"}
      /\ req' = req /\ UNCHANGED <<dbRec, docRec, idxDef>> /\ Step(c)
  BY Zenon DEF Fail, pebble, Step, Local
<1>1. AtWork(c)
  BY Zenon, <1>0 DEF AtWork, Unlocking
<1>2. PICK e \in Failures(req[c].op) : Respond(c, Failed(e))
  BY Zenon DEF Fail
<1>3. e \notin {"none", "errDocExists"}
  BY Zenon, <1>2 DEF Failures
<1>4. Abstract!Error(c, e)
  BY Zenon, <1>0, <1>1, <1>2, <1>3, ErrorStep
<1>5. Abstract!Fail(c, req[c])
  BY <1>2, <1>4, SameOperators, Zenon DEF Abstract!Fail
<1> QED
  BY <1>1, <1>5, ExecuteRefines, Zenon DEF Executes

(* A request begins, and its answer goes back to the handler.              *)
LEMMA BeginRefines ==
    ASSUME LInv, NEW c \in Client, Begin(c)
    PROVE  Refines
<1>0. TypeOK /\ Decided(c) /\ Step(c)
  BY Zenon DEF LInv, Inv, Step
<1>1. pc[c] = "idle" /\ res' = res /\ UNCHANGED <<dbRec, docRec, idxDef>>
  BY Zenon DEF Begin, pebble
<1>2. PICK r \in Requests : req' = [req EXCEPT ![c] = r] /\ Goto(c, FirstStep(r.op))
  BY Zenon DEF Begin
<1>3. pc'[c] # "idle" /\ req'[c] = r /\ res'[c].err = "none"
  BY <1>0, <1>1, <1>2 DEF Goto, FirstStep, TypeOK, Decided, Unlocking
<1>4. Progress(c)' = [st |-> "called", req |-> r]
  BY <1>3, Zenon DEF Progress
<1>5. served' = [served EXCEPT ![c] = [st |-> "called", req |-> r]]
  BY <1>0, <1>4, ServedStep, Zenon
<1>6. served[c] = Abstract!Idle
  BY Zenon, <1>1 DEF served, Progress, Abstract!Idle
<1>7. stored' = stored
  BY <1>1, StoredUnchanged, Zenon
<1>8. Abstract!Call(c)
  BY <1>2, <1>5, <1>6, <1>7, Zenon DEF Abstract!Call
<1> QED
  BY <1>8, Zenon DEF Refines, Abstract!Next

(* The last unlock returns; after errDocExists the call goes on.           *)
LEMMA UnlockRefines ==
    ASSUME LInv, NEW c \in Client, UnlockDocs(c) \/ UnlockDB(c)
    PROVE  Refines
<1>0. TypeOK /\ Decided(c) /\ Step(c) /\ UNCHANGED <<dbRec, docRec, idxDef>>
  BY Zenon DEF LInv, Inv, Step, Local, UnlockDocs, UnlockDB, pebble
<1>1. stored' = stored
  BY <1>0, StoredUnchanged, Zenon
<1>2. CASE UnlockDocs(c)
  <2>1. pc[c] # "idle" /\ pc'[c] # "idle" /\ req' = req /\ res' = res
    BY Zenon, <1>0, <1>2 DEF UnlockDocs, Goto, TypeOK
  <2>2. Progress(c)' = Progress(c)
    BY <2>1, Zenon DEF Progress
  <2>3. served' = served
    BY <1>0, <2>2, ServedUnchanged, Zenon
  <2> QED
    BY <1>1, <2>3, Zenon DEF Refines, Abstract!vars
<1>3. CASE UnlockDB(c) /\ res[c].err = "errDocExists"
  <2>1. pc[c] # "idle" /\ pc'[c] # "idle" /\ req' = req /\ res'[c].err = "none"
    BY Zenon, <1>0, <1>3 DEF UnlockDB, Goto, TypeOK
  <2>2. Progress(c)' = Progress(c)
    BY <1>3, <2>1, Zenon DEF Progress
  <2>3. served' = served
    BY <1>0, <2>2, ServedUnchanged, Zenon
  <2> QED
    BY <1>1, <2>3, Zenon DEF Refines, Abstract!vars
<1>4. CASE UnlockDB(c) /\ res[c].err # "errDocExists"
  <2>1. pc[c] = "unlockDB" /\ pc'[c] = "idle"
    BY Zenon, <1>0, <1>4 DEF UnlockDB, Goto, TypeOK
  <2>2. res[c].err # "none"
    BY Zenon, <1>0, <2>1 DEF Decided, Unlocking
  <2>3. served[c] = [st |-> "done", req |-> req[c], res |-> res[c]]
    BY Zenon, <1>4, <2>1, <2>2 DEF served, Progress
  <2>4. Progress(c)' = Abstract!Idle
    BY <2>1, Zenon DEF Progress, Abstract!Idle
  <2>5. served' = [served EXCEPT ![c] = Abstract!Idle]
    BY <1>0, <2>4, ServedStep, Zenon
  <2>6. served[c].st = "done"
    BY <2>3
  <2>7. Abstract!Return(c)
    BY <1>1, <2>5, <2>6, Zenon DEF Abstract!Return
  <2> QED
    BY <2>7, Zenon DEF Refines, Abstract!Next
<1> QED
  BY ZenonT(30), <1>2, <1>3, <1>4

(* A crash loses the calls and keeps the databases.                        *)
LEMMA CrashRefines ==
    ASSUME Crash
    PROVE  Refines
<1>1. stored' = stored
  BY StoredUnchanged, Zenon DEF Crash, pebble
<1>2. ASSUME NEW c \in Client PROVE Progress(c)' = Abstract!Idle
  <2>1. pc'[c] = "idle"
    BY Zenon DEF Crash
  <2> QED
    BY <2>1, Zenon DEF Progress, Abstract!Idle
<1>3. served' = [c \in Client |-> Abstract!Idle]
  BY <1>2, Zenon DEF served
<1> QED
  BY <1>1, <1>3, Zenon DEF Refines, Abstract!Next, Abstract!Crash

=============================================================================
