-------------------------- MODULE AddResourceProofs --------------------------
(***************************************************************************)
(* Proofs about AddResource, for any terminals, resources, edits and       *)
(* number of runs and faults: generators exclude each other, a resource is *)
(* added whole or not at all, names stay unique, and what developers wrote *)
(* survives.                                                               *)
(***************************************************************************)
EXTENDS AddResource, FiniteSetTheorems, WellFoundedInduction, TLAPS

-----------------------------------------------------------------------------
(* Data *)

LEMMA PlanShape ==
  /\ DOMAIN Plan = 1..5
  /\ Plan[1] = "module" /\ Plan[2] = "migration"
  /\ \A x \in 3..5 : Plan[x] \in Shared /\ Plan[x] \notin {"module", "migration"}
  /\ \A x, y \in 1..5 : Plan[x] = Plan[y] => x = y
  /\ \A f \in Shared : \E x \in 3..5 : Plan[x] = f
  /\ Plan[1] \notin Shared /\ Plan[2] \notin Shared
BY DEF Plan, Shared

LEMMA PresentShape ==
  ASSUME NEW r
  PROVE  /\ Present(1, r) <=> <<"module", 0, r>> \in files \ (own \cup partial)
         /\ Present(2, r) <=> Migrated(r)
         /\ \A x \in 3..5 : Present(x, r) <=> shared[Plan[x]].lists[r] > 0
         /\ ~CutShort(1) /\ ~CutShort(2)
         /\ \A x \in 3..5 : CutShort(x) <=> ~shared[Plan[x]].whole
BY PlanShape DEF Present, CutShort

LEMMA PathShape ==
  ASSUME TypeOK, NEW p \in files
  PROVE  /\ p = <<p[1], p[2], p[3]>>
         /\ \/ p[1] = "module" /\ p[2] = 0 /\ p[3] \in Resource
            \/ p[1] = "migration" /\ p[2] \in Nat /\ p[3] \in Resource \cup {Hand}
BY DEF TypeOK, Paths

\* A finite set of numbers has a largest one.
LEMMA LargestNatural ==
  ASSUME NEW S \in SUBSET Nat, IsFiniteSet(S), S # {}
  PROVE  \E v \in S : \A n \in S : n <= v
<1> DEFINE Above(v) == {n \in S : n >= v}
           Sizes == {Cardinality(Above(v)) : v \in S}
<1>1. ASSUME NEW v \in S
      PROVE  IsFiniteSet(Above(v)) /\ Cardinality(Above(v)) \in Nat
  BY FS_Subset, FS_CardinalityType
<1>2. Sizes \in SUBSET Nat /\ Sizes # {}
  BY <1>1
<1> HIDE DEF Sizes
<1>3. PICK size \in Sizes : \A m \in Sizes : size <= m
  <2>1. PICK size \in Sizes : \A m \in Sizes : <<m, size>> \notin OpToRel(<, Nat)
    BY <1>2, WFMin, NatLessThanWellFounded
  <2>2. ASSUME NEW m \in Sizes PROVE size <= m
    <3>1. m \in Nat /\ size \in Nat
      BY <1>2
    <3>2. ~(m < size)
      <4>1. <<m, size>> \notin OpToRel(<, Nat)
        BY <2>1
      <4>2. m < size => <<m, size>> \in OpToRel(<, Nat)
        BY <3>1 DEF OpToRel
      <4> QED
        BY <4>1, <4>2
    <3> QED
      BY <3>1, <3>2
  <2> QED
    BY <2>2
<1>4. PICK v \in S : size = Cardinality(Above(v))
  BY <1>3 DEF Sizes
<1>5. ASSUME NEW n \in S, ~(n <= v) PROVE FALSE
  <2>a. n \in Nat /\ v \in Nat /\ \A k \in S : k \in Nat
    OBVIOUS
  <2>b. v < n /\ \A k \in S : k >= n => k >= v
    BY <1>5, <2>a
  <2>c. v \in Above(v) /\ v \notin Above(n)
    BY <2>a, <2>b
  <2>1. Above(n) \in SUBSET Above(v) /\ v \in Above(v) /\ v \notin Above(n)
    BY <2>b, <2>c
  <2>2. Cardinality(Above(n)) <= Cardinality(Above(v))
        /\ (Cardinality(Above(n)) = Cardinality(Above(v)) => Above(n) = Above(v))
    BY <1>1, <2>1, FS_Subset
  <2>3. Cardinality(Above(v)) <= Cardinality(Above(n))
    BY <1>3, <1>4 DEF Sizes
  <2> QED
    BY <1>1, <2>1, <2>2, <2>3
<1> QED
  BY <1>5

LEMMA HighestIsMax ==
  ASSUME TypeOK, IsFiniteSet(files)
  PROVE  Highest \in Nat /\ \A p \in Migrations : p[2] \in Nat /\ p[2] <= Highest
<1> DEFINE S == {p[2] : p \in Migrations} \cup {0}
<1>1. \A p \in Migrations : p \in files /\ p[2] \in Nat
  BY PathShape DEF Migrations
<1>2. S \in SUBSET Nat /\ S # {}
  BY <1>1
<1>3. IsFiniteSet(S)
  <2>1. IsFiniteSet(Migrations)
    BY FS_Subset DEF Migrations
  <2>2. IsFiniteSet({p[2] : p \in Migrations})
    <3> DEFINE f == [p \in Migrations |-> p[2]]
    <3>1. f \in Surjection(Migrations, {p[2] : p \in Migrations})
      BY DEF Surjection
    <3> QED
      BY <2>1, <3>1, FS_Surjection
  <2> QED
    BY <2>2, FS_AddElement
<1>4. PICK v \in S : \A n \in S : n <= v
  BY <1>2, <1>3, LargestNatural
<1>5. \E v1 \in S : \A p \in Migrations : p[2] <= v1
  BY <1>4
<1>6. Highest \in S /\ \A p \in Migrations : p[2] <= Highest
  BY <1>5 DEF Highest
<1> QED
  BY <1>1, <1>2, <1>6

-----------------------------------------------------------------------------
(* Processes *)

\* A process past the lock holds it; the others have read nothing.
LEMMA Alone ==
  ASSUME IInv, NEW t \in Terminal, pc[t] \notin {"idle", "locking"}
  PROVE  /\ lock = t
         /\ \A s \in Terminal : s # t => pc[s] \in {"idle", "locking"} /\ ~Adding(s) /\ Waiting(s)
BY DEF IInv, LockTrue, Adding

\* The process of t ends, and its lock goes with it or stays behind.
LEMMA Ended ==
  ASSUME IInv, NEW t \in Terminal, End(t), pc[t] # "idle",
         \/ lock' = None /\ pc[t] # "locking"
         \/ lock' = IF lock = t THEN Hand ELSE lock
         \/ lock' = lock /\ pc[t] = "locking"
  PROVE  /\ LockTrue'
         /\ \A s \in Terminal : Adding(s)' => s # t /\ Adding(s)
         /\ \A s \in Terminal : ~Adding(s) \/ s = t => Waiting(s)'
         /\ pc[t] # "locking" => \A s \in Terminal : ~Adding(s)' /\ Waiting(s)'
<1>1. /\ pc' = [pc EXCEPT ![t] = "idle"] /\ res' = [res EXCEPT ![t] = None]
      /\ before' = [before EXCEPT ![t] = Unread]
  BY DEF End
<1>2. pc'[t] = "idle" /\ before'[t] = Unread
      /\ \A s \in Terminal : s # t =>
           pc'[s] = pc[s] /\ res'[s] = res[s] /\ before'[s] = before[s]
  BY <1>1 DEF IInv, TypeOK
<1>3. LockTrue'
  <2>1. None \notin Terminal /\ Hand \notin Terminal
    BY NamesAssumption
  <2> QED
    BY <1>2, <2>1 DEF IInv, LockTrue
<1>4. \A s \in Terminal : Adding(s)' => s # t /\ Adding(s)
  BY <1>2 DEF Adding
<1>5. \A s \in Terminal : ~Adding(s) \/ s = t => Waiting(s)'
  <2>1. \A s \in Terminal : ~Adding(s) => Waiting(s)
    BY DEF IInv
  <2> QED
    BY <1>2, <2>1 DEF Waiting, Unread
<1>6. pc[t] # "locking" => \A s \in Terminal : ~Adding(s)' /\ Waiting(s)'
  BY <1>4, <1>5, Alone
<1> QED
  BY <1>3, <1>4, <1>5, <1>6

\* The process of t goes on.
LEMMA GoesOn ==
  ASSUME IInv, NEW t \in Terminal, pc[t] \notin {"idle", "locking"},
         NEW place \in Places \ {"idle", "locking"}, pc' = [pc EXCEPT ![t] = place],
         UNCHANGED <<lock, res>>,
         \A s \in Terminal : s # t => before'[s] = before[s]
  PROVE  /\ LockTrue' /\ pc'[t] = place
         /\ \A s \in Terminal : s # t => ~Adding(s)' /\ Waiting(s)'
<1>1. pc'[t] = place /\ \A s \in Terminal : s # t => pc'[s] = pc[s]
  BY DEF IInv, TypeOK
<1>2. LockTrue'
  BY <1>1 DEF IInv, LockTrue
<1> QED
  BY <1>1, <1>2, Alone DEF Adding, Waiting, Unread

-----------------------------------------------------------------------------
(* Types *)

LocalOK ==
  /\ pc \in [Terminal -> Places]
  /\ res \in [Terminal -> Resource \cup {None}] /\ version \in [Terminal -> Nat]
  /\ before \in [Terminal -> [Shared -> Content \cup {None}]]
  /\ at \in [Terminal -> 0..Len(Plan)]

TreeOK ==
  /\ files \subseteq Paths /\ own \subseteq files /\ partial \subseteq files
  /\ shared \in [Shared -> Content] /\ generated \subseteq Resource

HistoryOK ==
  /\ runs \in 0..MaxRuns /\ faults \in 0..MaxFaults
  /\ saved \subseteq Shared \X Edit /\ exposed \subseteq saved
  /\ raced \in BOOLEAN /\ failed \subseteq Resource

LEMMA TypeParts ==
  TypeOK <=> lock \in Terminal \cup {None, Hand} /\ LocalOK /\ TreeOK /\ HistoryOK
BY DEF TypeOK, LocalOK, TreeOK, HistoryOK

LEMMA PlanLength == Len(Plan) = 5
BY DEF Plan

LEMMA EndTyped ==
  ASSUME TypeOK, NEW t \in Terminal, End(t) PROVE LocalOK'
BY DEF TypeOK, LocalOK, End, Places, Unread

LEMMA GotoTyped ==
  ASSUME TypeOK, NEW t \in Terminal, NEW place \in Places, NEW index \in 1..5,
         Goto(t, place, index), UNCHANGED <<res, version, before>>
  PROVE  LocalOK'
BY PlanLength DEF TypeOK, LocalOK, Goto

\* What a process works on.
LEMMA Target1 ==
  ASSUME IInv, NEW t \in Terminal, Adding(t)
  PROVE  /\ at[t] \in 1..5 /\ res[t] \in Resource /\ version[t] \in Nat
         /\ Target(t) \notin Shared => at[t] \in 1..2 /\ Path(t) \in Paths
         /\ Target(t) \in Shared => at[t] \in 3..5
         /\ Path(t) = IF at[t] = 1 THEN <<"module", 0, res[t]>>
                                   ELSE <<"migration", version[t], res[t]>>
<1>1. at[t] \in 1..5 /\ res[t] \in Resource /\ version[t] \in Nat
  BY PlanShape DEF IInv, Underway, TypeOK
<1>2. (Target(t) \notin Shared => at[t] \in 1..2) /\ (Target(t) \in Shared => at[t] \in 3..5)
  BY <1>1, PlanShape DEF Target
<1>3. Path(t) = IF at[t] = 1 THEN <<"module", 0, res[t]>>
                             ELSE <<"migration", version[t], res[t]>>
  BY <1>1, PlanShape DEF Path, Target
<1> QED
  BY <1>1, <1>2, <1>3 DEF Paths

\* A process that writes has read every shared file, and knows it whole.
LEMMA HasRead ==
  ASSUME IInv, NEW t \in Terminal, pc[t] \in {"writing", "undoing", "rewriting"},
         NEW f \in Shared
  PROVE  before[t][f] \in Content /\ before[t][f] # None /\ Remembered(t, f)
<1>1. Adding(t) /\ Underway(t)
  BY DEF IInv, Adding
<1>2. f \in Read(t)
  BY PlanShape DEF Read
<1> QED
  BY <1>1, <1>2 DEF Underway, IInv, TypeOK

LEMMA RegisteredTyped ==
  ASSUME NEW c \in Content, NEW r \in Resource
  PROVE  /\ Registered(c, r) \in Content
         /\ Registered(c, r).whole = c.whole /\ Registered(c, r).edits = c.edits
         /\ Registered(c, r).lists[r] = c.lists[r] + 1
         /\ \A s \in Resource : s # r => Registered(c, r).lists[s] = c.lists[s]
BY DEF Content, Registered

LEMMA NothingTyped ==
  /\ Nothing \in Content /\ [Nothing EXCEPT !.whole = FALSE] \in Content
  /\ \A r \in Resource : [Nothing EXCEPT !.whole = FALSE].lists[r] = 0
  /\ [Nothing EXCEPT !.whole = FALSE].whole = FALSE
BY DEF Nothing, Content

LEMMA LockTyped ==
  ASSUME NEW t \in Terminal, Step(t) \/ GiveUp(t) \/ UndoFails(t) \/ Die(t)
  PROVE  lock' \in {lock, None, Hand, t}
<1>1. CASE Acquire(t) \/ ChooseVersion(t) \/ GiveUp(t)
  BY <1>1 DEF Acquire, ChooseVersion, GiveUp, Return
<1>2. CASE PrepareNew(t) \/ PrepareShared(t) \/ Begin(t) \/ Truncate(t) \/ Die(t)
  BY <1>2 DEF PrepareNew, PrepareShared, Begin, Truncate, Die, Return
<1>3. CASE WriteNew(t) \/ Replace(t)
  BY <1>3 DEF WriteNew, Replace, Written, Return
<1>4. CASE WriteFails(t) \/ WriteLeavesPart(t) \/ UndoNew(t) \/ Rewrite(t) \/ UndoFails(t)
  BY <1>4 DEF WriteFails, WriteLeavesPart, UndoNew, Rewrite, UndoFails, Undone, Return
<1> QED
  BY <1>1, <1>2, <1>3, <1>4 DEF Step

\* A process ends, or goes on with its plan.
LEMMA ProcessTyped ==
  ASSUME IInv, NEW t \in Terminal, Step(t) \/ GiveUp(t) \/ UndoFails(t) \/ Die(t)
  PROVE  LocalOK'
<1> USE DEF IInv
<1>1. CASE End(t)
  BY <1>1, EndTyped
<1>2. CASE ~End(t)
  <2>1. CASE Acquire(t)
    BY <1>2, <2>1 DEF Acquire, TypeOK, LocalOK, local, Places
  <2>2. CASE ChooseVersion(t)
    <3>1. Highest + 1 \in Nat
      BY HighestIsMax
    <3>2. version' = [version EXCEPT ![t] = Highest + 1] /\ Goto(t, "preparing", 1)
          /\ UNCHANGED <<lock, res, before>>
      BY <1>2, <2>2 DEF ChooseVersion, Return
    <3>3. version' \in [Terminal -> Nat]
      BY <3>1, <3>2 DEF TypeOK
    <3> QED
      BY <3>2, <3>3, PlanLength DEF Goto, TypeOK, LocalOK, Places
  <2>3. CASE PrepareNew(t) \/ PrepareShared(t)
    <3>1. Adding(t)
      BY <2>3 DEF PrepareNew, PrepareShared, Adding
    <3>2. at[t] \in 1..5
      BY <3>1, Target1
    <3>3. Prepared(t) /\ UNCHANGED <<lock, res, version>>
          /\ (UNCHANGED before \/ \E f \in Shared : before' = [before EXCEPT ![t][f] = shared[f]])
      BY <1>2, <2>3 DEF PrepareNew, PrepareShared, Return
    <3>4. before' \in [Terminal -> [Shared -> Content \cup {None}]]
      <4>1. CASE UNCHANGED before
        BY <4>1 DEF TypeOK
      <4>2. ASSUME NEW f \in Shared, before' = [before EXCEPT ![t][f] = shared[f]]
            PROVE  before' \in [Terminal -> [Shared -> Content \cup {None}]]
        <5>1. [before[t] EXCEPT ![f] = shared[f]] \in [Shared -> Content \cup {None}]
          BY DEF TypeOK
        <5>2. before' = [before EXCEPT ![t] = [before[t] EXCEPT ![f] = shared[f]]]
          BY <4>2
        <5> QED
          BY <5>1, <5>2 DEF TypeOK
      <4> QED
        BY <3>3, <4>1, <4>2
    <3>5. pc' \in [Terminal -> Places] /\ at' \in [Terminal -> 0..Len(Plan)]
      BY <3>2, <3>3, PlanLength DEF Prepared, Goto, TypeOK, Places
    <3> QED
      BY <3>3, <3>4, <3>5 DEF TypeOK, LocalOK
  <2>4. CASE Begin(t) \/ Truncate(t)
    BY <2>4 DEF Begin, Truncate, TypeOK, LocalOK, local, Places
  <2>5. CASE \/ WriteNew(t) \/ Replace(t) \/ WriteFails(t) \/ WriteLeavesPart(t)
              \/ UndoNew(t) \/ Rewrite(t) \/ UndoFails(t)
    <3>1. Adding(t)
      BY <2>5 DEF WriteNew, Replace, WriteFails, WriteLeavesPart, LeavePart, UndoNew, Rewrite,
                  UndoFails, Adding
    <3>2. at[t] \in 1..5
      BY <3>1, Target1
    <3>3. Written(t) \/ Undone(t)
      BY <2>5 DEF WriteNew, Replace, WriteFails, WriteLeavesPart, UndoNew, Rewrite, UndoFails
    <3>4. CASE Written(t)
      <4>1. at[t] # 5 /\ Goto(t, "writing", at[t] + 1) /\ UNCHANGED <<res, version, before>>
        BY <1>2, <3>4, PlanLength DEF Written, Return
      <4> QED
        BY <3>2, <4>1, GotoTyped DEF Places
    <3>5. CASE Undone(t)
      <4>1. at[t] # 1 /\ Goto(t, "undoing", at[t] - 1) /\ UNCHANGED <<res, version, before>>
        BY <1>2, <3>5 DEF Undone, Return
      <4> QED
        BY <3>2, <4>1, GotoTyped DEF Places
    <3> QED
      BY <3>3, <3>4, <3>5
  <2>6. CASE GiveUp(t) \/ Die(t)
    BY <1>2, <2>6 DEF GiveUp, Die, Return
  <2> QED
    BY <2>1, <2>2, <2>3, <2>4, <2>5, <2>6 DEF Step
<1> QED
  BY <1>1, <1>2

LEMMA TreeTyped ==
  ASSUME IInv, NEW t \in Terminal, Step(t) \/ GiveUp(t) \/ UndoFails(t) \/ Die(t)
  PROVE  TreeOK' /\ HistoryOK'
<1> USE DEF IInv, TypeOK, TreeOK, HistoryOK
<1>1. CASE WriteNew(t)
  <2>1. Adding(t)
    BY <1>1 DEF WriteNew, Adding
  <2>2. Path(t) \in Paths
    BY <1>1, <2>1, Target1 DEF WriteNew
  <2> QED
    BY <1>1, <2>2 DEF WriteNew, bounds, history
<1>2. CASE Replace(t)
  <2>1. Registered(before[t][Target(t)], res[t]) \in Content
    <3>1. before[t][Target(t)] \in Content /\ Adding(t)
      BY <1>2, HasRead DEF Replace, Adding
    <3> QED
      BY <3>1, Target1, RegisteredTyped
  <2> QED
    BY <1>2, <2>1 DEF Replace, bounds, history
<1>3. CASE UndoNew(t)
  BY <1>3 DEF UndoNew, bounds, history
<1>4. CASE Truncate(t)
  BY <1>4, NothingTyped DEF Truncate, bounds, history
<1>5. CASE Rewrite(t)
  <2>1. Target(t) \in Shared
    BY <1>5 DEF Rewrite, Underway, Target, Adding
  <2>2. before[t][Target(t)] \in Content
    BY <1>5, <2>1, HasRead DEF Rewrite
  <2> QED
    BY <1>5, <2>2 DEF Rewrite, bounds, history
<1>6. CASE WriteFails(t)
  BY <1>6, BoundAssumption DEF WriteFails, Fault, tree, history
<1>7. CASE UndoFails(t) \/ Die(t) \/ WriteLeavesPart(t)
  <2>1. res[t] \in Resource
    BY <1>7 DEF UndoFails, Die, WriteLeavesPart, LeavePart, Adding, Underway, Waiting
  <2>2. UNCHANGED tree \/ LeavePart(t)
    BY <1>7 DEF UndoFails, Die, WriteLeavesPart
  <2>3. LeavePart(t) => Path(t) \in Paths
    BY Target1 DEF LeavePart, Adding
  <2>4. files' \subseteq Paths /\ own' \subseteq files' /\ partial' \subseteq files' /\ UNCHANGED shared
    BY <2>2, <2>3 DEF LeavePart, tree
  <2>5. failed' \subseteq Resource /\ UNCHANGED <<generated, runs, saved, exposed, raced>> /\ Fault
    BY <1>7, <2>1 DEF UndoFails, Die, WriteLeavesPart
  <2> QED
    BY <2>4, <2>5, BoundAssumption DEF Fault
<1>8. CASE Acquire(t) \/ ChooseVersion(t) \/ PrepareNew(t) \/ PrepareShared(t) \/ Begin(t) \/ GiveUp(t)
  <2>1. UNCHANGED <<tree, generated, bounds, history>>
    BY <1>8 DEF Acquire, ChooseVersion, PrepareNew, PrepareShared, Begin, GiveUp
  <2> QED
    BY <2>1 DEF tree, bounds, history
<1> QED
  BY <1>1, <1>2, <1>3, <1>4, <1>5, <1>6, <1>7, <1>8 DEF Step

LEMMA TypeStep == IInv /\ [Next]_vars => TypeOK'
<1> SUFFICES ASSUME IInv, [Next]_vars PROVE TypeOK'
  OBVIOUS
<1> USE DEF IInv
<1>1. ASSUME NEW t \in Terminal, Step(t) \/ GiveUp(t) \/ UndoFails(t) \/ Die(t) PROVE TypeOK'
  <2>1. lock' \in Terminal \cup {None, Hand}
    BY <1>1, LockTyped DEF TypeOK
  <2> QED
    BY <1>1, <2>1, ProcessTyped, TreeTyped DEF TypeOK, LocalOK, TreeOK, HistoryOK
<1>2. ASSUME NEW t \in Terminal, NEW r \in Resource, Start(t, r) PROVE TypeOK'
  BY <1>2, BoundAssumption DEF Start, TypeOK, tree, history, Places
<1>3. CASE RemoveLock \/ Generate
  BY <1>3 DEF RemoveLock, Generate, TypeOK, tree, local, bounds, history, Listed
<1>4. ASSUME NEW f \in Shared, NEW e \in Edit, Save(f, e) PROVE TypeOK'
  <2>1. [shared[f] EXCEPT !.edits = @ \cup {e}] \in Content
    BY DEF TypeOK, Content
  <2>2. shared' = [shared EXCEPT ![f] = [shared[f] EXCEPT !.edits = @ \cup {e}]]
    BY <1>4 DEF Save
  <2>3. shared' \in [Shared -> Content]
    BY <2>1, <2>2 DEF TypeOK
  <2> QED
    BY <1>4, <2>3 DEF Save, TypeOK, local, bounds
<1>5. CASE AddMigration
  <2>1. <<"migration", Highest + 1, Hand>> \in Paths
    BY HighestIsMax DEF Paths
  <2> QED
    BY <1>5, <2>1 DEF AddMigration, TypeOK, local, bounds
<1>6. ASSUME NEW r \in Resource, AddPackage(r) PROVE TypeOK'
  BY <1>6 DEF AddPackage, TypeOK, Paths, local, bounds, history
<1>7. CASE UNCHANGED vars
  BY <1>7 DEF vars, tree, local, bounds, history, TypeOK
<1> QED
  BY <1>1, <1>2, <1>3, <1>4, <1>5, <1>6, <1>7 DEF Next

-----------------------------------------------------------------------------
(* Steps that leave the tree as it is *)

\* The part of the invariant that is about the tree alone.
TreeInv ==
  /\ NoLostEdit /\ NamesUnique /\ IsFiniteSet(files)
  /\ \A p \in own : p[1] = "migration" => p[3] = Hand
  /\ \A f \in Shared, r \in Resource : ~shared[f].whole => shared[f].lists[r] = 0

LEMMA SamePlan ==
  ASSUME UNCHANGED <<files, own, partial, shared>>
  PROVE  \A x, r : (CutShort(x)' <=> CutShort(x)) /\ (Present(x, r)' <=> Present(x, r))
BY DEF CutShort, Present, Migrated, Migrations

LEMMA SameTree ==
  ASSUME IInv, UNCHANGED <<tree, saved, exposed, raced>>, failed \subseteq failed'
  PROVE  /\ TreeInv' /\ Migrations' = Migrations
         /\ \A r : Migrated(r)' <=> Migrated(r)
         /\ \A x, r : (CutShort(x)' <=> CutShort(x)) /\ (Present(x, r)' <=> Present(x, r))
         /\ \A r : Settled(r)' <=> Settled(r)
<1>1. UNCHANGED <<files, own, partial, shared>>
  BY DEF tree
<1>2. Migrations' = Migrations
  BY <1>1 DEF Migrations
<1>3. \A r : Migrated(r)' <=> Migrated(r)
  BY <1>1, <1>2 DEF Migrated
<1>4. \A x, r : (CutShort(x)' <=> CutShort(x)) /\ (Present(x, r)' <=> Present(x, r))
  BY <1>1, SamePlan
<1>5. \A r : Settled(r)' <=> Settled(r)
  BY <1>3, <1>4 DEF Settled
<1>6. TreeInv'
  <2>1. NoLostEdit'
    BY <1>1 DEF IInv, NoLostEdit
  <2>2. VersionsDistinct'
    BY <1>2 DEF IInv, NamesUnique, VersionsDistinct, Duplicated
  <2>3. ContractUnambiguous'
    BY <1>1 DEF IInv, NamesUnique, ContractUnambiguous
  <2>4. RegisteredOnce'
    BY <1>1 DEF IInv, NamesUnique, RegisteredOnce, Once
  <2> QED
    BY <1>1, <2>1, <2>2, <2>3, <2>4 DEF IInv, TreeInv, NamesUnique
<1> QED
  BY <1>2, <1>3, <1>4, <1>5, <1>6

\* What a process remembers stays true while others' migrations stay.
LEMMA StillRemembered ==
  ASSUME NEW t \in Terminal, NEW f \in Shared, Remembered(t, f),
         before'[t] = before[t], res'[t] = res[t],
         UNCHANGED <<saved, exposed>>, failed \subseteq failed',
         \A r \in Resource \ failed' : r # res[t] => (Migrated(r)' <=> Migrated(r))
  PROVE  Remembered(t, f)'
BY DEF Remembered, Once

LEMMA StillUnderway ==
  ASSUME IInv, NEW t \in Terminal, Underway(t),
         UNCHANGED <<tree, saved, exposed, raced>>, failed \subseteq failed',
         pc'[t] = pc[t], res'[t] = res[t], version'[t] = version[t],
         before'[t] = before[t], at'[t] = at[t]
  PROVE  Underway(t)'
<1>1. UNCHANGED <<files, own, partial, shared>>
  BY DEF tree
<1>2. Read(t)' = Read(t) /\ Applied(t)' = Applied(t) /\ Read(t) \subseteq Shared
  BY DEF Read, Applied
<1>3. \A f \in Read(t) : Remembered(t, f)'
  BY <1>2, StillRemembered, SameTree DEF Underway
<1> QED
  BY <1>1, <1>2, <1>3, SameTree DEF Underway

\* The process of t ends and leaves the tree as it is.
LEMMA EndStep ==
  ASSUME IInv, TypeOK', NEW t \in Terminal, End(t), pc[t] # "idle",
         \/ lock' = None /\ pc[t] # "locking"
         \/ lock' = IF lock = t THEN Hand ELSE lock
         \/ lock' = lock /\ pc[t] = "locking",
         UNCHANGED <<tree, saved, exposed, raced>>, failed \subseteq failed',
         Adding(t) => res[t] \in failed' \/ Settled(res[t])
  PROVE  IInv'
<1>1. /\ LockTrue'
      /\ \A s \in Terminal : Adding(s)' => s # t /\ Adding(s)
      /\ \A s \in Terminal : ~Adding(s) \/ s = t => Waiting(s)'
  BY Ended
<1>2. \A s \in Terminal : s # t =>
        /\ pc'[s] = pc[s] /\ res'[s] = res[s] /\ version'[s] = version[s]
        /\ before'[s] = before[s] /\ at'[s] = at[s] /\ (Adding(s)' <=> Adding(s))
  BY DEF End, IInv, TypeOK, Adding
<1>3. ASSUME NEW r \in Resource \ failed'
      PROVE  (\E s \in Terminal : Adding(s)' /\ res'[s] = r) \/ Settled(r)'
  <2>1. (\E s \in Terminal : Adding(s) /\ res[s] = r) \/ Settled(r)
    BY <1>3 DEF IInv
  <2> QED
    BY <1>2, <1>3, <2>1, SameTree
<1>4. ASSUME NEW s \in Terminal PROVE IF Adding(s)' THEN Underway(s)' ELSE Waiting(s)'
  <2>1. CASE Adding(s)'
    <3>1. s # t /\ Adding(s) /\ Underway(s)
      BY <1>1, <2>1 DEF IInv
    <3> QED
      BY <1>2, <2>1, <3>1, StillUnderway
  <2>2. CASE ~Adding(s)'
    BY <1>1, <1>2, <2>2
  <2> QED
    BY <2>1, <2>2
<1> QED
  BY <1>1, <1>3, <1>4, SameTree DEF IInv, TreeInv

\* The process of t goes on and leaves the tree as it is.
LEMMA GoStep ==
  ASSUME IInv, TypeOK', NEW t \in Terminal, pc[t] \notin {"idle", "locking"},
         NEW place \in Places \ {"idle", "locking"}, pc' = [pc EXCEPT ![t] = place],
         UNCHANGED <<lock, res, tree, saved, exposed, raced, failed>>,
         \A s \in Terminal : s # t => before'[s] = before[s],
         Adding(t) => Adding(t)',
         IF Adding(t)' THEN Underway(t)' ELSE Waiting(t)'
  PROVE  IInv'
<1>1. LockTrue' /\ \A s \in Terminal : s # t => ~Adding(s)' /\ Waiting(s)' /\ ~Adding(s)
  BY GoesOn, Alone
<1>2. ASSUME NEW r \in Resource \ failed'
      PROVE  (\E s \in Terminal : Adding(s)' /\ res'[s] = r) \/ Settled(r)'
  <2>1. (\E s \in Terminal : Adding(s) /\ res[s] = r) \/ Settled(r)
    BY <1>2 DEF IInv
  <2> QED
    BY <1>1, <2>1, SameTree
<1> QED
  BY <1>1, <1>2, SameTree DEF IInv, TreeInv

\* A resource of which nothing or everything is in the tree is settled.
LEMMA EvenIsSettled ==
  ASSUME NEW r, \/ \A x \in 1..5 : CutShort(x) \/ Present(x, r)
                \/ \A x \in 1..5 : CutShort(x) \/ ~Present(x, r)
  PROVE  Settled(r)
<1>1. (Present(2, r) <=> Migrated(r)) /\ ~CutShort(2)
  BY PlanShape DEF Present, CutShort
<1> QED
  BY <1>1, PlanShape DEF Settled

LEMMA NothingApplied ==
  ASSUME NEW t \in Terminal, pc[t] \in {"preparing", "prepared"}
  PROVE  Applied(t) = {}
BY DEF Applied

\* addResource returns, or dies, before it has written anything.
LEMMA EarlyEnd ==
  ASSUME IInv, TypeOK', NEW t \in Terminal, End(t),
         pc[t] \in {"version", "preparing", "prepared"},
         lock' = None \/ lock' = IF lock = t THEN Hand ELSE lock,
         UNCHANGED <<tree, saved, exposed, raced>>, failed \subseteq failed'
  PROVE  IInv'
<1>1. Adding(t) => res[t] \in failed \/ Settled(res[t])
  <2>1. SUFFICES ASSUME Adding(t), res[t] \notin failed PROVE Settled(res[t])
    OBVIOUS
  <2>2. Applied(t) = {}
    BY <2>1, NothingApplied DEF Adding
  <2>3. \A x \in 1..5 : CutShort(x) \/ ~Present(x, res[t])
    BY <2>1, <2>2, PlanShape DEF IInv, Underway
  <2> QED
    BY <2>3, EvenIsSettled
<1> QED
  BY <1>1, EndStep

\* A resource no process is adding is settled.
LEMMA SettledUnlessAdded ==
  ASSUME IInv, NEW t \in Terminal, pc[t] \notin {"idle", "locking"},
         NEW r \in Resource \ failed, r # res[t] \/ ~Adding(t)
  PROVE  Settled(r)
BY Alone DEF IInv

LEMMA ChooseVersionStep ==
  ASSUME IInv, TypeOK', NEW t \in Terminal, ChooseVersion(t)
  PROVE  IInv'
<1>1. pc[t] = "version" /\ UNCHANGED <<tree, generated, bounds, history>>
  BY DEF ChooseVersion
<1>2. CASE Return(t)
  BY <1>1, <1>2, EarlyEnd DEF Return, history
<1>3. CASE ~Return(t)
  <2>1. /\ \A p \in Migrations \ partial : p[3] # res[t]
        /\ version' = [version EXCEPT ![t] = Highest + 1]
        /\ pc' = [pc EXCEPT ![t] = "preparing"] /\ at' = [at EXCEPT ![t] = 1]
        /\ UNCHANGED <<lock, res, before>>
    BY <1>3 DEF ChooseVersion, Goto
  <2>2. pc'[t] = "preparing" /\ at'[t] = 1 /\ version'[t] = Highest + 1
    BY <2>1 DEF IInv, TypeOK
  <2>3. before[t] = Unread /\ res[t] \in Resource
    BY <1>1 DEF IInv, Adding, Waiting
  <2>4. Underway(t)'
    <3>1. Read(t)' = {} /\ Applied(t)' = {}
      BY <2>2, PlanShape DEF Read, Applied
    <3>2. \A f \in Shared : before'[t][f] = None
      BY <2>1, <2>3 DEF Unread
    <3>3. \A p \in Migrations : p[2] < version'[t]
      BY <2>2, HighestIsMax DEF IInv
    <3>4. res[t] \notin failed => \A x \in DOMAIN Plan : CutShort(x) \/ ~Present(x, res[t])
      <4>1. ~Migrated(res[t])
        BY <2>1 DEF Migrated
      <4>2. res[t] \notin failed => Settled(res[t])
        BY <1>1, <2>3, SettledUnlessAdded DEF Adding
      <4> QED
        BY <4>1, <4>2 DEF Settled
    <3>5. UNCHANGED <<files, own, partial, shared, saved, exposed, raced, failed>>
      BY <1>1 DEF tree, history
    <3>6. Migrations' = Migrations /\ res'[t] = res[t]
      BY <2>1, <3>5 DEF Migrations
    <3>7. \A x \in DOMAIN Plan : /\ CutShort(x)' <=> CutShort(x)
                                 /\ Present(x, res[t])' <=> Present(x, res[t])
      BY <2>1, <3>5, SamePlan
    <3> QED
      BY <2>1, <2>2, <2>3, <3>1, <3>2, <3>3, <3>4, <3>5, <3>6, <3>7, PlanShape DEF Underway
  <2>5. Adding(t)' /\ ~Adding(t)
    BY <1>1, <2>2 DEF Adding
  <2> QED
    BY <1>1, <2>1, <2>4, <2>5, GoStep DEF history, Places
<1> QED
  BY <1>2, <1>3

LEMMA PrepareNewStep ==
  ASSUME IInv, TypeOK', NEW t \in Terminal, PrepareNew(t)
  PROVE  IInv'
<1>1. pc[t] = "preparing" /\ Target(t) \notin Shared
      /\ UNCHANGED <<tree, generated, bounds, history>>
  BY DEF PrepareNew
<1>2. CASE Return(t)
  BY <1>1, <1>2, EarlyEnd DEF Return, history
<1>3. CASE ~Return(t)
  <2>1. Adding(t) /\ Underway(t) /\ at[t] \in 1..2 /\ res[t] \in Resource
    BY <1>1, Target1 DEF IInv, Adding
  <2>2. /\ pc' = [pc EXCEPT ![t] = "preparing"] /\ at' = [at EXCEPT ![t] = at[t] + 1]
        /\ UNCHANGED <<lock, res, version, before>>
    BY <1>3, <2>1, PlanLength DEF PrepareNew, Prepared, Goto
  <2>3. pc'[t] = "preparing" /\ at'[t] = at[t] + 1
    BY <2>2 DEF IInv, TypeOK
  <2>4. UNCHANGED <<files, own, partial, shared, saved, exposed, raced, failed>>
    BY <1>1 DEF tree, history
  <2>5. Underway(t)'
    <3>1. Read(t)' = Read(t) /\ Applied(t) = {} /\ Applied(t)' = {} /\ Read(t) \subseteq Shared
      BY <1>1, <2>1, <2>3, PlanShape DEF Read, Applied
    <3>2. \A f \in Read(t) : Remembered(t, f)'
      BY <2>1, <2>2, <2>4, <3>1, StillRemembered, SameTree, <1>1 DEF Underway
    <3>3. Migrations' = Migrations
      BY <2>4 DEF Migrations
    <3>4. \A x \in DOMAIN Plan : /\ CutShort(x)' <=> CutShort(x)
                                 /\ Present(x, res[t])' <=> Present(x, res[t])
      BY <2>2, <2>4, SamePlan
    <3> QED
      BY <2>1, <2>2, <2>3, <2>4, <3>1, <3>2, <3>3, <3>4, PlanShape DEF Underway
  <2>6. Adding(t)'
    BY <2>3 DEF Adding
  <2> QED
    BY <1>1, <2>1, <2>2, <2>5, <2>6, GoStep DEF history, Places
<1> QED
  BY <1>2, <1>3

\* A shared file that is read says what the invariant says of it.
LEMMA ReadIsRemembered ==
  ASSUME IInv, NEW t \in Terminal, pc[t] = "preparing", NEW f \in Shared, f = Target(t),
         ~RefusesContent(t), before'[t][f] = shared[f],
         UNCHANGED <<files, own, partial, shared, saved, exposed, raced, failed, res>>
  PROVE  Remembered(t, f)'
<1> DEFINE c == shared[f]
<1>1. Adding(t) /\ Underway(t) /\ at[t] \in 3..5 /\ Plan[at[t]] = f /\ res[t] \in Resource
  BY Target1 DEF IInv, Adding, Target
<1>2. c.whole /\ (f = "api/openapi.yaml" => ~Clashes(res[t], Listed(c)))
  BY DEF RefusesContent
<1>3. Once(c) /\ (f = "api/openapi.yaml" => Unambiguous(c))
  BY DEF IInv, NamesUnique, RegisteredOnce, ContractUnambiguous
<1>4. \A e \in Edit : <<f, e>> \in saved \ exposed => e \in c.edits
  BY <1>2 DEF IInv, NoLostEdit
<1>5. \A r : Present(at[t], r) <=> c.lists[r] > 0
  BY <1>1, PlanShape DEF Present
<1>6. ~CutShort(at[t]) /\ at[t] \in DOMAIN Plan
  BY <1>1, <1>2, PlanShape DEF CutShort
<1>7. ASSUME NEW r \in Resource \ failed
      PROVE  c.lists[r] > 0 <=> r # res[t] /\ Migrated(r)
  <2>1. CASE r = res[t]
    <3>1. at[t] \notin Applied(t)
      BY NothingApplied
    <3> QED
      BY <1>1, <1>5, <1>6, <1>7, <2>1, <3>1 DEF Underway
  <2>2. CASE r # res[t]
    <3>1. Settled(r)
      BY <1>7, <2>2, SettledUnlessAdded
    <3> QED
      BY <1>5, <1>6, <2>2, <3>1 DEF Settled
  <2> QED
    BY <2>1, <2>2
<1> HIDE DEF c
<1>8. \A r : Migrated(r)' <=> Migrated(r)
  BY DEF Migrated, Migrations
<1>9. before'[t][f] = c
  BY DEF c
<1> QED
  BY <1>2, <1>3, <1>4, <1>7, <1>8, <1>9 DEF Remembered, Once

LEMMA PrepareSharedStep ==
  ASSUME IInv, TypeOK', NEW t \in Terminal, PrepareShared(t)
  PROVE  IInv'
<1>1. pc[t] = "preparing" /\ Target(t) \in Shared
      /\ UNCHANGED <<tree, generated, bounds, history>>
  BY DEF PrepareShared
<1>2. CASE Return(t)
  BY <1>1, <1>2, EarlyEnd DEF Return, history
<1>3. CASE ~Return(t)
  <2>1. Adding(t) /\ Underway(t) /\ at[t] \in 3..5 /\ res[t] \in Resource
    BY <1>1, Target1 DEF IInv, Adding
  <2>2. PICK f \in Shared : f = Target(t)
    BY <1>1
  <2>3. ~RefusesContent(t) /\ before' = [before EXCEPT ![t][f] = shared[f]]
        /\ Prepared(t) /\ UNCHANGED <<lock, res, version>>
    BY <1>3, <2>2 DEF PrepareShared
  <2>4. /\ pc'[t] = IF at[t] = 5 THEN "prepared" ELSE "preparing"
        /\ at'[t] = IF at[t] = 5 THEN 1 ELSE at[t] + 1
        /\ pc' = [pc EXCEPT ![t] = pc'[t]]
    BY <2>3, PlanLength DEF IInv, TypeOK, Prepared, Goto
  <2>5. UNCHANGED <<files, own, partial, shared, saved, exposed, raced, failed>>
    BY <1>1 DEF tree, history
  <2>6. /\ before'[t][f] = shared[f]
        /\ \A g \in Shared : g # f => before'[t][g] = before[t][g]
        /\ \A s \in Terminal : s # t => before'[s] = before[s]
    BY <2>3 DEF IInv, TypeOK
  <2>7. Underway(t)'
    <3>1. Read(t)' = Read(t) \cup {f} /\ Read(t) \subseteq Shared
      BY <1>1, <2>1, <2>2, <2>4, PlanShape DEF Read, Target
    <3>2. Applied(t) = {} /\ Applied(t)' = {}
      BY <1>1, <2>4, PlanShape DEF Applied
    <3>3. shared[f] # None
      BY UnreadAssumption DEF IInv, TypeOK
    <3>4. \A g \in Shared : before'[t][g] # None <=> g \in Read(t)'
      BY <2>1, <2>6, <3>1, <3>3 DEF Underway
    <3>5. ASSUME NEW g \in Read(t)' PROVE Remembered(t, g)'
      <4>1. CASE g = f
        BY <1>1, <2>2, <2>3, <2>5, <2>6, <4>1, ReadIsRemembered
      <4>2. CASE g # f
        <5>1. Remembered(t, g) /\ before'[t][g] = before[t][g] /\ res'[t] = res[t]
          BY <2>1, <2>3, <2>6, <3>1, <3>5, <4>2 DEF Underway
        <5>2. \A r : Migrated(r)' <=> Migrated(r)
          BY <2>5 DEF Migrated, Migrations
        <5> QED
          BY <2>5, <5>1, <5>2 DEF Remembered, Once
      <4> QED
        BY <4>1, <4>2
    <3>6. Migrations' = Migrations /\ res'[t] = res[t] /\ version'[t] = version[t]
      BY <2>3, <2>5 DEF Migrations
    <3>7. \A x \in DOMAIN Plan : /\ CutShort(x)' <=> CutShort(x)
                                 /\ Present(x, res[t])' <=> Present(x, res[t])
      BY <2>3, <2>5, SamePlan
    <3> QED
      BY <2>1, <2>4, <2>5, <3>2, <3>4, <3>5, <3>6, <3>7, PlanShape DEF Underway
  <2>8. Adding(t)' /\ pc'[t] \in Places \ {"idle", "locking"}
    BY <2>4 DEF Adding, Places
  <2> QED
    BY <1>1, <2>1, <2>3, <2>4, <2>5, <2>6, <2>7, <2>8, GoStep
<1> QED
  BY <1>2, <1>3

LEMMA BeginStep ==
  ASSUME IInv, TypeOK', NEW t \in Terminal, Begin(t)
  PROVE  IInv'
<1>1. /\ pc[t] = "prepared" /\ pc' = [pc EXCEPT ![t] = "writing"]
      /\ UNCHANGED <<lock, files, own, partial, shared, generated, res, version, before, at>>
      /\ UNCHANGED <<saved, exposed, raced, failed>>
  BY DEF Begin, tree, local, history
<1>2. Adding(t) /\ Underway(t) /\ at[t] = 1 /\ pc'[t] = "writing" /\ Adding(t)'
  BY <1>1 DEF IInv, TypeOK, Adding, Underway
<1>3. Read(t)' = Read(t) /\ Applied(t) = {} /\ Applied(t)' = {} /\ Read(t) \subseteq Shared
  BY <1>1, <1>2, PlanShape DEF Read, Applied
<1>4. Underway(t)'
  <2>1. \A f \in Read(t) : Remembered(t, f)'
    <3>1. \A r : Migrated(r)' <=> Migrated(r)
      BY <1>1 DEF Migrated, Migrations
    <3> QED
      BY <1>1, <1>2, <1>3, <3>1, StillRemembered DEF Underway
  <2>2. Migrations' = Migrations
    BY <1>1 DEF Migrations
  <2>3. \A x \in DOMAIN Plan : /\ CutShort(x)' <=> CutShort(x)
                               /\ Present(x, res[t])' <=> Present(x, res[t])
    BY <1>1, SamePlan
  <2> QED
    BY <1>1, <1>2, <1>3, <2>1, <2>2, <2>3, PlanShape DEF Underway
<1> QED
  BY <1>1, <1>2, <1>4, GoStep DEF tree, Places

-----------------------------------------------------------------------------
(* Steps that write *)

\* The step of t's process leaves resource r0 applied as far as A, others as they were.
Leaves(t, r0, A) ==
  /\ pc[t] \in {"writing", "undoing", "rewriting"} /\ r0 = res[t]
  /\ \/ pc[t] = "writing" /\ Written(t) /\ A = 1..at[t]
     \/ Undone(t) /\ A = 1..(at[t] - 1)
  /\ UNCHANGED <<saved, exposed, raced>> /\ failed \subseteq failed'
  /\ \A r \in Resource \ failed' :
       r # r0 => Settled(r)' /\ (Migrated(r)' <=> Migrated(r))
  /\ r0 \notin failed' => \A x \in 1..5 : CutShort(x)' \/ (Present(x, r0)' <=> x \in A)
  /\ 1 \in A => <<"module", 0, r0>> \in files' \ own'
  /\ \A p \in Migrations' \ partial' : p[3] = r0 => p[2] = version[t]
  /\ ~raced => \A p \in Migrations' :
                 p[2] < version[t] \/ p = <<"migration", version[t], r0>>

\* A process that writes or undoes goes on to its next change, or returns after
\* the last one.
LEMMA Moved ==
  ASSUME IInv, TypeOK', TreeInv', NEW t \in Terminal, NEW r0, NEW A, Leaves(t, r0, A)
  PROVE  IInv'
<1> USE DEF Leaves
<1>1. Adding(t) /\ Underway(t) /\ at[t] \in 1..5 /\ r0 \in Resource /\ pc[t] # "idle"
  BY Target1 DEF IInv, Adding
<1>2. \A s \in Terminal : s # t => ~Adding(s)
  BY <1>1, Alone DEF Adding
<1>3. CASE Return(t)
  <2>1. A = 1..5 \/ A = {}
    <3>1. pc[t] = "writing" /\ Written(t) => at[t] = 5
      <4>1. pc'[t] = "idle"
        BY <1>3 DEF Return, End, IInv, TypeOK
      <4>2. Written(t) /\ at[t] # 5 => pc'[t] = "writing"
        BY PlanLength DEF Written, Goto, IInv, TypeOK
      <4> QED
        BY <4>1, <4>2
    <3>2. Undone(t) => at[t] = 1
      <4>1. pc'[t] = "idle"
        BY <1>3 DEF Return, End, IInv, TypeOK
      <4>2. Undone(t) /\ at[t] # 1 => pc'[t] = "undoing"
        BY DEF Undone, Goto, IInv, TypeOK
      <4> QED
        BY <4>1, <4>2
    <3> QED
      BY <3>1, <3>2
  <2>2. r0 \notin failed' => Settled(r0)'
    <3>1. CASE A = 1..5
      <4>1. r0 \notin failed' => \A x \in 1..5 : CutShort(x)' \/ Present(x, r0)'
        BY <3>1
      <4>2. Present(2, r0)' <=> Migrated(r0)'
        BY PlanShape DEF Present
      <4>3. ~CutShort(2)'
        BY PlanShape DEF CutShort
      <4> QED
        BY <4>1, <4>2, <4>3, PlanShape DEF Settled
    <3>2. CASE A = {}
      <4>1. r0 \notin failed' => \A x \in 1..5 : CutShort(x)' \/ ~Present(x, r0)'
        BY <3>2
      <4>2. Present(2, r0)' <=> Migrated(r0)'
        BY PlanShape DEF Present
      <4>3. ~CutShort(2)'
        BY PlanShape DEF CutShort
      <4> QED
        BY <4>1, <4>2, <4>3, PlanShape DEF Settled
    <3> QED
      BY <2>1, <3>1, <3>2
  <2>3. LockTrue' /\ \A s \in Terminal : ~Adding(s)' /\ Waiting(s)'
    BY <1>1, <1>3, Ended DEF Return
  <2> QED
    BY <2>2, <2>3 DEF IInv, TreeInv
<1>4. CASE ~Return(t)
  <2>1. PICK place \in {"writing", "undoing"}, index \in 1..5 :
          /\ Goto(t, place, index) /\ UNCHANGED <<lock, res, version, before>>
          /\ A = IF place = "writing" THEN 1..(index - 1) ELSE 1..index
    <3>1. CASE pc[t] = "writing" /\ Written(t) /\ A = 1..at[t]
      <4>1. at[t] # 5 /\ Goto(t, "writing", at[t] + 1) /\ UNCHANGED <<lock, res, version, before>>
        BY <1>4, <3>1, PlanLength DEF Written
      <4>2. at[t] + 1 \in 1..5 /\ (at[t] + 1) - 1 = at[t]
        BY <1>1, <4>1
      <4> QED
        BY <3>1, <4>1, <4>2
    <3>2. CASE Undone(t) /\ A = 1..(at[t] - 1)
      <4>1. at[t] # 1 /\ Goto(t, "undoing", at[t] - 1) /\ UNCHANGED <<lock, res, version, before>>
        BY <1>4, <3>2 DEF Undone
      <4>2. at[t] - 1 \in 1..5
        BY <1>1, <4>1
      <4> QED
        BY <3>2, <4>1, <4>2
    <3> QED
      BY <3>1, <3>2
  <2>2. pc' = [pc EXCEPT ![t] = place] /\ pc'[t] = place /\ at'[t] = index
    BY <2>1 DEF IInv, TypeOK, Goto
  <2>3. LockTrue' /\ \A s \in Terminal : s # t => ~Adding(s)' /\ Waiting(s)'
    BY <1>1, <2>1, <2>2, GoesOn DEF Places
  <2>4. Adding(t)' /\ res'[t] = r0
    BY <2>1, <2>2 DEF Adding
  <2>5. Applied(t)' = A
    BY <2>1, <2>2, PlanShape DEF Applied
  <2>6. Read(t)' = Read(t) /\ Read(t) \subseteq Shared
    BY <2>2, PlanShape DEF Read
  <2>7. \A f \in Read(t) : Remembered(t, f)'
    BY <1>1, <2>1, <2>6, StillRemembered DEF Underway
  <2>8. Underway(t)'
    <3>1. pc'[t] # "prepared" /\ pc'[t] # "rewriting"
      BY <2>2
    <3>2. \A x \in 1..5 : r0 \notin failed' => CutShort(x)' \/ (Present(x, res[t])' <=> x \in A)
      BY <2>4
    <3> QED
      BY <1>1, <2>1, <2>2, <2>4, <2>5, <2>6, <2>7, <3>1, <3>2, PlanShape DEF Underway
  <2> QED
    BY <2>3, <2>4, <2>8 DEF IInv, TreeInv
<1> QED
  BY <1>3, <1>4

\* The tree stays sound when t's process creates a file, whole or in part.
LEMMA PathAdded ==
  ASSUME IInv, TypeOK', NEW t \in Terminal, Adding(t), at[t] \in 1..2, Path(t) \notin files,
         files' = files \cup {Path(t)},
         UNCHANGED <<own, shared, saved, exposed, raced>>, failed \subseteq failed'
  PROVE  TreeInv'
<1>1. PICK P : P = Path(t) /\ P \notin files /\ files' = files \cup {P}
  OBVIOUS
<1>2. PICK r0 \in Resource, v \in Nat :
        /\ P = IF at[t] = 1 THEN <<"module", 0, r0>> ELSE <<"migration", v, r0>>
        /\ ~raced => \A p \in Migrations : p[2] < v \/ p = <<"migration", v, r0>>
  BY <1>1, Target1 DEF IInv, Underway
<1>3. Migrations' = IF at[t] = 1 THEN Migrations ELSE Migrations \cup {P}
  <2>1. P[1] = IF at[t] = 1 THEN "module" ELSE "migration"
    BY <1>2
  <2> QED
    BY <1>1, <2>1 DEF Migrations
<1>4. VersionsDistinct'
  <2>1. ASSUME NEW p \in Migrations', NEW q \in Migrations', p # q, p[2] = q[2], ~raced
        PROVE  FALSE
    <3>1. ~(p \in Migrations /\ q \in Migrations)
      BY <2>1 DEF IInv, NamesUnique, VersionsDistinct, Duplicated
    <3>2. at[t] # 1 /\ P = <<"migration", v, r0>> /\ P[2] = v
      BY <1>2, <1>3, <2>1, <3>1
    <3>3. PICK m \in Migrations : m # P /\ m[2] = v
      BY <1>3, <2>1, <3>1, <3>2
    <3>4. m[2] < v \/ m = P
      BY <1>2, <2>1, <3>2
    <3> QED
      BY <3>3, <3>4
  <2> QED
    BY <2>1 DEF VersionsDistinct, Duplicated
<1>5. NoLostEdit'
  BY DEF IInv, NoLostEdit
<1>6. ContractUnambiguous' /\ RegisteredOnce'
  BY DEF IInv, NamesUnique, ContractUnambiguous, RegisteredOnce, Once
<1>7. IsFiniteSet(files')
  BY FS_AddElement DEF IInv
<1> QED
  BY <1>4, <1>5, <1>6, <1>7 DEF IInv, TreeInv, NamesUnique

LEMMA WriteNewStep ==
  ASSUME IInv, TypeOK', NEW t \in Terminal, WriteNew(t)
  PROVE  IInv'
<1>1. /\ pc[t] = "writing" /\ Target(t) \notin Shared /\ Path(t) \notin files
      /\ files' = files \cup {Path(t)} /\ Written(t)
      /\ UNCHANGED <<own, partial, shared, saved, exposed, raced, failed>>
  BY DEF WriteNew, history
<1>2. Adding(t) /\ Underway(t) /\ at[t] \in 1..2
  BY <1>1, Target1 DEF IInv, Adding
<1>3. PICK r0 \in Resource, k \in 1..2, v \in Nat, A \in SUBSET (1..5) :
        r0 = res[t] /\ k = at[t] /\ v = version[t] /\ A = 1..k
  <2>1. res[t] \in Resource /\ version[t] \in Nat
    BY <1>2, Target1
  <2>2. 1..at[t] \in SUBSET (1..5)
    BY <1>2
  <2> QED
    BY <1>2, <2>1, <2>2
<1>4. PICK P : P = Path(t) /\ P = IF k = 1 THEN <<"module", 0, r0>> ELSE <<"migration", v, r0>>
  BY <1>2, <1>3, Target1
<1>5. P[1] = (IF k = 1 THEN "module" ELSE "migration") /\ P[3] = r0 /\ (k = 2 => P[2] = v)
  BY <1>3, <1>4
<1>6. Applied(t) = 1..(k - 1)
  BY <1>1, <1>3, PlanShape DEF Applied
<1>7. Migrations' = IF k = 1 THEN Migrations ELSE Migrations \cup {P}
  BY <1>1, <1>3, <1>4, <1>5 DEF Migrations
<1>8. r0 # Hand
  BY NamesAssumption
<1>9. /\ \A p \in Migrations' \ partial' : p[3] = r0 => p[2] = v
      /\ ~raced => \A p \in Migrations' : p[2] < v \/ p = <<"migration", v, r0>>
  BY <1>1, <1>2, <1>3, <1>4, <1>5, <1>7 DEF Underway
<1>10. TreeInv'
  BY <1>1, <1>2, PathAdded
<1>11. ASSUME NEW r \in Resource \ failed', r # r0
       PROVE  Settled(r)' /\ (Migrated(r)' <=> Migrated(r))
  <2>1. Migrated(r)' <=> Migrated(r)
    BY <1>1, <1>5, <1>7, <1>11 DEF Migrated
  <2>2. \A x \in DOMAIN Plan : /\ CutShort(x)' <=> CutShort(x)
                               /\ Present(x, r)' <=> Present(x, r)
    BY <1>1, <1>4, <1>11, <2>1 DEF CutShort, Present
  <2>3. Settled(r)
    BY <1>1, <1>3, <1>11, SettledUnlessAdded
  <2> QED
    BY <2>1, <2>2, <2>3 DEF Settled
<1>12. 1 \in A => <<"module", 0, r0>> \in files' \ own'
  <2>1. CASE k = 1
    BY <1>1, <1>4, <2>1 DEF IInv, TypeOK
  <2>2. CASE k = 2
    BY <1>1, <1>2, <1>3, <1>6, <2>2 DEF Underway
  <2> QED
    BY <2>1, <2>2
<1>13. r0 \notin failed' => \A x \in 1..5 : CutShort(x)' \/ (Present(x, r0)' <=> x \in A)
  <2>1. ASSUME r0 \notin failed', NEW x \in 1..5, ~CutShort(x)'
        PROVE  Present(x, r0)' <=> x \in A
    <3>1. Present(x, r0) <=> x \in 1..(k - 1)
      <4>1. ~CutShort(x)
        BY <1>1, <2>1 DEF CutShort
      <4> QED
        BY <1>1, <1>2, <1>3, <1>6, <2>1, <4>1, PlanShape DEF Underway
    <3>2. CASE x = 1
      <4>1. P \notin own /\ P \notin partial
        BY <1>1, <1>4 DEF IInv, TypeOK
      <4>2. k = 1 => Present(x, r0)'
        BY <1>1, <1>4, <3>2, <4>1, PlanShape DEF Present
      <4>3. k = 2 => (Present(x, r0)' <=> Present(x, r0))
        <5>1. k = 2 => <<"module", 0, r0>> # P
          BY <1>5
        <5> QED
          BY <1>1, <1>4, <3>2, <5>1, PlanShape DEF Present
      <4> QED
        BY <1>3, <3>1, <3>2, <4>2, <4>3
    <3>3. CASE x = 2
      <4>1. Migrated(r0)' <=> (k = 2 \/ Migrated(r0))
        <5>1. P \notin partial
          BY <1>1, <1>4 DEF IInv, TypeOK
        <5> QED
          BY <1>1, <1>5, <1>7, <5>1 DEF Migrated
      <4> QED
        BY <1>3, <3>1, <3>3, <4>1, PlanShape DEF Present
    <3>4. CASE x \in 3..5
      BY <1>1, <1>3, <3>1, <3>4, PlanShape DEF Present
    <3> QED
      BY <3>2, <3>3, <3>4
  <2> QED
    BY <2>1
<1>14. Leaves(t, r0, A)
  BY <1>1, <1>3, <1>9, <1>10, <1>11, <1>12, <1>13 DEF Leaves
<1> QED
  BY <1>10, <1>14, Moved

\* A shared file gets whole content that fits the rest of the tree.
LEMMA SharedWritten ==
  ASSUME IInv, NEW f \in Shared, NEW c \in Content, shared' = [shared EXCEPT ![f] = c],
         UNCHANGED <<files, own, partial, saved, exposed, raced, failed>>,
         c.whole, Once(c), f = "api/openapi.yaml" => Unambiguous(c),
         \A e \in Edit : <<f, e>> \in saved \ exposed => e \in c.edits
  PROVE  /\ TreeInv' /\ Migrations' = Migrations
         /\ \A r : Migrated(r)' <=> Migrated(r)
         /\ \A r \in Resource :
              Settled(r) /\ (c.lists[r] > 0 <=> Migrated(r)) => Settled(r)'
<1>1. shared'[f] = c /\ \A g \in Shared : g # f => shared'[g] = shared[g]
  BY DEF IInv, TypeOK
<1>2. Migrations' = Migrations /\ \A r : Migrated(r)' <=> Migrated(r)
  BY DEF Migrations, Migrated
<1>3. TreeInv'
  <2>1. NoLostEdit'
    BY <1>1 DEF IInv, NoLostEdit
  <2>2. VersionsDistinct'
    BY <1>2 DEF IInv, NamesUnique, VersionsDistinct, Duplicated
  <2>3. ContractUnambiguous'
    <3>1. "api/openapi.yaml" \in Shared
      BY DEF Shared
    <3>2. Unambiguous(shared'["api/openapi.yaml"])
      BY <1>1, <3>1 DEF IInv, NamesUnique, ContractUnambiguous
    <3> QED
      BY <3>2 DEF ContractUnambiguous, Unambiguous, Listed, Clashes
  <2>4. RegisteredOnce'
    BY <1>1 DEF IInv, NamesUnique, RegisteredOnce, Once
  <2>5. \A g \in Shared, r \in Resource : ~shared'[g].whole => shared'[g].lists[r] = 0
    BY <1>1 DEF IInv
  <2> QED
    BY <2>1, <2>2, <2>3, <2>4, <2>5 DEF IInv, TreeInv, NamesUnique
<1>4. ASSUME NEW r \in Resource, Settled(r), c.lists[r] > 0 <=> Migrated(r)
      PROVE  Settled(r)'
  <2>1. ASSUME NEW x \in 1..5 PROVE CutShort(x)' \/ (Present(x, r)' <=> Migrated(r)')
    <3>1. CASE x \in 1..2
      BY <1>2, <1>4, <3>1, PlanShape DEF Settled, Present, CutShort
    <3>2. CASE x \in 3..5 /\ Plan[x] = f
      BY <1>1, <1>2, <1>4, <3>2, PlanShape DEF Present
    <3>3. CASE x \in 3..5 /\ Plan[x] # f
      BY <1>1, <1>2, <1>4, <3>3, PlanShape DEF Settled, Present, CutShort
    <3> QED
      BY <3>1, <3>2, <3>3
  <2> QED
    BY <2>1, PlanShape DEF Settled
<1> QED
  BY <1>2, <1>3, <1>4

\* One more entry, for a resource none of whose names is declared.
LEMMA RegisteredUnambiguous ==
  ASSUME NEW c \in Content, NEW r0 \in Resource, Unambiguous(c), ~Clashes(r0, Listed(c))
  PROVE  Unambiguous(Registered(c, r0))
<1> DEFINE d == Registered(c, r0)
<1>1. d.lists[r0] = c.lists[r0] + 1 /\ \A s \in Resource : s # r0 => d.lists[s] = c.lists[s]
  BY RegisteredTyped
<1>2. \A s \in Resource : c.lists[s] \in Nat
  BY DEF Content
<1>3. r0 \notin Listed(c)
  BY NamesAssumption DEF Clashes
<1>4. Listed(d) = Listed(c) \cup {r0} /\ d.lists[r0] = 1
  BY <1>1, <1>2, <1>3 DEF Listed
<1> HIDE DEF d
<1>5. ASSUME NEW r \in Listed(d)
      PROVE  d.lists[r] = 1 /\ ~Clashes(r, Listed(d) \ {r})
  <2>1. CASE r = r0
    BY <1>3, <1>4, <2>1 DEF Clashes
  <2>2. CASE r # r0
    <3>1. r \in Listed(c) /\ r \in Resource
      BY <1>4, <2>2 DEF Listed
    <3>2. d.lists[r] = 1 /\ ~Clashes(r, Listed(c) \ {r})
      BY <1>1, <2>2, <3>1 DEF Unambiguous
    <3>3. Names[r] \cap Names[r0] = {}
      BY <3>1 DEF Clashes
    <3> QED
      BY <1>4, <3>2, <3>3 DEF Clashes
  <2> QED
    BY <2>1, <2>2
<1> QED
  BY <1>5 DEF Unambiguous, d

LEMMA ReplaceStep ==
  ASSUME IInv, TypeOK', NEW t \in Terminal, Replace(t)
  PROVE  IInv'
<1>1. /\ pc[t] = "writing" /\ Target(t) \in Shared /\ Written(t)
      /\ UNCHANGED <<files, own, partial, saved, exposed, raced, failed>>
  BY DEF Replace, history
<1>2. Adding(t) /\ Underway(t) /\ at[t] \in 3..5
  BY <1>1, Target1 DEF IInv, Adding
<1>3. PICK r0 \in Resource, k \in 3..5, v \in Nat, A \in SUBSET (1..5), f \in Shared :
        r0 = res[t] /\ k = at[t] /\ v = version[t] /\ A = 1..k /\ f = Target(t)
  <2>1. res[t] \in Resource /\ version[t] \in Nat
    BY <1>2, Target1
  <2>2. 1..at[t] \in SUBSET (1..5)
    BY <1>2
  <2> QED
    BY <1>1, <1>2, <2>1, <2>2
<1>4. f = Plan[k]
  BY <1>3 DEF Target
<1>5. PICK b \in Content : b = before[t][f] /\ Remembered(t, f)
  BY <1>1, HasRead
<1>6. PICK c \in Content : c = Registered(b, r0)
  BY RegisteredTyped
<1>7. /\ c.whole /\ c.edits = b.edits /\ c.lists[r0] = b.lists[r0] + 1
      /\ \A s \in Resource : s # r0 => c.lists[s] = b.lists[s]
      /\ \A s \in Resource : b.lists[s] \in Nat
  <2>1. b.whole
    BY <1>5 DEF Remembered
  <2>2. \A s \in Resource : b.lists[s] \in Nat
    BY DEF Content
  <2> QED
    BY <1>6, <2>1, <2>2, RegisteredTyped
<1>8. shared' = [shared EXCEPT ![f] = c]
  BY <1>3, <1>5, <1>6 DEF Replace
<1>9. Once(c)
  <2>1. b.lists[r0] > 0 => r0 \in failed
    BY <1>3, <1>5 DEF Remembered
  <2>2. \A r \in Resource : b.lists[r] > 1 => r \in failed
    BY <1>5 DEF Remembered, Once
  <2> QED
    BY <1>7, <2>1, <2>2 DEF Once
<1>10. f = "api/openapi.yaml" => Unambiguous(c)
  BY <1>3, <1>5, <1>6, RegisteredUnambiguous DEF Remembered
<1>11. \A e \in Edit : <<f, e>> \in saved \ exposed => e \in c.edits
  BY <1>5, <1>7 DEF Remembered
<1>12. /\ TreeInv' /\ Migrations' = Migrations /\ \A r : Migrated(r)' <=> Migrated(r)
       /\ \A r \in Resource : Settled(r) /\ (c.lists[r] > 0 <=> Migrated(r)) => Settled(r)'
  BY <1>1, <1>7, <1>8, <1>9, <1>10, <1>11, SharedWritten
<1>13. ASSUME NEW r \in Resource \ failed', r # r0
       PROVE  Settled(r)' /\ (Migrated(r)' <=> Migrated(r))
  <2>1. Settled(r)
    BY <1>1, <1>3, <1>13, SettledUnlessAdded
  <2>2. c.lists[r] > 0 <=> Migrated(r)
    BY <1>1, <1>3, <1>5, <1>7, <1>13 DEF Remembered
  <2> QED
    BY <1>12, <2>1, <2>2
<1>14. Applied(t) = 1..(k - 1)
  BY <1>1, <1>3, PlanShape DEF Applied
<1>15. 1 \in A => <<"module", 0, r0>> \in files' \ own'
  BY <1>1, <1>2, <1>3, <1>14 DEF Underway
<1>16. shared'[f] = c /\ \A g \in Shared : g # f => shared'[g] = shared[g]
  BY <1>8 DEF IInv, TypeOK
<1>17. r0 \notin failed' => \A x \in 1..5 : CutShort(x)' \/ (Present(x, r0)' <=> x \in A)
  <2>1. ASSUME r0 \notin failed', NEW x \in 1..5
        PROVE  CutShort(x)' \/ (Present(x, r0)' <=> x \in A)
    <3>1. CutShort(x) \/ (Present(x, r0) <=> x \in 1..(k - 1))
      BY <1>1, <1>2, <1>3, <1>14, <2>1, PlanShape DEF Underway
    <3>2. CASE x = k
      <4>1. Present(x, r0)' <=> c.lists[r0] > 0
        BY <1>3, <1>4, <1>16, <3>2, PlanShape DEF Present
      <4>2. c.lists[r0] > 0 /\ x \in A
        BY <1>3, <1>7, <3>2
      <4> QED
        BY <4>1, <4>2
    <3>3. CASE x # k
      <4>1. Plan[x] # f
        BY <1>3, <1>4, <3>3, PlanShape
      <4>2. (CutShort(x)' <=> CutShort(x)) /\ (Present(x, r0)' <=> Present(x, r0))
        BY <1>1, <1>12, <1>16, <4>1, PlanShape DEF CutShort, Present
      <4>3. x \in A <=> x \in 1..(k - 1)
        BY <1>3, <3>3
      <4> QED
        BY <3>1, <4>2, <4>3
    <3> QED
      BY <3>2, <3>3
  <2> QED
    BY <2>1
<1>18. /\ \A p \in Migrations' \ partial' : p[3] = r0 => p[2] = v
       /\ ~raced => \A p \in Migrations' : p[2] < v \/ p = <<"migration", v, r0>>
  BY <1>1, <1>2, <1>3, <1>12 DEF Underway
<1>19. Leaves(t, r0, A)
  BY <1>1, <1>3, <1>12, <1>13, <1>15, <1>17, <1>18 DEF Leaves
<1> QED
  BY <1>12, <1>19, Moved

\* A change fails, or cannot be undone, and the tree stays as it is.
LEMMA FailStep ==
  ASSUME IInv, TypeOK', NEW t \in Terminal, WriteFails(t) \/ UndoFails(t)
  PROVE  IInv'
<1>1. /\ pc[t] \in {"writing", "undoing", "rewriting"} /\ Undone(t)
      /\ UNCHANGED <<files, own, partial, shared, saved, exposed, raced>>
      /\ failed' = failed \/ failed' = failed \cup {res[t]}
      /\ pc[t] = "writing" \/ res[t] \in failed'
  BY DEF WriteFails, UndoFails, tree, history
<1>2. Adding(t) /\ Underway(t) /\ at[t] \in 1..5
  BY <1>1, Target1 DEF IInv, Adding
<1>3. PICK r0 \in Resource, k \in 1..5, v \in Nat, A \in SUBSET (1..5) :
        r0 = res[t] /\ k = at[t] /\ v = version[t] /\ A = 1..(k - 1)
  <2>1. res[t] \in Resource /\ version[t] \in Nat
    BY <1>2, Target1
  <2>2. 1..(at[t] - 1) \in SUBSET (1..5)
    BY <1>2
  <2> QED
    BY <1>2, <2>1, <2>2
<1>4. /\ TreeInv' /\ Migrations' = Migrations
      /\ \A r : Migrated(r)' <=> Migrated(r)
      /\ \A r : Settled(r)' <=> Settled(r)
      /\ \A x, r : (CutShort(x)' <=> CutShort(x)) /\ (Present(x, r)' <=> Present(x, r))
  BY <1>1, SameTree, SamePlan DEF tree
<1>5. ASSUME NEW r \in Resource \ failed', r # r0
      PROVE  Settled(r)' /\ (Migrated(r)' <=> Migrated(r))
  BY <1>1, <1>3, <1>4, <1>5, SettledUnlessAdded
<1>6. r0 \notin failed' => Applied(t) = A
  BY <1>1, <1>3, PlanShape DEF Applied
<1>7. r0 \notin failed' => \A x \in 1..5 : CutShort(x)' \/ (Present(x, r0)' <=> x \in A)
  BY <1>1, <1>2, <1>3, <1>4, <1>6, PlanShape DEF Underway
<1>8. 1 \in A => <<"module", 0, r0>> \in files' \ own'
  <2>1. 1 \in A => 1 \in Applied(t)
    BY <1>1, <1>2, <1>3, PlanShape DEF Applied
  <2> QED
    BY <1>1, <1>2, <1>3, <2>1 DEF Underway
<1>9. /\ \A p \in Migrations' \ partial' : p[3] = r0 => p[2] = v
      /\ ~raced => \A p \in Migrations' : p[2] < v \/ p = <<"migration", v, r0>>
  BY <1>1, <1>2, <1>3, <1>4 DEF Underway
<1>10. Leaves(t, r0, A)
  BY <1>1, <1>3, <1>5, <1>7, <1>8, <1>9 DEF Leaves
<1> QED
  BY <1>4, <1>10, Moved

LEMMA UndoNewStep ==
  ASSUME IInv, TypeOK', NEW t \in Terminal, UndoNew(t)
  PROVE  IInv' /\ Path(t) \notin own
<1>1. /\ pc[t] = "undoing" /\ Target(t) \notin Shared /\ Undone(t)
      /\ files' = files \ {Path(t)} /\ own' = own \ {Path(t)}
      /\ partial' = partial \ {Path(t)}
      /\ UNCHANGED <<shared, saved, exposed, raced, failed>>
  BY DEF UndoNew, history
<1>2. Adding(t) /\ Underway(t) /\ at[t] \in 1..2
  BY <1>1, Target1 DEF IInv, Adding
<1>3. PICK r0 \in Resource, k \in 1..2, v \in Nat, A \in SUBSET (1..5) :
        r0 = res[t] /\ k = at[t] /\ v = version[t] /\ A = 1..(k - 1)
  <2>1. res[t] \in Resource /\ version[t] \in Nat
    BY <1>2, Target1
  <2>2. 1..(at[t] - 1) \in SUBSET (1..5)
    BY <1>2
  <2> QED
    BY <1>2, <2>1, <2>2
<1>4. PICK P : P = Path(t) /\ P = IF k = 1 THEN <<"module", 0, r0>> ELSE <<"migration", v, r0>>
  BY <1>2, <1>3, Target1
<1>5. P[1] = (IF k = 1 THEN "module" ELSE "migration") /\ P[3] = r0 /\ (k = 2 => P[2] = v)
  BY <1>3, <1>4
<1>6. Applied(t) = 1..k
  BY <1>1, <1>3, PlanShape DEF Applied
<1>7. Migrations' = IF k = 1 THEN Migrations ELSE Migrations \ {P}
  BY <1>1, <1>3, <1>4, <1>5 DEF Migrations
<1>8. P \notin own
  <2>1. CASE k = 1
    BY <1>2, <1>3, <1>4, <1>6, <2>1 DEF Underway
  <2>2. CASE k = 2
    <3>1. r0 # Hand
      BY NamesAssumption
    <3> QED
      BY <1>3, <1>5, <2>2, <3>1 DEF IInv
  <2> QED
    BY <2>1, <2>2
<1>9. TreeInv' /\ Migrations' \subseteq Migrations
  <2>1. NoLostEdit'
    BY <1>1 DEF IInv, NoLostEdit
  <2>2. VersionsDistinct'
    BY <1>1, <1>7 DEF IInv, NamesUnique, VersionsDistinct, Duplicated
  <2>3. ContractUnambiguous' /\ RegisteredOnce'
    BY <1>1 DEF IInv, NamesUnique, ContractUnambiguous, RegisteredOnce, Once
  <2>4. IsFiniteSet(files')
    BY <1>1, FS_Subset DEF IInv
  <2> QED
    BY <1>1, <1>7, <2>1, <2>2, <2>3, <2>4 DEF IInv, TreeInv, NamesUnique
<1>10. ASSUME NEW r \in Resource \ failed', r # r0
       PROVE  Settled(r)' /\ (Migrated(r)' <=> Migrated(r))
  <2>1. Migrated(r)' <=> Migrated(r)
    BY <1>1, <1>4, <1>5, <1>7, <1>10 DEF Migrated
  <2>2. \A x \in DOMAIN Plan : /\ CutShort(x)' <=> CutShort(x)
                               /\ Present(x, r)' <=> Present(x, r)
    BY <1>1, <1>4, <1>8, <1>10, <2>1 DEF CutShort, Present
  <2>3. Settled(r)
    BY <1>1, <1>3, <1>10, SettledUnlessAdded
  <2> QED
    BY <2>1, <2>2, <2>3 DEF Settled
<1>11. 1 \in A => <<"module", 0, r0>> \in files' \ own'
  <2>1. 1 \in A => k = 2 /\ 1 \in Applied(t)
    BY <1>3, <1>6
  <2> QED
    BY <1>1, <1>2, <1>3, <1>4, <2>1 DEF Underway
<1>12. r0 \notin failed' => \A x \in 1..5 : CutShort(x)' \/ (Present(x, r0)' <=> x \in A)
  <2>1. ASSUME r0 \notin failed', NEW x \in 1..5, ~CutShort(x)'
        PROVE  Present(x, r0)' <=> x \in A
    <3>1. Present(x, r0) <=> x \in 1..k
      <4>1. ~CutShort(x)
        BY <1>1, <2>1 DEF CutShort
      <4> QED
        BY <1>1, <1>2, <1>3, <1>6, <2>1, <4>1, PlanShape DEF Underway
    <3>2. CASE x = 1
      <4>1. k = 1 => ~Present(x, r0)'
        BY <1>1, <1>4, <3>2, PlanShape DEF Present
      <4>2. k = 2 => (Present(x, r0)' <=> Present(x, r0))
        BY <1>1, <1>4, <3>2, PlanShape DEF Present
      <4> QED
        BY <1>3, <3>1, <3>2, <4>1, <4>2
    <3>3. CASE x = 2
      <4>1. Present(x, r0)' <=> Migrated(r0)'
        BY <3>3, PlanShape DEF Present
      <4>2. Present(x, r0) <=> Migrated(r0)
        BY <3>3, PlanShape DEF Present
      <4>3. ASSUME k = 2, NEW p \in Migrations' \ partial', p[3] = r0 PROVE FALSE
        <5>1. /\ p \in Migrations /\ p # P /\ p \in files /\ p[1] = "migration"
              /\ p \notin partial
          BY <1>1, <1>4, <1>7, <4>3 DEF Migrations
        <5>2. p[2] = v
          BY <1>2, <1>3, <4>3, <5>1 DEF Underway
        <5>3. p = <<p[1], p[2], p[3]>>
          BY <5>1, PathShape DEF IInv
        <5> QED
          BY <1>4, <4>3, <5>1, <5>2, <5>3
      <4>4. k = 2 => ~Migrated(r0)'
        BY <4>3 DEF Migrated
      <4>5. k = 1 => (Migrated(r0)' <=> Migrated(r0))
        <5>1. k = 1 => P \notin Migrations
          BY <1>5 DEF Migrations
        <5> QED
          BY <1>1, <1>4, <1>7, <5>1 DEF Migrated
      <4> QED
        BY <1>3, <3>1, <3>3, <4>1, <4>2, <4>4, <4>5
    <3>4. CASE x \in 3..5
      <4>1. Present(x, r0)' <=> Present(x, r0)
        BY <1>1, <3>4, PlanShape DEF Present
      <4> QED
        BY <1>3, <3>1, <3>4, <4>1
    <3> QED
      BY <3>2, <3>3, <3>4
  <2> QED
    BY <2>1
<1>13. /\ \A p \in Migrations' \ partial' : p[3] = r0 => p[2] = v
       /\ ~raced => \A p \in Migrations' : p[2] < v \/ p = <<"migration", v, r0>>
  <2>1. k = 1 => P \notin Migrations
    BY <1>5 DEF Migrations
  <2>2. \A p \in Migrations' \ partial' : p \in Migrations \ partial
    BY <1>1, <1>4, <1>7, <2>1
  <2> QED
    BY <1>1, <1>2, <1>3, <1>9, <2>2 DEF Underway
<1>14. Leaves(t, r0, A)
  BY <1>1, <1>3, <1>4, <1>8, <1>9, <1>10, <1>11, <1>12, <1>13 DEF Leaves
<1> QED
  BY <1>4, <1>8, <1>9, <1>14, Moved

LEMMA RewriteStep ==
  ASSUME IInv, TypeOK', NEW t \in Terminal, Rewrite(t)
  PROVE  IInv'
<1>1. /\ pc[t] = "rewriting" /\ Undone(t)
      /\ UNCHANGED <<files, own, partial, saved, exposed, raced, failed>>
  BY DEF Rewrite, history
<1>2. Adding(t) /\ Underway(t) /\ Target(t) \in Shared /\ at[t] \in 3..5
  BY <1>1, Target1 DEF IInv, Adding, Underway, Target
<1>3. PICK r0 \in Resource, k \in 3..5, v \in Nat, A \in SUBSET (1..5), f \in Shared :
        r0 = res[t] /\ k = at[t] /\ v = version[t] /\ A = 1..(k - 1) /\ f = Target(t)
  <2>1. res[t] \in Resource /\ version[t] \in Nat
    BY <1>2, Target1
  <2>2. 1..(at[t] - 1) \in SUBSET (1..5)
    BY <1>2
  <2> QED
    BY <1>2, <2>1, <2>2
<1>4. f = Plan[k]
  BY <1>3 DEF Target
<1>5. PICK b \in Content : b = before[t][f] /\ Remembered(t, f)
  BY <1>1, HasRead
<1>6. shared' = [shared EXCEPT ![f] = b]
  BY <1>3, <1>5 DEF Rewrite
<1>7. /\ b.whole /\ Once(b) /\ (f = "api/openapi.yaml" => Unambiguous(b))
      /\ \A e \in Edit : <<f, e>> \in saved \ exposed => e \in b.edits
  BY <1>5 DEF Remembered
<1>8. /\ TreeInv' /\ Migrations' = Migrations /\ \A r : Migrated(r)' <=> Migrated(r)
      /\ \A r \in Resource : Settled(r) /\ (b.lists[r] > 0 <=> Migrated(r)) => Settled(r)'
  BY <1>1, <1>6, <1>7, SharedWritten
<1>9. ASSUME NEW r \in Resource \ failed', r # r0
      PROVE  Settled(r)' /\ (Migrated(r)' <=> Migrated(r))
  <2>1. Settled(r)
    BY <1>1, <1>3, <1>9, SettledUnlessAdded
  <2>2. b.lists[r] > 0 <=> Migrated(r)
    BY <1>1, <1>3, <1>5, <1>9 DEF Remembered
  <2> QED
    BY <1>8, <2>1, <2>2
<1>10. Applied(t) = 1..(k - 1)
  BY <1>1, <1>3, PlanShape DEF Applied
<1>11. 1 \in A => <<"module", 0, r0>> \in files' \ own'
  BY <1>1, <1>2, <1>3, <1>10 DEF Underway
<1>12. shared'[f] = b /\ \A g \in Shared : g # f => shared'[g] = shared[g]
  BY <1>6 DEF IInv, TypeOK
<1>13. r0 \notin failed' => \A x \in 1..5 : CutShort(x)' \/ (Present(x, r0)' <=> x \in A)
  <2>1. ASSUME r0 \notin failed', NEW x \in 1..5
        PROVE  CutShort(x)' \/ (Present(x, r0)' <=> x \in A)
    <3>1. CutShort(x) \/ (Present(x, r0) <=> x \in A)
      BY <1>1, <1>2, <1>3, <1>10, <2>1, PlanShape DEF Underway
    <3>2. CASE x = k
      <4>1. Present(x, r0)' <=> b.lists[r0] > 0
        BY <1>3, <1>4, <1>12, <3>2, PlanShape DEF Present
      <4>2. ~(b.lists[r0] > 0) /\ x \notin A
        BY <1>1, <1>3, <1>5, <2>1, <3>2 DEF Remembered
      <4> QED
        BY <4>1, <4>2
    <3>3. CASE x # k
      <4>1. Plan[x] # f
        BY <1>3, <1>4, <3>3, PlanShape
      <4>2. (CutShort(x)' <=> CutShort(x)) /\ (Present(x, r0)' <=> Present(x, r0))
        BY <1>1, <1>8, <1>12, <4>1, PlanShape DEF CutShort, Present
      <4> QED
        BY <3>1, <4>2
    <3> QED
      BY <3>2, <3>3
  <2> QED
    BY <2>1
<1>14. /\ \A p \in Migrations' \ partial' : p[3] = r0 => p[2] = v
       /\ ~raced => \A p \in Migrations' : p[2] < v \/ p = <<"migration", v, r0>>
  BY <1>1, <1>2, <1>3, <1>8 DEF Underway
<1>15. Leaves(t, r0, A)
  BY <1>1, <1>3, <1>8, <1>9, <1>11, <1>13, <1>14 DEF Leaves
<1> QED
  BY <1>8, <1>15, Moved

\* A file that is cut short lists nothing, and is asked for nothing.
LEMMA TruncateStep ==
  ASSUME IInv, TypeOK', NEW t \in Terminal, Truncate(t)
  PROVE  IInv'
<1>1. /\ pc[t] = "undoing" /\ Target(t) \in Shared /\ pc' = [pc EXCEPT ![t] = "rewriting"]
      /\ UNCHANGED <<lock, files, own, partial, res, version, before, at>>
      /\ UNCHANGED <<saved, exposed, raced, failed>>
  BY DEF Truncate, local, history
<1>2. Adding(t) /\ Underway(t) /\ at[t] \in 3..5 /\ res[t] \in Resource
  BY <1>1, Target1 DEF IInv, Adding
<1>3. PICK f \in Shared, k \in 3..5 : f = Target(t) /\ k = at[t] /\ f = Plan[k]
  BY <1>1, <1>2 DEF Target
<1>4. PICK c \in Content : c = [Nothing EXCEPT !.whole = FALSE]
  BY NothingTyped
<1>5. ~c.whole /\ \A r \in Resource : c.lists[r] = 0
  BY <1>4, NothingTyped
<1>6. shared'[f] = c /\ \A g \in Shared : g # f => shared'[g] = shared[g]
  BY <1>3, <1>4 DEF Truncate, IInv, TypeOK
<1>7. Migrations' = Migrations /\ \A r : Migrated(r)' <=> Migrated(r)
  BY <1>1 DEF Migrations, Migrated
<1>8. ASSUME NEW x \in 1..5, NEW r
      PROVE  CutShort(x)' \/ /\ ~CutShort(x)' /\ ~CutShort(x)
                             /\ Present(x, r)' <=> Present(x, r)
  <2>1. CASE x = k
    BY <1>3, <1>5, <1>6, <2>1 DEF CutShort
  <2>2. CASE x # k
    <3>1. Plan[x] # f
      BY <1>3, <2>2, PlanShape
    <3> QED
      BY <1>1, <1>6, <1>7, <3>1, PlanShape DEF CutShort, Present
  <2> QED
    BY <2>1, <2>2
<1>9. TreeInv'
  <2>1. NoLostEdit'
    BY <1>1, <1>5, <1>6 DEF IInv, NoLostEdit
  <2>2. VersionsDistinct'
    BY <1>1, <1>7 DEF IInv, NamesUnique, VersionsDistinct, Duplicated
  <2>3. ContractUnambiguous'
    <3>1. CASE f = "api/openapi.yaml"
      BY <1>5, <1>6, <3>1 DEF ContractUnambiguous, Unambiguous, Listed
    <3>2. CASE f # "api/openapi.yaml"
      <4>1. shared'["api/openapi.yaml"] = shared["api/openapi.yaml"]
        BY <1>6, <3>2 DEF Shared
      <4> QED
        BY <4>1 DEF IInv, NamesUnique, ContractUnambiguous
    <3> QED
      BY <3>1, <3>2
  <2>4. RegisteredOnce'
    BY <1>1, <1>5, <1>6 DEF IInv, NamesUnique, RegisteredOnce, Once
  <2>5. \A g \in Shared, r \in Resource : ~shared'[g].whole => shared'[g].lists[r] = 0
    BY <1>5, <1>6 DEF IInv
  <2> QED
    BY <1>1, <2>1, <2>2, <2>3, <2>4, <2>5 DEF IInv, TreeInv, NamesUnique
<1>10. LockTrue' /\ pc'[t] = "rewriting" /\ \A s \in Terminal : s # t => ~Adding(s)' /\ Waiting(s)'
  BY <1>1, GoesOn DEF Places
<1>11. Adding(t)' /\ \A s \in Terminal : s # t => ~Adding(s)
  BY <1>1, <1>10, Alone DEF Adding
<1>12. ASSUME NEW r \in Resource \ failed', r # res[t] PROVE Settled(r)'
  <2>1. Settled(r)
    BY <1>1, <1>12, SettledUnlessAdded
  <2> QED
    BY <1>7, <1>8, <2>1, PlanShape DEF Settled
<1>13. Underway(t)'
  <2>1. Read(t)' = Read(t) /\ Read(t) \subseteq Shared
    BY <1>1, <1>10, PlanShape DEF Read
  <2>2. Applied(t) = 1..k /\ Applied(t)' = 1..(k - 1)
    BY <1>1, <1>3, <1>10, PlanShape DEF Applied
  <2>3. \A g \in Read(t) : Remembered(t, g)'
    BY <1>1, <1>2, <1>7, <2>1, StillRemembered DEF Underway
  <2>4. PICK r0 \in Resource : r0 = res[t] /\ res'[t] = r0
    BY <1>1, <1>2
  <2>5. r0 \notin failed =>
          \A x \in 1..5 : CutShort(x)' \/ (Present(x, r0)' <=> x \in 1..(k - 1))
    <3>1. ASSUME r0 \notin failed, NEW x \in 1..5, ~CutShort(x)'
          PROVE  Present(x, r0)' <=> x \in 1..(k - 1)
      <4>1. x # k
        BY <1>3, <1>5, <1>6, <3>1 DEF CutShort
      <4>2. Present(x, r0) <=> x \in 1..k
        BY <1>2, <1>8, <2>2, <2>4, <3>1, PlanShape DEF Underway
      <4> QED
        BY <1>3, <1>8, <3>1, <4>1, <4>2
    <3> QED
      BY <3>1
  <2>6. res[t] \notin failed =>
          \A x \in 1..5 : CutShort(x)' \/ (Present(x, res[t])' <=> x \in 1..(k - 1))
    BY <2>4, <2>5
  <2>7. 1 \in Applied(t)
    BY <1>3, <2>2
  <2> QED
    BY <1>1, <1>2, <1>3, <1>7, <1>10, <2>1, <2>2, <2>3, <2>6, <2>7, PlanShape DEF Underway
<1>14. ASSUME NEW r \in Resource \ failed'
       PROVE  (\E s \in Terminal : Adding(s)' /\ res'[s] = r) \/ Settled(r)'
  BY <1>1, <1>11, <1>12
<1> QED
  BY <1>9, <1>10, <1>11, <1>13, <1>14 DEF IInv, TreeInv

\* A new file that stays in part is of no resource: nothing else in the tree changes.
LEMMA PartLeft ==
  ASSUME IInv, TypeOK', NEW t \in Terminal, LeavePart(t),
         UNCHANGED <<saved, exposed, raced>>, failed \subseteq failed'
  PROVE  /\ TreeInv' /\ Adding(t) /\ Underway(t) /\ at[t] \in 1..2
         /\ \A r : Migrated(r)' <=> Migrated(r)
         /\ \A x \in 1..5 : \A r : /\ CutShort(x)' <=> CutShort(x)
                                   /\ Present(x, r)' <=> Present(x, r)
         /\ \A r : Settled(r)' <=> Settled(r)
         /\ files \ own \subseteq files' \ own'
         /\ \A p \in Migrations' \ partial' : p \in Migrations \ partial
         /\ \A p \in Migrations' : \/ p \in Migrations
                                 \/ p = <<"migration", version[t], res[t]>>
<1>1. /\ pc[t] = "writing" /\ Target(t) \notin Shared /\ Path(t) \notin files
      /\ files' = files \cup {Path(t)} /\ partial' = partial \cup {Path(t)}
      /\ UNCHANGED <<own, shared>>
  BY DEF LeavePart
<1>2. Adding(t) /\ Underway(t) /\ at[t] \in 1..2
  BY <1>1, Target1 DEF IInv, Adding
<1>3. files' \ (own' \cup partial') = files \ (own \cup partial)
  BY <1>1 DEF IInv, TypeOK
<1>4. Migrations' \ partial' = Migrations \ partial
  BY <1>1 DEF Migrations
<1>5. \A r : Migrated(r)' <=> Migrated(r)
  BY <1>4 DEF Migrated
<1>6. \A x \in 1..5 : \A r : (CutShort(x)' <=> CutShort(x)) /\ (Present(x, r)' <=> Present(x, r))
  BY <1>1, <1>3, <1>5 DEF CutShort, Present
<1>7. \A r : Settled(r)' <=> Settled(r)
  BY <1>5, <1>6, PlanShape DEF Settled
<1>8. \A p \in Migrations' : p \in Migrations \/ p = <<"migration", version[t], res[t]>>
  <2>1. Path(t) = IF at[t] = 1 THEN <<"module", 0, res[t]>>
                               ELSE <<"migration", version[t], res[t]>>
    BY <1>2, Target1
  <2>2. <<"module", 0, res[t]>>[1] # "migration"
    OBVIOUS
  <2> QED
    BY <1>1, <2>1, <2>2 DEF Migrations
<1>9. TreeInv'
  BY <1>1, <1>2, PathAdded
<1>10. files \ own \subseteq files' \ own'
  BY <1>1
<1> QED
  BY <1>2, <1>4, <1>5, <1>6, <1>7, <1>8, <1>9, <1>10

LEMMA WriteLeavesPartStep ==
  ASSUME IInv, TypeOK', NEW t \in Terminal, WriteLeavesPart(t)
  PROVE  IInv'
<1>1. /\ LeavePart(t) /\ Undone(t) /\ pc[t] = "writing"
      /\ UNCHANGED <<saved, exposed, raced>> /\ failed \subseteq failed'
  BY DEF WriteLeavesPart, LeavePart
<1>2. /\ TreeInv' /\ Adding(t) /\ Underway(t) /\ at[t] \in 1..2
      /\ \A r : Migrated(r)' <=> Migrated(r)
      /\ \A r : Settled(r)' <=> Settled(r)
      /\ files \ own \subseteq files' \ own'
  BY <1>1, PartLeft
<1>3. \A x \in 1..5 : \A r : /\ CutShort(x)' <=> CutShort(x)
                             /\ Present(x, r)' <=> Present(x, r)
  BY <1>1, PartLeft
<1>4. /\ \A p \in Migrations' \ partial' : p \in Migrations \ partial
      /\ \A p \in Migrations' : p \in Migrations \/ p = <<"migration", version[t], res[t]>>
  BY <1>1, PartLeft
<1>5. PICK r0 \in Resource, k \in 1..2, v \in Nat, A \in SUBSET (1..5) :
        r0 = res[t] /\ k = at[t] /\ v = version[t] /\ A = 1..(k - 1)
  <2>1. res[t] \in Resource /\ version[t] \in Nat
    BY <1>2, Target1
  <2>2. 1..(at[t] - 1) \in SUBSET (1..5)
    BY <1>2
  <2> QED
    BY <1>2, <2>1, <2>2
<1>6. Applied(t) = A
  BY <1>1, <1>5, PlanShape DEF Applied
<1>7. ASSUME NEW r \in Resource \ failed', r # r0
      PROVE  Settled(r)' /\ (Migrated(r)' <=> Migrated(r))
  BY <1>1, <1>2, <1>5, <1>7, SettledUnlessAdded
<1>8. r0 \notin failed' => \A x \in 1..5 : CutShort(x)' \/ (Present(x, r0)' <=> x \in A)
  <2>1. ASSUME r0 \notin failed', NEW x \in 1..5, ~CutShort(x)'
        PROVE  Present(x, r0)' <=> x \in A
    <3>1. ~CutShort(x) /\ (Present(x, r0)' <=> Present(x, r0))
      BY <1>3, <2>1
    <3>2. Present(x, res[t]) <=> x \in Applied(t)
      BY <1>1, <1>2, <1>5, <2>1, <3>1, PlanShape DEF Underway
    <3> QED
      BY <1>5, <1>6, <3>1, <3>2
  <2> QED
    BY <2>1
<1>9. 1 \in A => <<"module", 0, r0>> \in files' \ own'
  BY <1>2, <1>5, <1>6 DEF Underway
<1>10. /\ \A p \in Migrations' \ partial' : p[3] = r0 => p[2] = v
       /\ ~raced => \A p \in Migrations' : p[2] < v \/ p = <<"migration", v, r0>>
  BY <1>2, <1>4, <1>5 DEF Underway
<1>11. Leaves(t, r0, A)
  BY <1>1, <1>5, <1>7, <1>8, <1>9, <1>10 DEF Leaves
<1> QED
  BY <1>2, <1>11, Moved

LEMMA DieStep ==
  ASSUME IInv, TypeOK', NEW t \in Terminal, Die(t)
  PROVE  IInv'
<1>1. Adding(t) => res[t] \in failed'
  BY DEF Die, Adding
<1>2. CASE UNCHANGED tree
  BY <1>1, <1>2, EndStep DEF Die
<1>3. CASE LeavePart(t)
  <2>1. /\ TreeInv' /\ Adding(t) /\ pc[t] = "writing" /\ \A r : Settled(r)' <=> Settled(r)
    BY <1>3, PartLeft DEF Die, LeavePart
  <2>2. LockTrue' /\ \A s \in Terminal : ~Adding(s)' /\ Waiting(s)'
    BY <2>1, Ended DEF Die
  <2>3. ASSUME NEW r \in Resource \ failed' PROVE Settled(r)'
    BY <1>1, <2>1, <2>3, SettledUnlessAdded DEF Die
  <2> QED
    BY <2>1, <2>2, <2>3 DEF IInv, TreeInv
<1> QED
  BY <1>2, <1>3 DEF Die

LEMMA GiveUpStep ==
  ASSUME IInv, TypeOK', NEW t \in Terminal, GiveUp(t)
  PROVE  IInv'
BY EarlyEnd DEF GiveUp, Return, history

-----------------------------------------------------------------------------
(* The other steps *)

\* A process that does not hold the lock comes, or goes on to take it.
LEMMA AcquireStep ==
  ASSUME IInv, TypeOK', NEW t \in Terminal, Acquire(t)
  PROVE  IInv'
<1>1. pc[t] = "locking" /\ UNCHANGED <<tree, generated, bounds, history>> /\ ~Adding(t)
  BY DEF Acquire, Adding
<1>2. CASE lock # None
  BY <1>1, <1>2, EndStep DEF Acquire, history
<1>3. CASE lock = None
  <2>1. lock' = t /\ pc' = [pc EXCEPT ![t] = "version"] /\ UNCHANGED local
    BY <1>3 DEF Acquire
  <2>2. pc'[t] = "version" /\ \A s \in Terminal : s # t => pc'[s] = pc[s]
    BY <2>1 DEF IInv, TypeOK
  <2>3. \A s \in Terminal : pc[s] \in {"idle", "locking"} /\ ~Adding(s)
    BY <1>3, NamesAssumption DEF IInv, LockTrue, Adding
  <2>4. \A s \in Terminal : ~Adding(s)' /\ Waiting(s)'
    <3>1. Waiting(t)'
      BY <1>1, <2>1, <2>2 DEF IInv, Waiting, Unread, local
    <3>2. ASSUME NEW s \in Terminal, s # t PROVE Waiting(s)'
      BY <2>1, <2>2, <2>3, <3>2 DEF IInv, Waiting, Unread, local
    <3> QED
      BY <2>2, <2>3, <3>1, <3>2 DEF Adding
  <2>5. LockTrue'
    BY <2>1, <2>2, <2>3 DEF LockTrue
  <2>6. \A r \in Resource \ failed' : Settled(r)'
    BY <1>1, <2>3, SameTree DEF IInv, history
  <2>7. TreeInv'
    BY <1>1, SameTree DEF history
  <2> QED
    BY <2>4, <2>5, <2>6, <2>7 DEF IInv, TreeInv
<1> QED
  BY <1>2, <1>3

\* Steps that change no process but one that has not taken the lock.
LEMMA OutsideStep ==
  ASSUME IInv, TypeOK', UNCHANGED <<tree, version, before, at, history>>,
         LockTrue',
         \A s \in Terminal : \/ pc'[s] = pc[s] /\ res'[s] = res[s]
                             \/ ~Adding(s) /\ pc'[s] = "locking" /\ res'[s] \in Resource
  PROVE  IInv'
<1>1. UNCHANGED <<saved, exposed, raced, failed>>
  BY DEF history
<1>2. TreeInv' /\ \A r : Settled(r)' <=> Settled(r)
  BY <1>1, SameTree
<1>3. ASSUME NEW s \in Terminal
      PROVE  /\ Adding(s)' <=> Adding(s)
             /\ Adding(s) => res'[s] = res[s] /\ pc'[s] = pc[s]
  BY DEF Adding
<1>4. ASSUME NEW s \in Terminal, Adding(s) PROVE Underway(s)'
  BY <1>1, <1>3, <1>4, StillUnderway DEF IInv
<1>5. ASSUME NEW s \in Terminal, ~Adding(s) PROVE Waiting(s)'
  BY <1>5 DEF IInv, Waiting, Unread
<1>6. ASSUME NEW r \in Resource \ failed'
      PROVE  (\E s \in Terminal : Adding(s)' /\ res'[s] = r) \/ Settled(r)'
  BY <1>1, <1>2, <1>3 DEF IInv
<1> QED
  BY <1>2, <1>3, <1>4, <1>5, <1>6 DEF IInv, TreeInv

LEMMA StartStep ==
  ASSUME IInv, TypeOK', NEW t \in Terminal, NEW r \in Resource, Start(t, r)
  PROVE  IInv'
<1>1. \A s \in Terminal : IF s = t THEN pc[s] = "idle" /\ pc'[s] = "locking" /\ res'[s] = r
                                   ELSE pc'[s] = pc[s] /\ res'[s] = res[s]
  BY DEF Start, IInv, TypeOK
<1>2. LockTrue'
  BY <1>1 DEF Start, IInv, LockTrue
<1>3. ~Adding(t)
  BY <1>1 DEF Adding
<1> QED
  BY <1>1, <1>2, <1>3, OutsideStep DEF Start

LEMMA RemoveLockStep ==
  ASSUME IInv, TypeOK', RemoveLock \/ Generate \/ UNCHANGED vars
  PROVE  IInv'
<1>1. UNCHANGED <<tree, pc, res, version, before, at, history>>
  BY DEF RemoveLock, Generate, vars, local
<1>2. LockTrue'
  BY NamesAssumption DEF RemoveLock, Generate, vars, IInv, LockTrue
<1> QED
  BY <1>1, <1>2, OutsideStep

\* A developer's step leaves the processes and what they have done as they were.
LEMMA DeveloperStep ==
  ASSUME IInv, TypeOK', TreeInv', UNCHANGED <<lock, pc, local, failed>>,
         files \ own \subseteq files' \ own', partial' = partial,
         \A r \in Resource : Migrated(r)' <=> Migrated(r),
         \A x \in 1..5 : \A r \in Resource : /\ CutShort(x)' <=> CutShort(x)
                                             /\ Present(x, r)' <=> Present(x, r),
         \A t \in Terminal : Adding(t) => \A f \in Read(t) : Remembered(t, f)',
         \A t \in Terminal : Adding(t) => \A p \in Migrations' :
                                /\ p[3] = res[t] => p \in Migrations
                                /\ ~raced' => ~raced /\ p \in Migrations
  PROVE  IInv'
<1>1. UNCHANGED <<res, version, before, at>>
  BY DEF local
<1>2. \A r \in Resource : Settled(r)' <=> Settled(r)
  BY PlanShape DEF Settled
<1>3. LockTrue' /\ \A t \in Terminal : (Adding(t)' <=> Adding(t)) /\ (Waiting(t)' <=> Waiting(t))
  BY <1>1 DEF IInv, LockTrue, Adding, Waiting, Unread
<1>4. \A r \in Resource \ failed' : (\E t \in Terminal : Adding(t)' /\ res'[t] = r) \/ Settled(r)'
  BY <1>1, <1>2, <1>3 DEF IInv
<1>5. ASSUME NEW t \in Terminal, Adding(t) PROVE Underway(t)'
  <2>1. Underway(t) /\ Read(t)' = Read(t) /\ Applied(t)' = Applied(t) /\ Read(t) \subseteq Shared
    BY <1>1, <1>5 DEF IInv, Read, Applied
  <2>2. PICK r0 \in Resource : r0 = res[t] /\ r0 = res'[t]
    BY <1>1, <2>1 DEF Underway
  <2>3. r0 \notin failed =>
          \A x \in DOMAIN Plan : CutShort(x)' \/ (Present(x, r0)' <=> x \in Applied(t))
    BY <2>1, <2>2, PlanShape DEF Underway
  <2>4. res[t] \notin failed =>
          \A x \in DOMAIN Plan : CutShort(x)' \/ (Present(x, res[t])' <=> x \in Applied(t))
    BY <2>2, <2>3
  <2>5. /\ \A p \in Migrations' \ partial' : p[3] = res[t] => p[2] = version[t]
        /\ ~raced' => \A p \in Migrations' :
                        p[2] < version[t] \/ p = <<"migration", version[t], res[t]>>
    BY <1>5, <2>1 DEF Underway
  <2> QED
    BY <1>1, <1>5, <2>1, <2>4, <2>5 DEF Underway
<1> QED
  BY <1>3, <1>4, <1>5 DEF IInv, TreeInv

LEMMA SaveStep ==
  ASSUME IInv, TypeOK', NEW f \in Shared, NEW e \in Edit, Save(f, e)
  PROVE  IInv'
<1>1. /\ UNCHANGED <<lock, files, own, partial, pc, local, raced, failed>>
      /\ saved' = saved \cup {<<f, e>>} /\ exposed \subseteq exposed'
      /\ (\E t \in Terminal : before[t][f] # None) => <<f, e>> \in exposed'
      /\ shared[f].whole
  BY DEF Save
<1>2. PICK c \in Content : c = [shared[f] EXCEPT !.edits = @ \cup {e}]
  <2>1. shared[f] \in Content
    BY DEF IInv, TypeOK
  <2>2. [shared[f] EXCEPT !.edits = @ \cup {e}] \in Content
    BY <2>1 DEF Content
  <2> QED
    BY <2>2
<1>3. /\ c.whole = shared[f].whole /\ c.lists = shared[f].lists
      /\ c.edits = shared[f].edits \cup {e}
  BY <1>2 DEF IInv, TypeOK, Content
<1>4. shared'[f] = c /\ \A g \in Shared : g # f => shared'[g] = shared[g]
  BY <1>2 DEF Save, IInv, TypeOK
<1>5. \A g \in Shared : /\ shared'[g].whole = shared[g].whole
                        /\ shared'[g].lists = shared[g].lists
                        /\ shared[g].edits \subseteq shared'[g].edits
  BY <1>3, <1>4
<1>6. Migrations' = Migrations /\ \A r : Migrated(r)' <=> Migrated(r)
  BY <1>1 DEF Migrations, Migrated
<1>7. \A x \in 1..5 : \A r \in Resource : /\ CutShort(x)' <=> CutShort(x)
                                          /\ Present(x, r)' <=> Present(x, r)
  BY <1>1, <1>5, <1>6, PlanShape DEF CutShort, Present
<1>8. TreeInv'
  <2>1. NoLostEdit'
    <3>1. ASSUME NEW g \in Shared, NEW d \in Edit, <<g, d>> \in saved' \ exposed'
          PROVE  d \in shared'[g].edits \/ ~shared'[g].whole
      <4>1. CASE <<g, d>> = <<f, e>>
        BY <1>3, <1>4, <4>1
      <4>2. CASE <<g, d>> # <<f, e>>
        <5>1. <<g, d>> \in saved \ exposed
          BY <1>1, <3>1, <4>2
        <5> QED
          BY <1>5, <5>1 DEF IInv, NoLostEdit
      <4> QED
        BY <4>1, <4>2
    <3> QED
      BY <3>1 DEF NoLostEdit
  <2>2. VersionsDistinct'
    BY <1>1, <1>6 DEF IInv, NamesUnique, VersionsDistinct, Duplicated
  <2>3. ContractUnambiguous'
    <3>1. shared'["api/openapi.yaml"].lists = shared["api/openapi.yaml"].lists
      BY <1>5 DEF Shared
    <3> QED
      BY <3>1 DEF IInv, NamesUnique, ContractUnambiguous, Unambiguous, Listed
  <2>4. RegisteredOnce'
    BY <1>1, <1>5 DEF IInv, NamesUnique, RegisteredOnce, Once
  <2> QED
    BY <1>1, <1>5, <2>1, <2>2, <2>3, <2>4 DEF IInv, TreeInv, NamesUnique
<1>9. ASSUME NEW t \in Terminal, Adding(t), NEW g \in Read(t) PROVE Remembered(t, g)'
  <2>1. Remembered(t, g) /\ before[t][g] # None /\ g \in Shared
    BY <1>9 DEF IInv, Underway, Read
  <2>2. g = f => <<f, e>> \in exposed'
    BY <1>1, <2>1
  <2>3. \A d \in Edit : <<g, d>> \in saved' \ exposed' => <<g, d>> \in saved \ exposed
    BY <1>1, <2>2
  <2> QED
    BY <1>1, <1>6, <2>1, <2>3 DEF Remembered, Once, local
<1> QED
  BY <1>1, <1>6, <1>7, <1>8, <1>9, DeveloperStep

\* A file of a developer's own, the only one at its path.
LEMMA OwnFileStep ==
  ASSUME IInv, TypeOK', NEW P, P \notin files,
         files' = files \cup {P}, own' = own \cup {P},
         UNCHANGED <<lock, partial, shared, pc, local, saved, exposed, failed>>,
         \/ P[1] = "module" /\ raced' = raced
         \/ /\ P = <<"migration", Highest + 1, Hand>>
            /\ raced' = (raced \/ \E t \in Terminal : pc[t] \notin {"idle", "locking", "version"})
  PROVE  IInv'
<1>1. \A p \in Migrations : p[2] \in Nat /\ p[2] <= Highest /\ Highest \in Nat
  BY HighestIsMax DEF IInv
<1>2. \/ P[1] = "module" /\ Migrations' = Migrations /\ raced' = raced
      \/ /\ P[1] = "migration" /\ P[3] = Hand /\ P[2] = Highest + 1
         /\ Migrations' = Migrations \cup {P} /\ (raced => raced')
         /\ \A t \in Terminal : Adding(t) => raced'
  <2>1. CASE P[1] = "module" /\ raced' = raced
    BY <2>1 DEF Migrations
  <2>2. CASE P[1] # "module" \/ raced' # raced
    <3>1. P = <<"migration", Highest + 1, Hand>>
          /\ raced' = (raced \/ \E t \in Terminal : pc[t] \notin {"idle", "locking", "version"})
      BY <2>2
    <3>2. P[1] = "migration" /\ P[3] = Hand /\ P[2] = Highest + 1
      BY <3>1
    <3>3. Migrations' = Migrations \cup {P}
      BY <3>2 DEF Migrations
    <3>4. \A t \in Terminal : Adding(t) => raced'
      BY <3>1 DEF Adding
    <3> QED
      BY <3>1, <3>2, <3>3, <3>4
  <2> QED
    BY <2>1, <2>2
<1>3. \A r \in Resource : r # Hand
  BY NamesAssumption
<1>4. \A r \in Resource : Migrated(r)' <=> Migrated(r)
  BY <1>2, <1>3 DEF Migrated
<1>5. /\ files' \ own' = files \ own
      /\ files' \ (own' \cup partial') = files \ (own \cup partial)
  BY DEF IInv, TypeOK
<1>6. \A x \in 1..5 : \A r \in Resource : /\ CutShort(x)' <=> CutShort(x)
                                          /\ Present(x, r)' <=> Present(x, r)
  BY <1>4, <1>5 DEF CutShort, Present
<1>7. TreeInv'
  <2>1. NoLostEdit'
    BY DEF IInv, NoLostEdit
  <2>2. VersionsDistinct'
    <3>1. ASSUME NEW p \in Migrations', NEW q \in Migrations', p # q, p[2] = q[2]
          PROVE  raced'
      <4>1. p \in Migrations /\ q \in Migrations
        BY <1>1, <1>2, <3>1, HighestIsMax DEF IInv
      <4> QED
        BY <1>2, <3>1, <4>1 DEF IInv, NamesUnique, VersionsDistinct, Duplicated
    <3> QED
      BY <3>1 DEF VersionsDistinct, Duplicated
  <2>3. ContractUnambiguous' /\ RegisteredOnce'
    BY DEF IInv, NamesUnique, ContractUnambiguous, RegisteredOnce, Once
  <2>4. IsFiniteSet(files')
    BY FS_AddElement DEF IInv
  <2> QED
    BY <1>2, <2>1, <2>2, <2>3, <2>4 DEF IInv, TreeInv, NamesUnique
<1>8. ASSUME NEW t \in Terminal, Adding(t), NEW f \in Read(t) PROVE Remembered(t, f)'
  <2>1. Remembered(t, f)
    BY <1>8 DEF IInv, Underway
  <2> QED
    BY <1>4, <2>1 DEF Remembered, Once, local
<1>9. ASSUME NEW t \in Terminal, Adding(t), NEW p \in Migrations'
      PROVE  /\ p[3] = res[t] => p \in Migrations
             /\ ~raced' => ~raced /\ p \in Migrations
  <2>1. res[t] # Hand
    BY <1>3, <1>9 DEF IInv, Underway
  <2> QED
    BY <1>2, <1>9, <2>1
<1> QED
  BY <1>4, <1>5, <1>6, <1>7, <1>8, <1>9, DeveloperStep

LEMMA AddMigrationStep ==
  ASSUME IInv, TypeOK', AddMigration
  PROVE  IInv'
<1>1. <<"migration", Highest + 1, Hand>> \notin files
  <2>1. SUFFICES ASSUME <<"migration", Highest + 1, Hand>> \in Migrations PROVE FALSE
    BY DEF Migrations
  <2> QED
    BY <2>1, HighestIsMax DEF IInv
<1> QED
  BY <1>1, OwnFileStep DEF AddMigration

LEMMA AddPackageStep ==
  ASSUME IInv, TypeOK', NEW r \in Resource, AddPackage(r)
  PROVE  IInv'
<1>1. <<"module", 0, r>>[1] = "module"
  OBVIOUS
<1> QED
  BY <1>1, OwnFileStep DEF AddPackage, history

-----------------------------------------------------------------------------
(* Theorems *)

LEMMA InitIInv == Init => IInv
<1> SUFFICES ASSUME Init PROVE IInv
  OBVIOUS
<1> USE DEF Init
<1>1. /\ Nothing \in Content /\ Nothing.whole /\ Nothing.edits = {}
      /\ \A r \in Resource : Nothing.lists[r] = 0
  BY DEF Nothing, Content
<1>2. TypeOK
  <2>1. LocalOK
    BY PlanLength DEF LocalOK, Places, Unread
  <2>2. TreeOK
    BY <1>1 DEF TreeOK
  <2>3. HistoryOK
    <3>1. runs \in 0..MaxRuns /\ faults \in 0..MaxFaults
      BY BoundAssumption
    <3>2. raced \in BOOLEAN
      BY Zenon
    <3> QED
      BY <3>1, <3>2 DEF HistoryOK
  <2> QED
    BY <2>1, <2>2, <2>3, TypeParts
<1>3. LockTrue /\ NoLostEdit
  BY NamesAssumption DEF LockTrue, NoLostEdit
<1>4. Migrations = {} /\ \A r : ~Migrated(r)
  BY DEF Migrations, Migrated
<1>5. \A f \in Shared : /\ shared[f].whole
                        /\ \A r \in Resource : shared[f].lists[r] = 0
  BY <1>1
<1>6. NamesUnique
  <2>1. "api/openapi.yaml" \in Shared
    BY DEF Shared
  <2> QED
    BY <1>4, <1>5, <2>1 DEF NamesUnique, VersionsDistinct, Duplicated, ContractUnambiguous,
                            Unambiguous, Listed, RegisteredOnce, Once
<1>7. IsFiniteSet(files)
  BY FS_EmptySet
<1>8. ASSUME NEW r \in Resource PROVE Settled(r)
  BY <1>4, <1>5, PlanShape DEF Settled, Present
<1>9. \A t \in Terminal : ~Adding(t) /\ Waiting(t)
  BY DEF Adding, Waiting
<1> QED
  BY <1>2, <1>3, <1>5, <1>6, <1>7, <1>8, <1>9 DEF IInv

LEMMA NextIInv == IInv /\ [Next]_vars => IInv'
<1> SUFFICES ASSUME IInv, [Next]_vars PROVE IInv'
  OBVIOUS
<1>1. TypeOK'
  BY TypeStep
<1>2. ASSUME NEW t \in Terminal, Step(t) PROVE IInv'
  BY <1>1, <1>2, AcquireStep, ChooseVersionStep, PrepareNewStep, PrepareSharedStep, BeginStep,
     WriteNewStep, ReplaceStep, FailStep, WriteLeavesPartStep, UndoNewStep, TruncateStep, RewriteStep DEF Step
<1>3. ASSUME NEW t \in Terminal, GiveUp(t) \/ UndoFails(t) \/ Die(t) PROVE IInv'
  BY <1>1, <1>3, GiveUpStep, FailStep, DieStep
<1>4. ASSUME NEW t \in Terminal, NEW r \in Resource, Start(t, r) PROVE IInv'
  BY <1>1, <1>4, StartStep
<1>5. CASE RemoveLock \/ Generate \/ UNCHANGED vars
  BY <1>1, <1>5, RemoveLockStep
<1>6. ASSUME NEW f \in Shared, NEW e \in Edit, Save(f, e) PROVE IInv'
  BY <1>1, <1>6, SaveStep
<1>7. CASE AddMigration
  BY <1>1, <1>7, AddMigrationStep
<1>8. ASSUME NEW r \in Resource, AddPackage(r) PROVE IInv'
  BY <1>1, <1>8, AddPackageStep
<1> QED
  BY <1>2, <1>3, <1>4, <1>5, <1>6, <1>7, <1>8 DEF Next

\* The invariant of the proofs holds of every run of the generators and developers.
THEOREM Invariance == Spec => []IInv
<1>1. Init => IInv
  BY InitIInv
<1>2. IInv /\ [Next]_vars => IInv'
  BY NextIInv
<1> QED
  BY <1>1, <1>2, PTL DEF Spec

\* What addResource keeps has its type: paths, versions, contents and positions.
THEOREM TypeCorrect == Spec => []TypeOK
<1>1. IInv => TypeOK
  BY DEF IInv
<1> QED
  BY <1>1, Invariance, PTL

\* "Serialise generators in one checkout": of the processes that run, at most the
\* one the lock file names goes past it, and the lock of a process that returned
\* does not stay.
THEOREM OneAtATime == Spec => []LockTrue
<1>1. IInv => LockTrue
  BY DEF IInv
<1> QED
  BY <1>1, Invariance, PTL

\* A resource is in the tree whole or not at all, for any interleaving of runs,
\* failed writes, rollbacks and deaths, also when part of a failed write stays.
THEOREM WholeOrNot == Spec => []AllOrNothing
<1>1. ASSUME IInv, NEW r \in Resource \ failed, \A f \in Shared : shared[f].whole,
             \A t \in Terminal : res[t] = r => pc[t] \notin {"writing", "undoing", "rewriting"}
      PROVE  Traces(r) \in {{}, DOMAIN Plan}
  <2>1. \A x \in 1..5 : ~CutShort(x)
    BY <1>1 DEF CutShort
  <2>2. Traces(r) = {x \in 1..5 : Present(x, r)} /\ DOMAIN Plan = 1..5
    BY <2>1, PlanShape DEF Traces
  <2>3. CASE Settled(r)
    BY <2>1, <2>2, <2>3 DEF Settled
  <2>4. CASE ~Settled(r)
    <3>1. PICK t \in Terminal : Adding(t) /\ res[t] = r
      BY <1>1, <2>4 DEF IInv
    <3>2. Applied(t) = {} /\ Underway(t)
      BY <1>1, <3>1, NothingApplied DEF Adding, IInv
    <3>3. \A x \in 1..5 : ~Present(x, r)
      BY <2>1, <2>2, <3>1, <3>2 DEF Underway
    <3> QED
      BY <2>2, <3>3
  <2> QED
    BY <2>3, <2>4
<1>2. IInv => AllOrNothing
  BY <1>1 DEF AllOrNothing
<1> QED
  BY <1>2, Invariance, PTL

\* Migration versions, names in the contract and registrations stay unique, although
\* names are checked against generated code that may be stale.
THEOREM NamesStayUnique == Spec => []NamesUnique
<1>1. IInv => NamesUnique
  BY DEF IInv
<1> QED
  BY <1>1, Invariance, PTL

\* No run, and no rollback, loses an edit it could have read or removes a file that a
\* developer wrote.
THEOREM OwnWorkStays == Spec => OwnWorkKept
<1>1. IInv' => NoLostEdit'
  BY DEF IInv
<1>2. IInv /\ [Next]_vars => [own \subseteq own']_vars
  <2> SUFFICES ASSUME IInv, Next PROVE own \subseteq own'
    OBVIOUS
  <2>1. ASSUME NEW t \in Terminal, UndoNew(t) PROVE own \subseteq own'
    <3>1. TypeOK'
      BY <2>1, TypeStep DEF Next, Step
    <3> QED
      BY <2>1, <3>1, UndoNewStep DEF UndoNew
  <2>2. ASSUME NEW t \in Terminal, Acquire(t) \/ ChooseVersion(t) \/ PrepareNew(t)
                                   \/ PrepareShared(t) \/ Begin(t) \/ GiveUp(t)
        PROVE  own \subseteq own'
    BY <2>2 DEF Acquire, ChooseVersion, PrepareNew, PrepareShared, Begin, GiveUp, tree
  <2>3. ASSUME NEW t \in Terminal, WriteNew(t) \/ Replace(t) \/ WriteFails(t)
                                   \/ WriteLeavesPart(t) \/ Truncate(t) \/ Rewrite(t)
                                   \/ UndoFails(t) \/ Die(t)
        PROVE  own \subseteq own'
    BY <2>3 DEF WriteNew, Replace, WriteFails, WriteLeavesPart, LeavePart, Truncate, Rewrite,
                 UndoFails, Die, tree
  <2>4. ASSUME NEW t \in Terminal, NEW r \in Resource, Start(t, r) PROVE own \subseteq own'
    BY <2>4 DEF Start, tree
  <2>5. ASSUME NEW f \in Shared, NEW e \in Edit, Save(f, e) PROVE own \subseteq own'
    BY <2>5 DEF Save
  <2>6. CASE RemoveLock \/ Generate \/ AddMigration
    BY <2>6 DEF RemoveLock, Generate, AddMigration, tree
  <2>7. ASSUME NEW r \in Resource, AddPackage(r) PROVE own \subseteq own'
    BY <2>7 DEF AddPackage
  <2> QED
    BY <2>1, <2>2, <2>3, <2>4, <2>5, <2>6, <2>7 DEF Next, Step
<1>3. IInv /\ IInv' /\ [Next]_vars => [NoLostEdit' /\ own \subseteq own']_vars
  BY <1>1, <1>2
<1> QED
  BY <1>3, Invariance, PTL DEF Spec, OwnWorkKept
=============================================================================
