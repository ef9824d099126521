------------------------ MODULE InitPublicationProofs ------------------------
(***************************************************************************)
(* Proofs about InitPublication, for any processes, files, edits and       *)
(* number of faults, as long as forge init -recover overlaps no other      *)
(* command: one publisher, a half-done tree can be restored, changes are   *)
(* journalled ahead, recovery restores, and no edit is published over.     *)
(***************************************************************************)
EXTENDS InitPublication, TLAPS

-----------------------------------------------------------------------------
(* Types *)

LEMMA JournalShape ==
  ASSUME TypeOK
  PROVE  \/ journal = NoJournal /\ journal.kind = "none"
         \/ /\ journal.before \in [Before -> Contents]
            /\ \/ journal = Prepared(journal.before) /\ journal.kind = "prepared"
               \/ journal = Active(journal.before) /\ journal.kind = "active"
BY DEF TypeOK, NoJournal, Prepared, Active

LEMMA InitType == Init => TypeOK
BY BoundAssumption DEF Init, TypeOK, Contents, Original, File, Places, NoJournal

\* Contents only grow.
LEMMA SameContents ==
  ASSUME TypeOK, saved \subseteq saved', NEW S
  PROVE  \A g : g \in [S -> Contents] => g \in [S -> Contents']
BY DEF Contents

\* A step that keeps the journal or gives it the contents of files.
LEMMA JournalType ==
  ASSUME TypeOK, saved' = saved,
         \/ journal' \in {journal, NoJournal}
         \/ \E b \in [Before -> Contents] : journal' \in {Prepared(b), Active(b)}
  PROVE  \/ journal' = NoJournal
         \/ \E b \in {journal'.before} :
              b \in [Before -> Contents'] /\ journal' \in {Prepared(b), Active(b)}
<1>1. Contents' = Contents
  BY DEF Contents
<1>2. CASE journal' \in {journal, NoJournal}
  BY <1>1, <1>2 DEF TypeOK
<1>3. CASE \E b \in [Before -> Contents] : journal' \in {Prepared(b), Active(b)}
  BY <1>1, <1>3 DEF Prepared, Active
<1> QED
  BY <1>2, <1>3

\* Where processes are.
Positions ==
  /\ pc \in [Proc -> Places] /\ left \in [Proc -> SUBSET File]
  /\ \A p \in Proc : pc[p] \in {"snapshot", "restore"} => left[p] \subseteq Before

LEMMA EnterType ==
  ASSUME TypeOK, NEW p \in Proc, NEW place \in Places, NEW S \in SUBSET File,
         Enter(p, place, S), place \in {"snapshot", "restore"} => S \subseteq Before
  PROVE  Positions'
BY DEF TypeOK, Enter, Positions

LEMMA DoneType ==
  ASSUME TypeOK, NEW p \in Proc, NEW place \in Places, Enter(p, place, {})
  PROVE  Positions'
BY EnterType

LEMMA HandledType ==
  ASSUME TypeOK, NEW p \in Proc, NEW f, Handled(p, f)
  PROVE  Positions'
BY DEF TypeOK, Handled, Positions

\* A step that saves nothing.
LEMMA StepType ==
  ASSUME TypeOK, Positions', UNCHANGED <<saved, late>>,
         tree' \in [File -> Contents],
         \/ journal' \in {journal, NoJournal}
         \/ \E b \in [Before -> Contents] : journal' \in {Prepared(b), Active(b)},
         before' \in [Proc -> [Before -> Contents]],
         recoveries' \subseteq Proc, incomplete' \subseteq Proc, faults' \in 0..MaxFaults
  PROVE  TypeOK'
<1>1. Contents' = Contents
  BY DEF Contents
<1>2. \/ journal' = NoJournal
      \/ \E b \in {journal'.before} :
           b \in [Before -> Contents'] /\ journal' \in {Prepared(b), Active(b)}
  BY JournalType
<1> QED
  BY <1>1, <1>2 DEF TypeOK, Positions

LEMMA TypeStep ==
  ASSUME TypeOK, [Next]_vars
  PROVE  TypeOK'
<1> USE BoundAssumption DEF world, memory, environment
<1>p. /\ \A place \in {"snapshot", "check", "claim", "recheck", "activate", "publish", "remove",
                       "reread", "restore", "clear", "drop", "finish", "settle", "done"} :
           place \in Places
      /\ Before \subseteq File /\ After \subseteq File /\ Fresh \subseteq File
  BY DEF Places, File, Fresh
<1>1. ASSUME NEW p \in Proc, StartInit(p) PROVE TypeOK'
  <2>1. Positions'
    BY <1>1, <1>p, EnterType, DoneType DEF StartInit
  <2> QED
    BY <1>1, <2>1, StepType DEF StartInit, TypeOK
<1>2. ASSUME NEW p \in Proc, Snapshot(p) PROVE TypeOK'
  <2>1. PICK f \in left[p] : before' = [before EXCEPT ![p][f] = tree[f]]
                             /\ (Enter(p, "done", {}) \/ Handled(p, f))
    BY <1>2 DEF Snapshot
  <2>2. f \in Before
    BY <1>2, <2>1 DEF TypeOK, Snapshot
  <2>3. before' \in [Proc -> [Before -> Contents]]
    BY <2>1, <2>2, <1>p DEF TypeOK
  <2>4. Positions'
    BY <2>1, <1>p, DoneType, HandledType
  <2>5. UNCHANGED <<world, recoveries, incomplete, environment>>
    BY <1>2 DEF Snapshot
  <2> QED
    BY <2>3, <2>4, <2>5, StepType DEF TypeOK
<1>3. ASSUME NEW p \in Proc,
             Staged(p) \/ Check(p) \/ Checked(p) \/ Recheck(p) \/ Rechecked(p)
      PROVE  TypeOK'
  <2>1. Positions'
    <3>1. CASE Staged(p) \/ Checked(p) \/ Rechecked(p)
      BY <3>1, <1>p, EnterType DEF Staged, Checked, Rechecked
    <3>2. CASE Check(p) \/ Recheck(p)
      BY <3>2, <1>p, DoneType, HandledType DEF Check, Recheck
    <3> QED
      BY <1>3, <3>1, <3>2
  <2>2. UNCHANGED <<world, memory, environment>>
    BY <1>3 DEF Staged, Check, Checked, Recheck, Rechecked
  <2> QED
    BY <2>1, <2>2, StepType DEF TypeOK
<1>4. ASSUME NEW p \in Proc, Claim(p) PROVE TypeOK'
  <2>1. Positions'
    BY <1>4, <1>p, EnterType DEF Claim
  <2> QED
    BY <1>4, <2>1, StepType DEF TypeOK, Claim
<1>5. ASSUME NEW p \in Proc, Activate(p) PROVE TypeOK'
  <2>1. Positions'
    BY <1>5, <1>p, EnterType DEF Activate
  <2> QED
    BY <1>5, <2>1, StepType, JournalShape DEF TypeOK, Activate
<1>6. ASSUME NEW p \in Proc, Publish(p) \/ Remove(p) \/ Clear(p) \/ Restore(p)
      PROVE  TypeOK'
  <2>1. Positions'
    BY <1>6, <1>p, HandledType DEF Publish, Remove, Clear, Restore, Positions, TypeOK
  <2>2. tree' \in [File -> Contents]
    <3>1. CASE Publish(p)
      BY <3>1 DEF Publish, Write, TypeOK, Contents
    <3>2. CASE Remove(p) \/ Clear(p)
      BY <3>2 DEF Remove, Clear, TypeOK, Contents
    <3>3. ASSUME Restore(p), NEW f \in left[p], Write(f, before[p][f])
          PROVE  tree' \in [File -> Contents]
      <4>1. before[p][f] \in Contents /\ "torn" \in Contents
        BY <3>3 DEF TypeOK, Restore, Contents
      <4> QED
        BY <3>3, <4>1 DEF Write, TypeOK
    <3> QED
      BY <1>6, <3>1, <3>2, <3>3 DEF Restore, TypeOK
  <2>3. UNCHANGED <<journal, memory, environment>>
    BY <1>6 DEF Publish, Remove, Clear, Restore
  <2> QED
    BY <2>1, <2>2, <2>3, StepType DEF TypeOK
<1>7. ASSUME NEW p \in Proc, Published(p) \/ Removed(p) \/ PublishFails(p) \/ Restored(p)
                              \/ Cleared(p) \/ Exit(p)
      PROVE  TypeOK'
  <2>1. Positions'
    <3>1. CASE Published(p) \/ Restored(p)
      BY <3>1, <1>p, EnterType DEF Published, Restored
    <3>2. CASE Removed(p) \/ PublishFails(p) \/ Cleared(p) \/ Exit(p)
      BY <3>2, <1>p, DoneType DEF Removed, PublishFails, Cleared, Exit
    <3> QED
      BY <1>7, <3>1, <3>2
  <2>2. UNCHANGED <<world, memory, saved, late>> /\ faults' \in 0..MaxFaults
    BY <1>7 DEF Published, Removed, PublishFails, Restored, Cleared, Exit, Fault, TypeOK
  <2> QED
    BY <2>1, <2>2, StepType DEF TypeOK
<1>8. ASSUME NEW p \in Proc, Reread(p) PROVE TypeOK'
  <2>1. Positions'
    BY <1>8, <1>p, EnterType DEF Reread
  <2>2. before' \in [Proc -> [Before -> Contents]]
    BY <1>8, JournalShape DEF Reread, TypeOK
  <2> QED
    BY <1>8, <2>1, <2>2, StepType DEF TypeOK, Reread
<1>9. ASSUME NEW p \in Proc, RestoreFails(p) PROVE TypeOK'
  <2>1. Positions'
    BY <1>9, HandledType DEF RestoreFails
  <2> QED
    BY <1>9, <2>1, StepType DEF TypeOK, RestoreFails, Fault
<1>10. ASSUME NEW p \in Proc, Retire(p) \/ StartRecover(p) PROVE TypeOK'
  <2>1. Positions'
    BY <1>10, <1>p, DoneType DEF Retire, StartRecover
  <2> QED
    BY <1>10, <2>1, StepType DEF TypeOK, Retire, StartRecover
<1>11. ASSUME NEW f \in File, NEW e \in Edit, Save(f, e) PROVE TypeOK'
  <2>1. saved' = saved \cup {e} /\ saved' \subseteq Edit
    BY <1>11 DEF Save, TypeOK
  <2>2. Contents \subseteq Contents' /\ e \in Contents'
    BY <2>1 DEF Contents
  <2>3. tree' \in [File -> Contents']
    BY <1>11, <2>2 DEF Save, TypeOK
  <2>4. late' \in [Proc -> SUBSET (File \X saved')]
    BY <1>11, <2>1 DEF Save, TypeOK
  <2>5. \/ journal' = NoJournal
        \/ \E b \in {journal'.before} :
             b \in [Before -> Contents'] /\ journal' \in {Prepared(b), Active(b)}
    <3>1. \A b \in [Before -> Contents] : b \in [Before -> Contents']
      BY <2>2
    <3> QED
      BY <1>11, <3>1 DEF Save, TypeOK
  <2>6. before' \in [Proc -> [Before -> Contents']]
    BY <1>11, <2>2 DEF Save, TypeOK
  <2> QED
    BY <1>11, <2>1, <2>3, <2>4, <2>5, <2>6 DEF Save, TypeOK
<1>12. CASE UNCHANGED vars
  BY <1>12 DEF vars, TypeOK, Contents
<1> QED
  BY <1>1, <1>2, <1>3, <1>4, <1>5, <1>6, <1>7, <1>8, <1>9, <1>10, <1>11, <1>12 DEF Next, Step

-----------------------------------------------------------------------------
(* The invariant *)

LEMMA InitIInv == Init => IInv
<1> SUFFICES ASSUME Init PROVE IInv
  OBVIOUS
<1>1. TypeOK
  BY InitType
<1>2. HalfDoneHasJournal /\ Backup
  BY DEF Init, HalfDoneHasJournal, Scaffold, Backup, NoJournal
<1>3. Owners = {} /\ \A p \in Proc : Informed(p) /\ Journalled(p) /\ Advanced(p) /\ Alone(p)
  BY DEF Init, Owners, Informed, Seen, Compared, Journalled, Advanced, Alone
<1> QED
  BY <1>1, <1>2, <1>3 DEF IInv

\* What holds of a process that does nothing while another takes a step.
LEMMA OtherStays ==
  ASSUME IInv, NEW p \in Proc, NEW q \in Proc, p # q,
         UNCHANGED <<recoveries, saved, late, pc[q], left[q], before[q]>>,
         q \in incomplete' <=> q \in incomplete,
         UNCHANGED <<tree, journal>> \/ Owners \subseteq {p}
  PROVE  Informed(q)' /\ Journalled(q)' /\ Advanced(q)'
<1>1. CASE UNCHANGED <<tree, journal>>
  BY <1>1 DEF IInv, Informed, Seen, Compared, Journalled, Advanced, Project, Prepared, Active
<1>2. CASE Owners \subseteq {p}
  <2>1. q \notin Owners /\ Informed(q)
    BY <1>2 DEF IInv
  <2>2. Compared(q) = {} /\ Compared(q)' = {} /\ Seen(q)' = Seen(q)
    BY <2>1 DEF Owners, Compared, Seen
  <2> QED
    BY <2>1, <2>2 DEF Owners, Informed, Journalled, Advanced
<1> QED
  BY <1>1, <1>2

\* A step of a process that runs.
LEMMA RunStep ==
  ASSUME IInv, TypeOK', NEW p \in Proc, pc[p] \notin {"idle", "done"}, pc'[p] # "idle",
         UNCHANGED <<recoveries, saved, late>>,
         \A q \in Proc : q # p => UNCHANGED <<pc[q], left[q], before[q]>>
                                  /\ (q \in incomplete' <=> q \in incomplete),
         p \in Owners' => p \in Owners \/ Owners = {},
         UNCHANGED <<tree, journal>> \/ Owners \subseteq {p},
         HalfDoneHasJournal', Backup', Informed(p)', Journalled(p)', Advanced(p)'
  PROVE  IInv'
<1>1. \A q \in Proc : Informed(q)' /\ Journalled(q)' /\ Advanced(q)'
  BY OtherStays
<1>2. \A q \in Proc : Alone(q)'
  BY DEF IInv, Alone
<1>3. \A q, r \in Owners' : q = r
  <2>1. Owners' \subseteq Owners \cup {p}
    BY DEF Owners
  <2> QED
    BY <2>1 DEF IInv
<1> QED
  BY <1>1, <1>2, <1>3 DEF IInv

LEMMA Entered ==
  ASSUME TypeOK, NEW p \in Proc, NEW place, NEW S, Enter(p, place, S)
  PROVE  /\ pc'[p] = place /\ left'[p] = S
         /\ \A q \in Proc : q # p => UNCHANGED <<pc[q], left[q]>>
BY DEF TypeOK, Enter

LEMMA HandledOne ==
  ASSUME TypeOK, NEW p \in Proc, NEW f, Handled(p, f)
  PROVE  /\ pc'[p] = pc[p] /\ left'[p] = left[p] \ {f}
         /\ \A q \in Proc : q # p => UNCHANGED <<pc[q], left[q]>>
BY DEF TypeOK, Handled

\* A step that leaves tree and journal alone.
LEMMA QuietStep ==
  ASSUME IInv, TypeOK', NEW p \in Proc, pc[p] \notin {"idle", "done"}, pc'[p] # "idle",
         UNCHANGED <<world, recoveries, saved, late>>,
         \A q \in Proc : q # p => UNCHANGED <<pc[q], left[q], before[q]>>
                                  /\ (q \in incomplete' <=> q \in incomplete),
         p \in Owners' => p \in Owners,
         Informed(p)', Journalled(p)', Advanced(p)'
  PROVE  IInv'
<1>1. UNCHANGED <<tree, journal>>
  BY DEF world
<1>2. HalfDoneHasJournal' /\ Backup'
  BY <1>1 DEF IInv, HalfDoneHasJournal, Scaffold, Project, Backup
<1> QED
  BY <1>1, <1>2, RunStep

LEMMA EndStep ==
  ASSUME IInv, TypeOK', NEW p \in Proc, pc[p] \notin {"idle", "done"}, Enter(p, "done", {}),
         UNCHANGED <<world, recoveries, incomplete, saved, late>>,
         \A q \in Proc : q # p => UNCHANGED before[q]
  PROVE  IInv'
<1>1. /\ pc'[p] = "done" /\ \A q \in Proc : q # p => UNCHANGED <<pc[q], left[q]>>
  BY Entered DEF IInv
<1>2. Informed(p)' /\ Journalled(p)' /\ Advanced(p)' /\ p \notin Owners'
  BY <1>1 DEF Informed, Seen, Compared, Journalled, Advanced, Owners
<1> QED
  BY <1>1, <1>2, QuietStep

LEMMA SnapshotStep ==
  ASSUME IInv, TypeOK', NEW p \in Proc, Snapshot(p)
  PROVE  IInv'
<1> USE DEF memory, environment
<1>1. PICK f \in left[p] :
        /\ IF tree[f] = "absent" THEN Enter(p, "done", {}) ELSE Handled(p, f)
        /\ before' = [before EXCEPT ![p][f] = tree[f]]
        /\ UNCHANGED <<world, recoveries, incomplete, environment>>
  BY DEF Snapshot
<1>2. pc[p] = "snapshot" /\ f \in Before /\ \A q \in Proc : q # p => UNCHANGED before[q]
  BY <1>1 DEF Snapshot, IInv, TypeOK
<1>3. CASE tree[f] = "absent"
  BY <1>1, <1>2, <1>3, EndStep
<1>4. CASE tree[f] # "absent"
  <2>1. /\ pc'[p] = "snapshot" /\ left'[p] = left[p] \ {f}
        /\ \A q \in Proc : q # p => UNCHANGED <<pc[q], left[q]>>
    BY <1>1, <1>2, <1>4, HandledOne DEF IInv
  <2>2. before'[p][f] = tree[f] /\ \A g \in Before : g # f => before'[p][g] = before[p][g]
    BY <1>1, <1>2 DEF IInv, TypeOK
  <2>3. f \notin Seen(p) /\ Seen(p)' = Seen(p) \cup {f} /\ Compared(p)' = {}
    BY <1>1, <1>2, <2>1 DEF Seen, Compared
  <2>4. Informed(p)'
    BY <1>1, <1>2, <1>4, <2>1, <2>2, <2>3 DEF IInv, Informed
  <2>5. Journalled(p)' /\ Advanced(p)' /\ p \notin Owners'
    BY <2>1 DEF Journalled, Advanced, Owners
  <2> QED
    BY <1>1, <1>2, <2>1, <2>4, <2>5, QuietStep
<1> QED
  BY <1>3, <1>4

LEMMA PrepareStep ==
  ASSUME IInv, TypeOK', NEW p \in Proc, Staged(p) \/ Check(p) \/ Checked(p)
  PROVE  IInv'
<1> USE DEF memory, environment
<1>1. UNCHANGED <<world, memory, environment>>
  BY DEF Staged, Check, Checked
<1>2. CASE Enter(p, "done", {}) /\ pc[p] = "check"
  BY <1>1, <1>2, EndStep
<1>3. CASE Staged(p) \/ Checked(p) \/ \E f : Handled(p, f) /\ Check(p)
  <2>1. /\ pc[p] \in {"snapshot", "check"} /\ pc'[p] \in {"check", "claim"}
        /\ \A q \in Proc : q # p => UNCHANGED <<pc[q], left[q]>>
        /\ Seen(p) = Before
    BY <1>3, Entered, HandledOne DEF Staged, Checked, Check, Seen, IInv
  <2>2. Seen(p)' = Before /\ Compared(p)' = {} /\ p \notin Owners'
    BY <2>1 DEF Seen, Compared, Owners
  <2>3. Informed(p)'
    BY <1>1, <2>1, <2>2 DEF IInv, Informed
  <2>4. Journalled(p)' /\ Advanced(p)'
    BY <2>1 DEF Journalled, Advanced
  <2> QED
    BY <1>1, <2>1, <2>2, <2>3, <2>4, QuietStep
<1> QED
  BY <1>2, <1>3 DEF Check

LEMMA ClaimStep ==
  ASSUME IInv, TypeOK', NEW p \in Proc, Claim(p)
  PROVE  IInv'
<1> USE DEF memory, environment, world
<1>1. CASE journal # NoJournal
  BY <1>1, EndStep DEF Claim
<1>2. CASE journal = NoJournal
  <2>1. /\ pc[p] = "claim" /\ journal' = Prepared(before[p])
        /\ pc'[p] = "recheck" /\ left'[p] = File
        /\ \A q \in Proc : q # p => UNCHANGED <<pc[q], left[q]>>
        /\ UNCHANGED <<tree, memory, environment>>
    BY <1>2, Entered DEF Claim, IInv
  <2>2. ASSUME NEW q \in Owners PROVE FALSE
    <3>1. journal.kind = "none" /\ journal.kind # "prepared" /\ journal.kind # "active"
      BY <1>2 DEF NoJournal
    <3>2. q \in recoveries /\ pc[q] = "reread" /\ q # p
      BY <1>2, <2>1, <3>1 DEF IInv, Owners, Journalled, Prepared, Active
    <3> QED
      BY <2>1, <3>2 DEF IInv, Alone, Owners
  <2>3. Seen(p) = Before /\ Seen(p)' = Before /\ Compared(p)' = {}
    BY <2>1 DEF Seen, Compared
  <2>4. Informed(p)'
    BY <2>1, <2>3 DEF IInv, Informed
  <2>5. Journalled(p)' /\ Advanced(p)'
    BY <2>1 DEF Journalled, Advanced
  <2>6. journal'.kind = "prepared"
    BY <2>1 DEF Prepared
  <2>7. HalfDoneHasJournal' /\ Backup'
    BY <1>2, <2>1, <2>6 DEF IInv, HalfDoneHasJournal, Scaffold, Project, Backup, NoJournal
  <2>8. Owners = {}
    BY <2>2
  <2> QED
    BY <2>1, <2>4, <2>5, <2>7, <2>8, RunStep
<1> QED
  BY <1>1, <1>2

LEMMA RecheckStep ==
  ASSUME IInv, TypeOK', NEW p \in Proc, Recheck(p) \/ Rechecked(p)
  PROVE  IInv'
<1> USE DEF memory, environment
<1>1. /\ pc[p] = "recheck" /\ p \in Owners /\ journal = Prepared(before[p])
      /\ UNCHANGED <<world, memory, environment>> /\ UNCHANGED <<tree, journal>>
  BY DEF Recheck, Rechecked, Owners, IInv, Journalled, world
<1>2. CASE Enter(p, "drop", {})
  <2>1. /\ pc'[p] = "drop" /\ \A q \in Proc : q # p => UNCHANGED <<pc[q], left[q]>>
    BY <1>2, Entered DEF IInv
  <2>2. Informed(p)' /\ Journalled(p)' /\ Advanced(p)'
    BY <1>1, <2>1 DEF Informed, Seen, Compared, Journalled, Advanced, Prepared
  <2> QED
    BY <1>1, <2>1, <2>2, QuietStep
<1>3. ASSUME NEW f \in left[p], Unchanged(p, f), Handled(p, f) PROVE IInv'
  <2>1. /\ pc'[p] = "recheck" /\ left'[p] = left[p] \ {f} /\ f \in File
        /\ \A q \in Proc : q # p => UNCHANGED <<pc[q], left[q]>>
    BY <1>1, <1>3, HandledOne DEF IInv, TypeOK
  <2>2. Seen(p) = Before /\ Seen(p)' = Before /\ Compared(p)' = Compared(p) \cup {f}
    BY <1>1, <2>1 DEF Seen, Compared
  <2>3. ASSUME NEW e \in saved, <<f, e>> \in late[p] PROVE tree[f] # e
    <3>1. CASE f \in Before
      BY <1>3, <2>1, <2>2, <2>3, <3>1 DEF Unchanged, IInv, Informed
    <3>2. CASE f \notin Before
      BY <1>3, <2>3, <3>2, ContentAssumption DEF Unchanged, IInv, TypeOK
    <3> QED
      BY <3>1, <3>2
  <2>4. f \in Before => tree[f] = before[p][f]
    BY <1>3 DEF Unchanged
  <2>5. Informed(p)'
    BY <1>1, <2>1, <2>2, <2>3, <2>4 DEF IInv, Informed
  <2>6. Journalled(p)' /\ Advanced(p)'
    BY <1>1, <2>1 DEF Journalled, Advanced, Prepared
  <2> QED
    BY <1>1, <2>1, <2>5, <2>6, QuietStep
<1>4. CASE left[p] = {} /\ Enter(p, "activate", {})
  <2>1. /\ pc'[p] = "activate"
        /\ \A q \in Proc : q # p => UNCHANGED <<pc[q], left[q]>>
    BY <1>4, Entered DEF IInv
  <2>2. Seen(p) = Before /\ Seen(p)' = Before /\ Compared(p)' = Compared(p)
    BY <1>1, <1>4, <2>1 DEF Seen, Compared
  <2>3. Informed(p)'
    BY <1>1, <2>1, <2>2 DEF IInv, Informed
  <2>4. Journalled(p)' /\ Advanced(p)'
    BY <1>1, <2>1 DEF Journalled, Advanced, Prepared
  <2> QED
    BY <1>1, <2>1, <2>3, <2>4, QuietStep
<1> QED
  BY <1>2, <1>3, <1>4 DEF Recheck, Rechecked

\* A tree that p has compared with its snapshot is the scaffold, and so is the snapshot.
LEMMA SnapshotTrue ==
  ASSUME IInv, NEW p \in Proc, pc[p] = "activate"
  PROVE  Scaffold /\ \A f \in Before : before[p][f] \in {"old"} \cup saved
<1>1. /\ journal = Prepared(before[p]) /\ journal.kind = "prepared"
      /\ \A f \in Before : before[p][f] # "absent"
      /\ \A f \in Before : \/ tree[f] = before[p][f]
                           \/ before[p][f] \in {"old"} \cup saved /\ tree[f] \in saved
  BY DEF IInv, Informed, Journalled, Seen, Compared, Prepared, File
<1>2. Scaffold
  <2>1. ASSUME NEW q \in Proc, Project(q) PROVE FALSE
    <3>1. PICK f \in Before : f \notin After
      BY FilesAssumption
    <3>2. tree[f] = "absent"
      BY <2>1, <3>1 DEF Project, File
    <3> QED
      BY <1>1, <3>1, <3>2, ContentAssumption DEF IInv, TypeOK
  <2> QED
    BY <1>1, <2>1 DEF IInv, HalfDoneHasJournal
<1>3. \A f \in Before : tree[f] \in {"old"} \cup saved
  BY <1>2 DEF Scaffold, Original, File
<1> QED
  BY <1>1, <1>2, <1>3

LEMMA ActivateStep ==
  ASSUME IInv, TypeOK', NEW p \in Proc, Activate(p)
  PROVE  IInv'
<1> USE DEF memory, environment
<1>1. pc[p] = "activate" /\ p \in Owners /\ journal = Prepared(before[p]) /\ journal # NoJournal
  BY DEF Activate, Owners, IInv, Journalled, Prepared, NoJournal
<1>2. /\ journal' = Active(before[p]) /\ pc'[p] = "publish" /\ left'[p] = After
      /\ \A q \in Proc : q # p => UNCHANGED <<pc[q], left[q]>>
      /\ UNCHANGED <<tree, memory, environment>>
  BY <1>1, Entered DEF Activate, IInv, Prepared
<1>3. journal'.kind = "active" /\ journal'.before = before[p]
  BY <1>2 DEF Active
<1>4. HalfDoneHasJournal' /\ Backup'
  BY <1>1, <1>2, <1>3, SnapshotTrue DEF HalfDoneHasJournal, Backup
<1>5. Compared(p) = File /\ Compared(p)' = File /\ Seen(p)' = {}
  BY <1>1, <1>2 DEF Compared, Seen
<1>6. Informed(p)'
  BY <1>1, <1>2, <1>5 DEF IInv, Informed
<1>7. Journalled(p)' /\ Advanced(p)'
  BY <1>2, <1>3 DEF Journalled, Advanced
<1>8. Owners \subseteq {p}
  BY <1>1 DEF IInv
<1> QED
  BY <1>1, <1>2, <1>4, <1>6, <1>7, <1>8, RunStep

-----------------------------------------------------------------------------
(* Publication and recovery *)

\* A step of a publishing or restoring process that changes one file of the tree.
LEMMA TreeStep ==
  ASSUME IInv, TypeOK', NEW p \in Owners, journal.kind = "active", pc'[p] # "idle",
         UNCHANGED <<journal, memory, environment>>,
         \A q \in Proc : q # p => UNCHANGED <<pc[q], left[q]>>,
         Informed(p)', Advanced(p)',
         pc'[p] = pc[p]
  PROVE  IInv'
<1> USE DEF memory, environment
<1>1. p \in Proc /\ pc[p] \notin {"idle", "done"} /\ Owners \subseteq {p}
  BY DEF IInv, Owners
<1>2. HalfDoneHasJournal' /\ Backup'
  BY DEF IInv, HalfDoneHasJournal, Backup
<1>3. Journalled(p)'
  BY <1>1 DEF IInv, Journalled, Prepared, Active
<1> QED
  BY <1>1, <1>2, <1>3, RunStep

\* Edits that came too late for p are not among the contents it publishes.
LEMMA PublishStep ==
  ASSUME IInv, TypeOK', NEW p \in Proc, Publish(p) \/ Remove(p)
  PROVE  IInv'
<1> USE DEF memory, environment
<1>1. /\ p \in Owners /\ journal.kind = "active" /\ pc[p] \in {"publish", "remove"}
      /\ UNCHANGED <<journal, memory, environment>>
  BY DEF Publish, Remove, Owners, IInv, Journalled
<1>2. PICK f \in left[p], c \in {p, "torn", "absent"} :
        /\ tree' = [tree EXCEPT ![f] = c]
        /\ \/ UNCHANGED <<pc, left>> /\ pc[p] = "publish"
           \/ Handled(p, f) /\ c = IF pc[p] = "publish" THEN p ELSE "absent"
  BY DEF Publish, Remove, Write, IInv, TypeOK
<1>3. f \in File /\ tree'[f] = c /\ \A g \in File : g # f => tree'[g] = tree[g]
  BY <1>2 DEF IInv, TypeOK
<1>4. /\ pc'[p] = pc[p] /\ left'[p] \in {left[p], left[p] \ {f}}
      /\ \A q \in Proc : q # p => UNCHANGED <<pc[q], left[q]>>
  BY <1>2, HandledOne DEF IInv
<1>5. c \notin saved
  BY ContentAssumption DEF IInv, TypeOK
<1>6. Informed(p)'
  <2>1. Seen(p)' = {} /\ Compared(p)' = File /\ Compared(p) = File
    BY <1>1, <1>4 DEF Seen, Compared
  <2> QED
    BY <1>1, <1>3, <1>4, <1>5, <2>1 DEF IInv, Informed
<1>7. Advanced(p)'
  <2>1. CASE UNCHANGED <<pc, left>> /\ pc[p] = "publish"
    BY <1>1, <1>2, <1>3, <2>1 DEF IInv, Advanced
  <2>2. CASE Handled(p, f) /\ c = p /\ pc[p] = "publish"
    <3>1. left'[p] = left[p] \ {f}
      BY <2>2, HandledOne DEF IInv
    <3> QED
      BY <1>1, <1>3, <1>4, <2>2, <3>1 DEF IInv, Advanced, File
  <2>3. CASE Handled(p, f) /\ c = "absent" /\ pc[p] = "remove"
    <3>1. left'[p] = left[p] \ {f} /\ f \notin After
      BY <2>3, HandledOne DEF IInv, Advanced
    <3> QED
      BY <1>1, <1>3, <1>4, <2>3, <3>1 DEF IInv, Advanced, File
  <2> QED
    BY <1>1, <1>2, <2>1, <2>2, <2>3
<1> QED
  BY <1>1, <1>4, <1>6, <1>7, TreeStep

LEMMA PublishedStep ==
  ASSUME IInv, TypeOK', NEW p \in Proc, Published(p) \/ Removed(p) \/ PublishFails(p)
  PROVE  IInv'
<1> USE DEF memory, environment, world
<1>1. /\ p \in Owners /\ journal.kind = "active" /\ pc[p] \in {"publish", "remove"}
      /\ UNCHANGED <<tree, journal, memory, saved, late>>
  BY DEF Published, Removed, PublishFails, Owners, IInv, Journalled
<1>2. \A q \in Proc : q # p => UNCHANGED <<pc[q], left[q]>>
  BY Entered DEF Published, Removed, PublishFails, IInv
<1>3. CASE Published(p)
  <2>1. pc[p] = "publish" /\ left[p] = {} /\ pc'[p] = "remove" /\ left'[p] = Before \ After
    BY <1>3, Entered DEF Published, IInv
  <2>2. Informed(p)'
    BY <1>1, <2>1 DEF IInv, Informed, Seen, Compared
  <2>3. Journalled(p)' /\ Advanced(p)'
    BY <1>1, <2>1 DEF IInv, Journalled, Advanced
  <2> QED
    BY <1>1, <1>2, <2>1, <2>2, <2>3, QuietStep
<1>4. CASE Removed(p)
  <2>1. pc[p] = "remove" /\ left[p] = {} /\ pc'[p] = "finish"
    BY <1>4, Entered DEF Removed, IInv
  <2>2. Informed(p)'
    BY <1>1, <2>1 DEF IInv, Informed, Seen, Compared
  <2>3. Journalled(p)' /\ Advanced(p)'
    BY <1>1, <2>1 DEF IInv, Journalled, Advanced, Project, File
  <2> QED
    BY <1>1, <1>2, <2>1, <2>2, <2>3, QuietStep
<1>5. CASE PublishFails(p)
  <2>1. pc'[p] = "reread"
    BY <1>5, Entered DEF PublishFails, IInv
  <2>2. Informed(p)'
    BY <1>1, <2>1 DEF IInv, Informed, Seen, Compared
  <2>3. Journalled(p)' /\ Advanced(p)'
    BY <1>1, <2>1 DEF Journalled, Advanced
  <2> QED
    BY <1>1, <1>2, <2>1, <2>2, <2>3, QuietStep
<1> QED
  BY <1>3, <1>4, <1>5

LEMMA RereadStep ==
  ASSUME IInv, TypeOK', NEW p \in Proc, Reread(p)
  PROVE  IInv'
<1> USE DEF environment, world
<1>1. /\ p \in Owners /\ pc[p] = "reread"
      /\ UNCHANGED <<tree, journal, recoveries, incomplete, environment>>
      /\ \A q \in Proc : q # p => UNCHANGED before[q]
  BY DEF Reread, Owners, IInv, TypeOK
<1>2. CASE Enter(p, "done", {})
  BY <1>1, <1>2, EndStep
<1>3. CASE journal.kind = "prepared" /\ Enter(p, "drop", {})
  <2>1. pc'[p] = "drop" /\ \A q \in Proc : q # p => UNCHANGED <<pc[q], left[q]>>
    BY <1>3, Entered DEF IInv
  <2>2. Informed(p)' /\ Journalled(p)' /\ Advanced(p)'
    BY <1>1, <1>3, <2>1 DEF Informed, Seen, Compared, Journalled, Advanced, IInv
  <2> QED
    BY <1>1, <2>1, <2>2, QuietStep
<1>4. CASE /\ journal.kind = "active" /\ Enter(p, "restore", Before)
           /\ before' = [before EXCEPT ![p] = journal.before]
  <2>1. /\ pc'[p] = "restore" /\ left'[p] = Before
        /\ \A q \in Proc : q # p => UNCHANGED <<pc[q], left[q]>>
    BY <1>4, Entered DEF IInv
  <2>2. journal = Active(journal.before) /\ before'[p] = journal.before
    BY <1>4, JournalShape DEF IInv, TypeOK
  <2>3. Informed(p)' /\ Journalled(p)' /\ Advanced(p)'
    BY <1>1, <1>4, <2>1, <2>2 DEF Informed, Seen, Compared, Journalled, Advanced
  <2> QED
    BY <1>1, <2>1, <2>3, QuietStep
<1> QED
  BY <1>2, <1>3, <1>4 DEF Reread

\* A process that restores has no more to do with snapshots.
LEMMA RestoringInformed ==
  ASSUME NEW p \in Proc, pc'[p] \in {"restore", "clear", "settle", "done"}
  PROVE  Informed(p)'
BY DEF Informed, Seen, Compared

LEMMA RestoreStep ==
  ASSUME IInv, TypeOK', NEW p \in Proc, Restore(p)
  PROVE  IInv'
<1> USE DEF memory, environment
<1>1. /\ p \in Owners /\ journal.kind = "active" /\ pc[p] = "restore"
      /\ UNCHANGED <<journal, memory, environment>>
  BY DEF Restore, Owners, IInv, Journalled, Active
<1>2. PICK f \in left[p] :
        IF tree[f] = before[p][f]
          THEN UNCHANGED tree /\ Handled(p, f)
          ELSE /\ Write(f, before[p][f])
               /\ IF tree'[f] = "torn" THEN UNCHANGED <<pc, left>> ELSE Handled(p, f)
  BY DEF Restore
<1>3. f \in Before /\ f \in File
  BY <1>1, <1>2 DEF IInv, TypeOK
<1>4. /\ pc'[p] = "restore"
      /\ \A q \in Proc : q # p => UNCHANGED <<pc[q], left[q]>>
  BY <1>1, <1>2, HandledOne DEF IInv
<1>5. /\ \A g \in File : g # f => tree'[g] = tree[g]
      /\ \/ left'[p] = left[p]
         \/ left'[p] = left[p] \ {f} /\ tree'[f] = before[p][f]
  <2>1. CASE tree[f] = before[p][f]
    BY <1>2, <2>1, HandledOne DEF IInv
  <2>2. CASE tree[f] # before[p][f]
    <3>1. \A g \in File : g # f => tree'[g] = tree[g]
      BY <1>2, <2>2 DEF Write, IInv, TypeOK
    <3>2. tree'[f] \in {before[p][f], "torn"}
      BY <1>2, <1>3, <2>2 DEF Write, IInv, TypeOK
    <3> QED
      BY <1>2, <2>2, <3>1, <3>2, HandledOne DEF IInv
  <2> QED
    BY <2>1, <2>2
<1>6. Advanced(p)'
  BY <1>1, <1>2, <1>3, <1>4, <1>5 DEF IInv, Advanced, File
<1>7. Informed(p)'
  BY <1>4, RestoringInformed
<1> QED
  BY <1>1, <1>4, <1>6, <1>7, TreeStep

LEMMA ClearStep ==
  ASSUME IInv, TypeOK', NEW p \in Proc, Clear(p)
  PROVE  IInv'
<1> USE DEF memory, environment
<1>1. /\ p \in Owners /\ journal.kind = "active" /\ pc[p] = "clear"
      /\ UNCHANGED <<journal, memory, environment>>
  BY DEF Clear, Owners, IInv, Journalled, Active
<1>2. PICK f \in left[p] : tree' = [tree EXCEPT ![f] = "absent"] /\ Handled(p, f)
  BY DEF Clear
<1>3. /\ pc'[p] = "clear" /\ left'[p] = left[p] \ {f} /\ f \in Fresh
      /\ \A q \in Proc : q # p => UNCHANGED <<pc[q], left[q]>>
  BY <1>1, <1>2, HandledOne DEF IInv, Advanced
<1>4. /\ \A g \in File : g # f => tree'[g] = tree[g]
      /\ tree'[f] = "absent"
  BY <1>2, <1>3 DEF IInv, TypeOK, File, Fresh
<1>5. Advanced(p)'
  BY <1>1, <1>3, <1>4 DEF IInv, Advanced, File, Fresh
<1>6. Informed(p)'
  BY <1>3, RestoringInformed
<1> QED
  BY <1>1, <1>3, <1>5, <1>6, TreeStep

LEMMA RestoredStep ==
  ASSUME IInv, TypeOK', NEW p \in Proc, Restored(p) \/ RestoreFails(p) \/ Cleared(p)
  PROVE  IInv'
<1> USE DEF memory, environment, world
<1>1. /\ p \in Owners /\ journal = Active(before[p]) /\ pc[p] \in {"restore", "clear"}
      /\ UNCHANGED <<tree, journal, before, recoveries, saved, late>>
  BY DEF Restored, RestoreFails, Cleared, Owners, IInv, Journalled
<1>2. CASE Restored(p)
  <2>1. /\ pc[p] = "restore" /\ left[p] = {} /\ pc'[p] = "clear" /\ left'[p] = Fresh
        /\ \A q \in Proc : q # p => UNCHANGED <<pc[q], left[q]>>
        /\ UNCHANGED incomplete
    BY <1>2, Entered DEF Restored, IInv
  <2>2. Journalled(p)' /\ Advanced(p)'
    BY <1>1, <2>1 DEF IInv, Journalled, Advanced
  <2>3. Informed(p)'
    BY <2>1, RestoringInformed
  <2> QED
    BY <1>1, <2>1, <2>2, <2>3, QuietStep
<1>3. ASSUME NEW f \in left[p], RestoreFails(p), Handled(p, f) PROVE IInv'
  <2>1. /\ pc'[p] = pc[p] /\ left'[p] = left[p] \ {f}
        /\ \A q \in Proc : q # p => UNCHANGED <<pc[q], left[q]>>
        /\ incomplete' = incomplete \cup {p}
    BY <1>3, HandledOne DEF RestoreFails, IInv
  <2>2. Journalled(p)' /\ Advanced(p)'
    BY <1>1, <2>1 DEF IInv, Journalled, Advanced
  <2>3. Informed(p)'
    BY <1>1, <2>1, RestoringInformed
  <2> QED
    BY <1>1, <2>1, <2>2, <2>3, QuietStep
<1>4. CASE Cleared(p) /\ p \in incomplete
  BY <1>1, <1>4, EndStep DEF Cleared
<1>5. CASE Cleared(p) /\ p \notin incomplete
  <2>1. /\ pc[p] = "clear" /\ left[p] = {} /\ pc'[p] = "settle" /\ left'[p] = {}
        /\ \A q \in Proc : q # p => UNCHANGED <<pc[q], left[q]>>
        /\ UNCHANGED incomplete
    BY <1>5, Entered DEF Cleared, IInv
  <2>2. Journalled(p)' /\ Advanced(p)'
    BY <1>1, <1>5, <2>1 DEF IInv, Journalled, Advanced
  <2>3. Informed(p)'
    BY <2>1, RestoringInformed
  <2> QED
    BY <1>1, <2>1, <2>2, <2>3, QuietStep
<1> QED
  BY <1>2, <1>3, <1>4, <1>5 DEF RestoreFails

\* What a process that has restored everything has put back is the scaffold.
LEMMA SettledIsScaffold ==
  ASSUME IInv, NEW p \in Proc, pc[p] = "settle"
  PROVE  /\ Scaffold /\ journal = Active(before[p])
         /\ \A f \in Before : tree[f] \in {before[p][f]} \cup saved
         /\ \A f \in Fresh : tree[f] \in {"absent"} \cup saved
<1>1. journal = Active(before[p]) /\ journal.kind = "active" /\ journal.before = before[p]
  BY DEF IInv, Journalled, Active
<1>2. /\ \A f \in Before : tree[f] \in {before[p][f]} \cup saved
      /\ \A f \in Fresh : tree[f] \in {"absent"} \cup saved
  BY DEF IInv, Advanced
<1>3. \A f \in Before : before[p][f] \in {"old"} \cup saved
  BY <1>1 DEF IInv, Backup
<1>4. Scaffold
  BY <1>2, <1>3 DEF Scaffold, Original, File, Fresh
<1> QED
  BY <1>1, <1>2, <1>4

LEMMA RetireStep ==
  ASSUME IInv, TypeOK', NEW p \in Proc, Retire(p)
  PROVE  IInv'
<1> USE DEF memory, environment
<1>1. /\ p \in Owners /\ pc[p] \in {"drop", "finish", "settle"} /\ Owners \subseteq {p}
      /\ UNCHANGED <<tree, memory, environment>> /\ journal' = NoJournal
  BY DEF Retire, Owners, IInv
<1>2. /\ pc'[p] = "done" /\ \A q \in Proc : q # p => UNCHANGED <<pc[q], left[q]>>
  BY Entered DEF Retire, IInv
<1>3. Scaffold \/ \E q \in Proc : Project(q)
  <2>1. CASE pc[p] = "drop"
    BY <2>1 DEF IInv, Journalled, HalfDoneHasJournal
  <2>2. CASE pc[p] = "finish"
    BY <2>2 DEF IInv, Advanced
  <2>3. CASE pc[p] = "settle"
    BY <2>3, SettledIsScaffold
  <2> QED
    BY <1>1, <2>1, <2>2, <2>3
<1>4. HalfDoneHasJournal' /\ Backup'
  BY <1>1, <1>3 DEF HalfDoneHasJournal, Scaffold, Project, Backup, NoJournal
<1>5. Informed(p)' /\ Journalled(p)' /\ Advanced(p)'
  BY <1>2 DEF Informed, Seen, Compared, Journalled, Advanced
<1> QED
  BY <1>1, <1>2, <1>4, <1>5, RunStep

LEMMA ExitStep ==
  ASSUME IInv, TypeOK', NEW p \in Proc, Exit(p)
  PROVE  IInv'
BY EndStep DEF Exit, memory

-----------------------------------------------------------------------------
(* Starting and saving *)

LEMMA StartStep ==
  ASSUME IInv, TypeOK', RecoverAlone, NEW p \in Proc, StartInit(p) \/ StartRecover(p)
  PROVE  IInv'
<1> USE DEF memory, environment, world
<1>1. /\ pc[p] = "idle"
      /\ UNCHANGED <<tree, journal, before, incomplete, saved, late>>
      /\ p \notin Owners /\ p \notin recoveries
  BY DEF StartInit, StartRecover, Owners, IInv, Alone
<1>2. HalfDoneHasJournal' /\ Backup'
  BY <1>1 DEF IInv, HalfDoneHasJournal, Scaffold, Project, Backup
<1>3. CASE StartInit(p)
  <2>1. /\ pc'[p] \in {"snapshot", "done"} /\ (pc'[p] = "snapshot" => left'[p] = Before)
        /\ \A q \in Proc : q # p => UNCHANGED <<pc[q], left[q]>>
        /\ UNCHANGED recoveries /\ \A q \in recoveries : pc[q] = "done"
    BY <1>3, Entered DEF StartInit, IInv
  <2>2. late'[p] = {}
    BY <1>1 DEF IInv, Informed
  <2>3. \A q \in Proc : q # p => Informed(q)' /\ Journalled(q)' /\ Advanced(q)'
    BY <1>1, <2>1, OtherStays
  <2>4. Informed(p)' /\ Journalled(p)' /\ Advanced(p)'
    BY <1>1, <2>1, <2>2 DEF Informed, Seen, Compared, Journalled, Advanced
  <2>5. \A q \in Proc : Alone(q)'
    BY <1>1, <2>1 DEF IInv, Alone
  <2>6. Owners' = Owners
    BY <1>1, <2>1 DEF Owners
  <2> QED
    BY <1>2, <2>3, <2>4, <2>5, <2>6 DEF IInv
<1>4. CASE StartRecover(p)
  <2>1. /\ pc'[p] = "reread" /\ recoveries' = recoveries \cup {p}
        /\ \A q \in Proc : q # p => UNCHANGED <<pc[q], left[q]>>
        /\ \A q \in Proc : pc[q] \in {"idle", "done"}
    BY <1>4, Entered DEF StartRecover, IInv
  <2>2. \A q \in Proc : q # p => pc'[q] \in {"idle", "done"}
    BY <2>1
  <2>3. \A q \in Proc : Informed(q)' /\ Journalled(q)' /\ Advanced(q)'
    BY <1>1, <2>1, <2>2 DEF IInv, Informed, Seen, Compared, Journalled, Advanced
  <2>4. Owners' \subseteq {p}
    BY <2>2 DEF Owners
  <2>5. \A q \in Proc : Alone(q)'
    BY <1>1, <2>1, <2>2 DEF IInv, Alone
  <2> QED
    BY <1>2, <2>3, <2>4, <2>5 DEF IInv
<1> QED
  BY <1>3, <1>4

\* An edit is saved to a file that forge has not touched.
LEMMA SaveStep ==
  ASSUME IInv, TypeOK', NEW f \in File, NEW e \in Edit, Save(f, e)
  PROVE  IInv'
<1> USE DEF memory
<1>1. /\ e \notin saved /\ saved' = saved \cup {e}
      /\ tree[f] \in {"old", "absent"} \cup saved /\ tree[f] \in {Original(f)} \cup saved
      /\ tree'[f] = e /\ \A g \in File : g # f => tree'[g] = tree[g]
      /\ UNCHANGED <<journal, pc, left, before, recoveries, incomplete>>
  BY DEF Save, IInv, TypeOK, Original
<1>2. /\ \A q \in Proc : late'[q] \in {late[q], late[q] \cup {<<f, e>>}}
      /\ \A q \in Proc : <<f, e>> \in late'[q] => Guards(q, f) \/ <<f, e>> \in late[q]
      /\ \A q \in Proc : late[q] \subseteq File \X saved
  BY DEF Save, IInv, TypeOK
<1>3. /\ e \notin {"old", "absent", "torn"} \cup Proc
      /\ \A q \in Proc : tree[f] # q
      /\ \A q \in Proc, g \in Before : before[q][g] # e
  BY <1>1, ContentAssumption DEF IInv, TypeOK, Contents
<1>4. HalfDoneHasJournal'
  <2>1. CASE Scaffold
    <3>1. Scaffold'
      BY <1>1, <2>1 DEF Scaffold, Original
    <3> QED
      BY <3>1 DEF HalfDoneHasJournal
  <2>2. ASSUME NEW q \in Proc, Project(q) PROVE FALSE
    <3>1. f \notin After /\ tree[f] = "absent"
      BY <1>3, <2>2 DEF Project
    <3> QED
      BY <1>1, <3>1, ContentAssumption DEF Original, File, IInv, TypeOK
  <2>3. CASE journal.kind = "active"
    BY <1>1, <2>3 DEF HalfDoneHasJournal
  <2> QED
    BY <2>1, <2>2, <2>3 DEF IInv, HalfDoneHasJournal
<1>5. Backup'
  BY <1>1 DEF IInv, Backup
<1>6. ASSUME NEW q \in Proc PROVE Informed(q)'
  <2>1. Seen(q)' = Seen(q) /\ Compared(q)' = Compared(q) /\ Seen(q) \subseteq Before
    BY <1>1 DEF Seen, Compared
  <2>2. Guards(q, f) => /\ pc[q] # "idle" /\ f \notin Compared(q)
                        /\ pc[q] = "snapshot" => f \in Seen(q)
    BY DEF Guards, Compared, Seen, File, Fresh
  <2>3. pc'[q] = "idle" => late'[q] = {}
    BY <1>1, <1>2, <2>2 DEF IInv, Informed, Save
  <2>4. \A g \in Seen(q)' : before'[q][g] # "absent"
    BY <1>1, <2>1 DEF IInv, Informed
  <2>5. ASSUME NEW g \in File, NEW d \in saved', <<g, d>> \in late'[q]
        PROVE  /\ pc'[q] = "snapshot" => g \in Seen(q)'
               /\ g \in Seen(q)' => before'[q][g] # d
               /\ g \in Compared(q)' => tree'[g] # d
    <3>1. CASE <<g, d>> \in late[q]
      <4>1. d \in saved /\ d # e
        BY <1>1, <1>2, <3>1
      <4>2. g \in Compared(q) => tree'[g] # d
        BY <1>1, <3>1, <4>1 DEF IInv, Informed
      <4> QED
        BY <1>1, <2>1, <3>1, <4>1, <4>2 DEF IInv, Informed
    <3>2. CASE <<g, d>> \notin late[q]
      <4>1. g = f /\ d = e /\ Guards(q, f)
        BY <1>2, <2>5, <3>2
      <4> QED
        BY <1>1, <1>3, <2>1, <2>2, <4>1
    <3> QED
      BY <3>1, <3>2
  <2>6. pc'[q] \in {"recheck", "activate"} =>
          \A g \in Before \cap Compared(q)' :
            \/ tree'[g] = before'[q][g]
            \/ before'[q][g] \in {"old"} \cup saved' /\ tree'[g] \in saved'
    BY <1>1, <2>1 DEF IInv, Informed, Original, File
  <2> QED
    BY <2>3, <2>4, <2>5, <2>6 DEF Informed
<1>7. ASSUME NEW q \in Proc PROVE Journalled(q)'
  BY <1>1 DEF IInv, Journalled, Prepared, Active
<1>8. ASSUME NEW q \in Proc PROVE Advanced(q)'
  <2>0. Advanced(q)
    BY DEF IInv
  <2>1. \A g \in File : tree[g] = q => tree'[g] = q
    BY <1>1, <1>3
  <2>2. \A g \in Before : tree[g] = "absent" => tree'[g] = "absent"
    BY <1>1, ContentAssumption DEF Original, IInv, TypeOK, File
  <2>3. Project(q) => Project(q)'
    BY <2>1, <2>2 DEF Project, File
  <2>4. \A g \in File : \A c : tree[g] \in {c} \cup saved => tree'[g] \in {c} \cup saved'
    BY <1>1
  <2> QED
    BY <1>1, <2>0, <2>1, <2>2, <2>3, <2>4 DEF Advanced, File, Fresh
<1>9. ASSUME NEW q \in Proc PROVE Alone(q)'
  BY <1>1 DEF IInv, Alone
<1>10. Owners' = Owners
  BY <1>1 DEF Owners
<1> QED
  BY <1>4, <1>5, <1>6, <1>7, <1>8, <1>9, <1>10 DEF IInv

LEMMA NextIInv ==
  ASSUME RecoverAlone
  PROVE  IInv /\ [Next]_vars => IInv'
<1> SUFFICES ASSUME IInv, [Next]_vars PROVE IInv'
  OBVIOUS
<1>1. TypeOK'
  BY TypeStep DEF IInv
<1>2. ASSUME NEW p \in Proc, Step(p) PROVE IInv'
  BY <1>1, <1>2, StartStep, SnapshotStep, PrepareStep, ClaimStep, RecheckStep, ActivateStep,
     PublishStep, PublishedStep, RereadStep, RestoreStep, RestoredStep, ClearStep,
     RetireStep, ExitStep DEF Step
<1>3. ASSUME NEW f \in File, NEW e \in Edit, Save(f, e) PROVE IInv'
  BY <1>1, <1>3, SaveStep
<1>4. CASE UNCHANGED vars
  <2> USE <1>4 DEF vars
  <2>1. HalfDoneHasJournal' /\ Backup' /\ Owners' = Owners
    BY DEF IInv, HalfDoneHasJournal, Scaffold, Project, Backup, Owners
  <2>2. \A q \in Proc : Informed(q)' /\ Journalled(q)' /\ Advanced(q)' /\ Alone(q)'
    BY DEF IInv, Informed, Seen, Compared, Journalled, Advanced, Alone, Prepared, Active, Project
  <2> QED
    BY <1>1, <2>1, <2>2 DEF IInv
<1> QED
  BY <1>2, <1>3, <1>4 DEF Next

-----------------------------------------------------------------------------
(* Theorems *)

\* The inductive invariant holds throughout, for any processes, files and faults.
THEOREM Invariance ==
  ASSUME RecoverAlone
  PROVE  Spec => []IInv
<1>1. Init => IInv
  BY InitIInv
<1>2. IInv /\ [Next]_vars => IInv'
  BY NextIInv
<1> QED
  BY <1>1, <1>2, PTL DEF Spec

\* Files, journals and snapshots have contents that forge or the user has written,
\* whether recoveries overlap other commands or not.
THEOREM TypeCorrect == Spec => []TypeOK
<1>1. Init => TypeOK
  BY InitType
<1>2. TypeOK /\ [Next]_vars => TypeOK'
  BY TypeStep
<1> QED
  BY <1>1, <1>2, PTL DEF Spec

\* "The fixed recovery-directory name excludes another publisher", as long as
\* -recover overlaps no other command.
THEOREM PublishesAlone ==
  ASSUME RecoverAlone
  PROVE  Spec => []OnePublisher
<1>1. IInv => OnePublisher
  BY DEF IInv, OnePublisher, Owners
<1> QED
  BY <1>1, Invariance, PTL

\* Whatever crashed or failed, a tree that is neither the scaffold nor a project has
\* an active journal, with the files of the scaffold as they were.
THEOREM CanBeRestored ==
  ASSUME RecoverAlone
  PROVE  Spec => [](HalfDoneHasJournal /\ Backup)
<1>1. IInv => HalfDoneHasJournal /\ Backup
  BY DEF IInv
<1> QED
  BY <1>1, Invariance, PTL

\* No edit that was saved before the second validation of its file is published over,
\* for any number of edits.
THEOREM EditsSurvive ==
  ASSUME RecoverAlone
  PROVE  Spec => []NoLostEdit
<1>1. IInv => NoLostEdit
  BY DEF IInv, TypeOK, NoLostEdit, Informed, Compared
<1> QED
  BY <1>1, Invariance, PTL

\* A recovery that retires the journal has restored every file.
THEOREM RecoveryIsComplete ==
  ASSUME RecoverAlone
  PROVE  Spec => RecoveryRestores
<1>1. ASSUME IInv, NEW p \in Proc, pc[p] = "settle"
      PROVE  /\ \A f \in Before : tree[f] \in {journal.before[f]} \cup saved
             /\ \A f \in Fresh  : tree[f] \in {"absent"} \cup saved
  BY <1>1, SettledIsScaffold DEF Active
<1>2. IInv /\ [Next]_vars =>
        [\A p \in Proc : pc[p] = "settle" /\ Retire(p) /\ journal # NoJournal =>
           /\ \A f \in Before : tree[f] \in {journal.before[f]} \cup saved
           /\ \A f \in Fresh  : tree[f] \in {"absent"} \cup saved]_vars
  BY <1>1
<1> QED
  BY <1>2, Invariance, PTL DEF Spec, RecoveryRestores

\* No project file changes by forge until the journal is active.
THEOREM JournalFirst ==
  ASSUME RecoverAlone
  PROVE  Spec => WriteAhead
<1>1. ASSUME IInv, NEW p \in Proc, Step(p), journal.kind # "active" PROVE tree' = tree
  <2>1. CASE Publish(p) \/ Remove(p) \/ Restore(p) \/ Clear(p)
    BY <1>1, <2>1 DEF IInv, Journalled, Active, Publish, Remove, Restore, Clear
  <2> QED
    BY <1>1, <2>1 DEF Step, StartInit, Snapshot, Staged, Check, Checked, Claim, Recheck,
       Rechecked, Activate, Published, Removed, PublishFails, StartRecover, Reread, Restored,
       RestoreFails, Cleared, Retire, Exit, world
<1>2. ASSUME IInv, NEW f \in File, NEW e \in Edit, Save(f, e), NEW g \in File,
             tree'[g] # tree[g]
      PROVE  tree'[g] \in saved' \ saved
  BY <1>2 DEF Save, IInv, TypeOK
<1>3. IInv /\ [Next]_vars =>
        [\A f \in File : tree'[f] # tree[f] =>
           journal.kind = "active" \/ tree'[f] \in saved' \ saved]_vars
  BY <1>1, <1>2 DEF Next
<1> QED
  BY <1>3, Invariance, PTL DEF Spec, WriteAhead
=============================================================================
