-------------------------- MODULE InitPublication --------------------------
(***************************************************************************)
(* In-place publication of an initialized project by forge init, and its   *)
(* recovery journal: prepareProject takes a snapshot, transforms a copy,   *)
(* saves a backup under a fixed name, rechecks the tree, activates the     *)
(* journal, and only then replaces files one by one; recoverProject puts   *)
(* the originals back.  Several forge processes and an editor share the    *)
(* directory, and a process may die, or fail, between any two steps.       *)
(*                                                                         *)
(* A file's content is "old", the edit the user saved last, the process    *)
(* that published it, "torn" while os.WriteFile has truncated it, or       *)
(* "absent".                                                               *)
(***************************************************************************)
EXTENDS Naturals, FiniteSets

CONSTANTS Proc,          \* forge processes, each one command
          Before,        \* tracked files of the scaffold
          After,         \* files of the initialized project
          RecoverAlone,  \* TRUE: -recover overlaps no other forge command
          Edit,          \* edits the user saves, each at most once
          MaxFaults      \* bound on crashes and failed file operations

ASSUME FilesAssumption == Before \ After # {}
ASSUME ContentAssumption ==
  /\ Proc \cap Edit = {}
  /\ {"old", "torn", "absent"} \cap (Proc \cup Edit) = {}
ASSUME BoundAssumption == RecoverAlone \in BOOLEAN /\ MaxFaults \in Nat

VARIABLES
  tree,        \* tree[f]: content of project file f
  journal,     \* the directory .forge-init-recovery, or NoJournal
  pc,          \* pc[p]: where process p is
  before,      \* before[p]: originals p holds in memory
  recoveries,  \* processes that run forge init -recover
  left,        \* left[p]: files its current loop has not handled
  incomplete,  \* processes whose recovery failed on some file
  saved,       \* edits made
  faults,      \* faults spent
  late         \* late[p]: <<f, e>> if edit e of f was saved between p's snapshot
               \* and its recheck of f (history)

vars == <<tree, journal, pc, before, recoveries, left, incomplete, saved, faults, late>>

File     == Before \cup After
Fresh    == After \ Before

\* Contents there can be by now.
Contents == {"old", "torn", "absent"} \cup Proc \cup saved

NoJournal   == [kind |-> "none"]
Prepared(b) == [kind |-> "prepared", before |-> b]
Active(b)   == [kind |-> "active",   before |-> b]

Places == {"idle", "snapshot", "check", "claim", "recheck", "activate", "publish",
           "remove", "reread", "restore", "clear", "drop", "finish", "settle", "done"}

Original(f) == IF f \in Before THEN "old" ELSE "absent"

TypeOK ==
  /\ tree \in [File -> Contents]
  /\ \/ journal = NoJournal
     \/ \E b \in {journal.before} :
          /\ b \in [Before -> Contents]
          /\ journal \in {Prepared(b), Active(b)}
  /\ pc \in [Proc -> Places]
  /\ before \in [Proc -> [Before -> Contents]]
  /\ left \in [Proc -> SUBSET File]
  /\ \A p \in Proc : pc[p] \in {"snapshot", "restore"} => left[p] \subseteq Before
  /\ recoveries \subseteq Proc /\ incomplete \subseteq Proc
  /\ saved \subseteq Edit /\ faults \in 0..MaxFaults
  /\ late \in [Proc -> SUBSET (File \X saved)]

-----------------------------------------------------------------------------
Init ==
  /\ tree = [f \in File |-> Original(f)]
  /\ journal = NoJournal
  /\ pc = [p \in Proc |-> "idle"]
  /\ before = [p \in Proc |-> [f \in Before |-> "absent"]]
  /\ left = [p \in Proc |-> {}]
  /\ recoveries = {} /\ incomplete = {}
  /\ saved = {} /\ faults = 0
  /\ late = [p \in Proc |-> {}]

\* p goes on to another phase, with files to handle there.
Enter(p, phase, files) ==
  /\ pc' = [pc EXCEPT ![p] = phase]
  /\ left' = [left EXCEPT ![p] = files]

Handled(p, f) ==
  /\ left' = [left EXCEPT ![p] = @ \ {f}]
  /\ UNCHANGED pc

Fault == faults < MaxFaults /\ faults' = faults + 1

world == <<tree, journal>>
memory == <<before, recoveries, incomplete>>
environment == <<saved, faults, late>>

(* runInit and the head of prepareProject *)

\* An unfinished recovery or an initialized tree refuses the command.
StartInit(p) ==
  /\ pc[p] = "idle"
  /\ RecoverAlone => \A q \in recoveries : pc[q] = "done"
  /\ IF journal = NoJournal /\ \A f \in Before \ After : tree[f] # "absent"
       THEN Enter(p, "snapshot", Before) ELSE Enter(p, "done", {})
  /\ UNCHANGED <<world, memory, environment>>

\* readProjectFiles: a tracked file that is missing is an error.
Snapshot(p) == pc[p] = "snapshot" /\ \E f \in left[p] :
  /\ IF tree[f] = "absent" THEN Enter(p, "done", {}) ELSE Handled(p, f)
  /\ before' = [before EXCEPT ![p][f] = tree[f]]
  /\ UNCHANGED <<world, recoveries, incomplete, environment>>

\* rewriteTree and verify work on a copy; then the first validation.
Staged(p) ==
  /\ pc[p] = "snapshot" /\ left[p] = {}
  /\ Enter(p, "check", File)
  /\ UNCHANGED <<world, memory, environment>>

\* validateProjectPublication of one file.
Unchanged(p, f) ==
  IF f \in Before THEN tree[f] = before[p][f] ELSE tree[f] = "absent"

Check(p) == pc[p] = "check" /\ \E f \in left[p] :
  /\ IF Unchanged(p, f) THEN Handled(p, f) ELSE Enter(p, "done", {})
  /\ UNCHANGED <<world, memory, environment>>

Checked(p) ==
  /\ pc[p] = "check" /\ left[p] = {}
  /\ Enter(p, "claim", {})
  /\ UNCHANGED <<world, memory, environment>>

\* Mutant: a journal with the fixed name is replaced.
ClaimTakesOver(p) ==
  /\ pc[p] = "claim"
  /\ journal' = Prepared(before[p]) /\ Enter(p, "recheck", File)
  /\ UNCHANGED <<tree, memory, environment>>

\* saveProjectRecovery: the complete backup gets the fixed name by a rename,
\* which fails when the name is taken.
Claim(p) ==
  /\ pc[p] = "claim"
  /\ IF journal = NoJournal
       THEN journal' = Prepared(before[p]) /\ Enter(p, "recheck", File)
       ELSE UNCHANGED journal /\ Enter(p, "done", {})
  /\ UNCHANGED <<tree, memory, environment>>

\* Mutant: the second validation is skipped.
RecheckSkipped(p) == pc[p] = "recheck" /\ \E f \in left[p] :
  /\ Handled(p, f)
  /\ UNCHANGED <<world, memory, environment>>

\* The second validation; a change drops the unused journal.
Recheck(p) == pc[p] = "recheck" /\ \E f \in left[p] :
  /\ IF Unchanged(p, f) THEN Handled(p, f) ELSE Enter(p, "drop", {})
  /\ UNCHANGED <<world, memory, environment>>

Rechecked(p) ==
  /\ pc[p] = "recheck" /\ left[p] = {}
  /\ Enter(p, "activate", {})
  /\ UNCHANGED <<world, memory, environment>>

\* activateProjectRecovery: whatever journal has the fixed name.
Activate(p) ==
  /\ pc[p] = "activate"
  /\ IF journal = NoJournal
       THEN UNCHANGED journal /\ Enter(p, "done", {})
       ELSE journal' = Active(journal.before) /\ Enter(p, "publish", After)
  /\ UNCHANGED <<tree, memory, environment>>

(* replaceProjectFiles *)

\* os.WriteFile truncates, then writes.
Write(f, content) ==
  tree' = [tree EXCEPT ![f] = IF @ = "torn" THEN content ELSE "torn"]

Publish(p) == pc[p] = "publish" /\ \E f \in left[p] :
  /\ Write(f, p)
  /\ IF tree'[f] = "torn" THEN UNCHANGED <<pc, left>> ELSE Handled(p, f)
  /\ UNCHANGED <<journal, memory, environment>>

Published(p) ==
  /\ pc[p] = "publish" /\ left[p] = {}
  /\ Enter(p, "remove", Before \ After)
  /\ UNCHANGED <<world, memory, environment>>

Remove(p) == pc[p] = "remove" /\ \E f \in left[p] :
  /\ tree' = [tree EXCEPT ![f] = "absent"]
  /\ Handled(p, f)
  /\ UNCHANGED <<journal, memory, environment>>

Removed(p) ==
  /\ pc[p] = "remove" /\ left[p] = {}
  /\ Enter(p, "finish", {})
  /\ UNCHANGED <<world, memory, environment>>

\* A failed write or removal: prepareProject recovers at once.
PublishFails(p) ==
  /\ pc[p] \in {"publish", "remove"} /\ Fault
  /\ Enter(p, "reread", {})
  /\ UNCHANGED <<world, memory, saved, late>>

(* recoverProject, as a command or after a failed publication *)

StartRecover(p) ==
  /\ pc[p] = "idle"
  /\ RecoverAlone => \A q \in Proc : pc[q] \in {"idle", "done"}
  /\ Enter(p, "reread", {})
  /\ recoveries' = recoveries \cup {p}
  /\ UNCHANGED <<world, before, incomplete, environment>>

\* readProjectRecovery: no journal is an error, an unactivated one is dropped,
\* and the originals of an active one are read into memory.
Reread(p) ==
  /\ pc[p] = "reread"
  /\ \/ journal = NoJournal /\ Enter(p, "done", {}) /\ UNCHANGED before
     \/ journal.kind = "prepared" /\ Enter(p, "drop", {}) /\ UNCHANGED before
     \/ /\ journal.kind = "active" /\ Enter(p, "restore", Before)
        /\ before' = [before EXCEPT ![p] = journal.before]
  /\ UNCHANGED <<world, recoveries, incomplete, environment>>

\* restoreProjectFile: a file that has its original content is left alone.
Restore(p) == pc[p] = "restore" /\ \E f \in left[p] :
  /\ IF tree[f] = before[p][f]
       THEN UNCHANGED tree /\ Handled(p, f)
       ELSE /\ Write(f, before[p][f])
            /\ IF tree'[f] = "torn" THEN UNCHANGED <<pc, left>> ELSE Handled(p, f)
  /\ UNCHANGED <<journal, memory, environment>>

\* Mutant: recovery leaves the files of the initialized project behind.
RestoredOnly(p) ==
  /\ pc[p] = "restore" /\ left[p] = {}
  /\ Enter(p, "clear", {})
  /\ UNCHANGED <<world, memory, environment>>

Restored(p) ==
  /\ pc[p] = "restore" /\ left[p] = {}
  /\ Enter(p, "clear", Fresh)
  /\ UNCHANGED <<world, memory, environment>>

\* Files that only the initialized project has are removed.
Clear(p) == pc[p] = "clear" /\ \E f \in left[p] :
  /\ tree' = [tree EXCEPT ![f] = "absent"]
  /\ Handled(p, f)
  /\ UNCHANGED <<journal, memory, environment>>

\* One file cannot be restored or removed: the loop goes on to the next.
RestoreFails(p) == pc[p] \in {"restore", "clear"} /\ \E f \in left[p] :
  /\ Fault
  /\ incomplete' = incomplete \cup {p}
  /\ Handled(p, f)
  /\ UNCHANGED <<world, before, recoveries, saved, late>>

\* Mutant: the journal is retired although a file was not restored.
ClearedAnyway(p) ==
  /\ pc[p] = "clear" /\ left[p] = {}
  /\ Enter(p, "settle", {})
  /\ UNCHANGED <<world, memory, environment>>

\* The backup is retained unless every file was restored.
Cleared(p) ==
  /\ pc[p] = "clear" /\ left[p] = {}
  /\ Enter(p, IF p \in incomplete THEN "done" ELSE "settle", {})
  /\ UNCHANGED <<world, memory, environment>>

\* discardProjectRecovery: renaming the journal retires it in one step; if
\* there is none any more, the command reports an error.
Retire(p) ==
  /\ pc[p] \in {"drop", "finish", "settle"}
  /\ journal' = NoJournal
  /\ Enter(p, "done", {})
  /\ UNCHANGED <<tree, memory, environment>>

(* The environment *)

\* The process dies, or a step outside the publication fails and the command
\* returns: the directory stays as it is.
Exit(p) ==
  /\ pc[p] \notin {"idle", "done"} /\ Fault
  /\ Enter(p, "done", {})
  /\ UNCHANGED <<world, memory, saved, late>>

\* p has f's content in its snapshot and will still recheck it.
Guards(p, f) ==
  \/ pc[p] = "snapshot" /\ f \notin left[p] \cup Fresh
  \/ pc[p] \in {"check", "claim"}
  \/ pc[p] = "recheck" /\ f \in left[p]

\* The user saves a file that forge has not touched, or creates one under a name
\* init will need.
Save(f, e) ==
  /\ e \notin saved /\ saved' = saved \cup {e}
  /\ tree[f] \in {Original(f)} \cup saved
  /\ tree' = [tree EXCEPT ![f] = e]
  /\ late' = [p \in Proc |-> IF Guards(p, f) THEN late[p] \cup {<<f, e>>} ELSE late[p]]
  /\ UNCHANGED <<journal, pc, left, memory, faults>>

Step(p) ==
  \/ StartInit(p) \/ Snapshot(p) \/ Staged(p) \/ Check(p) \/ Checked(p) \/ Claim(p)
  \/ Recheck(p) \/ Rechecked(p) \/ Activate(p) \/ Publish(p) \/ Published(p)
  \/ Remove(p) \/ Removed(p) \/ PublishFails(p) \/ StartRecover(p) \/ Reread(p)
  \/ Restore(p) \/ Restored(p) \/ Clear(p) \/ RestoreFails(p) \/ Cleared(p)
  \/ Retire(p) \/ Exit(p)

Next == (\E p \in Proc : Step(p)) \/ (\E f \in File, e \in Edit : Save(f, e))

Spec == Init /\ [][Next]_vars

-----------------------------------------------------------------------------
\* The tree is the scaffold, apart from what the user edited, or the project that p
\* made of it.
Scaffold   == \A f \in File : tree[f] \in {Original(f)} \cup saved
Project(p) == \A f \in File : tree[f] = IF f \in After THEN p ELSE "absent"

\* A tree that is neither has an active journal that can restore it, whatever
\* crashed or failed (prepareProject, recoverProject).
HalfDoneHasJournal ==
  Scaffold \/ (\E p \in Proc : Project(p)) \/ journal.kind = "active"

\* The journal is written ahead: until it is activated, forge changes no
\* project file, and neither does recovery from a journal not activated.
WriteAhead ==
  [][\A f \in File : tree'[f] # tree[f] =>
       journal.kind = "active" \/ tree'[f] \in saved' \ saved]_vars

\* A recovery that retires the journal has put every original back, and has
\* left nothing of the initialized project; what was saved later is the user's.
RecoveryRestores ==
  [][\A p \in Proc : pc[p] = "settle" /\ Retire(p) /\ journal # NoJournal =>
       /\ \A f \in Before : tree[f] \in {journal.before[f]} \cup saved
       /\ \A f \in Fresh  : tree[f] \in {"absent"} \cup saved]_vars

\* "Recheck after claiming it: another init or editor may have changed the
\* project during backup preparation": no such edit is published over.  (A
\* recovery may have undone it in between; recovery does that by design.)
NoLostEdit ==
  \A p \in Proc : pc[p] \in {"activate", "publish", "remove"} =>
    \A f \in File : <<f, tree[f]>> \notin late[p]

\* "The fixed recovery-directory name excludes another publisher."
OnePublisher ==
  \A p, q \in Proc :
    pc[p] \in {"publish", "remove"} /\ pc[q] \in {"publish", "remove"} => p = q

-----------------------------------------------------------------------------
(* The invariant of the proofs; it holds if RecoverAlone *)

\* Places of a process whose journal has the fixed name, or may have it.
Owners ==
  {p \in Proc : pc[p] \in {"recheck", "activate", "publish", "remove", "finish", "drop",
                           "reread", "restore", "clear", "settle"}}

\* Files of Before that p has read, of those it compares with what it read.
Seen(p) ==
  {f \in Before : \/ pc[p] = "snapshot" /\ f \notin left[p]
                  \/ pc[p] \in {"check", "claim", "recheck", "activate"}}

\* Files that p has compared a second time.
Compared(p) ==
  {f \in File : \/ pc[p] = "recheck" /\ f \notin left[p]
                \/ pc[p] \in {"activate", "publish", "remove"}}

\* What p has read, edits that came too late for it, and what it has found unchanged.
Informed(p) ==
  /\ pc[p] = "idle" => late[p] = {}
  /\ \A f \in Seen(p) : before[p][f] # "absent"
  /\ \A f \in File, e \in saved : <<f, e>> \in late[p] =>
       /\ pc[p] = "snapshot" => f \in Seen(p)
       /\ f \in Seen(p) => before[p][f] # e
       /\ f \in Compared(p) => tree[f] # e
  /\ pc[p] \in {"recheck", "activate"} =>
       \A f \in Before \cap Compared(p) :
         \/ tree[f] = before[p][f]
         \/ before[p][f] \in {"old"} \cup saved /\ tree[f] \in saved

\* The journal that p may rely on.
Journalled(p) ==
  /\ pc[p] \in {"recheck", "activate"} => journal = Prepared(before[p])
  /\ pc[p] = "drop" => journal.kind = "prepared"
  /\ pc[p] = "reread" => p \in recoveries \/ journal.kind = "active"
  /\ pc[p] \in {"publish", "remove", "finish"} => journal.kind = "active"
  /\ pc[p] \in {"restore", "clear", "settle"} => journal = Active(before[p])

\* What p has published, removed and restored so far.
Advanced(p) ==
  /\ pc[p] = "publish" => \A f \in After \ left[p] : tree[f] = p
  /\ pc[p] \in {"remove", "finish"} => \A f \in After : tree[f] = p
  /\ pc[p] = "remove" => /\ left[p] \subseteq Before \ After
                         /\ \A f \in (Before \ After) \ left[p] : tree[f] = "absent"
  /\ pc[p] = "finish" => Project(p)
  /\ pc[p] \in {"restore", "clear", "settle"} /\ p \notin incomplete =>
       \A f \in Before \ (IF pc[p] = "restore" THEN left[p] ELSE {}) :
         tree[f] \in {before[p][f]} \cup saved
  /\ pc[p] = "clear" => left[p] \subseteq Fresh
  /\ pc[p] \in {"clear", "settle"} /\ p \notin incomplete =>
       \A f \in Fresh \ left[p] : tree[f] \in {"absent"} \cup saved
  /\ pc[p] = "settle" => p \notin incomplete /\ left[p] = {}

\* A recovery has the directory to itself until it ends.
Alone(p) ==
  p \in recoveries =>
    pc[p] # "idle" /\ (pc[p] # "done" => \A q \in Proc : q # p => pc[q] \in {"idle", "done"})

\* An active journal has what the files of the scaffold held.
Backup == journal.kind = "active" => \A f \in Before : journal.before[f] \in {"old"} \cup saved

IInv ==
  /\ TypeOK
  /\ HalfDoneHasJournal
  /\ Backup
  /\ \A p, q \in Owners : p = q
  /\ \A p \in Proc : Informed(p) /\ Journalled(p) /\ Advanced(p) /\ Alone(p)
=============================================================================
