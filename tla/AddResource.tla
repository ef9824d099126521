----------------------------- MODULE AddResource -----------------------------
(***************************************************************************)
(* forge add resource (addResource, applyChanges, writeChange) in one      *)
(* checkout: processes started from several terminals take the lock file,  *)
(* prepare every change in memory, write new files and replace the shared  *)
(* ones, and roll back when a write fails.  Processes die and leave their  *)
(* lock, developers edit, add migrations and files of their own, and       *)
(* regenerate code meanwhile.                                              *)
(*                                                                         *)
(* The new files of a resource under internal/modules are one target, its  *)
(* migration another; a target is partial if a file of it is cut short or  *)
(* missing.  Temporary files that a death leaves are left out.             *)
(***************************************************************************)
EXTENDS Integers, Sequences, FiniteSets

CONSTANTS Terminal,   \* where forge processes are started
          Resource,   \* resources that are asked for
          Names,      \* Names[r]: API components and table of resource r
          Edit,       \* edits a developer saves to shared files
          MaxRuns,    \* bound on processes started
          MaxFaults,  \* bound on deaths, failed writes and failed rollbacks
          MaxHand,    \* bound on migrations and packages written by hand
          None, Hand

ASSUME NamesAssumption ==
  /\ DOMAIN Names = Resource /\ \A r \in Resource : Names[r] # {}
  /\ {None, Hand} \cap (Resource \cup Terminal) = {} /\ None # Hand
ASSUME BoundAssumption == MaxRuns \in Nat /\ MaxFaults \in Nat /\ MaxHand \in Nat

VARIABLES
  lock,       \* .forge-resource.lock: None, the holder, or Hand when it is stale
  files,      \* paths of module directories and migrations: <<kind, version, resource>>
  own,        \* those of files that a developer wrote
  partial,    \* those of files that a run wrote in part
  shared,     \* shared[f]: what the file lists, its edits, and whether it is whole
  generated,  \* resources the generated Go code declares
  pc,         \* pc[t]: where the process of terminal t is
  res,        \* res[t]: the resource it adds
  version,    \* version[t]: its migration version
  before,     \* before[t][f]: the content of f it read, or None
  at,         \* at[t]: index into Plan
  runs,       \* processes started
  faults,     \* faults spent
  saved,      \* history: <<f, e>> for each edit e that was saved to f
  exposed,    \* history: edits saved to a file that a running process had read
  raced,      \* history: a migration was added after a process chose its version
  failed      \* history: resources of processes that died or reported a failed rollback

tree    == <<files, own, partial, shared>>
local   == <<res, version, before, at>>
bounds  == <<runs, faults>>
history == <<saved, exposed, raced, failed>>
vars    == <<lock, tree, generated, pc, local, bounds, history>>

Shared == {"sqlc.yaml", "api/openapi.yaml", "cmd/api/resources.go"}

\* The order in which addResource prepares and writes its changes.
Plan == <<"module", "migration", "sqlc.yaml", "api/openapi.yaml", "cmd/api/resources.go">>

Places == {"idle", "locking", "version", "preparing", "prepared", "writing",
           "undoing", "rewriting"}

Content == [lists : [Resource -> Nat], edits : SUBSET Edit, whole : BOOLEAN]
Paths   == {"module"} \X {0} \X Resource \cup {"migration"} \X Nat \X (Resource \cup {Hand})

ASSUME UnreadAssumption == None \notin Content

TypeOK ==
  /\ lock \in Terminal \cup {None, Hand}
  /\ files \subseteq Paths /\ own \subseteq files /\ partial \subseteq files
  /\ shared \in [Shared -> Content]
  /\ generated \subseteq Resource
  /\ pc \in [Terminal -> Places]
  /\ res \in [Terminal -> Resource \cup {None}] /\ version \in [Terminal -> Nat]
  /\ before \in [Terminal -> [Shared -> Content \cup {None}]]
  /\ at \in [Terminal -> 0..Len(Plan)]
  /\ runs \in 0..MaxRuns /\ faults \in 0..MaxFaults
  /\ saved \subseteq Shared \X Edit /\ exposed \subseteq saved
  /\ raced \in BOOLEAN /\ failed \subseteq Resource

-----------------------------------------------------------------------------
Nothing == [lists |-> [r \in Resource |-> 0], edits |-> {}, whole |-> TRUE]
Unread  == [f \in Shared |-> None]

Init ==
  /\ lock = None
  /\ files = {} /\ own = {} /\ partial = {}
  /\ shared = [f \in Shared |-> Nothing]
  /\ generated = {}
  /\ pc = [t \in Terminal |-> "idle"] /\ res = [t \in Terminal |-> None]
  /\ version = [t \in Terminal |-> 0] /\ before = [t \in Terminal |-> Unread]
  /\ at = [t \in Terminal |-> 0]
  /\ runs = 0 /\ faults = 0
  /\ saved = {} /\ exposed = {} /\ raced = FALSE /\ failed = {}

Target(t) == Plan[at[t]]
Path(t)   == IF Target(t) = "module" THEN <<"module", 0, res[t]>>
                                     ELSE <<"migration", version[t], res[t]>>

Migrations == {p \in files : p[1] = "migration"}
Highest    == CHOOSE v \in {p[2] : p \in Migrations} \cup {0} :
                \A p \in Migrations : p[2] <= v
Duplicated == \E p, q \in Migrations : p # q /\ p[2] = q[2]

\* Resources whose names content c of the contract declares.
Listed(c) == {r \in Resource : c.lists[r] > 0}
Clashes(r, S) == \E s \in S : Names[r] \cap Names[s] # {}

\* The content the edit functions return: one more entry for the resource.
\* None of them looks for an entry in the list of queries or the imports.
Registered(c, r) == [c EXCEPT !.lists[r] = @ + 1]

Fault == faults < MaxFaults /\ faults' = faults + 1

\* The process of terminal t is gone.
End(t) ==
  /\ pc' = [pc EXCEPT ![t] = "idle"] /\ res' = [res EXCEPT ![t] = None]
  /\ version' = [version EXCEPT ![t] = 0] /\ before' = [before EXCEPT ![t] = Unread]
  /\ at' = [at EXCEPT ![t] = 0]

\* Mutant: an early return leaves the lock file.
ReturnLocked(t) == End(t) /\ UNCHANGED lock

\* addResource returns: the deferred os.Remove drops the lock file.
Return(t) == End(t) /\ lock' = None

Goto(t, place, index) ==
  /\ pc' = [pc EXCEPT ![t] = place] /\ at' = [at EXCEPT ![t] = index]

-----------------------------------------------------------------------------
(* A run of forge *)

\* run parses the name; validateResourceName compares it with the declarations
\* in the generated code, which may be older than the contract.
Start(t, r) ==
  /\ pc[t] = "idle" /\ runs < MaxRuns
  /\ ~Clashes(r, generated)
  /\ runs' = runs + 1
  /\ pc' = [pc EXCEPT ![t] = "locking"] /\ res' = [res EXCEPT ![t] = r]
  /\ UNCHANGED <<lock, tree, generated, version, before, at, faults, history>>

\* Mutant: the lock file is opened without O_EXCL.
AcquireShared(t) ==
  /\ pc[t] = "locking"
  /\ lock' = t /\ pc' = [pc EXCEPT ![t] = "version"]
  /\ UNCHANGED <<tree, generated, local, bounds, history>>

\* O_CREATE|O_EXCL on the lock file: an error if there is one, stale or not.
Acquire(t) ==
  /\ pc[t] = "locking"
  /\ IF lock = None THEN lock' = t /\ pc' = [pc EXCEPT ![t] = "version"]
                         /\ UNCHANGED local
                    ELSE End(t) /\ UNCHANGED lock
  /\ UNCHANGED <<tree, generated, bounds, history>>

\* nextMigrationVersion refuses duplicate versions; validateResourceTable a
\* table that a migration in the tree creates, or a part of one (GiveUp).
ChooseVersion(t) ==
  /\ pc[t] = "version"
  /\ IF Duplicated \/ \E p \in Migrations \ partial : p[3] = res[t]
       THEN Return(t)
       ELSE /\ version' = [version EXCEPT ![t] = Highest + 1]
            /\ Goto(t, "preparing", 1)
            /\ UNCHANGED <<lock, res, before>>
  /\ UNCHANGED <<tree, generated, bounds, history>>

\* The next target; after the last one the changes are applied from the first.
Prepared(t) == Goto(t, IF at[t] = Len(Plan) THEN "prepared" ELSE "preparing",
                    IF at[t] = Len(Plan) THEN 1 ELSE at[t] + 1)

\* Lstat: a new file must not exist yet.
PrepareNew(t) ==
  /\ pc[t] = "preparing" /\ Target(t) \notin Shared
  /\ IF Path(t) \in files THEN Return(t)
                          ELSE Prepared(t) /\ UNCHANGED <<lock, res, version, before>>
  /\ UNCHANGED <<tree, generated, bounds, history>>

\* Mutant: addContract does not look for the resource's path and components.
RefusesContentUnchecked(t) == ~shared[Target(t)].whole

\* addContract refuses names the contract has; each edit function needs the
\* sections it inserts into.
RefusesContent(t) ==
  LET c == shared[Target(t)] IN
    \/ ~c.whole
    \/ Target(t) = "api/openapi.yaml" /\ Clashes(res[t], Listed(c))

\* Read a shared file and edit it in memory.
PrepareShared(t) ==
  /\ pc[t] = "preparing" /\ Target(t) \in Shared
  /\ IF RefusesContent(t)
       THEN Return(t)
       ELSE /\ before' = [before EXCEPT ![t][Target(t)] = shared[Target(t)]]
            /\ Prepared(t) /\ UNCHANGED <<lock, res, version>>
  /\ UNCHANGED <<tree, generated, bounds, history>>

\* A linked output directory, an unreadable file, a contract that does not
\* validate; or -dry-run, once everything is prepared.
GiveUp(t) ==
  /\ pc[t] \in {"version", "preparing", "prepared"}
  /\ Return(t)
  /\ UNCHANGED <<tree, generated, bounds, history>>

Begin(t) ==
  /\ pc[t] = "prepared" /\ pc' = [pc EXCEPT ![t] = "writing"]
  /\ UNCHANGED <<lock, tree, generated, local, bounds, history>>

Written(t) ==
  IF at[t] = Len(Plan) THEN Return(t)
                       ELSE Goto(t, "writing", at[t] + 1)
                            /\ UNCHANGED <<lock, res, version, before>>

\* writeChange of a new file: O_EXCL.
WriteNew(t) ==
  /\ pc[t] = "writing" /\ Target(t) \notin Shared /\ Path(t) \notin files
  /\ files' = files \cup {Path(t)}
  /\ Written(t)
  /\ UNCHANGED <<own, partial, shared, generated, bounds, history>>

\* Mutant: the file is rendered from what it lists, not from what was read.
ReplaceFresh(t) ==
  /\ pc[t] = "writing" /\ Target(t) \in Shared
  /\ shared' = [shared EXCEPT ![Target(t)] = Registered([@ EXCEPT !.edits = {}], res[t])]
  /\ Written(t)
  /\ UNCHANGED <<files, own, partial, generated, bounds, history>>

\* writeChange of a shared file: a temporary file renamed over it.
Replace(t) ==
  /\ pc[t] = "writing" /\ Target(t) \in Shared
  /\ shared' = [shared EXCEPT ![Target(t)] = Registered(before[t][Target(t)], res[t])]
  /\ Written(t)
  /\ UNCHANGED <<files, own, partial, generated, bounds, history>>

Undone(t) == IF at[t] = 1 THEN Return(t)
                          ELSE Goto(t, "undoing", at[t] - 1)
                               /\ UNCHANGED <<lock, res, version, before>>

\* Mutant: the path of the failed write is removed even if it was not created.
WriteFailsRemoves(t) ==
  /\ pc[t] = "writing"
  /\ \/ Target(t) \notin Shared /\ Path(t) \in files /\ UNCHANGED faults
     \/ Fault
  /\ files' = IF Target(t) \in Shared THEN files ELSE files \ {Path(t)}
  /\ own' = own \cap files' /\ partial' = partial \cap files'
  /\ Undone(t)
  /\ UNCHANGED <<shared, generated, runs, history>>

\* writeChange returns an error and its target is as it was: nothing was created, or
\* it was removed again.  The changes applied so far are undone in reverse.
WriteFails(t) ==
  /\ pc[t] = "writing"
  /\ \/ Target(t) \notin Shared /\ Path(t) \in files /\ UNCHANGED faults
     \/ Fault
  /\ Undone(t)
  /\ UNCHANGED <<tree, generated, runs, history>>

\* A write of a new target ends in the middle.
LeavePart(t) ==
  /\ pc[t] = "writing" /\ Target(t) \notin Shared /\ Path(t) \notin files
  /\ files' = files \cup {Path(t)} /\ partial' = partial \cup {Path(t)}
  /\ UNCHANGED <<own, shared>>

\* What a failed write of a new file has written cannot be removed either, which no
\* error says; or a module's files before it cannot, which the rollback reports.
WriteLeavesPart(t) ==
  /\ LeavePart(t) /\ Fault
  /\ Undone(t)
  /\ \/ UNCHANGED failed
     \/ Target(t) = "module" /\ failed' = failed \cup {res[t]}
  /\ UNCHANGED <<generated, runs, saved, exposed, raced>>

\* Mutant: a new file is not removed again.
UndoNewKeeps(t) ==
  /\ pc[t] = "undoing" /\ Target(t) \notin Shared
  /\ Undone(t)
  /\ UNCHANGED <<tree, generated, bounds, history>>

UndoNew(t) ==
  /\ pc[t] = "undoing" /\ Target(t) \notin Shared
  /\ files' = files \ {Path(t)} /\ own' = own \ {Path(t)} /\ partial' = partial \ {Path(t)}
  /\ Undone(t)
  /\ UNCHANGED <<shared, generated, bounds, history>>

\* Mutant: only new files are rolled back.
TruncateSkips(t) ==
  /\ pc[t] = "undoing" /\ Target(t) \in Shared
  /\ Undone(t)
  /\ UNCHANGED <<tree, generated, bounds, history>>

\* os.WriteFile truncates the shared file, and writes what it held.
Truncate(t) ==
  /\ pc[t] = "undoing" /\ Target(t) \in Shared
  /\ shared' = [shared EXCEPT ![Target(t)] = [Nothing EXCEPT !.whole = FALSE]]
  /\ pc' = [pc EXCEPT ![t] = "rewriting"]
  /\ UNCHANGED <<lock, files, own, partial, generated, local, bounds, history>>

Rewrite(t) ==
  /\ pc[t] = "rewriting"
  /\ shared' = [shared EXCEPT ![Target(t)] = before[t][Target(t)]]
  /\ Undone(t)
  /\ UNCHANGED <<files, own, partial, generated, bounds, history>>

\* One step of the rollback fails: it is reported, and the rest goes on.
UndoFails(t) ==
  /\ pc[t] \in {"undoing", "rewriting"} /\ Fault
  /\ Undone(t)
  /\ failed' = failed \cup {res[t]}
  /\ UNCHANGED <<tree, generated, runs, saved, exposed, raced>>

\* The process is killed: its lock file stays, and part of what it is writing may.
Die(t) ==
  /\ pc[t] # "idle" /\ Fault /\ End(t)
  /\ UNCHANGED tree \/ LeavePart(t)
  /\ lock' = IF lock = t THEN Hand ELSE lock
  /\ failed' = IF pc[t] = "locking" THEN failed ELSE failed \cup {res[t]}
  /\ UNCHANGED <<generated, runs, saved, exposed, raced>>

-----------------------------------------------------------------------------
(* Developers *)

\* "remove it only after confirming that process has stopped"
RemoveLock ==
  /\ lock = Hand /\ lock' = None
  /\ UNCHANGED <<tree, generated, pc, local, bounds, history>>

Save(f, e) ==
  /\ \A g \in Shared : <<g, e>> \notin saved
  /\ shared[f].whole
  /\ shared' = [shared EXCEPT ![f].edits = @ \cup {e}]
  /\ saved' = saved \cup {<<f, e>>}
  /\ exposed' = IF \E t \in Terminal : before[t][f] # None
                  THEN exposed \cup {<<f, e>>} ELSE exposed
  /\ UNCHANGED <<lock, files, own, partial, generated, pc, local, bounds, raced, failed>>

\* A migration numbered after those in the directory.
AddMigration ==
  /\ Cardinality(own) < MaxHand
  /\ files' = files \cup {<<"migration", Highest + 1, Hand>>}
  /\ own' = own \cup {<<"migration", Highest + 1, Hand>>}
  /\ raced' = (raced \/ \E t \in Terminal : pc[t] \notin {"idle", "locking", "version"})
  /\ UNCHANGED <<lock, partial, shared, generated, pc, local, bounds, saved, exposed, failed>>

\* A developer starts a package where a resource would go.
AddPackage(r) ==
  /\ Cardinality(own) < MaxHand /\ <<"module", 0, r>> \notin files
  /\ files' = files \cup {<<"module", 0, r>>} /\ own' = own \cup {<<"module", 0, r>>}
  /\ UNCHANGED <<lock, partial, shared, generated, pc, local, bounds, history>>

\* checkMigrationVersions of the developer commands.
CheckVersions == ~Duplicated

\* dev generate: code for what the contract declares.
Generate ==
  /\ CheckVersions /\ shared["api/openapi.yaml"].whole
  /\ generated' = Listed(shared["api/openapi.yaml"])
  /\ UNCHANGED <<lock, tree, pc, local, bounds, history>>

-----------------------------------------------------------------------------
Step(t) ==
  \/ Acquire(t) \/ ChooseVersion(t) \/ PrepareNew(t) \/ PrepareShared(t) \/ Begin(t)
  \/ WriteNew(t) \/ Replace(t) \/ WriteFails(t) \/ WriteLeavesPart(t)
  \/ UndoNew(t) \/ Truncate(t) \/ Rewrite(t)

Next ==
  \/ \E t \in Terminal : \/ \E r \in Resource : Start(t, r)
                         \/ Step(t) \/ GiveUp(t) \/ UndoFails(t) \/ Die(t)
  \/ RemoveLock \/ AddMigration \/ Generate
  \/ \E f \in Shared, e \in Edit : Save(f, e)
  \/ \E r \in Resource : AddPackage(r)

Spec == Init /\ [][Next]_vars

-----------------------------------------------------------------------------
Migrated(r) == \E p \in Migrations \ partial : p[3] = r

\* Entry x of the plan is in the tree for r; x is a shared file that was cut short.
Present(x, r) ==
  CASE Plan[x] = "module"    -> <<"module", 0, r>> \in files \ (own \cup partial)
    [] Plan[x] = "migration" -> Migrated(r)
    [] OTHER                 -> shared[Plan[x]].lists[r] > 0
CutShort(x) == Plan[x] \in Shared /\ ~shared[Plan[x]].whole

Traces(r) == {x \in DOMAIN Plan : Present(x, r) \/ CutShort(x)}

\* A resource is in the tree with everything it needs or not at all: a run that
\* fails "rolls back completed writes" (applyChanges), whatever is left of the write
\* that failed (writeChange ignores the error of its os.Remove).  Excused are the run
\* that is under way, and processes that died or said what they could not roll back.
AllOrNothing ==
  \A r \in Resource :
    \/ Traces(r) \in {{}, DOMAIN Plan}
    \/ r \in failed
    \/ \E t \in Terminal : res[t] = r /\ pc[t] \in {"writing", "undoing", "rewriting"}
    \/ \E f \in Shared : ~shared[f].whole

\* An edit that was saved while no process had read the file survives every run,
\* one that fails and restores the file included.  Excused: a file cut short by a
\* rollback that is under way, failed or killed.
NoLostEdit ==
  \A f \in Shared, e \in Edit :
    <<f, e>> \in saved \ exposed => e \in shared[f].edits \/ ~shared[f].whole

\* What developers wrote stays: their edits, and their files ("new files are never
\* silently overwritten", applyChanges), which a rollback does not remove either.
OwnWorkKept == [][NoLostEdit' /\ own \subseteq own']_vars

\* "Serialise generators in one checkout": two migrations get one version only if
\* one of them was added by hand after a process had chosen its version.
VersionsDistinct == Duplicated => raced

\* The contract never declares one name twice, although names are checked against
\* generated code that may be stale, and before the lock is taken.
Unambiguous(c) ==
  \A r \in Listed(c) : c.lists[r] = 1 /\ ~Clashes(r, Listed(c) \ {r})
ContractUnambiguous == Unambiguous(shared["api/openapi.yaml"])

\* A retry never registers a resource a second time in any file, unless a
\* rollback failed, and said so, before (addSQLConfig does not look).
Once(c) == \A r \in Resource : c.lists[r] > 1 => r \in failed
RegisteredOnce == \A f \in Shared : Once(shared[f])

\* Names stay unique: those of migrations, of the contract, and of registrations.
NamesUnique == VersionsDistinct /\ ContractUnambiguous /\ RegisteredOnce

\* Generators are not locked out by one that returned: the lock file names a
\* process that runs, unless that was killed; and only its holder goes past it.
LockTrue ==
  \A t \in Terminal : lock = t <=> pc[t] \notin {"idle", "locking"}

-----------------------------------------------------------------------------
(* The invariant of the proofs *)

\* t has chosen its version.
Adding(t) == pc[t] \in {"preparing", "prepared", "writing", "undoing", "rewriting"}

\* The changes of t's plan that are in the tree.
Applied(t) ==
  {x \in DOMAIN Plan : \/ pc[t] \in {"writing", "rewriting"} /\ x < at[t]
                       \/ pc[t] = "undoing" /\ x <= at[t]}

\* The shared files that t has read.
Read(t) ==
  {Plan[x] : x \in {y \in DOMAIN Plan : Plan[y] \in Shared /\ (pc[t] = "preparing" => y < at[t])}}

\* What t remembers of a shared file: how it was without t's resource.
Remembered(t, f) ==
  LET c == before[t][f] IN
    /\ c.whole /\ Once(c)
    /\ \A r \in Resource \ failed : c.lists[r] > 0 <=> r # res[t] /\ Migrated(r)
    /\ f = "api/openapi.yaml" => Unambiguous(c) /\ ~Clashes(res[t], Listed(c))
    /\ \A e \in Edit : <<f, e>> \in saved \ exposed => e \in c.edits

\* A process that adds a resource: what it has read, written and not yet written.
Underway(t) ==
  /\ res[t] \in Resource /\ at[t] \in DOMAIN Plan
  /\ pc[t] = "prepared" => at[t] = 1
  /\ pc[t] = "rewriting" => Plan[at[t]] \in Shared
  /\ \A f \in Shared : before[t][f] # None <=> f \in Read(t)
  /\ \A f \in Read(t) : Remembered(t, f)
  /\ 1 \in Applied(t) => <<"module", 0, res[t]>> \in files \ own
  /\ \A p \in Migrations \ partial : p[3] = res[t] => p[2] = version[t]
  /\ ~raced => \A p \in Migrations :
                 p[2] < version[t] \/ p = <<"migration", version[t], res[t]>>
  /\ res[t] \notin failed =>
       \A x \in DOMAIN Plan : CutShort(x) \/ (Present(x, res[t]) <=> x \in Applied(t))

Waiting(t) == before[t] = Unread /\ (pc[t] # "idle" => res[t] \in Resource)

\* Without a process at work on it, a resource is there wherever its migration is.
Settled(r) ==
  \A x \in DOMAIN Plan : CutShort(x) \/ (Present(x, r) <=> Migrated(r))

IInv ==
  /\ TypeOK /\ LockTrue /\ NoLostEdit /\ NamesUnique
  /\ IsFiniteSet(files)
  /\ \A p \in own : p[1] = "migration" => p[3] = Hand
  /\ \A f \in Shared, r \in Resource : ~shared[f].whole => shared[f].lists[r] = 0
  /\ \A r \in Resource \ failed : (\E t \in Terminal : Adding(t) /\ res[t] = r) \/ Settled(r)
  /\ \A t \in Terminal : IF Adding(t) THEN Underway(t) ELSE Waiting(t)
=============================================================================
