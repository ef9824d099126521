----------------------------- MODULE Toolchain -----------------------------
(***************************************************************************)
(* The developer commands bootstrap and generate-check (bootstrap,         *)
(* generate, checkGenerated) of one or more processes in a checkout whose  *)
(* files are edited meanwhile: when are the tools in bin/ the pinned ones, *)
(* and what does a check that passes say of the generated code?            *)
(***************************************************************************)
EXTENDS Integers, FiniteSets

CONSTANTS Shell,      \* where commands are started
          Tool,       \* toolNames
          Sqlc, Oapi, \* the tools that generate internal/gen/db and internal/gen/api
          Version,    \* versions of the pins, of the contract and of the SQL
          MaxEdits,   \* bound on edits
          MaxFaults,  \* bound on commands that fail or die
          Absent, Clashing

ASSUME GeneratorAssumption == Sqlc \in Tool /\ Oapi \in Tool
ASSUME AbsentAssumption ==
  /\ Absent \notin Version /\ Clashing \notin Version /\ Absent # Clashing
  /\ Absent \notin (Version \cup {Clashing}) \X Version
ASSUME EditAssumption == MaxEdits \in Nat /\ MaxFaults \in Nat

VARIABLES
  pins,       \* go.mod, go.sum, tools/go.mod, tools/go.sum
  contract,   \* api/openapi.yaml
  sql,        \* migrations and queries.sql files: Absent if there are no queries,
              \* Clashing if two migrations have one version
  tools,      \* tools[x]: the pins the binary of x was built from, or Absent
  stamp,      \* bin/.tools-stamp, or Absent
  generated,  \* internal/gen/db and internal/gen/api: the source and the pins of the
              \* generator, or Absent if there is no output or it is cut short
  pc,         \* pc[s]: where the command of shell s is
  computed,   \* computed[s]: the stamp it computed
  first,      \* first[s]: the first snapshot of internal/gen
  verdict,    \* verdict[s]: of the last check
  edits, faults,
  torn,       \* history: pins that stamps may vouch for wrongly, since a build was
              \* cut short or overlapped an edit or another build
  moved       \* history: shells whose command met an edit or another command

bin  == <<tools, stamp>>
src  == <<pins, contract, sql>>
toolVars == <<src, bin, generated, pc, computed, first, verdict, edits, faults, torn, moved>>

Places == {"idle", "bootstrap", "building", "snapshot", "versions", "sqlc", "oapi", "comparing"}

Output(sources) == (sources \X Version) \cup {Absent}
Tree    == [db : Output(Version \cup {Clashing}), api : Output(Version)]
Nothing == [db |-> Absent, api |-> Absent]

ToolTypeOK ==
  /\ pins \in Version /\ contract \in Version /\ sql \in Version \cup {Absent, Clashing}
  /\ tools \in [Tool -> Version \cup {Absent}] /\ stamp \in Version \cup {Absent}
  /\ generated \in Tree
  /\ pc \in [Shell -> Places] /\ computed \in [Shell -> Version \cup {Absent}]
  /\ first \in [Shell -> Tree]
  /\ verdict \in [Shell -> {"none", "passed", "stale"}]
  /\ edits \in 0..MaxEdits /\ faults \in 0..MaxFaults
  /\ torn \subseteq Version /\ moved \subseteq Shell
  /\ \A s \in Shell : pc[s] = "building" => computed[s] # Absent

ToolInit ==
  /\ pins \in Version /\ contract \in Version /\ sql \in Version \cup {Absent, Clashing}
  /\ tools = [x \in Tool |-> Absent] /\ stamp = Absent
  /\ generated \in [db : Output(Version), api : Output(Version)]
  /\ pc = [s \in Shell |-> "idle"] /\ computed = [s \in Shell |-> Absent]
  /\ first = [s \in Shell |-> Nothing] /\ verdict = [s \in Shell |-> "none"]
  /\ edits = 0 /\ faults = 0 /\ torn = {} /\ moved = {}

Active   == {s \in Shell : pc[s] # "idle"}
Builders == {s \in Shell : pc[s] = "building"}

\* The stamp there is and those that builds under way will write.
Doubtful == ({stamp} \cup {computed[s] : s \in Builders}) \ {Absent}

Go(s, from, to) == pc[s] = from /\ pc' = [pc EXCEPT ![s] = to]

-----------------------------------------------------------------------------
StartCheck(s) ==
  /\ Go(s, "idle", "bootstrap")
  /\ verdict' = [verdict EXCEPT ![s] = "none"] /\ first' = [first EXCEPT ![s] = Nothing]
  /\ moved' = IF Active = {} THEN moved \ {s} ELSE moved \cup Active \cup {s}
  /\ UNCHANGED <<src, bin, generated, computed, edits, faults, torn>>

\* Mutant: the stamp alone is looked at.
ReadyByStamp(v) == stamp = v

\* The stamp matches and every tool is there.
Ready(v) == stamp = v /\ \A x \in Tool : tools[x] # Absent

\* toolsStamp, and then skip the build or start it.
CheckStamp(s) ==
  /\ Go(s, "bootstrap", IF Ready(pins) THEN "snapshot" ELSE "building")
  /\ computed' = [computed EXCEPT ![s] = pins]
  /\ torn' = IF ~Ready(pins) /\ Builders # {} THEN torn \cup Doubtful \cup {pins} ELSE torn
  /\ UNCHANGED <<src, bin, generated, first, verdict, edits, faults, moved>>

\* go build installs one tool after the other, from the pins it has loaded.
BuildTool(s, x) ==
  /\ pc[s] = "building"
  /\ \E v \in {computed[s], pins} : tools[x] # v /\ tools' = [tools EXCEPT ![x] = v]
  /\ UNCHANGED <<src, stamp, generated, pc, computed, first, verdict, edits, faults, torn, moved>>

\* Mutant: the stamp of what go.mod is by now.
WriteStampLate(s) == stamp' = pins

\* The stamp that was computed before the build.
WriteStamp(s) == stamp' = computed[s]

EndBuild(s) ==
  /\ Go(s, "building", "snapshot")
  /\ \A x \in Tool : tools[x] \in {computed[s], pins} \/ (tools[x] # Absent /\ computed[s] \in torn)
  /\ WriteStamp(s)
  /\ UNCHANGED <<src, tools, generated, computed, first, verdict, edits, faults, torn, moved>>

TakeSnapshot(s) ==
  /\ Go(s, "snapshot", "versions")
  /\ first' = [first EXCEPT ![s] = generated]
  /\ UNCHANGED <<src, bin, generated, computed, verdict, edits, faults, torn, moved>>

\* Mutant: two migrations of one version pass.
VersionsClash == TRUE

\* checkMigrationVersions
VersionsDiffer == sql # Clashing

\* Mutant: sqlc runs only if there is no generated code yet.
SqlcOnce == sql # Absent /\ generated.db = Absent

\* len(queries)+len(modules) > 0
HasQueries == sql # Absent

\* generate: the versions of the migrations, and then sqlc unless it has nothing to do.
CheckVersions(s) ==
  /\ VersionsDiffer
  /\ Go(s, "versions", IF HasQueries THEN "sqlc" ELSE "oapi")
  /\ UNCHANGED <<src, bin, generated, computed, first, verdict, edits, faults, torn, moved>>

RunSqlc(s) ==
  /\ Go(s, "sqlc", "oapi") /\ sql # Absent /\ tools[Sqlc] # Absent
  /\ generated' = [generated EXCEPT !.db = <<sql, tools[Sqlc]>>]
  /\ UNCHANGED <<src, bin, computed, first, verdict, edits, faults, torn, moved>>

RunOapi(s) ==
  /\ Go(s, "oapi", "comparing") /\ tools[Oapi] # Absent
  /\ generated' = [generated EXCEPT !.api = <<contract, tools[Oapi]>>]
  /\ UNCHANGED <<src, bin, computed, first, verdict, edits, faults, torn, moved>>

\* Mutant: only files that were there before are compared.
CompareKnown(s) ==
  /\ first[s].db \in {Absent, generated.db} /\ first[s].api \in {Absent, generated.api}

\* The snapshots are equal, new and deleted files included.
Same(s) == first[s] = generated

Compare(s) ==
  /\ Go(s, "comparing", "idle")
  /\ verdict' = [verdict EXCEPT ![s] = IF Same(s) THEN "passed" ELSE "stale"]
  /\ computed' = [computed EXCEPT ![s] = Absent]
  /\ UNCHANGED <<src, bin, generated, first, edits, faults, torn, moved>>

\* The command ends without a verdict.
GiveUp(s) ==
  /\ pc' = [pc EXCEPT ![s] = "idle"]
  /\ first' = [first EXCEPT ![s] = Nothing] /\ computed' = [computed EXCEPT ![s] = Absent]
  /\ UNCHANGED <<src, bin, verdict, edits, moved>>

\* generate returns an error: two migrations of one version, or a command that fails,
\* sqlc also when the last queries went after they were looked for.
GenerateFails(s) ==
  /\ \/ pc[s] = "versions" /\ ~VersionsDiffer
     \/ pc[s] = "sqlc" /\ (sql = Absent \/ tools[Sqlc] = Absent)
     \/ pc[s] = "oapi" /\ tools[Oapi] = Absent
  /\ GiveUp(s)
  /\ UNCHANGED <<generated, faults, torn>>

\* A command fails or is killed; a generator may leave its output cut short.
Die(s) ==
  /\ pc[s] # "idle" /\ faults < MaxFaults /\ faults' = faults + 1
  /\ torn' = IF pc[s] = "building" THEN torn \cup ({stamp} \ {Absent}) ELSE torn
  /\ \/ generated' = generated
     \/ pc[s] = "sqlc" /\ generated' = [generated EXCEPT !.db = Absent]
     \/ pc[s] = "oapi" /\ generated' = [generated EXCEPT !.api = Absent]
  /\ GiveUp(s)

\* Somebody cleans bin/, or one tool of it.
Clean ==
  /\ faults < MaxFaults /\ faults' = faults + 1 /\ Active = {}
  /\ \E X \in SUBSET Tool : tools' = [x \in Tool |-> IF x \in X THEN Absent ELSE tools[x]]
  /\ stamp' \in {stamp, Absent}
  /\ UNCHANGED <<src, generated, pc, computed, first, verdict, edits, torn, moved>>

Edit ==
  /\ edits < MaxEdits /\ edits' = edits + 1
  /\ \/ pins' \in Version \ {pins} /\ UNCHANGED <<contract, sql>>
     \/ contract' \in Version \ {contract} /\ UNCHANGED <<pins, sql>>
     \/ sql' \in (Version \cup {Absent, Clashing}) \ {sql} /\ UNCHANGED <<pins, contract>>
  /\ torn' = IF Builders # {} /\ pins' # pins THEN torn \cup Doubtful ELSE torn
  /\ moved' = moved \cup Active
  /\ verdict' = [s \in Shell |-> "none"]
  /\ UNCHANGED <<bin, generated, pc, computed, first, faults>>

Develop ==
  \/ \E s \in Shell :
       \/ StartCheck(s) \/ CheckStamp(s) \/ (\E x \in Tool : BuildTool(s, x)) \/ EndBuild(s)
       \/ TakeSnapshot(s) \/ CheckVersions(s) \/ RunSqlc(s) \/ RunOapi(s) \/ Compare(s)
       \/ GenerateFails(s) \/ Die(s)
  \/ Clean \/ Edit

ToolSpec == ToolInit /\ [][Develop]_toolVars

-----------------------------------------------------------------------------
\* bootstrap skips the build only if bin/ has every tool the pins ask for, and a
\* stamp that was computed before a build never vouches for a later edit.  Excused
\* is what a build that was cut short left (the old stamp stays while tools change).
StampTrue ==
  Ready(pins) => pins \in torn \/ \A x \in Tool : tools[x] = pins

\* A check that passed, and that nobody disturbed, says that no two migrations clash
\* and that the generated code it found is what the pinned generators make of the
\* sources, with whatever tools were in bin/ and even if there was no generated code.
\* Of internal/gen/db it says so only while there are queries: without any, sqlc is
\* skipped and what an earlier run has left there passes.
PassedIsCurrent ==
  \A s \in Shell : verdict[s] = "passed" /\ s \notin moved /\ pins \notin torn =>
    /\ sql # Clashing
    /\ first[s].api = <<contract, pins>>
    /\ sql # Absent => first[s].db = <<sql, pins>>

\* Code is generated, and checked, with the pinned tools.
CheckedAsPinned == StampTrue /\ PassedIsCurrent

\* "Fail if generated code is out of date with its sources" (generate:check): what an
\* earlier run has made of queries that are gone does not pass (generate, checkGenerated).
LeftoverFails ==
  \A s \in Shell : verdict[s] = "passed" /\ s \notin moved /\ pins \notin torn /\ sql = Absent =>
    first[s].db = Absent
=============================================================================
