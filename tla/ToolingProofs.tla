--------------------------- MODULE ToolingProofs ---------------------------
(* What the developer's tools may rely on: the stamp of the tools, a check of *)
(* the generated code, the names the scanner of migrations knows, the lines   *)
(* forge init leaves in a file, and the names it gives the migrations.        *)
EXTENDS Scanner, Toolchain, Transform, FiniteSetTheorems, TLAPS

-----------------------------------------------------------------------------
(* Toolchain *)

\* A build that is not doubtful is the only one, and of the pins there are.
BuildsTrue ==
  \A s \in Builders : computed[s] \notin torn => Builders = {s} /\ computed[s] = pins

\* Tools that are there were built from v.
BuiltFrom(v) == \A x \in Tool : tools[x] \in {v, Absent}

\* A stamp that is not doubtful is that of the tools, unless a build of other pins
\* is under way.
StampBacked ==
  stamp # Absent /\ stamp \notin torn =>
    IF Builders = {} THEN BuiltFrom(stamp)
    ELSE \E s \in Shell :
           Builders = {s} /\ computed[s] = pins /\ (stamp = pins => BuiltFrom(stamp))

\* A check that nobody disturbs is alone, and works with the pinned tools.
Undisturbed ==
  \A s \in Shell \ moved :
    /\ pc[s] # "idle" => Active = {s}
    /\ pc[s] = "building" => computed[s] = pins
    /\ pc[s] \in {"snapshot", "versions", "sqlc", "oapi"} /\ pins \notin torn
         => \A x \in Tool : tools[x] = pins
    /\ pc[s] \in {"sqlc", "oapi", "comparing"} => sql # Clashing
    /\ pc[s] \in {"oapi", "comparing"} /\ pins \notin torn /\ sql # Absent
         => generated.db = <<sql, pins>>
    /\ pc[s] = "comparing" /\ pins \notin torn => generated.api = <<contract, pins>>

\* Who is at work has no verdict yet.
Pending == \A s \in Shell : pc[s] # "idle" => verdict[s] # "passed"

ToolInv ==
  /\ ToolTypeOK /\ BuildsTrue /\ StampBacked /\ Undisturbed /\ Pending /\ PassedIsCurrent

\* The tools a stamp vouches for are the pinned ones.
LEMMA BackedIsTrue == ToolTypeOK /\ StampBacked => StampTrue
BY AbsentAssumption DEF ToolTypeOK, StampBacked, StampTrue, Ready, BuiltFrom

LEMMA ToolInitInv == ToolInit => ToolInv
BY EditAssumption, AbsentAssumption
   DEF ToolInit, ToolInv, ToolTypeOK, BuildsTrue, StampBacked, Undisturbed, Pending,
       PassedIsCurrent, Places, Builders, Active, BuiltFrom, Tree, Nothing, Output

\* Steps keep the types.
LEMMA ToolTypeStep ==
  ASSUME ToolTypeOK, [Develop]_toolVars
  PROVE  ToolTypeOK'
<1> USE EditAssumption, AbsentAssumption DEF ToolTypeOK, Places, Go, bin, src, Tree, Nothing, Output
<1>1. ASSUME NEW s \in Shell, StartCheck(s) PROVE ToolTypeOK'
  BY <1>1 DEF StartCheck, Active
<1>2. ASSUME NEW s \in Shell, CheckStamp(s) PROVE ToolTypeOK'
  BY <1>2 DEF CheckStamp, Doubtful, Builders
<1>3. ASSUME NEW s \in Shell, NEW x \in Tool, BuildTool(s, x) PROVE ToolTypeOK'
  BY <1>3 DEF BuildTool
<1>4. ASSUME NEW s \in Shell, EndBuild(s) PROVE ToolTypeOK'
  BY <1>4 DEF EndBuild, WriteStamp
<1>5. ASSUME NEW s \in Shell, TakeSnapshot(s) PROVE ToolTypeOK'
  BY <1>5 DEF TakeSnapshot
<1>6. ASSUME NEW s \in Shell, CheckVersions(s) \/ RunSqlc(s) \/ RunOapi(s) PROVE ToolTypeOK'
  <2>1. CASE CheckVersions(s)
    BY <2>1 DEF CheckVersions
  <2>2. CASE RunSqlc(s)
    BY <2>2, GeneratorAssumption DEF RunSqlc
  <2>3. CASE RunOapi(s)
    BY <2>3, GeneratorAssumption DEF RunOapi
  <2> QED
    BY <1>6, <2>1, <2>2, <2>3
<1>7. ASSUME NEW s \in Shell, Compare(s) PROVE ToolTypeOK'
  BY <1>7 DEF Compare
<1>8. ASSUME NEW s \in Shell, GenerateFails(s) \/ Die(s) PROVE ToolTypeOK'
  <2>1. CASE GenerateFails(s)
    BY <2>1 DEF GenerateFails, GiveUp
  <2>2. CASE Die(s)
    BY <2>2 DEF Die, GiveUp
  <2> QED
    BY <1>8, <2>1, <2>2
<1>9. CASE Clean
  BY <1>9 DEF Clean
<1>10. CASE Edit
  BY <1>10 DEF Edit, Doubtful, Builders, Active
<1>11. CASE UNCHANGED toolVars
  BY <1>11 DEF toolVars
<1> QED
  BY <1>1, <1>2, <1>3, <1>4, <1>5, <1>6, <1>7, <1>8, <1>9, <1>10, <1>11 DEF Develop

\* A command starts: nothing is built, and only a lone command is undisturbed.
LEMMA StartCheckInv ==
  ASSUME ToolInv, ToolTypeOK', NEW s \in Shell, StartCheck(s)
  PROVE  ToolInv'
<1>1. /\ pc[s] = "idle" /\ pc' = [pc EXCEPT ![s] = "bootstrap"]
      /\ UNCHANGED <<pins, contract, sql, tools, stamp, generated, computed, torn>>
      /\ moved' = IF Active = {} THEN moved \ {s} ELSE moved \cup Active \cup {s}
  BY DEF StartCheck, Go, src, bin
<1>2. Builders' = Builders
  BY <1>1 DEF Builders, ToolInv, ToolTypeOK
<1>3. BuildsTrue' /\ StampBacked'
  BY <1>1, <1>2 DEF ToolInv, BuildsTrue, StampBacked, BuiltFrom
<1>4. Undisturbed'
  <2>1. Active' = Active \cup {s}
    BY <1>1 DEF Active, ToolInv, ToolTypeOK
  <2> SUFFICES ASSUME NEW q \in Shell \ moved', pc'[q] # "idle"
               PROVE  /\ Active' = {q}
                      /\ pc'[q] \notin {"building", "snapshot", "versions", "sqlc", "oapi", "comparing"}
    BY DEF Undisturbed
  <2>2. CASE Active = {}
    BY <1>1, <2>1, <2>2 DEF Active, ToolInv, ToolTypeOK
  <2>3. CASE Active # {}
    BY <1>1, <2>1, <2>3 DEF Active, ToolInv, ToolTypeOK
  <2> QED
    BY <2>2, <2>3
<1>5. Pending' /\ PassedIsCurrent'
  <2>1. \A q \in Shell : /\ verdict'[q] = IF q = s THEN "none" ELSE verdict[q]
                         /\ q # s => pc'[q] = pc[q] /\ first'[q] = first[q]
                                     /\ (q \notin moved' => q \notin moved)
    BY <1>1 DEF StartCheck, ToolInv, ToolTypeOK
  <2> QED
    BY <1>1, <2>1 DEF ToolInv, Pending, PassedIsCurrent
<1> QED
  BY <1>3, <1>4, <1>5 DEF ToolInv

\* The stamp is good, or a build starts; one that meets another makes both doubtful.
LEMMA CheckStampInv ==
  ASSUME ToolInv, ToolTypeOK', NEW s \in Shell, CheckStamp(s)
  PROVE  ToolInv'
<1>1. /\ pc[s] = "bootstrap" /\ pc' = [pc EXCEPT ![s] = IF Ready(pins) THEN "snapshot" ELSE "building"]
      /\ computed' = [computed EXCEPT ![s] = pins]
      /\ torn' = IF ~Ready(pins) /\ Builders # {} THEN torn \cup Doubtful \cup {pins} ELSE torn
      /\ UNCHANGED <<pins, contract, sql, tools, stamp, generated, first, verdict, moved>>
  BY DEF CheckStamp, Go, src, bin
<1>2. /\ \A q \in Shell : q # s => pc'[q] = pc[q] /\ computed'[q] = computed[q]
      /\ pc'[s] = (IF Ready(pins) THEN "snapshot" ELSE "building") /\ computed'[s] = pins
      /\ s \notin Builders
  BY <1>1 DEF ToolInv, ToolTypeOK, Builders
<1>3. /\ Builders' = IF Ready(pins) THEN Builders ELSE Builders \cup {s}
      /\ Active' = Active
  BY <1>1, <1>2 DEF Builders, Active
<1>4. torn \subseteq torn'
  BY <1>1
<1>5. BuildsTrue'
  <2>1. CASE Ready(pins)
    BY <1>1, <1>2, <1>3, <2>1 DEF ToolInv, BuildsTrue
  <2>2. CASE ~Ready(pins) /\ Builders = {}
    BY <1>1, <1>2, <1>3, <2>2 DEF BuildsTrue
  <2>3. CASE ~Ready(pins) /\ Builders # {}
    <3>1. \A q \in Builders : computed[q] \in Doubtful
      BY AbsentAssumption DEF Doubtful, Builders, ToolInv, ToolTypeOK
    <3> QED
      BY <1>1, <1>2, <1>3, <2>3, <3>1 DEF BuildsTrue
  <2> QED
    BY <2>1, <2>2, <2>3
<1>6. StampBacked'
  <2> SUFFICES ASSUME stamp # Absent, stamp \notin torn'
               PROVE  IF Builders' = {} THEN BuiltFrom(stamp)
                      ELSE \E q \in Shell :
                             Builders' = {q} /\ computed'[q] = pins /\ (stamp = pins => BuiltFrom(stamp))
    BY <1>1 DEF StampBacked, BuiltFrom
  <2>1. CASE Ready(pins)
    <3>1. \A q \in Builders : computed'[q] = computed[q]
      BY <1>2 DEF Builders
    <3> QED
      BY <1>1, <1>3, <1>4, <2>1, <3>1 DEF ToolInv, StampBacked
  <2>2. CASE ~Ready(pins) /\ Builders = {}
    BY <1>1, <1>2, <1>3, <2>2 DEF ToolInv, StampBacked
  <2>3. CASE ~Ready(pins) /\ Builders # {}
    BY <1>1, <2>3 DEF Doubtful
  <2> QED
    BY <2>1, <2>2, <2>3
<1>7. Undisturbed'
  <2>1. Ready(pins) => pins \in torn \/ \A x \in Tool : tools[x] = pins
    BY BackedIsTrue DEF ToolInv, StampTrue
  <2> QED
    BY <1>1, <1>2, <1>3, <1>4, <2>1 DEF ToolInv, Undisturbed
<1>8. Pending' /\ PassedIsCurrent'
  BY <1>1, <1>2, <1>4 DEF ToolInv, Pending, PassedIsCurrent
<1> QED
  BY <1>5, <1>6, <1>7, <1>8 DEF ToolInv

\* A tool is built, while the stamp is that of other pins, or the tool is missing.
LEMMA BuildToolInv ==
  ASSUME ToolInv, ToolTypeOK', NEW s \in Shell, NEW x \in Tool, BuildTool(s, x)
  PROVE  ToolInv'
<1>1. /\ pc[s] = "building" /\ s \in Builders
      /\ UNCHANGED <<pins, contract, sql, stamp, generated, pc, computed, first, verdict, torn, moved>>
  BY DEF BuildTool, src, Builders
<1>2. PICK v \in {computed[s], pins} : tools' = [tools EXCEPT ![x] = v]
  BY DEF BuildTool
<1>3. Builders' = Builders /\ Active' = Active
  BY <1>1 DEF Builders, Active
<1>4. StampBacked'
  <2> SUFFICES ASSUME stamp # Absent, stamp \notin torn
               PROVE  \E q \in Shell :
                        Builders = {q} /\ computed[q] = pins /\ (stamp = pins => BuiltFrom(stamp)')
    BY <1>1, <1>3 DEF StampBacked
  <2>1. Builders = {s} /\ computed[s] = pins /\ (stamp = pins => BuiltFrom(stamp))
    BY <1>1 DEF ToolInv, StampBacked
  <2>2. v = pins
    BY <2>1
  <2> QED
    BY <1>1, <1>2, <2>1, <2>2 DEF BuiltFrom, ToolInv, ToolTypeOK
<1>5. Undisturbed'
  <2>1. \A q \in Shell \ moved : pc[q] # "idle" => q = s
    BY <1>1 DEF ToolInv, Undisturbed, Active
  <2> QED
    BY <1>1, <1>3, <2>1 DEF ToolInv, Undisturbed
<1> QED
  BY <1>1, <1>3, <1>4, <1>5 DEF ToolInv, BuildsTrue, Pending, PassedIsCurrent

\* A build ends and writes the stamp it has computed.
LEMMA EndBuildInv ==
  ASSUME ToolInv, ToolTypeOK', NEW s \in Shell, EndBuild(s)
  PROVE  ToolInv'
<1>1. /\ pc[s] = "building" /\ pc' = [pc EXCEPT ![s] = "snapshot"] /\ stamp' = computed[s]
      /\ \A x \in Tool : tools[x] \in {computed[s], pins} \/ (tools[x] # Absent /\ computed[s] \in torn)
      /\ UNCHANGED <<pins, contract, sql, tools, generated, computed, first, verdict, torn, moved>>
  BY DEF EndBuild, WriteStamp, Go, src
<1>2. /\ pc'[s] = "snapshot" /\ \A q \in Shell : q # s => pc'[q] = pc[q]
      /\ s \in Builders /\ Builders' = Builders \ {s} /\ Active' = Active
  BY <1>1 DEF ToolInv, ToolTypeOK, Builders, Active
<1>3. BuildsTrue'
  BY <1>1, <1>2 DEF ToolInv, BuildsTrue
<1>4. computed[s] \notin torn => Builders' = {} /\ \A x \in Tool : tools[x] = pins
  BY <1>1, <1>2 DEF ToolInv, BuildsTrue
<1>5. StampBacked'
  BY <1>1, <1>2, <1>4 DEF StampBacked, BuiltFrom, ToolInv, BuildsTrue
<1>6. Undisturbed'
  <2>1. s \notin moved => computed[s] = pins
    BY <1>1 DEF ToolInv, Undisturbed
  <2> QED
    BY <1>1, <1>2, <1>4, <2>1 DEF ToolInv, Undisturbed
<1> QED
  BY <1>1, <1>2, <1>3, <1>5, <1>6 DEF ToolInv, Pending, PassedIsCurrent

\* Steps between the build and the verdict.
LEMMA GenerateInv ==
  ASSUME ToolInv, ToolTypeOK', NEW s \in Shell,
         TakeSnapshot(s) \/ CheckVersions(s) \/ RunSqlc(s) \/ RunOapi(s)
  PROVE  ToolInv'
<1>1. /\ \/ pc[s] = "snapshot" /\ pc' = [pc EXCEPT ![s] = "versions"] /\ UNCHANGED generated
         \/ /\ pc[s] = "versions" /\ sql # Clashing /\ UNCHANGED generated
            /\ pc' = [pc EXCEPT ![s] = IF sql # Absent THEN "sqlc" ELSE "oapi"]
         \/ /\ pc[s] = "sqlc" /\ pc' = [pc EXCEPT ![s] = "oapi"]
            /\ generated' = [generated EXCEPT !.db = <<sql, tools[Sqlc]>>]
         \/ /\ pc[s] = "oapi" /\ pc' = [pc EXCEPT ![s] = "comparing"]
            /\ generated' = [generated EXCEPT !.api = <<contract, tools[Oapi]>>]
      /\ \A q \in Shell : q # s => first'[q] = first[q]
      /\ UNCHANGED <<pins, contract, sql, tools, stamp, computed, verdict, torn, moved>>
  BY DEF TakeSnapshot, CheckVersions, VersionsDiffer, HasQueries, RunSqlc, RunOapi, Go, src,
         bin, ToolInv, ToolTypeOK
<1>2. \A q \in Shell : q # s => pc'[q] = pc[q]
  BY <1>1 DEF ToolInv, ToolTypeOK
<1>3. /\ pc[s] # "idle" /\ pc[s] # "building" /\ pc'[s] # "idle" /\ pc'[s] # "building"
      /\ Builders' = Builders /\ Active' = Active
  BY <1>1, <1>2 DEF ToolInv, ToolTypeOK, Builders, Active
<1>4. BuildsTrue' /\ StampBacked'
  BY <1>1, <1>3 DEF ToolInv, BuildsTrue, StampBacked, BuiltFrom
<1>5. Undisturbed'
  <2>1. \A q \in Shell \ moved : pc[q] # "idle" => q = s
    BY <1>3 DEF ToolInv, Undisturbed, Active
  <2>2. s \notin moved => Active = {s}
    BY <1>3 DEF ToolInv, Undisturbed
  <2>3. ASSUME s \notin moved
        PROVE  /\ pins \notin torn => \A x \in Tool : tools[x] = pins \/ pc[s] = "comparing"
               /\ pc'[s] # "versions" => sql # Clashing
               /\ pc'[s] \in {"oapi", "comparing"} /\ pins \notin torn /\ sql # Absent
                    => generated'.db = <<sql, pins>>
               /\ pc'[s] = "comparing" /\ pins \notin torn => generated'.api = <<contract, pins>>
    <3>1. pc[s] \in {"snapshot", "versions", "sqlc", "oapi"} /\ generated \in Tree
      BY <1>1 DEF ToolInv, ToolTypeOK
    <3>2. pins \notin torn =>
            (\A x \in Tool : tools[x] = pins) /\ tools[Sqlc] = pins /\ tools[Oapi] = pins
      BY <2>3, <3>1, GeneratorAssumption DEF ToolInv, Undisturbed
    <3>3. CASE pc[s] = "snapshot" \/ pc[s] = "versions"
      BY <1>1, <3>2, <3>3 DEF ToolInv, ToolTypeOK
    <3>4. CASE pc[s] = "sqlc"
      <4>1. pc'[s] = "oapi" /\ generated'.db = <<sql, tools[Sqlc]>>
        BY <1>1, <3>1, <3>4 DEF ToolInv, ToolTypeOK, Tree
      <4> QED
        BY <2>3, <3>2, <3>4, <4>1 DEF ToolInv, Undisturbed
    <3>5. CASE pc[s] = "oapi"
      <4>1. /\ pc'[s] = "comparing" /\ generated'.api = <<contract, tools[Oapi]>>
            /\ generated'.db = generated.db
        BY <1>1, <3>1, <3>5 DEF ToolInv, ToolTypeOK, Tree
      <4> QED
        BY <2>3, <3>2, <3>5, <4>1 DEF ToolInv, Undisturbed
    <3> QED
      BY <3>1, <3>3, <3>4, <3>5
  <2>4. pc'[s] \in {"versions", "sqlc", "oapi"} => pc[s] # "comparing"
    BY <1>1
  <2> QED
    BY <1>1, <1>2, <1>3, <2>1, <2>2, <2>3, <2>4 DEF Undisturbed
<1>6. Pending' /\ PassedIsCurrent'
  BY <1>1, <1>2, <1>3 DEF ToolInv, Pending, PassedIsCurrent
<1> QED
  BY <1>4, <1>5, <1>6 DEF ToolInv

\* The verdict.
LEMMA CompareInv ==
  ASSUME ToolInv, ToolTypeOK', NEW s \in Shell, Compare(s)
  PROVE  ToolInv'
<1>1. /\ pc[s] = "comparing" /\ pc' = [pc EXCEPT ![s] = "idle"]
      /\ verdict' = [verdict EXCEPT ![s] = IF first[s] = generated THEN "passed" ELSE "stale"]
      /\ computed' = [computed EXCEPT ![s] = Absent]
      /\ UNCHANGED <<pins, contract, sql, tools, stamp, generated, first, torn, moved>>
  BY DEF Compare, Same, Go, src, bin
<1>2. /\ pc'[s] = "idle"
      /\ \A q \in Shell : q # s => pc'[q] = pc[q] /\ computed'[q] = computed[q] /\ verdict'[q] = verdict[q]
      /\ verdict'[s] = (IF first[s] = generated THEN "passed" ELSE "stale")
  BY <1>1 DEF ToolInv, ToolTypeOK
<1>3. Builders' = Builders /\ Active' = Active \ {s} /\ s \notin Builders
  BY <1>1, <1>2 DEF Builders, Active
<1>4. \A q \in Builders : computed'[q] = computed[q] /\ q # s
  BY <1>2, <1>3 DEF Builders
<1>5. BuildsTrue' /\ StampBacked'
  BY <1>1, <1>3, <1>4 DEF ToolInv, BuildsTrue, StampBacked, BuiltFrom
<1>6. Undisturbed'
  BY <1>1, <1>2, <1>3 DEF ToolInv, Undisturbed, Active
<1>7. Pending' /\ PassedIsCurrent'
  BY <1>1, <1>2 DEF ToolInv, Pending, PassedIsCurrent, Undisturbed
<1> QED
  BY <1>5, <1>6, <1>7 DEF ToolInv

\* A command that ends early may cut generated code short, and nobody undisturbed is
\* then at work; a build that dies leaves the old stamp, and makes it doubtful.
LEMMA DieInv ==
  ASSUME ToolInv, ToolTypeOK', NEW s \in Shell, GenerateFails(s) \/ Die(s)
  PROVE  ToolInv'
<1>1. /\ pc[s] # "idle" /\ pc' = [pc EXCEPT ![s] = "idle"]
      /\ first' = [first EXCEPT ![s] = Nothing] /\ computed' = [computed EXCEPT ![s] = Absent]
      /\ torn' = IF pc[s] = "building" THEN torn \cup ({stamp} \ {Absent}) ELSE torn
      /\ UNCHANGED <<pins, contract, sql, tools, stamp, verdict, moved>>
  BY DEF GenerateFails, Die, GiveUp, src, bin
<1>2. /\ pc'[s] = "idle"
      /\ \A q \in Shell : q # s => pc'[q] = pc[q] /\ computed'[q] = computed[q] /\ first'[q] = first[q]
  BY <1>1 DEF ToolInv, ToolTypeOK
<1>3. Builders' = Builders \ {s} /\ Active' = Active \ {s} /\ torn \subseteq torn'
  BY <1>1, <1>2 DEF Builders, Active
<1>4. \A q \in Builders' : computed'[q] = computed[q] /\ q # s /\ q \in Builders
  BY <1>2, <1>3 DEF Builders
<1>5. BuildsTrue'
  BY <1>1, <1>3, <1>4 DEF ToolInv, BuildsTrue
<1>6. StampBacked'
  <2>1. CASE s \in Builders
    BY <1>1, <2>1 DEF StampBacked, Builders
  <2>2. CASE s \notin Builders
    BY <1>1, <1>3, <1>4, <2>2 DEF ToolInv, StampBacked, BuiltFrom
  <2> QED
    BY <2>1, <2>2
<1>7. Undisturbed'
  <2>1. \A q \in Shell \ moved : pc[q] # "idle" => q = s
    BY <1>1 DEF ToolInv, Undisturbed, Active
  <2> QED
    BY <1>1, <1>2, <2>1 DEF Undisturbed
<1>8. Pending' /\ PassedIsCurrent'
  BY <1>1, <1>2, <1>3 DEF ToolInv, Pending, PassedIsCurrent
<1> QED
  BY <1>5, <1>6, <1>7, <1>8 DEF ToolInv

\* Tools are removed while no command runs.
LEMMA CleanInv ==
  ASSUME ToolInv, ToolTypeOK', Clean
  PROVE  ToolInv'
<1>1. /\ Active = {} /\ stamp' \in {stamp, Absent}
      /\ \A x \in Tool : tools'[x] \in {tools[x], Absent}
      /\ UNCHANGED <<pins, contract, sql, generated, pc, computed, first, verdict, torn, moved>>
  BY DEF Clean, src
<1>2. Builders = {} /\ Builders' = {} /\ Active' = {}
  BY <1>1 DEF Builders, Active
<1>3. BuildsTrue' /\ StampBacked'
  BY <1>1, <1>2 DEF ToolInv, BuildsTrue, StampBacked, BuiltFrom
<1>4. Undisturbed'
  BY <1>1, <1>2 DEF Undisturbed, Active
<1> QED
  BY <1>1, <1>3, <1>4 DEF ToolInv, Pending, PassedIsCurrent

\* An edit of the pins during a build makes its stamp and the old one doubtful.
LEMMA EditInv ==
  ASSUME ToolInv, ToolTypeOK', Edit
  PROVE  ToolInv'
<1>1. /\ torn' = IF Builders # {} /\ pins' # pins THEN torn \cup Doubtful ELSE torn
      /\ moved' = moved \cup Active /\ verdict' = [s \in Shell |-> "none"]
      /\ UNCHANGED <<tools, stamp, generated, pc, computed, first>>
  BY DEF Edit, bin
<1>2. Builders' = Builders /\ Active' = Active /\ torn \subseteq torn'
  BY <1>1 DEF Builders, Active
<1>3. \A q \in Builders : computed[q] \in Doubtful
  BY AbsentAssumption DEF Doubtful, Builders, ToolInv, ToolTypeOK
<1>4. stamp # Absent => stamp \in Doubtful
  BY DEF Doubtful
<1>5. BuildsTrue'
  BY <1>1, <1>2, <1>3 DEF ToolInv, BuildsTrue
<1>6. StampBacked'
  BY <1>1, <1>2, <1>4 DEF ToolInv, StampBacked, BuiltFrom
<1>7. Undisturbed'
  BY <1>1, <1>2 DEF Undisturbed, Active
<1> QED
  BY <1>1, <1>5, <1>6, <1>7 DEF ToolInv, Pending, PassedIsCurrent

\* The invariant of bootstrap and generate-check holds in every reachable state.
THEOREM ToolInvariance == ToolSpec => []ToolInv
<1>1. ToolInv /\ [Develop]_toolVars => ToolInv'
  <2> SUFFICES ASSUME ToolInv, [Develop]_toolVars PROVE ToolInv'
    OBVIOUS
  <2>1. ToolTypeOK'
    BY ToolTypeStep DEF ToolInv
  <2>2. CASE UNCHANGED toolVars
    BY <2>2 DEF toolVars, src, bin, ToolInv, ToolTypeOK, BuildsTrue, StampBacked, BuiltFrom,
       Undisturbed, Pending, PassedIsCurrent, Builders, Active
  <2> QED
    BY <2>1, <2>2, StartCheckInv, CheckStampInv, BuildToolInv, EndBuildInv, GenerateInv,
       CompareInv, DieInv, CleanInv, EditInv DEF Develop
<1> QED
  BY ToolInitInv, <1>1, PTL DEF ToolSpec

\* bootstrap skips a build only if the tools are the pinned ones, and a check that
\* passed undisturbed says that the generated code is current (CheckedAsPinned),
\* for any tools, shells, versions and number of edits and faults.
THEOREM ChecksHold == ToolSpec => []CheckedAsPinned
<1>1. ToolInv => CheckedAsPinned
  BY BackedIsTrue DEF ToolInv, CheckedAsPinned
<1> QED
  BY ToolInvariance, <1>1, PTL

-----------------------------------------------------------------------------
(* Scanner *)

Entry  == [kind : {"table", "index"}, owner : Name \cup {NoEntry}]
Object == [id : Nat, schema : Schema, name : Name, kind : {"table", "index"}, table : Nat,
           named : BOOLEAN]

ScanTypes ==
  /\ relations \in [Name -> Entry \cup {NoEntry}]
  /\ catalog \subseteq Object
  /\ statements \in Nat

\* The catalog is that of a database: ids and names are unique, the server names no
\* table, and an index has its table, in its schema.
Catalogued ==
  /\ \A o \in catalog : o.id \in 1..statements
  /\ \A o, p \in catalog : o.id = p.id => o = p
  /\ \A o, p \in catalog : o.schema = p.schema /\ o.name = p.name => o = p
  /\ \A o \in catalog : o.kind = "table" => o.table = 0 /\ o.named
  /\ \A o \in catalog : o.kind = "index" =>
       \E t \in catalog : t.kind = "table" /\ t.id = o.table /\ t.schema = o.schema

\* The scanner knows what a public relation is, and by which name an index's table goes.
Described ==
  \A o \in catalog : o.schema = "public" /\ o.named =>
    /\ relations[o.name] # NoEntry /\ relations[o.name].kind = o.kind
    /\ \A t \in catalog : o.kind = "index" /\ t.id = o.table => relations[o.name].owner = t.name

\* As long as the scanner can follow the statements.
Followed == ScanTypes /\ Catalogued /\ Described /\ NamesAgree
ScanInv == outside = {} => Followed

LEMMA ScanInitInv == ScanInit => ScanInv
BY DEF ScanInit, ScanInv, Followed, ScanTypes, Catalogued, Described, NamesAgree

\* A new relation whose name is free in its schema; named is false if the server has
\* chosen its name, of which the scanner learns nothing.
LEMMA AddInv ==
  ASSUME Followed, NEW ref \in Reference, NEW kind \in {"table", "index"},
         NEW table \in Nat, NEW owner \in Name \cup {NoEntry}, NEW named \in BOOLEAN,
         Statement, At(ref) = {}, catalog' = Add(ref, kind, table, named),
         relations' = IF Public(ref) /\ named THEN Created(ref.name, kind, owner) ELSE relations,
         kind = "table" => table = 0 /\ named,
         kind = "index" =>
           \E t \in catalog : /\ t.kind = "table" /\ t.id = table /\ t.schema = ref.schema
                              /\ Public(ref) => owner = t.name
  PROVE  Followed'
<1> DEFINE o == [id |-> statements + 1, schema |-> ref.schema, name |-> ref.name,
                 kind |-> kind, table |-> table, named |-> named]
<1>1. /\ statements' = statements + 1 /\ statements \in Nat
      /\ catalog' = catalog \cup {o} /\ catalog \subseteq Object
      /\ ref.schema \in Schema /\ ref.name \in Name
  BY DEF Statement, Add, Followed, ScanTypes, Reference
<1>2. /\ o \in Object /\ o.id = statements + 1 /\ o.schema = ref.schema
      /\ o.name = ref.name /\ o.kind = kind /\ o.table = table /\ o.named = named
  BY <1>1 DEF Object
<1>3. \A p \in catalog : ~(p.schema = ref.schema /\ p.name = ref.name)
  BY DEF At
<1>4. /\ \A p \in catalog : p.id \in 1..statements /\ p.id # o.id /\ p.table # o.id
      /\ o.id # 0
  <2>1. \A p \in catalog : p.id \in 1..statements /\ p.id # o.id
    BY <1>1, <1>2 DEF Followed, Catalogued
  <2>2. \A p \in catalog : p.table = 0 \/ \E t \in catalog : t.id = p.table
    BY <1>1 DEF Followed, Catalogued, Object
  <2> QED
    BY <1>1, <1>2, <2>1, <2>2
<1> HIDE DEF o
<1>5. Public(ref) => relations[ref.name] = NoEntry
  BY <1>1, <1>3 DEF Followed, NamesAgree, Public
<1>6. \A n \in Name : relations'[n] =
        IF Public(ref) /\ named /\ n = ref.name THEN [kind |-> kind, owner |-> owner] ELSE relations[n]
  BY <1>1, <1>5 DEF Created, Followed, ScanTypes
<1>7. [kind |-> kind, owner |-> owner] \in Entry
  BY DEF Entry
<1>8. ScanTypes'
  BY <1>1, <1>2, <1>5, <1>7 DEF Followed, ScanTypes, Created
<1>9. Catalogued'
  <2>1. /\ \A p \in catalog' : p.id \in 1..statements'
        /\ \A p, q \in catalog' : p.id = q.id => p = q
    BY <1>1, <1>2, <1>4 DEF Followed, Catalogued
  <2>2. \A p, q \in catalog' : p.schema = q.schema /\ p.name = q.name => p = q
    BY <1>1, <1>2, <1>3 DEF Followed, Catalogued
  <2>3. \A p \in catalog' : p.kind = "table" => p.table = 0 /\ p.named
    BY <1>1, <1>2 DEF Followed, Catalogued
  <2>4. \A p \in catalog' : p.kind = "index" =>
          \E t \in catalog' : t.kind = "table" /\ t.id = p.table /\ t.schema = p.schema
    BY <1>1, <1>2 DEF Followed, Catalogued
  <2> QED
    BY <2>1, <2>2, <2>3, <2>4 DEF Catalogued
<1>10. Described'
  <2> SUFFICES ASSUME NEW p \in catalog', p.schema = "public" /\ p.named
               PROVE  /\ relations'[p.name] # NoEntry /\ relations'[p.name].kind = p.kind
                      /\ \A t \in catalog' : p.kind = "index" /\ t.id = p.table =>
                           relations'[p.name].owner = t.name
    BY DEF Described
  <2>1. p.name \in Name
    BY <1>1, <1>2 DEF Object
  <2>2. CASE p = o
    <3>1. Public(ref) /\ named /\ relations'[p.name] = [kind |-> kind, owner |-> owner]
      BY <1>2, <1>6, <2>1, <2>2 DEF Public
    <3>2. \A t \in catalog' : kind = "index" /\ t.id = table => owner = t.name
      BY <1>1, <1>2, <1>4, <3>1 DEF Followed, Catalogued
    <3> QED
      <4>1. [kind |-> kind, owner |-> owner] # NoEntry
        BY <1>7, EntryAssumption DEF Entry
      <4>2. p.kind = kind /\ p.table = table
        BY <1>2, <2>2
      <4>3. relations'[p.name].kind = kind /\ relations'[p.name].owner = owner
        BY <3>1
      <4>4. relations'[p.name] # NoEntry
        BY <3>1, <4>1
      <4> QED
        BY <3>2, <4>2, <4>3, <4>4
  <2>3. CASE p \in catalog
    <3>1. ~(Public(ref) /\ p.name = ref.name)
      BY <1>3, <2>3 DEF Public
    <3> QED
      BY <1>1, <1>4, <1>6, <2>1, <2>3, <3>1 DEF Followed, Described
  <2> QED
    BY <1>1, <2>2, <2>3
<1>11. NamesAgree'
  BY <1>1, <1>2, <1>6, <1>7, EntryAssumption DEF Followed, NamesAgree, Entry, Public
<1> QED
  BY <1>8, <1>9, <1>10, <1>11 DEF Followed

\* A statement that finds the name taken changes nothing.
LEMMA TakenInv ==
  ASSUME Followed, NEW ref \in Reference, Statement, At(ref) # {}, catalog' = catalog,
         NEW kind, NEW owner, \A o \in At(ref) : o.named,
         relations' = IF Public(ref) THEN Created(ref.name, kind, owner) ELSE relations
  PROVE  Followed'
<1>1. Public(ref) => relations[ref.name] # NoEntry
  BY DEF At, Followed, NamesAgree, Public, Reference
<1>2. relations' = relations /\ statements' = statements + 1
  BY <1>1 DEF Created, Statement
<1>3. Catalogued'
  BY <1>2 DEF Followed, ScanTypes, Catalogued
<1> QED
  BY <1>2, <1>3 DEF Followed, ScanTypes, Described, NamesAgree

LEMMA CreateInv ==
  ASSUME Followed, outside' = {},
         \/ \E ref \in Reference : CreateTable(ref)
         \/ \E n \in Name, on \in Reference : CreateIndex(n, on) \/ CreateUnnamed(n, on)
  PROVE  Followed'
<1>1. ASSUME NEW ref \in Reference, CreateTable(ref) PROVE Followed'
  <2>1. \A o \in At(ref) : o.named
    BY <1>1 DEF CreateTable, Outside, ServersName, At, Followed, ScanTypes, Object
  <2>2. CASE At(ref) = {}
    BY <1>1, <2>2, AddInv DEF CreateTable, AddNew
  <2>3. CASE At(ref) # {}
    BY <1>1, <2>1, <2>3, TakenInv DEF CreateTable, AddNew
  <2> QED
    BY <2>2, <2>3
<1>2. ASSUME NEW n \in Name, NEW on \in Reference, CreateIndex(n, on) \/ CreateUnnamed(n, on)
      PROVE  Followed'
  <2>1. PICK t \in Tables(on), ref \in Reference :
          /\ ref.schema = on.schema /\ ref.name = n /\ Statement
          /\ \/ /\ catalog' = AddNew(ref, "index", t.id) /\ Outside(ServersName(ref))
                /\ relations' = IF IndexPublic(on) THEN Created(n, "index", on.name) ELSE relations
             \/ /\ At(ref) = {} /\ catalog' = Add(ref, "index", t.id, FALSE)
                /\ relations' = relations
    BY <1>2 DEF CreateIndex, CreateUnnamed
  <2>2. /\ t \in catalog /\ t.kind = "table" /\ t.schema = on.schema /\ t.name = on.name
        /\ t.id \in Nat /\ on.name \in Name /\ (Public(ref) <=> IndexPublic(on))
    BY <2>1 DEF Tables, At, Followed, ScanTypes, Object, Reference, Public, IndexPublic
  <2>3. CASE At(ref) = {} /\ catalog' = Add(ref, "index", t.id, FALSE) /\ relations' = relations
    BY <2>1, <2>2, <2>3, AddInv
  <2>4. CASE /\ catalog' = AddNew(ref, "index", t.id) /\ Outside(ServersName(ref))
             /\ relations' = IF IndexPublic(on) THEN Created(n, "index", on.name) ELSE relations
    <3>1. \A o \in At(ref) : o.named
      BY <2>4 DEF Outside, ServersName, At, Followed, ScanTypes, Object
    <3>2. relations' = IF Public(ref) THEN Created(ref.name, "index", on.name) ELSE relations
      BY <2>1, <2>2, <2>4
    <3>3. CASE At(ref) = {}
      BY <2>1, <2>2, <2>4, <3>2, <3>3, AddInv DEF AddNew
    <3>4. CASE At(ref) # {}
      BY <2>1, <2>4, <3>1, <3>2, <3>4, TakenInv DEF AddNew
    <3> QED
      BY <3>3, <3>4
  <2> QED
    BY <2>1, <2>3, <2>4
<1> QED
  BY <1>1, <1>2

\* Dropping a table takes its indexes with it, in the database and in the map.
LEMMA DropInv ==
  ASSUME Followed, NEW kind \in {"table", "index"}, NEW refs \in SUBSET Reference,
         Drop(kind, refs)
  PROVE  Followed'
<1> DEFINE S == UNION {At(ref) : ref \in refs}
           N == {ref.name : ref \in {r \in refs : Public(r)}}
<1>1. /\ statements' = statements + 1
      /\ catalog' = {o \in catalog : o \notin S /\ \A t \in S : o.table # t.id}
      /\ relations' = Dropped(kind, N)
      /\ \A t \in S : t \in catalog /\ t.kind = kind
  BY DEF Drop, Statement, Without, At
<1>2. \A o \in catalog : o.schema = "public" => (o \in S <=> o.name \in N)
  BY DEF At, Public
<1>3. catalog' \subseteq catalog /\ catalog \subseteq Object
  BY <1>1 DEF Followed, ScanTypes
<1>4. \A n \in Name : relations'[n] =
        IF n \in N \/ (kind = "table" /\ \E t \in N : n \in Indexes(t))
        THEN NoEntry ELSE relations[n]
  BY <1>1 DEF Dropped
<1>5. relations' \in [Name -> Entry \cup {NoEntry}]
  BY <1>1 DEF Dropped, Followed, ScanTypes
<1> HIDE DEF S, N
\* A public relation goes from both or from none.
<1>6. ASSUME NEW o \in catalog, o.schema = "public" /\ o.named
      PROVE  o \in catalog' <=> relations'[o.name] # NoEntry
  <2>1. o.name \in Name /\ relations[o.name] # NoEntry /\ relations[o.name].kind = o.kind
    BY <1>3, <1>6 DEF Followed, Described, Object
  <2>2. CASE o \in S
    BY <1>1, <1>2, <1>4, <1>6, <2>1, <2>2
  <2>3. CASE o \notin S /\ o.kind = "table"
    <3>1. \A t \in S : o.table # t.id
      BY <1>1, <2>3 DEF Followed, Catalogued
    <3>2. \A t : o.name \notin Indexes(t)
      BY <2>1, <2>3 DEF Indexes
    <3> QED
      BY <1>1, <1>2, <1>4, <1>6, <2>1, <2>3, <3>1, <3>2
  <2>4. CASE o \notin S /\ o.kind = "index"
    <3>1. PICK t \in catalog : t.kind = "table" /\ t.id = o.table /\ t.schema = "public"
      BY <1>6, <2>4 DEF Followed, Catalogued
    <3>2. relations[o.name].owner = t.name
      BY <1>6, <2>4, <3>1 DEF Followed, Described
    <3>3. \A n : o.name \in Indexes(n) <=> n = t.name
      BY <2>1, <2>4, <3>2 DEF Indexes
    <3>4. (\E s \in S : o.table = s.id) <=> t \in S
      BY <1>1, <3>1 DEF Followed, Catalogued
    <3>5. t \in S <=> t.name \in N /\ kind = "table"
      BY <1>1, <1>2, <3>1
    <3> QED
      BY <1>1, <1>2, <1>4, <1>6, <2>1, <2>4, <3>3, <3>4, <3>5
  <2> QED
    BY <1>3, <2>2, <2>3, <2>4 DEF Object
<1>7. Catalogued'
  <2>1. \A o \in catalog' : o.kind = "index" =>
          \E t \in catalog' : t.kind = "table" /\ t.id = o.table /\ t.schema = o.schema
    <3> SUFFICES ASSUME NEW o \in catalog', o.kind = "index"
                 PROVE  \E t \in catalog' : t.kind = "table" /\ t.id = o.table /\ t.schema = o.schema
      OBVIOUS
    <3>1. PICK t \in catalog : t.kind = "table" /\ t.id = o.table /\ t.schema = o.schema
      BY <1>3 DEF Followed, Catalogued
    <3>2. t \notin S
      BY <1>1, <3>1
    <3>3. t.table = 0 /\ \A s \in S : s.id # 0
      BY <1>1, <3>1 DEF Followed, Catalogued
    <3> QED
      BY <1>1, <3>1, <3>2, <3>3
  <2> QED
    BY <1>1, <1>3, <2>1 DEF Followed, ScanTypes, Catalogued
<1>8. Described'
  <2> SUFFICES ASSUME NEW o \in catalog', o.schema = "public" /\ o.named
               PROVE  relations'[o.name] = relations[o.name] /\ relations'[o.name] # NoEntry
    BY <1>3 DEF Followed, Described
  <2> QED
    BY <1>3, <1>4, <1>6 DEF Object
<1>9. NamesAgree'
  <2> SUFFICES ASSUME NEW n \in Name
               PROVE  relations'[n] # NoEntry <=> \E o \in catalog' : o.schema = "public" /\ o.name = n /\ o.named
    BY DEF NamesAgree
  <2>1. ASSUME relations'[n] # NoEntry
        PROVE  \E o \in catalog' : o.schema = "public" /\ o.name = n /\ o.named
    <3>1. relations[n] # NoEntry
      BY <1>4, <2>1
    <3>2. PICK o \in catalog : o.schema = "public" /\ o.name = n /\ o.named
      BY <3>1 DEF Followed, NamesAgree
    <3> QED
      BY <1>6, <2>1, <3>2
  <2> QED
    BY <1>3, <1>6, <2>1
<1> QED
  BY <1>1, <1>3, <1>5, <1>7, <1>8, <1>9 DEF Followed, ScanTypes

LEMMA Reowned ==
  ASSUME NEW e \in Entry, NEW n \in Name
  PROVE  /\ [e EXCEPT !.owner = n] \in Entry /\ [e EXCEPT !.owner = n] # NoEntry
         /\ [e EXCEPT !.owner = n].kind = e.kind /\ [e EXCEPT !.owner = n].owner = n
<1>1. [e EXCEPT !.owner = n] \in Entry
  BY DEF Entry
<1> QED
  BY <1>1, EntryAssumption DEF Entry

\* A relation gets a new name, which nothing had.
LEMMA RenameInv ==
  ASSUME Followed, outside' = {}, NEW kind \in {"table", "index"}, NEW ref \in Reference,
         NEW to \in Name, Rename(kind, ref, to)
  PROVE  Followed'
<1>0. /\ At(ref) # {} /\ \A o \in At(ref) : o.named = TRUE
      /\ kind = "index" => Tables(ref) = {}
  BY DEF Rename, Outside, ServersName, At, Followed, ScanTypes, Object
<1>1. PICK x \in catalog : /\ At(ref) = {x} /\ x.schema = ref.schema /\ x.name = ref.name
                          /\ x.named = TRUE
  BY <1>0 DEF At, Followed, Catalogued
<1> DEFINE y == [x EXCEPT !.name = to, !.named = TRUE]
<1>2. /\ x \in Object /\ catalog \subseteq Object /\ ref.name \in Name
      /\ y \in Object /\ y.id = x.id /\ y.schema = x.schema /\ y.kind = x.kind
      /\ y.table = x.table /\ y.name = to /\ y.named
  BY <1>1 DEF Followed, ScanTypes, Object, Reference
<1> HIDE DEF y
<1>3. /\ statements' = statements + 1 /\ statements \in Nat
      /\ catalog' = (catalog \ {x}) \cup {y}
      /\ relations' = IF Public(ref) THEN Renamed(kind, ref.name, to) ELSE relations
      /\ \A o \in catalog : ~(o.schema = ref.schema /\ o.name = to)
      /\ kind = "index" => x.kind = "index"
  <2>1. catalog' = {IF o \in At(ref) THEN [o EXCEPT !.name = to, !.named = TRUE] ELSE o :
                      o \in catalog}
    BY DEF Rename
  <2>2. catalog' = {IF o = x THEN y ELSE o : o \in catalog}
    BY <1>1, <2>1 DEF y
  <2>3. \A o \in catalog : ~(o.schema = ref.schema /\ o.name = to)
    BY DEF Rename, At, Reference
  <2>4. kind = "index" => x.kind = "index"
    BY <1>0, <1>1, <1>2 DEF Tables, Object
  <2> QED
    BY <1>1, <2>2, <2>3, <2>4 DEF Rename, Statement, Followed, ScanTypes
<1>4. /\ to # ref.name
      /\ Public(ref) => relations[to] = NoEntry /\ relations[ref.name] # NoEntry
                        /\ relations[ref.name].kind = x.kind
  BY <1>1, <1>3 DEF Followed, NamesAgree, Described, Public
<1>5. Public(ref) => \A m \in Name : relations'[m] =
        IF m = to THEN relations[ref.name]
        ELSE IF m = ref.name THEN NoEntry
        ELSE IF kind = "table" /\ m \in Indexes(ref.name) THEN [relations[m] EXCEPT !.owner = to]
        ELSE relations[m]
  BY <1>3, <1>4 DEF Renamed
<1>6. \A m \in Name : \A n : m \in Indexes(n) => relations[m] \in Entry
  BY DEF Indexes, Followed, ScanTypes
<1>7. ScanTypes'
  <2>1. relations' \in [Name -> Entry \cup {NoEntry}]
    <3>1. CASE ~Public(ref)
      BY <1>3, <3>1 DEF Followed, ScanTypes
    <3>2. CASE Public(ref)
      <4>1. relations' = Renamed(kind, ref.name, to)
        BY <1>3, <3>2
      <4>2. ASSUME NEW m \in Name PROVE relations'[m] \in Entry \cup {NoEntry}
        <5>1. relations[m] \in Entry \cup {NoEntry} /\ relations[ref.name] \in Entry \cup {NoEntry}
          BY <1>2 DEF Followed, ScanTypes
        <5>2. m \in Indexes(ref.name) => [relations[m] EXCEPT !.owner = to] \in Entry
          BY <1>6, Reowned
        <5> QED
          BY <1>5, <3>2, <5>1, <5>2
      <4>3. DOMAIN relations' = Name /\ relations' = [m \in Name |-> relations'[m]]
        BY <1>4, <3>2, <4>1 DEF Renamed
      <4> QED
        BY <4>2, <4>3
    <3> QED
      BY <3>1, <3>2
  <2> QED
    BY <1>2, <1>3, <2>1 DEF ScanTypes
<1>8. Catalogued'
  <2>1. /\ \A o \in catalog' : o.id \in 1..statements'
        /\ \A o, p \in catalog' : o.id = p.id => o = p
        /\ \A o \in catalog' : o.kind = "table" => o.table = 0 /\ o.named
    BY <1>2, <1>3 DEF Followed, Catalogued
  <2>2. \A o, p \in catalog' : o.schema = p.schema /\ o.name = p.name => o = p
    BY <1>1, <1>2, <1>3 DEF Followed, Catalogued
  <2>3. \A o \in catalog' : o.kind = "index" =>
          \E t \in catalog' : t.kind = "table" /\ t.id = o.table /\ t.schema = o.schema
    <3> SUFFICES ASSUME NEW o \in catalog', o.kind = "index"
                 PROVE  \E t \in catalog' : t.kind = "table" /\ t.id = o.table /\ t.schema = o.schema
      OBVIOUS
    <3>1. PICK o0 \in catalog : o0.kind = "index" /\ o0.table = o.table /\ o0.schema = o.schema
      BY <1>2, <1>3
    <3>2. PICK t \in catalog : t.kind = "table" /\ t.id = o.table /\ t.schema = o.schema
      BY <3>1 DEF Followed, Catalogued
    <3> QED
      BY <1>2, <1>3, <3>2
  <2> QED
    BY <2>1, <2>2, <2>3 DEF Catalogued
<1>9. Described'
  <2> SUFFICES ASSUME NEW o \in catalog', o.schema = "public" /\ o.named
               PROVE  /\ relations'[o.name] # NoEntry /\ relations'[o.name].kind = o.kind
                      /\ \A t \in catalog' : o.kind = "index" /\ t.id = o.table =>
                           relations'[o.name].owner = t.name
    BY DEF Described
  \* What o was before, which had its index's table by its old name.
  <2>1. PICK o0 \in catalog : /\ o0.id = o.id /\ o0.schema = o.schema /\ o0.kind = o.kind
                              /\ o0.table = o.table /\ o = (IF o0 = x THEN y ELSE o0)
                              /\ o0.named
    BY <1>1, <1>2, <1>3
  <2>2. /\ relations[o0.name] # NoEntry /\ relations[o0.name].kind = o.kind
        /\ \A t \in catalog : o.kind = "index" /\ t.id = o.table => relations[o0.name].owner = t.name
        /\ o0.name \in Name
    <3>1. o0.schema = "public" /\ o0.named
      BY <2>1
    <3> QED
      BY <1>2, <2>1, <3>1 DEF Followed, Described, Object
  <2>3. o0 # x /\ Public(ref) => o0.name # ref.name /\ o0.name # to
    BY <1>1, <1>3, <2>1 DEF Followed, Catalogued, Public
  <2>4. CASE ~Public(ref)
    <3>1. o0 # x
      BY <1>1, <2>1, <2>4 DEF Public
    <3>2. \A t \in catalog' : o.kind = "index" /\ t.id = o.table => t \in catalog
      <4>1. SUFFICES ASSUME o.kind = "index", y.id = o.table PROVE FALSE
        BY <1>3
      <4>2. PICK t \in catalog : t.id = o.table /\ t.schema = o.schema
        BY <2>1, <4>1 DEF Followed, Catalogued
      <4>3. t.id = x.id
        BY <1>2, <4>1, <4>2
      <4>4. t = x
        BY <4>3 DEF Followed, Catalogued
      <4> QED
        BY <1>1, <2>4, <4>2, <4>4 DEF Public
    <3> QED
      BY <1>3, <2>1, <2>2, <2>4, <3>1, <3>2
  <2>5. CASE Public(ref) /\ o.kind = "table"
    <3>1. ~(o0.name \in Indexes(ref.name))
      BY <2>2, <2>5 DEF Indexes
    <3> QED
      <4>1. relations'[o.name] = relations[o0.name]
        <5>1. CASE o0 = x
          BY <1>1, <1>2, <1>5, <2>1, <2>5, <5>1
        <5>2. CASE o0 # x
          BY <1>5, <2>1, <2>2, <2>3, <2>5, <3>1, <5>2
        <5> QED
          BY <5>1, <5>2
      <4> QED
        BY <2>2, <2>5, <4>1
  <2>6. CASE Public(ref) /\ o.kind = "index"
    <3>1. PICK t \in catalog : t.kind = "table" /\ t.id = o.table /\ t.schema = "public"
      BY <2>1, <2>6 DEF Followed, Catalogued
    <3>2. relations[o0.name].owner = t.name /\ t # o0
      BY <2>1, <2>2, <2>6, <3>1
    <3>3. \A s \in catalog' : s.id = o.table => s = (IF t = x THEN y ELSE t)
      BY <1>2, <1>3, <3>1 DEF Followed, Catalogued
    <3>4. o0.name \in Indexes(ref.name) <=> t = x
      BY <1>1, <2>2, <2>6, <3>1, <3>2 DEF Indexes, Followed, Catalogued, Public
    <3>5. CASE t = x
      <4>1. kind = "table" /\ o0 # x
        BY <1>3, <3>1, <3>2, <3>5
      <4>2. relations'[o0.name] = [relations[o0.name] EXCEPT !.owner = to]
        BY <1>5, <2>2, <2>3, <2>6, <3>4, <3>5, <4>1
      <4>3. relations[o0.name] \in Entry
        BY <1>6, <2>2, <3>4, <3>5
      <4>4. /\ relations'[o0.name] # NoEntry /\ relations'[o0.name].kind = o.kind
            /\ relations'[o0.name].owner = to
        BY <2>2, <4>2, <4>3, Reowned
      <4> QED
        BY <1>2, <2>1, <3>3, <3>5, <4>1, <4>4
    <3>6. CASE t # x
      <4>1. relations'[o.name] = relations[o0.name]
        <5>1. CASE o0 = x
          BY <1>1, <1>2, <1>5, <2>1, <2>6, <5>1
        <5>2. CASE o0 # x
          BY <1>5, <2>1, <2>2, <2>3, <2>6, <3>4, <3>6, <5>2
        <5> QED
          BY <5>1, <5>2
      <4> QED
        BY <2>2, <3>2, <3>3, <3>6, <4>1
    <3> QED
      BY <3>5, <3>6
  <2> QED
    BY <1>2, <1>3, <2>4, <2>5, <2>6 DEF Object
<1>10. NamesAgree'
  <2> SUFFICES ASSUME NEW n \in Name
               PROVE  relations'[n] # NoEntry <=> \E o \in catalog' : o.schema = "public" /\ o.name = n /\ o.named
    BY DEF NamesAgree
  <2>1. CASE ~Public(ref)
    BY <1>1, <1>2, <1>3, <2>1 DEF Followed, NamesAgree, Public
  <2>2. CASE Public(ref) /\ n = to
    BY <1>1, <1>2, <1>3, <1>4, <1>5, <2>2 DEF Public
  <2>3. CASE Public(ref) /\ n = ref.name
    <3>1. \A o \in catalog' : ~(o.schema = "public" /\ o.name = n /\ o.named)
      BY <1>1, <1>2, <1>3, <1>4, <2>3 DEF Followed, Catalogued, Public
    <3> QED
      BY <1>4, <1>5, <2>3, <3>1
  <2>4. CASE Public(ref) /\ n # to /\ n # ref.name
    <3>1. relations'[n] # NoEntry <=> relations[n] # NoEntry
      <4>1. CASE n \in Indexes(ref.name) /\ kind = "table"
        <5>1. relations[n] \in Entry
          BY <1>6, <4>1
        <5>2. [relations[n] EXCEPT !.owner = to] # NoEntry /\ relations[n] # NoEntry
          BY <5>1, Reowned, EntryAssumption DEF Entry
        <5> QED
          BY <1>5, <2>4, <4>1, <5>2
      <4> QED
        BY <1>5, <2>4, <4>1
    <3>2. (\E o \in catalog' : o.schema = "public" /\ o.name = n /\ o.named) <=>
            (\E o \in catalog : o.schema = "public" /\ o.name = n /\ o.named)
      BY <1>1, <1>2, <1>3, <2>4
    <3> QED
      BY <3>1, <3>2 DEF Followed, NamesAgree
  <2> QED
    BY <2>1, <2>2, <2>3, <2>4
<1> QED
  BY <1>7, <1>8, <1>9, <1>10 DEF Followed

\* After any number of statements that the scanner can follow it knows the names that
\* they have given in schema public and no others, for any identifiers.
THEOREM ScannerAgrees == ScanSpec => []ScanAgrees
<1>1. ScanInv /\ [Scan]_scanVars => ScanInv'
  <2> SUFFICES ASSUME ScanInv, [Scan]_scanVars, outside' = {} PROVE Followed'
    BY DEF ScanInv
  <2>1. CASE UNCHANGED scanVars
    BY <2>1 DEF scanVars, ScanInv, Followed, ScanTypes, Catalogued, Described, NamesAgree
  <2>2. ASSUME Scan PROVE Followed
    <3>1. outside \subseteq outside'
      BY <2>2 DEF Scan, CreateTable, CreateIndex, CreateUnnamed, Drop, Rename, SetSchema,
                  Outside
    <3> QED
      BY <3>1 DEF ScanInv
  <2>3. ASSUME NEW kind \in {"table", "index"}, NEW a \in Reference, NEW b \in Reference,
               Scan, Drop(kind, {a, b})
        PROVE  Followed'
    <3>1. {a, b} \in SUBSET Reference
      OBVIOUS
    <3> QED
      BY <2>2, <2>3, <3>1, DropInv
  <2>4. ASSUME NEW ref \in Reference, NEW schema \in Schema, SetSchema(ref, schema) PROVE FALSE
    BY <2>4 DEF SetSchema, Outside
  <2> QED
    BY <2>1, <2>2, <2>3, <2>4, CreateInv, RenameInv DEF Scan
<1>2. ScanInv => ScanAgrees
  BY DEF ScanInv, Followed, ScanAgrees
<1> QED
  BY ScanInitInv, <1>1, <1>2, PTL DEF ScanSpec

-----------------------------------------------------------------------------
(* strip *)

\* Begin i has no end yet.
Unpaired(P, s, i) == s[i].kind = "begin" /\ \A p \in P : p[1] # i

\* The blocks of a file of which no more is known than s: its ends have their begins,
\* and no block is around a begin that has no end yet.
Partials(s) ==
  {P \in SUBSET Pairs(s) :
     /\ \A p, q \in P : (p # q => Apart(p, q)) /\ ~Crossed(p, q)
     /\ \A i \in DOMAIN s : s[i].kind = "end" => \E p \in P : p[2] = i
     /\ \A i \in DOMAIN s : Unpaired(P, s, i) => \A p \in P : ~(p[1] < i /\ i < p[2])}

\* The stack holds the begins that have no end yet, from left to right.
Opens(P, o) ==
  /\ \A k \in 1..Len(stack) : Unpaired(P, lines, o[k]) /\ lines[o[k]].name = stack[k]
  /\ \A j, k \in 1..Len(stack) : j < k => o[j] < o[k]
  /\ \A i \in DOMAIN lines : Unpaired(P, lines, i) => \E k \in 1..Len(stack) : o[k] = i

OpenLeaving == {k \in 1..Len(stack) : stack[k] \in Leaving}

\* Line i is text in no block that goes.
Written(P, o, i) ==
  /\ lines[i].kind = "text"
  /\ \A p \in P : p[1] < i /\ i < p[2] => lines[p[1]].name \notin Leaving
  /\ \A k \in OpenLeaving : i < o[k]

\* There is one way to pair what has been read, and the stack and the output are of it.
Follows(P, o) ==
  /\ Partials(lines) = {P} /\ Opens(P, o)
  /\ \A i \in DOMAIN lines : i \in Range(out) <=> Written(P, o, i)

StripInv ==
  /\ chosen \subseteq Slice /\ lines \in Seq(Line) /\ result \in {"reading", "done", "error"}
  /\ stack \in Seq(Slice \cup Derived \cup {"init"})
  /\ skipping = Cardinality(OpenLeaving)
  /\ out \in Seq(1..Len(lines)) /\ \A j, k \in DOMAIN out : j < k => out[j] < out[k]
  /\ result = "error" => Blocks(lines) = {}
  /\ result # "error" =>
       \E P \in SUBSET Pairs(lines), o \in [1..Len(stack) -> 1..Len(lines)] : Follows(P, o)
  /\ result = "done" => stack = <<>>

\* Two places of a file.
LEMMA PlacesOf ==
  ASSUME NEW n \in Nat, NEW s, DOMAIN s = 1..n, NEW p \in Pairs(s)
  PROVE  /\ p = <<p[1], p[2]>> /\ p[1] \in 1..n /\ p[2] \in 1..n /\ p[1] < p[2]
         /\ s[p[1]].kind = "begin" /\ s[p[2]].kind = "end" /\ s[p[1]].name = s[p[2]].name
         /\ Known(s[p[1]].name)
BY DEF Pairs

\* What may pair in a file that is a line longer.
LEMMA PairsGrow ==
  ASSUME NEW n \in Nat, NEW s, NEW t, DOMAIN s = 1..n, DOMAIN t = 1..(n + 1),
         \A i \in 1..n : t[i] = s[i]
  PROVE  /\ Pairs(s) = {p \in Pairs(t) : p[2] # n + 1}
         /\ t[n + 1].kind # "end" => Pairs(t) = Pairs(s)
<1>1. ASSUME NEW p \in Pairs(s) PROVE p \in Pairs(t) /\ p[2] # n + 1
  <2>1. p = <<p[1], p[2]>> /\ p[1] \in 1..n /\ p[2] \in 1..n
    BY PlacesOf
  <2>2. p[1] \in 1..(n + 1) /\ p[2] \in 1..(n + 1) /\ p[2] # n + 1
    BY <2>1
  <2>3. p \in (DOMAIN t) \X (DOMAIN t)
    BY <2>1, <2>2
  <2> QED
    BY <2>1, <2>2, <2>3 DEF Pairs
<1>2. ASSUME NEW p \in Pairs(t), p[2] # n + 1 PROVE p \in Pairs(s)
  <2>1. p = <<p[1], p[2]>> /\ p[1] \in 1..(n + 1) /\ p[2] \in 1..(n + 1) /\ p[1] < p[2]
    BY PlacesOf
  <2>2. p[1] \in 1..n /\ p[2] \in 1..n
    BY <1>2, <2>1
  <2>3. p \in (DOMAIN s) \X (DOMAIN s)
    BY <2>1, <2>2
  <2> QED
    BY <2>2, <2>3 DEF Pairs
<1>3. t[n + 1].kind # "end" => \A p \in Pairs(t) : p[2] # n + 1
  BY PlacesOf
<1> QED
  BY <1>1, <1>2, <1>3

\* Text and a begin leave what has been paired as it is.
LEMMA PartialsKept ==
  ASSUME NEW n \in Nat, NEW s, NEW t, DOMAIN s = 1..n, DOMAIN t = 1..(n + 1),
         \A i \in 1..n : t[i] = s[i], t[n + 1].kind # "end"
  PROVE  Partials(t) = Partials(s)
<1>1. Pairs(t) = Pairs(s)
  BY PairsGrow
<1>2. ASSUME NEW P \in SUBSET Pairs(s)
      PROVE  /\ (\A i \in DOMAIN s : s[i].kind = "end" => \E p \in P : p[2] = i)
                  <=> (\A i \in DOMAIN t : t[i].kind = "end" => \E p \in P : p[2] = i)
             /\ (\A i \in DOMAIN s : Unpaired(P, s, i) => \A p \in P : ~(p[1] < i /\ i < p[2]))
                  <=> (\A i \in DOMAIN t : Unpaired(P, t, i) => \A p \in P : ~(p[1] < i /\ i < p[2]))
  <2>1. \A i \in 1..(n + 1) : i \in 1..n \/ i = n + 1
    OBVIOUS
  <2>2. \A i \in 1..n : i \in 1..(n + 1) /\ (Unpaired(P, t, i) <=> Unpaired(P, s, i))
    BY DEF Unpaired
  <2>3. \A p \in P : ~(n + 1 < p[2])
    BY PlacesOf
  <2> QED
    BY <2>1, <2>2, <2>3
<1> QED
  BY <1>1, <1>2 DEF Partials

\* The end that follows s has the name of a, the last begin that has none in P.
Closes(P, s, a, name) ==
  /\ Unpaired(P, s, a) /\ s[a].name = name /\ Known(name)
  /\ \A i \in DOMAIN s : Unpaired(P, s, i) => i <= a

\* An end takes the last begin that has none, and that is the only way to pair it.
LEMMA EndPairs ==
  ASSUME NEW n \in Nat, NEW s, NEW t, DOMAIN s = 1..n, DOMAIN t = 1..(n + 1),
         \A i \in 1..n : t[i] = s[i], t[n + 1].kind = "end", NEW Q \in Partials(t)
  PROVE  \E a \in 1..n : \E P \in Partials(s) :
           Q = P \cup {<<a, n + 1>>} /\ Closes(P, s, a, t[n + 1].name)
<1>1. /\ Q \subseteq Pairs(t)
      /\ \A p, q \in Q : (p # q => Apart(p, q)) /\ ~Crossed(p, q)
      /\ \A i \in 1..(n + 1) : t[i].kind = "end" => \E p \in Q : p[2] = i
      /\ \A i \in 1..(n + 1) : Unpaired(Q, t, i) => \A p \in Q : ~(p[1] < i /\ i < p[2])
  BY DEF Partials
<1>2. n + 1 \in 1..(n + 1)
  OBVIOUS
<1>3. PICK z \in Q : z[2] = n + 1
  BY <1>1, <1>2
<1>4. PICK a \in 1..n : z = <<a, n + 1>>
  <2>1. z = <<z[1], z[2]>> /\ z[1] \in 1..(n + 1) /\ z[1] < z[2]
    BY <1>1, PlacesOf
  <2>2. z[1] \in 1..n
    BY <1>3, <2>1
  <2> QED
    BY <1>3, <2>1, <2>2
<1> DEFINE P == Q \ {z}
<1>5. \A p \in P : p \in Pairs(s) /\ p[1] # a /\ p[2] # n + 1
  <2>1. \A p \in P : p[1] # a /\ p[2] # n + 1
    BY <1>1, <1>3, <1>4 DEF Apart
  <2>2. Pairs(s) = {p \in Pairs(t) : p[2] # n + 1}
    BY PairsGrow
  <2>3. \A p \in P : p \in Pairs(t)
    BY <1>1
  <2> HIDE DEF P
  <2> QED
    BY <2>1, <2>2, <2>3
<1>6. \A p \in P : p[1] \in 1..n /\ p[2] \in 1..n /\ p[1] < p[2]
  BY <1>5, PlacesOf
<1>7. s[a].kind = "begin" /\ s[a].name = t[n + 1].name /\ Known(s[a].name)
  <2>1. z \in Pairs(t) /\ z[1] = a /\ z[2] = n + 1
    BY <1>1, <1>4
  <2> QED
    BY <2>1, PlacesOf
<1>8. Unpaired(P, s, a)
  BY <1>5, <1>7 DEF Unpaired
<1>9. ASSUME NEW i \in 1..n, Unpaired(P, s, i)
      PROVE  /\ \A p \in P : ~(p[1] < i /\ i < p[2])
             /\ i <= a
  <2>1. CASE i = a
    <3>1. \A p \in P : ~Crossed(p, z)
      BY <1>1
    <3>2. \A p \in P : ~(p[1] < a /\ a < p[2])
      BY <1>4, <1>6, <3>1 DEF Crossed
    <3> QED
      BY <2>1, <3>2
  <2>2. CASE i # a
    <3>1. Unpaired(Q, t, i) /\ i \in 1..(n + 1)
      BY <1>4, <1>9, <2>2 DEF Unpaired
    <3>2. \A p \in Q : ~(p[1] < i /\ i < p[2])
      BY <1>1, <3>1
    <3>3. ~(a < i /\ i < n + 1)
      BY <1>4, <3>2
    <3> QED
      BY <3>2, <3>3
  <2> QED
    BY <2>1, <2>2
<1>10. ASSUME NEW i \in 1..n, s[i].kind = "end" PROVE \E p \in P : p[2] = i
  <2>1. i \in 1..(n + 1) /\ t[i].kind = "end" /\ i # n + 1
    BY <1>10
  <2> QED
    BY <1>1, <1>3, <2>1
<1>11. P \in Partials(s)
  BY <1>1, <1>5, <1>9, <1>10 DEF Partials
<1>12. Q = P \cup {<<a, n + 1>>}
  BY <1>4
<1>13. Closes(P, s, a, t[n + 1].name)
  BY <1>7, <1>8, <1>9 DEF Closes
<1> HIDE DEF P
<1> QED
  BY <1>11, <1>12, <1>13

LEMMA EndPaired ==
  ASSUME NEW n \in Nat, NEW s, NEW t, DOMAIN s = 1..n, DOMAIN t = 1..(n + 1),
         \A i \in 1..n : t[i] = s[i], t[n + 1].kind = "end",
         NEW P \in Partials(s), NEW a \in 1..n, Closes(P, s, a, t[n + 1].name)
  PROVE  P \cup {<<a, n + 1>>} \in Partials(t)
<1> DEFINE z == <<a, n + 1>>
           Q == P \cup {z}
<1> USE DEF Closes
<1>1. /\ P \subseteq Pairs(s)
      /\ \A p, q \in P : (p # q => Apart(p, q)) /\ ~Crossed(p, q)
      /\ \A i \in 1..n : s[i].kind = "end" => \E p \in P : p[2] = i
      /\ \A i \in 1..n : Unpaired(P, s, i) => \A p \in P : ~(p[1] < i /\ i < p[2])
  BY DEF Partials
<1>2. \A p \in P : p[1] \in 1..n /\ p[2] \in 1..n /\ p[1] < p[2] /\ p[1] # a
  BY <1>1, PlacesOf DEF Unpaired
<1>3. z \in Pairs(t) /\ z[1] = a /\ z[2] = n + 1
  <2>1. a \in 1..(n + 1) /\ n + 1 \in 1..(n + 1) /\ a < n + 1
    OBVIOUS
  <2>2. z \in (DOMAIN t) \X (DOMAIN t)
    BY <2>1
  <2> QED
    BY <2>1, <2>2 DEF Pairs, Unpaired
<1>4. Q \subseteq Pairs(t)
  <2>1. Pairs(s) = {p \in Pairs(t) : p[2] # n + 1}
    BY PairsGrow
  <2> QED
    BY <1>1, <1>3, <2>1
<1>5. \A p \in P : Apart(p, z) /\ Apart(z, p) /\ ~Crossed(z, p) /\ ~Crossed(p, z)
  <2>1. ASSUME NEW p \in P PROVE Apart(p, z) /\ Apart(z, p) /\ ~Crossed(z, p)
    BY <1>2, <1>3 DEF Apart, Crossed
  <2>2. ASSUME NEW p \in P PROVE ~Crossed(p, z)
    BY <1>1, <1>3 DEF Crossed
  <2> QED
    BY <2>1, <2>2
<1>6. ~Crossed(z, z)
  BY <1>3 DEF Crossed
<1>7. \A p, q \in Q : (p # q => Apart(p, q)) /\ ~Crossed(p, q)
  BY <1>1, <1>5, <1>6
<1>8. ASSUME NEW i \in 1..(n + 1), t[i].kind = "end" PROVE \E p \in Q : p[2] = i
  <2>1. CASE i = n + 1
    BY <1>3, <2>1
  <2>2. CASE i # n + 1
    <3>1. i \in 1..n /\ s[i].kind = "end"
      BY <1>8, <2>2
    <3> QED
      BY <1>1, <3>1
  <2> QED
    BY <2>1, <2>2
<1>9. ASSUME NEW i \in 1..(n + 1), Unpaired(Q, t, i) PROVE \A p \in Q : ~(p[1] < i /\ i < p[2])
  <2>1. i # n + 1 /\ i # a
    BY <1>3, <1>9 DEF Unpaired
  <2>2. i \in 1..n
    BY <2>1
  <2>3. Unpaired(P, s, i)
    BY <1>9, <2>2 DEF Unpaired
  <2>4. i <= a
    BY <2>2, <2>3
  <2> QED
    BY <1>1, <1>3, <2>2, <2>3, <2>4
<1> QED
  BY <1>4, <1>7, <1>8, <1>9 DEF Partials

\* The end that t adds to s closes block <<a, n + 1>>, and s pairs in one way.
EndsOnce(n, s, t, P, a) ==
  /\ DOMAIN s = 1..n /\ DOMAIN t = 1..(n + 1) /\ \A i \in 1..n : t[i] = s[i]
  /\ t[n + 1].kind = "end" /\ Partials(s) = {P} /\ Closes(P, s, a, t[n + 1].name)

LEMMA EndPairsOnce ==
  ASSUME NEW n \in Nat, NEW s, NEW t, NEW P, NEW a \in 1..n, EndsOnce(n, s, t, P, a)
  PROVE  Partials(t) = {P \cup {<<a, n + 1>>}}
<1>0. /\ DOMAIN s = 1..n /\ DOMAIN t = 1..(n + 1) /\ \A i \in 1..n : t[i] = s[i]
      /\ t[n + 1].kind = "end"
  BY DEF EndsOnce
<1>1. P \in Partials(s) /\ \A S \in Partials(s) : S = P
  <2>1. Partials(s) = {P}
    BY DEF EndsOnce
  <2> QED
    BY <2>1
<1>2. Closes(P, s, a, t[n + 1].name)
  BY DEF EndsOnce
<1>3. P \cup {<<a, n + 1>>} \in Partials(t)
  BY <1>0, <1>1, <1>2, EndPaired
<1>4. ASSUME NEW Q \in Partials(t) PROVE Q = P \cup {<<a, n + 1>>}
  <2>1. \E b \in 1..n : \E S \in Partials(s) :
          Q = S \cup {<<b, n + 1>>} /\ Closes(S, s, b, t[n + 1].name)
    BY <1>0, EndPairs
  <2>2. PICK b \in 1..n : Q = P \cup {<<b, n + 1>>} /\ Closes(P, s, b, t[n + 1].name)
    BY <1>1, <2>1
  <2>3. b <= a /\ a <= b
    BY <1>0, <1>2, <2>2 DEF Closes
  <2>4. b = a
    BY <2>3
  <2> QED
    BY <2>2, <2>4
<1> QED
  BY <1>3, <1>4

\* A line has been read.
LEMMA LineRead ==
  ASSUME StripInv, NEW l \in Line, Read(l)
  PROVE  /\ Len(lines) \in Nat /\ DOMAIN lines = 1..Len(lines)
         /\ lines' \in Seq(Line) /\ Len(lines') = Len(lines) + 1
         /\ DOMAIN lines' = 1..(Len(lines) + 1) /\ Len(lines) + 1 \in 1..(Len(lines) + 1)
         /\ \A i \in 1..Len(lines) : lines'[i] = lines[i] /\ i \in 1..(Len(lines) + 1)
         /\ lines'[Len(lines) + 1] = l
         /\ chosen' = chosen /\ Leaving' = Leaving /\ result = "reading"
         /\ \E P \in SUBSET Pairs(lines), o \in [1..Len(stack) -> 1..Len(lines)] : Follows(P, o)
<1>1. lines \in Seq(Line) /\ lines' = Append(lines, l)
  BY DEF StripInv, Read
<1>2. chosen' = chosen /\ Leaving' = Leaving /\ result = "reading"
  BY DEF Read, Leaving
<1>3. \E P \in SUBSET Pairs(lines), o \in [1..Len(stack) -> 1..Len(lines)] : Follows(P, o)
  BY <1>2 DEF StripInv
<1> QED
  BY <1>1, <1>2, <1>3

\* What is open, and what is written.
LEMMA OpenFacts ==
  ASSUME StripInv
  PROVE  /\ Len(stack) \in Nat /\ DOMAIN stack = 1..Len(stack)
         /\ \A k \in 1..Len(stack) : Known(stack[k])
         /\ IsFiniteSet(OpenLeaving) /\ OpenLeaving \subseteq 1..Len(stack)
         /\ skipping \in Nat /\ (skipping = 0 <=> OpenLeaving = {})
         /\ \A i \in Range(out) : i \in 1..Len(lines)
<1>1. stack \in Seq(Slice \cup Derived \cup {"init"}) /\ out \in Seq(1..Len(lines))
      /\ skipping = Cardinality(OpenLeaving)
  BY DEF StripInv
<1>2. Len(stack) \in Nat /\ DOMAIN stack = 1..Len(stack) /\ \A k \in 1..Len(stack) : Known(stack[k])
  BY <1>1 DEF Known
<1>3. OpenLeaving \subseteq 1..Len(stack)
  BY DEF OpenLeaving
<1>4. IsFiniteSet(OpenLeaving)
  <2>1. IsFiniteSet(1..Len(stack))
    BY <1>2, FS_Interval
  <2> QED
    BY <1>3, <2>1, FS_Subset
<1>5. skipping \in Nat /\ (skipping = 0 <=> OpenLeaving = {})
  BY <1>1, <1>4, FS_CardinalityType, FS_EmptySet
<1>6. \A i \in Range(out) : i \in 1..Len(lines)
  BY <1>1 DEF Range
<1> QED
  BY <1>1, <1>2, <1>3, <1>4, <1>5, <1>6

\* Lines read before are in the same blocks.
LEMMA WrittenBefore ==
  ASSUME StripInv, NEW l \in Line, Read(l), NEW P \in SUBSET Pairs(lines),
         NEW i \in 1..Len(lines)
  PROVE  (lines[i].kind = "text" /\ \A p \in P : p[1] < i /\ i < p[2] => lines[p[1]].name \notin Leaving)
           <=> (/\ lines'[i].kind = "text"
                /\ \A p \in P : p[1] < i /\ i < p[2] => lines'[p[1]].name \notin Leaving')
<1>1. \A p \in P : p[1] \in 1..Len(lines)
  BY LineRead, PlacesOf
<1> QED
  BY <1>1, LineRead

LEMMA TextStep ==
  ASSUME StripInv, Text
  PROVE  StripInv'
<1> DEFINE l == [kind |-> "text", name |-> ""]
<1>0. PICK n \in Nat : n = Len(lines)
  BY DEF StripInv
<1>1. Read(l) /\ l \in Line /\ stack' = stack /\ skipping' = skipping /\ result' = result
      /\ out' = IF skipping = 0 THEN Append(out, n + 1) ELSE out
  BY <1>0 DEF Text, Line
<1>2. PICK P \in SUBSET Pairs(lines), o \in [1..Len(stack) -> 1..n] : Follows(P, o)
  BY <1>0, <1>1, LineRead
<1>3. /\ n \in Nat /\ DOMAIN lines = 1..n /\ lines' \in Seq(Line) /\ Len(lines') = n + 1
      /\ DOMAIN lines' = 1..(n + 1) /\ n + 1 \in 1..(n + 1)
      /\ \A i \in 1..n : lines'[i] = lines[i] /\ i \in 1..(n + 1)
      /\ lines'[n + 1].kind = "text" /\ chosen' = chosen /\ Leaving' = Leaving
      /\ result = "reading"
  <2>1. lines'[n + 1] = l
    BY <1>0, <1>1, LineRead
  <2>2. l.kind = "text"
    OBVIOUS
  <2> HIDE DEF l
  <2>3. lines'[n + 1].kind = "text"
    BY <2>1, <2>2
  <2> QED
    BY <1>0, <1>1, <2>3, LineRead
<1> HIDE DEF l
<1>4. OpenLeaving' = OpenLeaving
  BY <1>1, <1>3 DEF OpenLeaving
<1>5. out' \in Seq(1..Len(lines')) /\ (\A j, k \in DOMAIN out' : j < k => out'[j] < out'[k])
      /\ Range(out') = IF skipping = 0 THEN Range(out) \cup {n + 1} ELSE Range(out)
  <2>1. out \in Seq(1..n) /\ \A j, k \in DOMAIN out : j < k => out[j] < out[k]
    BY <1>0 DEF StripInv
  <2>2. out \in Seq(1..(n + 1))
    BY <1>3, <2>1
  <2>3. CASE skipping = 0
    <3>1. /\ Len(out) \in Nat /\ DOMAIN out = 1..Len(out) /\ DOMAIN out' = 1..(Len(out) + 1)
          /\ \A j \in 1..Len(out) : out'[j] = out[j] /\ out[j] \in 1..n
          /\ out'[Len(out) + 1] = n + 1 /\ out' \in Seq(1..(n + 1))
      BY <1>1, <1>3, <2>1, <2>2, <2>3
    <3>2. ASSUME NEW j \in DOMAIN out', NEW k \in DOMAIN out', j < k PROVE out'[j] < out'[k]
      <4>1. j \in 1..Len(out)
        BY <3>1, <3>2
      <4>2. CASE k \in 1..Len(out)
        BY <2>1, <3>1, <3>2, <4>1, <4>2
      <4>3. CASE k = Len(out) + 1
        BY <1>3, <3>1, <4>1, <4>3
      <4> QED
        BY <3>1, <4>2, <4>3
    <3>3. Range(out') = Range(out) \cup {n + 1}
      BY <3>1 DEF Range
    <3> QED
      BY <1>3, <2>3, <3>1, <3>2, <3>3
  <2>4. CASE skipping # 0
    BY <1>1, <1>3, <2>1, <2>2, <2>4
  <2> QED
    BY <2>3, <2>4
<1>6. P \in SUBSET Pairs(lines') /\ o \in [1..Len(stack') -> 1..Len(lines')]
  BY <1>1, <1>2, <1>3, PairsGrow
<1>7. Follows(P, o)'
  <2>1. Partials(lines') = {P}
    BY <1>2, <1>3, PartialsKept DEF Follows
  <2>2. Opens(P, o)'
    <3>1. \A i \in 1..n : Unpaired(P, lines, i) <=> Unpaired(P, lines', i)
      BY <1>3 DEF Unpaired
    <3>2. ~Unpaired(P, lines', n + 1)
      BY <1>3 DEF Unpaired
    <3>3. \A i \in 1..(n + 1) : i \in 1..n \/ i = n + 1
      BY <1>3
    <3> QED
      BY <1>1, <1>2, <1>3, <3>1, <3>2, <3>3 DEF Opens, Follows
  <2>3. ASSUME NEW i \in 1..(n + 1) PROVE i \in Range(out') <=> Written(P, o, i)'
    <3>1. CASE i \in 1..n
      <4>1. i \in Range(out') <=> i \in Range(out)
        BY <1>3, <1>5, <3>1
      <4>2. i \in Range(out) <=> Written(P, o, i)
        BY <1>2, <1>3, <3>1 DEF Follows
      <4>3. Written(P, o, i)' <=> Written(P, o, i)
        BY <1>0, <1>1, <1>4, <3>1, WrittenBefore DEF Written
      <4> QED
        BY <4>1, <4>2, <4>3
    <3>2. CASE i = n + 1
      <4>1. n + 1 \in Range(out') <=> skipping = 0
        BY <1>0, <1>3, <1>5, OpenFacts
      <4>2. \A p \in P : ~(n + 1 < p[2])
        BY <1>3, PlacesOf
      <4>3. \A k \in OpenLeaving : ~(n + 1 < o[k])
        BY <1>3, OpenFacts
      <4>4. Written(P, o, n + 1)' <=> OpenLeaving = {}
        <5>1. lines'[n + 1].kind = "text"
          BY <1>3
        <5>2. (\A k \in OpenLeaving' : n + 1 < o[k]) <=> OpenLeaving = {}
          BY <1>4, <4>3
        <5> QED
          BY <4>2, <5>1, <5>2 DEF Written
      <4>5. skipping = 0 <=> OpenLeaving = {}
        BY OpenFacts
      <4> QED
        BY <3>2, <4>1, <4>4, <4>5
    <3> QED
      BY <1>3, <3>1, <3>2
  <2> QED
    BY <1>3, <2>1, <2>2, <2>3 DEF Follows
<1>8. \E R \in SUBSET Pairs(lines'), u \in [1..Len(stack') -> 1..Len(lines')] : Follows(R, u)'
  BY <1>6, <1>7
<1> QED
  BY <1>1, <1>3, <1>4, <1>5, <1>8 DEF StripInv

LEMMA BeginStep ==
  ASSUME StripInv, NEW name, Begin(name)
  PROVE  StripInv'
<1> DEFINE l == [kind |-> "begin", name |-> name]
<1>0. PICK n \in Nat, m \in Nat : n = Len(lines) /\ m = Len(stack)
  BY DEF StripInv
<1>1. /\ Known(name) /\ Read(l) /\ l \in Line /\ stack' = Append(stack, name)
      /\ skipping' = (IF name \in Leaving THEN skipping + 1 ELSE skipping)
      /\ out' = out /\ result' = result
  BY DEF Begin, Line, Marker, Known
<1>2. PICK P \in SUBSET Pairs(lines), o \in [1..m -> 1..n] : Follows(P, o)
  BY <1>0, <1>1, LineRead
<1>3. /\ DOMAIN lines = 1..n /\ lines' \in Seq(Line) /\ Len(lines') = n + 1
      /\ DOMAIN lines' = 1..(n + 1) /\ n + 1 \in 1..(n + 1)
      /\ \A i \in 1..n : lines'[i] = lines[i] /\ i \in 1..(n + 1)
      /\ lines'[n + 1].kind = "begin" /\ lines'[n + 1].name = name
      /\ chosen' = chosen /\ Leaving' = Leaving /\ result = "reading"
  <2>1. lines'[n + 1] = l
    BY <1>0, <1>1, LineRead
  <2>2. l.kind = "begin" /\ l.name = name
    OBVIOUS
  <2> HIDE DEF l
  <2> QED
    BY <1>0, <1>1, <2>1, <2>2, LineRead
<1> HIDE DEF l
<1>4. /\ stack' \in Seq(Slice \cup Derived \cup {"init"}) /\ Len(stack') = m + 1
      /\ \A k \in 1..m : stack'[k] = stack[k] /\ k \in 1..(m + 1)
      /\ stack'[m + 1] = name /\ m + 1 \in 1..(m + 1)
  <2>1. stack \in Seq(Slice \cup Derived \cup {"init"}) /\ name \in Slice \cup Derived \cup {"init"}
    BY <1>1 DEF StripInv, Known
  <2> QED
    BY <1>0, <1>1, <2>1
<1>5. OpenLeaving' = IF name \in Leaving THEN OpenLeaving \cup {m + 1} ELSE OpenLeaving
  <2>1. \A k \in 1..(m + 1) : k \in 1..m \/ k = m + 1
    OBVIOUS
  <2> QED
    BY <1>0, <1>3, <1>4, <2>1 DEF OpenLeaving
<1>6. skipping' = Cardinality(OpenLeaving')
  <2>1. IsFiniteSet(OpenLeaving) /\ m + 1 \notin OpenLeaving
    BY <1>0, OpenFacts
  <2>2. skipping = Cardinality(OpenLeaving)
    BY DEF StripInv
  <2> QED
    BY <1>1, <1>5, <2>1, <2>2, FS_AddElement
<1>7. out' \in Seq(1..Len(lines')) /\ (\A j, k \in DOMAIN out' : j < k => out'[j] < out'[k])
  <2>1. out \in Seq(1..n) /\ \A j, k \in DOMAIN out : j < k => out[j] < out[k]
    BY <1>0 DEF StripInv
  <2>2. out \in Seq(1..(n + 1))
    BY <1>3, <2>1
  <2> QED
    BY <1>1, <1>3, <2>1, <2>2
<1>8. PICK u \in [1..(m + 1) -> 1..(n + 1)] : (\A k \in 1..m : u[k] = o[k]) /\ u[m + 1] = n + 1
  <2> DEFINE v == [k \in 1..(m + 1) |-> IF k = m + 1 THEN n + 1 ELSE o[k]]
  <2>1. \A k \in 1..(m + 1) : k # m + 1 => k \in 1..m
    OBVIOUS
  <2>2. v \in [1..(m + 1) -> 1..(n + 1)]
    BY <1>3, <2>1
  <2>3. (\A k \in 1..m : v[k] = o[k]) /\ v[m + 1] = n + 1
    BY <1>4
  <2> QED
    BY <2>2, <2>3
<1>9. Follows(P, u)'
  <2>1. Partials(lines') = {P}
    <3>1. lines'[n + 1].kind # "end"
      BY <1>3
    <3>2. Partials(lines') = Partials(lines)
      BY <1>3, <3>1, PartialsKept
    <3> QED
      BY <1>2, <3>2 DEF Follows
  <2>2. Opens(P, o)
    BY <1>2 DEF Follows
  <2>3. \A i \in 1..n : Unpaired(P, lines, i) <=> Unpaired(P, lines', i)
    BY <1>3 DEF Unpaired
  <2>4. Unpaired(P, lines', n + 1)
    <3>1. \A p \in P : p[1] # n + 1
      BY <1>3, PlacesOf
    <3> QED
      BY <1>3, <3>1 DEF Unpaired
  <2>5. Opens(P, u)'
    <3>1. ASSUME NEW k \in 1..(m + 1)
          PROVE  Unpaired(P, lines', u[k]) /\ lines'[u[k]].name = stack'[k]
      <4>1. CASE k \in 1..m
        <5>1. u[k] = o[k] /\ o[k] \in 1..n /\ stack'[k] = stack[k]
          BY <1>4, <1>8, <4>1
        <5>2. Unpaired(P, lines, o[k]) /\ lines[o[k]].name = stack[k]
          BY <1>0, <2>2, <4>1 DEF Opens
        <5> QED
          BY <1>3, <2>3, <5>1, <5>2
      <4>2. CASE k = m + 1
        BY <1>3, <1>4, <1>8, <2>4, <4>2
      <4> QED
        BY <4>1, <4>2
    <3>2. ASSUME NEW j \in 1..(m + 1), NEW k \in 1..(m + 1), j < k PROVE u[j] < u[k]
      <4>1. j \in 1..m /\ u[j] = o[j] /\ o[j] \in 1..n
        BY <1>8, <3>2
      <4>2. CASE k \in 1..m
        BY <1>0, <1>8, <2>2, <3>2, <4>1, <4>2 DEF Opens
      <4>3. CASE k = m + 1
        BY <1>8, <4>1, <4>3
      <4> QED
        BY <4>2, <4>3
    <3>3. ASSUME NEW i \in 1..(n + 1), Unpaired(P, lines', i) PROVE \E k \in 1..(m + 1) : u[k] = i
      <4>1. CASE i \in 1..n
        <5>1. PICK k \in 1..m : o[k] = i
          BY <1>0, <1>3, <2>2, <2>3, <3>3, <4>1 DEF Opens
        <5> QED
          BY <1>4, <1>8, <5>1
      <4>2. CASE i = n + 1
        BY <1>4, <1>8, <4>2
      <4> QED
        BY <4>1, <4>2
    <3> QED
      BY <1>3, <1>4, <3>1, <3>2, <3>3 DEF Opens
  <2>6. ASSUME NEW i \in 1..(n + 1) PROVE i \in Range(out') <=> Written(P, u, i)'
    <3>1. CASE i \in 1..n
      <4>1. i \in Range(out) <=> Written(P, o, i)
        BY <1>2, <1>3, <3>1 DEF Follows
      <4>2. \A k \in OpenLeaving : k \in 1..m /\ u[k] = o[k]
        BY <1>0, <1>8, OpenFacts
      <4>3. (\A k \in OpenLeaving' : i < u[k]) <=> (\A k \in OpenLeaving : i < o[k])
        BY <1>5, <1>8, <3>1, <4>2
      <4>4. Written(P, u, i)' <=> Written(P, o, i)
        BY <1>0, <1>1, <3>1, <4>3, WrittenBefore DEF Written
      <4> QED
        BY <1>1, <4>1, <4>4
    <3>2. CASE i = n + 1
      <4>1. n + 1 \notin Range(out)
        BY <1>0, OpenFacts
      <4>2. ~Written(P, u, i)'
        BY <1>3, <3>2 DEF Written
      <4> QED
        BY <1>1, <3>2, <4>1, <4>2
    <3> QED
      BY <3>1, <3>2
  <2> QED
    BY <1>3, <2>1, <2>5, <2>6 DEF Follows
<1>10. P \in SUBSET Pairs(lines') /\ u \in [1..Len(stack') -> 1..Len(lines')]
  BY <1>3, <1>4, PairsGrow
<1>11. \E R \in SUBSET Pairs(lines'), v \in [1..Len(stack') -> 1..Len(lines')] : Follows(R, v)'
  BY <1>9, <1>10
<1> QED
  BY <1>1, <1>3, <1>4, <1>6, <1>7, <1>11 DEF StripInv

\* The last open begin is the one the stack ends with.
LEMMA LastOpen ==
  ASSUME StripInv, NEW P \in SUBSET Pairs(lines),
         NEW o \in [1..Len(stack) -> 1..Len(lines)], Follows(P, o),
         NEW a \in 1..Len(lines), Unpaired(P, lines, a)
  PROVE  /\ Len(stack) >= 1 /\ o[Len(stack)] \in 1..Len(lines)
         /\ (\A i \in DOMAIN lines : Unpaired(P, lines, i) => i <= a) <=> a = o[Len(stack)]
         /\ stack[Len(stack)] = lines[o[Len(stack)]].name
<1>1. PICK n \in Nat, m \in Nat : n = Len(lines) /\ m = Len(stack) /\ DOMAIN lines = 1..n
  BY DEF StripInv
<1>2. Opens(P, o)
  BY DEF Follows
<1>3. PICK j \in 1..m : o[j] = a
  BY <1>1, <1>2 DEF Opens
<1>4. m \in 1..m /\ o[m] \in 1..n /\ Unpaired(P, lines, o[m]) /\ stack[m] = lines[o[m]].name
  BY <1>1, <1>2, <1>3 DEF Opens
<1>5. \A k \in 1..m : o[k] <= o[m]
  <2> SUFFICES ASSUME NEW k \in 1..m PROVE o[k] <= o[m]
    OBVIOUS
  <2>1. o[k] \in 1..n
    BY <1>1
  <2>2. k = m \/ k < m
    OBVIOUS
  <2> QED
    BY <1>1, <1>2, <1>4, <2>1, <2>2 DEF Opens
<1>6. \A i \in 1..n : Unpaired(P, lines, i) => i <= o[m]
  BY <1>1, <1>2, <1>5 DEF Opens
<1>7. a <= o[m] /\ (o[m] <= a => a = o[m])
  BY <1>1, <1>3, <1>4, <1>5
<1> QED
  BY <1>1, <1>4, <1>6, <1>7

LEMMA EndStep ==
  ASSUME StripInv, NEW name, End(name)
  PROVE  StripInv'
<1> DEFINE l == [kind |-> "end", name |-> name]
<1>0. PICK n \in Nat, m \in Nat : n = Len(lines) /\ m = Len(stack)
  BY DEF StripInv
<1>1. /\ Open(name) /\ Read(l) /\ stack' = Front(stack)
      /\ skipping' = (IF name \in Leaving THEN skipping - 1 ELSE skipping)
      /\ out' = out /\ result' = result
  BY DEF End, ShownAfter
<1>2. /\ m >= 1 /\ m \in 1..m /\ stack[m] = name /\ Known(name)
  <2>1. stack # <<>> /\ stack[m] = name /\ stack \in Seq(Slice \cup Derived \cup {"init"})
    BY <1>0, <1>1 DEF Open, Last, StripInv
  <2>2. m >= 1 /\ m \in 1..m
    BY <1>0, <2>1
  <2> QED
    BY <1>0, <2>1, <2>2, OpenFacts
<1>3. l \in Line
  BY <1>2 DEF Line, Marker, Known
<1>4. PICK P \in SUBSET Pairs(lines), o \in [1..m -> 1..n] : Follows(P, o)
  BY <1>0, <1>1, <1>3, LineRead
<1>5. /\ DOMAIN lines = 1..n /\ lines' \in Seq(Line) /\ Len(lines') = n + 1
      /\ DOMAIN lines' = 1..(n + 1) /\ n + 1 \in 1..(n + 1)
      /\ \A i \in 1..n : lines'[i] = lines[i] /\ i \in 1..(n + 1)
      /\ lines'[n + 1].kind = "end" /\ lines'[n + 1].name = name
      /\ chosen' = chosen /\ Leaving' = Leaving /\ result = "reading"
  <2>1. lines'[n + 1] = l
    BY <1>0, <1>1, <1>3, LineRead
  <2>2. l.kind = "end" /\ l.name = name
    OBVIOUS
  <2> HIDE DEF l
  <2> QED
    BY <1>0, <1>1, <1>3, <2>1, <2>2, LineRead
<1> HIDE DEF l
<1>6. /\ stack' \in Seq(Slice \cup Derived \cup {"init"}) /\ Len(stack') = m - 1
      /\ \A k \in 1..(m - 1) : stack'[k] = stack[k] /\ k \in 1..m
      /\ m - 1 \in Nat
  <2>1. stack \in Seq(Slice \cup Derived \cup {"init"}) /\ stack' = SubSeq(stack, 1, m - 1)
    BY <1>0, <1>1 DEF StripInv, Front
  <2>2. m - 1 \in Nat
    BY <1>2
  <2> QED
    BY <1>0, <1>2, <2>1, <2>2
<1>7. OpenLeaving' = OpenLeaving \ {m} /\ (m \in OpenLeaving <=> name \in Leaving)
  <2>1. \A k \in 1..m : k \in 1..(m - 1) \/ k = m
    OBVIOUS
  <2>2. m \notin 1..(m - 1)
    OBVIOUS
  <2>3. OpenLeaving' = {k \in 1..(m - 1) : stack[k] \in Leaving}
    BY <1>5, <1>6 DEF OpenLeaving
  <2>4. OpenLeaving = {k \in 1..m : stack[k] \in Leaving}
    BY <1>0 DEF OpenLeaving
  <2> QED
    BY <1>2, <1>6, <2>1, <2>2, <2>3, <2>4
<1>8. skipping' = Cardinality(OpenLeaving')
  <2>1. IsFiniteSet(OpenLeaving) /\ skipping = Cardinality(OpenLeaving)
    BY OpenFacts DEF StripInv
  <2> QED
    BY <1>1, <1>7, <2>1, FS_RemoveElement
<1>9. out' \in Seq(1..Len(lines')) /\ (\A j, k \in DOMAIN out' : j < k => out'[j] < out'[k])
  <2>1. out \in Seq(1..n) /\ \A j, k \in DOMAIN out : j < k => out[j] < out[k]
    BY <1>0 DEF StripInv
  <2>2. out \in Seq(1..(n + 1))
    BY <1>5, <2>1
  <2> QED
    BY <1>1, <1>5, <2>1, <2>2
<1>10. Opens(P, o) /\ Partials(lines) = {P}
  BY <1>4 DEF Follows
<1>11. PICK a \in 1..n : a = o[m] /\ Unpaired(P, lines, a) /\ lines[a].name = name
  BY <1>0, <1>2, <1>10 DEF Opens
<1>12. \A b \in 1..n : Unpaired(P, lines, b) =>
         ((\A i \in DOMAIN lines : Unpaired(P, lines, i) => i <= b) <=> b = a)
  BY <1>0, <1>4, <1>11, LastOpen
<1> DEFINE z == <<a, n + 1>>
           R == P \cup {z}
<1>13. Partials(lines') = {R}
  <2>1. \A i \in DOMAIN lines : Unpaired(P, lines, i) => i <= a
    BY <1>11, <1>12
  <2>2. lines'[n + 1].kind = "end" /\ Closes(P, lines, a, lines'[n + 1].name)
    BY <1>2, <1>5, <1>11, <2>1 DEF Closes
  <2> HIDE DEF R
  <2>3. Partials(lines') = {P \cup {<<a, n + 1>>}}
    <3>1. PICK t : t = lines'
      OBVIOUS
    <3>2. EndsOnce(n, lines, t, P, a)
      BY <1>5, <1>10, <2>2, <3>1 DEF EndsOnce
    <3>3. Partials(t) = {P \cup {<<a, n + 1>>}}
      BY <3>2, EndPairsOnce
    <3> QED
      BY <3>1, <3>3
  <2> QED
    BY <2>3 DEF R
<1>14. R \in SUBSET Pairs(lines')
  BY <1>13 DEF Partials
<1>a. z[1] = a /\ z[2] = n + 1 /\ R = P \cup {z}
  OBVIOUS
<1> HIDE DEF z, R
<1>15. PICK u \in [1..(m - 1) -> 1..(n + 1)] : \A k \in 1..(m - 1) : u[k] = o[k]
  <2> DEFINE v == [k \in 1..(m - 1) |-> o[k]]
  <2>1. v \in [1..(m - 1) -> 1..(n + 1)]
    BY <1>5, <1>6
  <2> QED
    BY <2>1
<1>16. \A i \in 1..n : Unpaired(R, lines', i) <=> Unpaired(P, lines, i) /\ i # a
  BY <1>5, <1>a DEF Unpaired
<1>17. Opens(R, u)'
  <2>1. ASSUME NEW k \in 1..(m - 1)
        PROVE  /\ Unpaired(R, lines', u[k]) /\ lines'[u[k]].name = stack'[k]
               /\ u[k] = o[k] /\ o[k] \in 1..n
    <3>1. k \in 1..m /\ k < m /\ u[k] = o[k] /\ o[k] \in 1..n /\ stack'[k] = stack[k]
      BY <1>6, <1>15
    <3>2. Unpaired(P, lines, o[k]) /\ lines[o[k]].name = stack[k] /\ o[k] < o[m]
      BY <1>0, <1>2, <1>10, <3>1 DEF Opens
    <3>3. o[k] # a
      BY <1>11, <3>1, <3>2
    <3>4. Unpaired(R, lines', o[k]) /\ lines'[o[k]].name = stack[k]
      BY <1>5, <1>16, <3>1, <3>2, <3>3
    <3> QED
      BY <3>1, <3>4
  <2>2. ASSUME NEW j \in 1..(m - 1), NEW k \in 1..(m - 1), j < k PROVE u[j] < u[k]
    <3>1. j \in 1..m /\ k \in 1..m
      BY <1>6
    <3> QED
      BY <1>0, <1>10, <1>15, <2>2, <3>1 DEF Opens
  <2>3. ASSUME NEW i \in 1..(n + 1), Unpaired(R, lines', i) PROVE \E k \in 1..(m - 1) : u[k] = i
    <3>1. i \in 1..n
      <4>1. i # n + 1
        BY <1>5, <2>3 DEF Unpaired
      <4> QED
        BY <4>1
    <3>2. Unpaired(P, lines, i) /\ i # a
      BY <1>16, <2>3, <3>1
    <3>3. PICK k \in 1..m : o[k] = i
      BY <1>0, <1>5, <1>10, <3>1, <3>2 DEF Opens
    <3>4. k \in 1..(m - 1)
      BY <1>11, <3>2, <3>3
    <3> QED
      BY <1>15, <3>3, <3>4
  <2> QED
    BY <1>5, <1>6, <2>1, <2>2, <2>3 DEF Opens
<1>18. ASSUME NEW i \in 1..(n + 1) PROVE i \in Range(out') <=> Written(R, u, i)'
  <2>1. CASE i \in 1..n /\ lines[i].kind = "text"
    <3>1. i \in Range(out) <=> Written(P, o, i)
      BY <1>4, <1>5, <2>1 DEF Follows
    <3>2. i # a /\ i < n + 1
      BY <1>11, <2>1 DEF Unpaired
    <3>3. (\A k \in OpenLeaving : i < o[k]) <=>
            (\A k \in OpenLeaving' : i < u[k]) /\ (name \in Leaving => i < a)
      <4>1. \A k \in OpenLeaving' : k \in 1..(m - 1) /\ u[k] = o[k] /\ k \in OpenLeaving
        <5>1. OpenLeaving' \subseteq 1..(m - 1)
          BY <1>6 DEF OpenLeaving
        <5> QED
          BY <1>7, <1>15, <5>1
      <4>2. \A k \in OpenLeaving : k \in OpenLeaving' \/ k = m
        BY <1>7
      <4> QED
        BY <1>7, <1>11, <4>1, <4>2
    <3>4. (\A p \in R : p[1] < i /\ i < p[2] => lines'[p[1]].name \notin Leaving') <=>
            /\ \A p \in P : p[1] < i /\ i < p[2] => lines'[p[1]].name \notin Leaving'
            /\ a < i => name \notin Leaving
      <4>1. lines'[a].name = name
        BY <1>5, <1>11
      <4> QED
        BY <1>5, <1>a, <3>2, <4>1
    <3>5. i < a <=> ~(a < i)
      BY <3>2
    <3>6. lines'[i].kind = "text"
      BY <1>5, <2>1
    <3>7. (\A p \in P : p[1] < i /\ i < p[2] => lines[p[1]].name \notin Leaving)
            <=> (\A p \in P : p[1] < i /\ i < p[2] => lines'[p[1]].name \notin Leaving')
      BY <1>0, <1>1, <1>3, <2>1, <3>6, WrittenBefore
    <3>8. Written(R, u, i)' <=> Written(P, o, i)
      BY <2>1, <3>3, <3>4, <3>5, <3>6, <3>7 DEF Written
    <3> QED
      BY <1>1, <3>1, <3>8
  <2>2. CASE i \in 1..n /\ lines[i].kind # "text"
    <3>1. i \in Range(out) <=> Written(P, o, i)
      BY <1>4, <1>5, <2>2 DEF Follows
    <3> QED
      BY <1>1, <1>5, <2>2, <3>1 DEF Written
  <2>3. CASE i = n + 1
    <3>1. n + 1 \notin Range(out)
      BY <1>0, OpenFacts
    <3>2. ~Written(R, u, i)'
      BY <1>5, <2>3 DEF Written
    <3> QED
      BY <1>1, <2>3, <3>1, <3>2
  <2>4. i \in 1..n \/ i = n + 1
    OBVIOUS
  <2> QED
    BY <2>1, <2>2, <2>3, <2>4
<1>19. Follows(R, u)'
  BY <1>5, <1>13, <1>17, <1>18 DEF Follows
<1>20. \E S \in SUBSET Pairs(lines'), v \in [1..Len(stack') -> 1..Len(lines')] : Follows(S, v)'
  BY <1>5, <1>6, <1>14, <1>15, <1>19
<1> QED
  BY <1>1, <1>5, <1>6, <1>8, <1>9, <1>20 DEF StripInv

\* The blocks of a file are a way to pair all of it.
LEMMA BlocksArePartial ==
  ASSUME NEW n \in Nat, NEW s, DOMAIN s = 1..n, NEW B \in Blocks(s)
  PROVE  B \in Partials(s) /\ \A i \in 1..n : ~Unpaired(B, s, i)
<1>1. /\ B \subseteq Pairs(s)
      /\ \A p, q \in B : (p # q => Apart(p, q)) /\ ~Crossed(p, q)
      /\ \A i \in 1..n : s[i].kind # "text" => \E p \in B : i \in {p[1], p[2]}
  BY DEF Blocks
<1>2. ASSUME NEW i \in 1..n, s[i].kind = "end" PROVE \E p \in B : p[2] = i
  BY <1>1, <1>2, PlacesOf
<1>3. ASSUME NEW i \in 1..n PROVE ~Unpaired(B, s, i)
  BY <1>1, PlacesOf DEF Unpaired
<1> QED
  BY <1>1, <1>2, <1>3 DEF Partials

LEMMA BadMarkerStep ==
  ASSUME StripInv, NEW l \in Marker, BadMarker(l)
  PROVE  StripInv'
<1>0. PICK n \in Nat, m \in Nat : n = Len(lines) /\ m = Len(stack)
  BY DEF StripInv
<1>1. /\ Read(l) /\ l \in Line /\ result' = "error" /\ stack' = stack /\ skipping' = skipping
      /\ out' = out /\ (~Known(l.name) \/ (l.kind = "end" /\ ~Open(l.name)))
  BY DEF BadMarker, Line
<1>2. /\ DOMAIN lines = 1..n /\ lines' \in Seq(Line) /\ Len(lines') = n + 1
      /\ DOMAIN lines' = 1..(n + 1) /\ n + 1 \in 1..(n + 1)
      /\ \A i \in 1..n : lines'[i] = lines[i] /\ i \in 1..(n + 1)
      /\ lines'[n + 1] = l /\ chosen' = chosen /\ Leaving' = Leaving /\ result = "reading"
  BY <1>0, <1>1, LineRead
<1>3. PICK P \in SUBSET Pairs(lines), o \in [1..m -> 1..n] : Follows(P, o)
  BY <1>0, <1>1, LineRead
<1>4. ASSUME NEW B \in Blocks(lines') PROVE FALSE
  <2>1. l.kind # "text"
    BY DEF Marker
  <2>2. PICK p \in B : n + 1 \in {p[1], p[2]}
    BY <1>2, <2>1 DEF Blocks
  <2>3. p \in Pairs(lines')
    BY DEF Blocks
  <2>4. Known(l.name)
    BY <1>2, <2>2, <2>3, PlacesOf
  <2>5. l.kind = "end" /\ ~Open(l.name)
    BY <1>1, <2>4
  <2>6. B \in Partials(lines')
    BY <1>2, BlocksArePartial
  <2>7. PICK a \in 1..n : \E S \in Partials(lines) : Closes(S, lines, a, l.name)
    BY <1>2, <2>5, <2>6, EndPairs
  <2>8. /\ Unpaired(P, lines, a) /\ lines[a].name = l.name
        /\ \A i \in DOMAIN lines : Unpaired(P, lines, i) => i <= a
    BY <1>3, <2>7 DEF Follows, Closes
  <2>9. m >= 1 /\ a = o[m] /\ stack[m] = lines[o[m]].name
    BY <1>0, <1>3, <2>8, LastOpen
  <2>10. Open(l.name)
    <3>1. stack # <<>>
      BY <1>0, <2>9
    <3> QED
      BY <1>0, <2>8, <2>9, <3>1 DEF Open, Last
  <2> QED
    BY <2>5, <2>10
<1>5. Blocks(lines') = {}
  BY <1>4
<1>6. out' \in Seq(1..Len(lines')) /\ (\A j, k \in DOMAIN out' : j < k => out'[j] < out'[k])
  <2>1. out \in Seq(1..n) /\ \A j, k \in DOMAIN out : j < k => out[j] < out[k]
    BY <1>0 DEF StripInv
  <2>2. out \in Seq(1..(n + 1))
    BY <1>2, <2>1
  <2> QED
    BY <1>1, <1>2, <2>1, <2>2
<1>7. OpenLeaving' = OpenLeaving
  BY <1>1, <1>2 DEF OpenLeaving
<1> QED
  BY <1>1, <1>2, <1>5, <1>6, <1>7 DEF StripInv

LEMMA EndOfFileStep ==
  ASSUME StripInv, EndOfFile
  PROVE  StripInv'
<1>0. PICK n \in Nat, m \in Nat : n = Len(lines) /\ m = Len(stack) /\ DOMAIN lines = 1..n
  BY DEF StripInv
<1>1. /\ chosen' = chosen /\ lines' = lines /\ stack' = stack /\ skipping' = skipping
      /\ out' = out /\ Leaving' = Leaving /\ OpenLeaving' = OpenLeaving
      /\ result = "reading" /\ result' = IF stack = <<>> THEN "done" ELSE "error"
  BY DEF EndOfFile, Leaving, OpenLeaving
<1>2. PICK P \in SUBSET Pairs(lines), o \in [1..m -> 1..n] : Follows(P, o)
  BY <1>0, <1>1 DEF StripInv
<1>3. Follows(P, o)'
  BY <1>1, <1>2 DEF Follows, Opens, Written
<1>4. ASSUME stack # <<>> PROVE Blocks(lines') = {}
  <2>1. 1 \in 1..m
    BY <1>0, <1>4, OpenFacts DEF StripInv
  <2>2. o[1] \in 1..n /\ Unpaired(P, lines, o[1])
    BY <1>0, <1>2, <2>1 DEF Follows, Opens
  <2>3. ASSUME NEW B \in Blocks(lines) PROVE FALSE
    <3>1. B \in Partials(lines) /\ ~Unpaired(B, lines, o[1])
      BY <1>0, <2>2, BlocksArePartial
    <3> QED
      BY <1>2, <2>2, <3>1 DEF Follows
  <2> QED
    BY <1>1, <2>3
<1>5. result' # "error" =>
        \E R \in SUBSET Pairs(lines'), v \in [1..Len(stack') -> 1..Len(lines')] : Follows(R, v)'
  BY <1>0, <1>1, <1>3
<1> QED
  BY <1>1, <1>4, <1>5 DEF StripInv

LEMMA StripInitInv == TransformInit => StripInv
<1> SUFFICES ASSUME TransformInit PROVE StripInv
  OBVIOUS
<1>1. chosen \in SUBSET Slice /\ lines = <<>> /\ stack = <<>> /\ skipping = 0 /\ out = <<>>
      /\ result = "reading"
  BY DEF TransformInit
<1>2. /\ Len(lines) = 0 /\ Len(stack) = 0 /\ DOMAIN lines = {} /\ DOMAIN out = {}
      /\ 1..Len(stack) = {} /\ 1..Len(lines) = {}
  BY <1>1
<1>3. OpenLeaving = {} /\ Cardinality(OpenLeaving) = 0
  BY <1>2, FS_EmptySet DEF OpenLeaving
<1>4. Pairs(lines) = {}
  BY <1>2 DEF Pairs
<1>5. Partials(lines) = {{}}
  <2>1. Partials(lines) \subseteq {{}}
    BY <1>4 DEF Partials
  <2>2. {} \in Partials(lines)
    BY <1>2 DEF Partials
  <2> QED
    BY <2>1, <2>2
<1>6. {} \in SUBSET Pairs(lines) /\ [k \in {} |-> 0] \in [1..Len(stack) -> 1..Len(lines)]
  BY <1>2
<1>7. Follows({}, [k \in {} |-> 0])
  <2>1. Opens({}, [k \in {} |-> 0])
    BY <1>2 DEF Opens
  <2> QED
    BY <1>2, <1>5, <2>1 DEF Follows
<1>8. lines \in Seq(Line) /\ stack \in Seq(Slice \cup Derived \cup {"init"}) /\ out \in Seq(1..Len(lines))
  BY <1>1
<1> QED
  BY <1>1, <1>2, <1>3, <1>6, <1>7, <1>8 DEF StripInv

LEMMA StripStill ==
  ASSUME StripInv, UNCHANGED stripVars
  PROVE  StripInv'
<1>1. /\ chosen' = chosen /\ lines' = lines /\ stack' = stack /\ skipping' = skipping
      /\ out' = out /\ result' = result /\ Leaving' = Leaving
  BY DEF stripVars, Leaving
<1>2. OpenLeaving' = OpenLeaving /\ (Blocks(lines) = {} => Blocks(lines') = {})
  BY <1>1 DEF OpenLeaving
<1>3. result' # "error" =>
        \E P \in SUBSET Pairs(lines'), o \in [1..Len(stack') -> 1..Len(lines')] : Follows(P, o)'
  <2> SUFFICES ASSUME result # "error"
               PROVE  \E P \in SUBSET Pairs(lines'), o \in [1..Len(stack') -> 1..Len(lines')] : Follows(P, o)'
    BY <1>1
  <2>1. PICK P \in SUBSET Pairs(lines), o \in [1..Len(stack) -> 1..Len(lines)] : Follows(P, o)
    BY DEF StripInv
  <2>2. Follows(P, o)'
    BY <1>1, <1>2, <2>1 DEF Follows, Opens, Written
  <2> QED
    BY <1>1, <2>2
<1> QED
  BY <1>1, <1>2, <1>3 DEF StripInv

\* strip keeps to the one way there is to pair what it has read.
THEOREM StripInvariance == TransformSpec => []StripInv
<1>1. TransformInit => StripInv
  BY StripInitInv
<1>2. StripInv /\ [Strip \/ Renumber]_transformVars => StripInv'
  <2> SUFFICES ASSUME StripInv, [Strip \/ Renumber]_transformVars PROVE StripInv'
    OBVIOUS
  <2>1. CASE Text
    BY <2>1, TextStep
  <2>2. CASE EndOfFile
    BY <2>2, EndOfFileStep
  <2>3. ASSUME NEW name, Begin(name) PROVE StripInv'
    BY <2>3, BeginStep
  <2>4. ASSUME NEW name, End(name) PROVE StripInv'
    BY <2>4, EndStep
  <2>5. ASSUME NEW m \in Marker, BadMarker(m) PROVE StripInv'
    BY <2>5, BadMarkerStep
  <2>6. CASE UNCHANGED stripVars
    BY <2>6, StripStill
  <2>7. CASE Strip
    BY <2>1, <2>2, <2>3, <2>4, <2>5, <2>7 DEF Strip
  <2> QED
    BY <2>6, <2>7 DEF Renumber, transformVars
<1> QED
  BY <1>1, <1>2, PTL DEF TransformSpec

\* What has a name stays or goes.
LEMMA KeptOrLeaving ==
  ASSUME chosen \subseteq Slice, NEW name, Known(name)
  PROVE  Kept(name) <=> name \notin Leaving
<1>1. CASE name \in Slice
  <2>1. name \notin Derived /\ name # "init"
    BY <1>1, SliceAssumption
  <2> QED
    BY <1>1, <2>1 DEF Kept, Leaving
<1>2. CASE name \in Derived
  <2>1. name \notin Slice /\ name # "init" /\ Of[name] \subseteq Slice
    BY <1>2, SliceAssumption
  <2>2. Kept(name) <=> \E s \in Of[name] : s \notin chosen
    BY <1>2, <2>1 DEF Kept
  <2> QED
    BY <1>2, <2>1, <2>2 DEF Leaving, Known
<1>3. CASE name = "init"
  BY <1>3, SliceAssumption DEF Kept, Leaving
<1> QED
  BY <1>1, <1>2, <1>3 DEF Known

\* When strip is done, its one way to pair the lines makes the blocks of the file.
LEMMA DoneIsPaired ==
  ASSUME StripInv, result = "done"
  PROVE  \E P \in SUBSET Pairs(lines), o \in [1..Len(stack) -> 1..Len(lines)] :
           Follows(P, o) /\ Blocks(lines) = {P} /\ OpenLeaving = {}
<1>0. PICK n \in Nat : n = Len(lines) /\ DOMAIN lines = 1..n /\ lines \in Seq(Line)
  BY DEF StripInv
<1>1. stack = <<>> /\ 1..Len(stack) = {}
  BY DEF StripInv
<1>2. PICK P \in SUBSET Pairs(lines), o \in [1..Len(stack) -> 1..Len(lines)] : Follows(P, o)
  BY DEF StripInv
<1>3. P \in Partials(lines) /\ \A i \in 1..n : ~Unpaired(P, lines, i)
  BY <1>0, <1>1, <1>2 DEF Follows, Opens
<1>4. P \in Blocks(lines)
  <2>1. /\ \A p, q \in P : (p # q => Apart(p, q)) /\ ~Crossed(p, q)
        /\ \A i \in 1..n : lines[i].kind = "end" => \E p \in P : p[2] = i
    BY <1>0, <1>3 DEF Partials
  <2>2. ASSUME NEW i \in 1..n, lines[i].kind # "text" PROVE \E p \in P : i \in {p[1], p[2]}
    <3>1. lines[i] \in Line
      BY <1>0
    <3>2. lines[i].kind \in {"begin", "end"}
      <4>1. PICK l : l = lines[i]
        OBVIOUS
      <4>2. [kind |-> "text", name |-> ""].kind = "text"
        OBVIOUS
      <4>3. l \in Line /\ l.kind # "text"
        BY <2>2, <3>1, <4>1
      <4>4. l \in Marker
        BY <4>2, <4>3 DEF Line
      <4> QED
        BY <4>1, <4>4 DEF Marker
    <3>3. CASE lines[i].kind = "end"
      BY <2>1, <3>3
    <3>4. CASE lines[i].kind = "begin"
      BY <1>3, <3>4 DEF Unpaired
    <3> QED
      BY <3>2, <3>3, <3>4
  <2> QED
    BY <1>0, <2>1, <2>2 DEF Blocks
<1>5. ASSUME NEW B \in Blocks(lines) PROVE B = P
  <2>1. B \in Partials(lines)
    BY <1>0, BlocksArePartial
  <2> QED
    BY <1>2, <2>1 DEF Follows
<1>6. Blocks(lines) = {P}
  BY <1>4, <1>5
<1>7. OpenLeaving = {}
  BY <1>1 DEF OpenLeaving
<1> QED
  BY <1>2, <1>6, <1>7

LEMMA StripInvKeeps == StripInv => StripKeepsTheKept
<1> SUFFICES ASSUME StripInv, result # "reading" PROVE StripKeepsTheKept
  BY DEF StripKeepsTheKept
<1>1. CASE result = "error"
  BY <1>1 DEF StripKeepsTheKept, StripInv
<1>2. CASE result = "done"
  <2>1. PICK P \in SUBSET Pairs(lines), o \in [1..Len(stack) -> 1..Len(lines)] :
          Follows(P, o) /\ Blocks(lines) = {P} /\ OpenLeaving = {}
    BY <1>2, DoneIsPaired
  <2>2. PICK n \in Nat : n = Len(lines) /\ DOMAIN lines = 1..n
    BY DEF StripInv
  <2>3. \A p \in P : Kept(lines[p[1]].name) <=> lines[p[1]].name \notin Leaving
    <3>1. \A p \in P : Known(lines[p[1]].name)
      BY <2>2, PlacesOf
    <3> QED
      BY <3>1, KeptOrLeaving DEF StripInv
  <2>4. ASSUME NEW i \in DOMAIN lines PROVE i \in Range(out) <=> Stays(i)
    <3>1. i \in Range(out) <=> Written(P, o, i)
      BY <2>1 DEF Follows
    <3>2. Written(P, o, i) <=>
            /\ lines[i].kind = "text"
            /\ \A p \in P : p[1] < i /\ i < p[2] => lines[p[1]].name \notin Leaving
      BY <2>1 DEF Written
    <3>3. Stays(i) <=>
            /\ lines[i].kind = "text"
            /\ \A p \in P : p[1] < i /\ i < p[2] => Kept(lines[p[1]].name)
      BY <2>1 DEF Stays
    <3> QED
      BY <2>3, <3>1, <3>2, <3>3
  <2>5. \A k \in 1..(Len(out) - 1) : out[k] < out[k + 1]
    <3>1. out \in Seq(1..Len(lines)) /\ \A j, k \in DOMAIN out : j < k => out[j] < out[k]
      BY DEF StripInv
    <3>2. PICK w \in Nat : w = Len(out) /\ DOMAIN out = 1..w
      BY <3>1
    <3>3. ASSUME NEW k \in 1..(w - 1) PROVE k \in 1..w /\ k + 1 \in 1..w /\ k < k + 1
      OBVIOUS
    <3> QED
      BY <3>1, <3>2, <3>3
  <2> QED
    BY <1>2, <2>1, <2>4, <2>5 DEF StripKeepsTheKept
<1> QED
  BY <1>1, <1>2 DEF StripInv

\* strip accepts the well-formed files and no other, and writes what the kept slices
\* need and nothing else, whatever the length of the file and however blocks nest.
THEOREM StripRight == TransformSpec => []StripKeepsTheKept
BY StripInvariance, StripInvKeeps, PTL

-----------------------------------------------------------------------------
(* renumberMigrations *)

\* A version is that of one migration, and there are finitely many.
LEMMA VersionsOnce ==
  ASSUME before \in Histories
  PROVE  /\ IsFiniteSet(before) /\ Cardinality(before) \in Nat
         /\ \A m \in before : m = <<m[1], m[2]>> /\ m[1] \in 1..MaxMigrations
         /\ \A m, n \in before : m[1] = n[1] => m = n
<1>1. \A m \in before : m = <<m[1], m[2]>> /\ m[1] \in 1..MaxMigrations
  BY DEF Histories
<1>2. \A m, n \in before : m[1] = n[1] => m = n
  BY DEF Histories
<1> DEFINE f == [m \in before |-> m[1]]
<1>3. f \in Injection(before, 1..MaxMigrations)
  BY <1>1, <1>2 DEF Injection, IsInjective
<1>4. IsFiniteSet(1..MaxMigrations)
  BY SizeAssumption, FS_Interval
<1> HIDE DEF f
<1>5. IsFiniteSet(before)
  BY <1>3, <1>4, FS_Injection
<1> QED
  BY <1>1, <1>2, <1>5, FS_CardinalityType

UpTo(m) == {n \in before : n[1] <= m[1]}

\* Places are 1, 2, 3 ... in the order of versions, and none is above its version.
LEMMA PlaceFacts ==
  ASSUME before \in Histories, NEW m \in before
  PROVE  Place(m) \in 1..Cardinality(before) /\ Place(m) <= m[1]
<1>1. /\ IsFiniteSet(before) /\ Cardinality(before) \in Nat
      /\ \A n \in before : n = <<n[1], n[2]>> /\ n[1] \in 1..MaxMigrations
      /\ \A n, k \in before : n[1] = k[1] => n = k
  BY VersionsOnce
<1>2. Place(m) = Cardinality(UpTo(m)) /\ UpTo(m) \in SUBSET before /\ m \in UpTo(m) /\ m[1] \in Nat
  BY <1>1 DEF Place, UpTo
<1>3. IsFiniteSet(UpTo(m)) /\ Place(m) <= Cardinality(before)
  BY <1>1, <1>2, FS_Subset
<1>4. Place(m) \in Nat /\ Place(m) # 0
  BY <1>2, <1>3, FS_CardinalityType, FS_EmptySet
<1> DEFINE f == [n \in UpTo(m) |-> n[1]]
<1>5. f \in Injection(UpTo(m), 1..m[1])
  <2>1. \A n \in UpTo(m) : n \in before /\ n[1] \in 1..m[1]
    BY <1>1 DEF UpTo
  <2> QED
    BY <1>1, <2>1 DEF Injection, IsInjective
<1>6. IsFiniteSet(1..m[1]) /\ Cardinality(1..m[1]) = m[1]
  BY <1>2, FS_Interval
<1> HIDE DEF f
<1>7. Cardinality(UpTo(m)) <= m[1]
  BY <1>5, <1>6, FS_Injection
<1> QED
  BY <1>1, <1>2, <1>3, <1>4, <1>7

LEMMA PlacesDiffer ==
  ASSUME before \in Histories, NEW m \in before, NEW n \in before, Place(m) = Place(n)
  PROVE  m = n
<1>1. /\ IsFiniteSet(before) /\ m[1] \in Nat /\ n[1] \in Nat
      /\ \A k \in before : k[1] \in Nat
      /\ (m[1] = n[1] => m = n)
  BY VersionsOnce
<1>2. ASSUME NEW a \in before, NEW b \in before, a[1] < b[1]
      PROVE  Place(a) # Place(b)
  <2>1. UpTo(a) \in SUBSET UpTo(b)
    BY <1>1, <1>2 DEF UpTo
  <2>2. b \in UpTo(b) /\ b \notin UpTo(a) /\ UpTo(b) \in SUBSET before
    BY <1>1, <1>2 DEF UpTo
  <2>3. IsFiniteSet(UpTo(b))
    BY <1>1, <2>2, FS_Subset
  <2>4. Cardinality(UpTo(b)) = Cardinality(UpTo(a)) => UpTo(b) = UpTo(a)
    BY ONLY <2>1, <2>3, FS_Subset
  <2>5. Cardinality(UpTo(b)) # Cardinality(UpTo(a))
    BY <2>2, <2>4
  <2> QED
    BY <2>5 DEF Place, UpTo
<1> QED
  BY <1>1, <1>2

\* A place is the one after all lower versions.
LEMMA PlaceFollows ==
  ASSUME before \in Histories, NEW m \in before
  PROVE  Place(m) = 1 + Cardinality({n \in before : n[1] < m[1]})
<1> DEFINE Lower == {n \in before : n[1] < m[1]}
<1>1. /\ IsFiniteSet(before) /\ m[1] \in Nat
      /\ \A n \in before : n[1] \in Nat /\ (n[1] = m[1] => n = m)
  BY VersionsOnce
<1>2. Lower \in SUBSET before /\ m \notin Lower /\ UpTo(m) = Lower \cup {m}
  BY <1>1 DEF UpTo
<1>3. IsFiniteSet(Lower)
  BY <1>1, <1>2, FS_Subset
<1>4. Place(m) = Cardinality(Lower \cup {m})
  BY <1>2 DEF Place, UpTo
<1> HIDE DEF Lower
<1>5. Cardinality(Lower \cup {m}) = Cardinality(Lower) + 1 /\ Cardinality(Lower) \in Nat
  BY <1>2, <1>3, FS_AddElement, FS_CardinalityType
<1>6. Place(m) = 1 + Cardinality(Lower)
  BY <1>4, <1>5
<1> QED
  BY <1>6 DEF Lower

\* The first migrations have their new names, and the others their old ones.
RenumberInv ==
  /\ before \in Histories /\ turn \in Nat
  /\ names = {Wanted(m) : m \in {n \in before : Place(n) <= turn}}
               \cup {m \in before : Place(m) > turn}

LEMMA RenumberStep ==
  ASSUME RenumberInv, Renumber
  PROVE  RenumberInv'
<1>1. PICK m \in before : Place(m) = turn + 1 /\ names' = (names \ {m}) \cup {Wanted(m)}
  BY DEF Renumber
<1>2. /\ before' = before /\ turn' = turn + 1 /\ turn \in Nat /\ before \in Histories
      /\ \A n \in before : Place(n)' = Place(n) /\ Wanted(n)' = Wanted(n)
  BY DEF RenumberInv, Renumber, Place, Wanted
<1>3. /\ \A n \in before : Place(n) \in Nat /\ Place(n) <= n[1] /\ n[1] \in Nat
      /\ \A n \in before : Place(n) = Place(m) => n = m
  BY <1>1, <1>2, PlaceFacts, PlacesDiffer, VersionsOnce
<1>4. {n \in before : Place(n) <= turn + 1} = {n \in before : Place(n) <= turn} \cup {m}
  BY <1>1, <1>2, <1>3
<1>5. {n \in before : Place(n) > turn + 1} = {n \in before : Place(n) > turn} \ {m}
  BY <1>1, <1>2, <1>3
<1>6. ASSUME NEW n \in before, Place(n) <= turn PROVE Wanted(n) # m
  BY <1>1, <1>2, <1>3, <1>6 DEF Wanted
<1>7. names' = {Wanted(n) : n \in {k \in before : Place(k) <= turn + 1}}
                 \cup {n \in before : Place(n) > turn + 1}
  BY <1>1, <1>4, <1>5, <1>6 DEF RenumberInv
<1> QED
  BY <1>2, <1>7 DEF RenumberInv, Place, Wanted

LEMMA NamesKept == RenumberInv => NoMigrationLost
<1> SUFFICES ASSUME RenumberInv PROVE NoMigrationLost
  OBVIOUS
<1>1. /\ before \in Histories /\ turn \in Nat
      /\ names = {Wanted(m) : m \in {n \in before : Place(n) <= turn}}
                   \cup {m \in before : Place(m) > turn}
  BY DEF RenumberInv
<1>2. IsFiniteSet(before) /\ Cardinality(before) \in Nat
  BY <1>1, VersionsOnce
<1>3. \A m \in before : Place(m) \in 1..Cardinality(before) /\ Place(m) <= m[1] /\ m[1] \in Nat
  BY <1>1, PlaceFacts, VersionsOnce
<1>4. \A m, n \in before : Place(m) = Place(n) => m = n
  BY <1>1, PlacesDiffer
<1> DEFINE f == [m \in before |-> IF Place(m) <= turn THEN Wanted(m) ELSE m]
<1>5. f \in Bijection(before, names)
  <2>1. f \in [before -> names]
    BY <1>1, <1>2, <1>3
  <2>2. \A w \in names : \E m \in before : f[m] = w
    BY <1>1, <1>2, <1>3
  <2>3. ASSUME NEW m \in before, NEW n \in before, f[m] = f[n] PROVE m = n
    <3>1. CASE Place(m) <= turn /\ Place(n) <= turn
      BY <1>4, <2>3, <3>1 DEF Wanted
    <3>2. CASE ~(Place(m) <= turn) /\ ~(Place(n) <= turn)
      BY <2>3, <3>2
    <3>3. ASSUME NEW a \in before, NEW b \in before, Place(a) <= turn, ~(Place(b) <= turn)
          PROVE  Wanted(a) # b
      <4>1. Wanted(a)[1] = Place(a)
        BY DEF Wanted
      <4>2. Place(a) < b[1]
        BY <1>1, <1>2, <1>3, <3>3
      <4> QED
        BY <1>2, <1>3, <4>1, <4>2
    <3> QED
      BY <2>3, <3>1, <3>2, <3>3
  <2> HIDE DEF f
  <2> QED
    BY <2>1, <2>2, <2>3 DEF Bijection, Injection, Surjection, IsInjective
<1>6. Cardinality(names) = Cardinality(before)
  <2> HIDE DEF f
  <2>1. ExistsBijection(before, names)
    BY <1>5 DEF ExistsBijection
  <2> QED
    BY <1>2, <2>1, FS_Bijection
<1>7. ASSUME turn = Cardinality(before), NEW m \in before
      PROVE  <<1 + Cardinality({n \in before : n[1] < m[1]}), m[2]>> \in names
  <2>1. Place(m) <= turn /\ Wanted(m) \in names
    BY <1>1, <1>2, <1>3, <1>7
  <2> QED
    BY <1>1, <2>1, PlaceFollows DEF Wanted
<1> QED
  BY <1>6, <1>7 DEF NoMigrationLost

\* Renaming one file at a time, from the lowest version up, never lands on another
\* migration, and ends with the versions 1, 2, 3 ... in the order there was.
THEOREM RenumberRight == TransformSpec => []NoMigrationLost
<1>1. TransformInit => RenumberInv
  <2> SUFFICES ASSUME TransformInit PROVE RenumberInv
    OBVIOUS
  <2>1. before \in Histories /\ names = before /\ turn = 0
    BY DEF TransformInit
  <2>2. \A m \in before : Place(m) \in 1..Cardinality(before)
    BY <2>1, PlaceFacts
  <2>3. Cardinality(before) \in Nat
    BY <2>1, VersionsOnce
  <2>4. {n \in before : Place(n) <= turn} = {} /\ {m \in before : Place(m) > turn} = before
    BY <2>1, <2>2, <2>3
  <2> QED
    BY <2>1, <2>4 DEF RenumberInv
<1>2. RenumberInv /\ [Strip \/ Renumber]_transformVars => RenumberInv'
  <2> SUFFICES ASSUME RenumberInv, [Strip \/ Renumber]_transformVars PROVE RenumberInv'
    OBVIOUS
  <2>1. CASE Renumber
    BY <2>1, RenumberStep
  <2>2. CASE UNCHANGED renumberVars
    BY <2>2 DEF RenumberInv, renumberVars, Place, Wanted
  <2>3. Strip => UNCHANGED renumberVars
    BY DEF Strip, Text, Begin, End, BadMarker, EndOfFile, Read
  <2> QED
    BY <2>1, <2>2, <2>3 DEF transformVars
<1>3. RenumberInv => NoMigrationLost
  BY NamesKept
<1> QED
  BY <1>1, <1>2, <1>3, PTL DEF TransformSpec

=============================================================================
