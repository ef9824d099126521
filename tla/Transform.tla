----------------------------- MODULE Transform -----------------------------
(***************************************************************************)
(* The text that forge init makes of a file and of the names of the        *)
(* migrations: strip reads a file line by line and leaves out the blocks   *)
(* of dropped slices; renumberMigrations renames one file at a time.       *)
(***************************************************************************)
EXTENDS Integers, Sequences, FiniteSets, SequencesExt

CONSTANTS Slice,         \* names of slices
          Derived,       \* names of derived slices
          Of,            \* Of[d]: the slices that the derived slice d serves
          MaxLines,      \* bound on the lines of a file
          MaxMigrations, \* bound on the versions of migrations
          Rest           \* what follows the version in a migration's name

ASSUME SliceAssumption ==
  Slice \cap Derived = {} /\ "init" \notin Slice \cup Derived /\ Of \in [Derived -> SUBSET Slice]
ASSUME SizeAssumption == MaxLines \in Nat /\ MaxMigrations \in Nat

VARIABLES
  chosen,   \* slices the caller drops
  lines,    \* lines of the file read so far
  stack,    \* names of open blocks
  skipping, \* how many of them are left out
  out,      \* numbers of the lines written
  result,   \* "reading", "done" or "error"
  before,   \* the migrations there were: version, rest
  names,    \* the migrations by now
  turn      \* how many have been looked at

stripVars    == <<chosen, lines, stack, skipping, out, result>>
renumberVars == <<before, names, turn>>
transformVars == <<stripVars, renumberVars>>

Marker == [kind : {"begin", "end"}, name : Slice \cup Derived \cup {"init", "unknown"}]
Line   == {[kind |-> "text", name |-> ""]} \cup Marker

Migration == (0..MaxMigrations) \X Rest

\* Versions are distinct: checkMigrationVersions.
Histories ==
  {H \in SUBSET ((1..MaxMigrations) \X Rest) : \A a, b \in H : a[1] = b[1] => a = b}

TransformInit ==
  /\ chosen \in SUBSET Slice /\ lines = <<>> /\ stack = <<>> /\ skipping = 0
  /\ out = <<>> /\ result = "reading"
  /\ before \in Histories /\ names = before /\ turn = 0

TransformTypeOK ==
  /\ chosen \subseteq Slice /\ lines \in Seq(Line) /\ Len(lines) <= MaxLines
  /\ stack \in Seq(Slice \cup Derived \cup {"init"}) /\ skipping \in 0..Len(stack)
  /\ out \in Seq(1..MaxLines) /\ result \in {"reading", "done", "error"}
  /\ names \subseteq Migration /\ Cardinality(names) <= Cardinality(before)
  /\ turn \in 0..MaxMigrations

-----------------------------------------------------------------------------
(* strip *)

\* Mutant: a derived slice goes with any slice it serves.
LeavingWithAny ==
  chosen \cup {d \in Derived : Of[d] \cap chosen # {}} \cup {"init"}

\* A derived slice goes when all it serves go; "init" blocks always go.
Leaving == chosen \cup {d \in Derived : Of[d] \subseteq chosen} \cup {"init"}

Known(name) == name \in Slice \cup Derived \cup {"init"}

Read(l) ==
  /\ result = "reading" /\ Len(lines) < MaxLines
  /\ lines' = Append(lines, l)
  /\ UNCHANGED <<chosen, renumberVars>>

Text ==
  /\ Read([kind |-> "text", name |-> ""])
  /\ out' = IF skipping = 0 THEN Append(out, Len(lines) + 1) ELSE out
  /\ UNCHANGED <<stack, skipping, result>>

Begin(name) ==
  /\ Known(name) /\ Read([kind |-> "begin", name |-> name])
  /\ stack' = Append(stack, name)
  /\ skipping' = IF name \in Leaving THEN skipping + 1 ELSE skipping
  /\ UNCHANGED <<out, result>>

\* Mutant: the end of a dropped block ends all skipping.
ShownAfterAny(name) == IF name \in Leaving THEN 0 ELSE skipping

ShownAfter(name) == IF name \in Leaving THEN skipping - 1 ELSE skipping

Open(name) == stack # <<>> /\ Last(stack) = name

End(name) ==
  /\ Open(name) /\ Read([kind |-> "end", name |-> name])
  /\ stack' = Front(stack) /\ skipping' = ShownAfter(name)
  /\ UNCHANGED <<out, result>>

\* An unknown marker, or an end without its begin.
BadMarker(m) ==
  /\ ~Known(m.name) \/ (m.kind = "end" /\ ~Open(m.name))
  /\ Read(m) /\ result' = "error" /\ UNCHANGED <<stack, skipping, out>>

EndOfFile ==
  /\ result = "reading"
  /\ result' = IF stack = <<>> THEN "done" ELSE "error"
  /\ UNCHANGED <<chosen, lines, stack, skipping, out, renumberVars>>

Strip ==
  \/ Text \/ EndOfFile
  \/ \E name \in Slice \cup Derived \cup {"init"} : Begin(name) \/ End(name)
  \/ \E m \in Marker : BadMarker(m)

-----------------------------------------------------------------------------
(* renumberMigrations *)

\* Names sort by their five-digit version.
Place(m) == Cardinality({n \in before : n[1] <= m[1]})

\* Mutant: numbers start at zero.
WantedFromZero(m) == <<Place(m) - 1, m[2]>>

Wanted(m) == <<Place(m), m[2]>>

\* os.Rename replaces a file of the new name.
Renumber ==
  /\ turn < Cardinality(before) /\ turn' = turn + 1
  /\ \E m \in before : Place(m) = turn + 1 /\ names' = (names \ {m}) \cup {Wanted(m)}
  /\ UNCHANGED <<stripVars, before>>

TransformSpec == TransformInit /\ [][Strip \/ Renumber]_transformVars

-----------------------------------------------------------------------------
\* Begins and ends that may belong together.
Pairs(s) ==
  {p \in (DOMAIN s) \X (DOMAIN s) :
     /\ p[1] < p[2] /\ s[p[1]].kind = "begin" /\ s[p[2]].kind = "end"
     /\ s[p[1]].name = s[p[2]].name /\ Known(s[p[1]].name)}

Apart(p, q)   == p[1] # q[1] /\ p[2] # q[2]
Crossed(p, q) == p[1] < q[1] /\ q[1] < p[2] /\ p[2] < q[2]

\* What makes a file well-formed: each marker has one partner, and no blocks cross.
Blocks(s) ==
  {P \in SUBSET Pairs(s) :
     /\ \A p, q \in P : (p # q => Apart(p, q)) /\ ~Crossed(p, q)
     /\ \A i \in DOMAIN s : s[i].kind # "text" => \E p \in P : i \in {p[1], p[2]}}

\* The blocks that a project keeps: of kept slices, and of what serves one of them.
Kept(name) ==
  name \in Slice \ chosen \/ (name \in Derived /\ \E s \in Of[name] : s \notin chosen)

\* Line i is text in no block that goes.
Stays(i) ==
  /\ lines[i].kind = "text"
  /\ \A P \in Blocks(lines) : \A p \in P : p[1] < i /\ i < p[2] => Kept(lines[p[1]].name)

\* strip accepts the well-formed files and no other, and writes the lines that are
\* in no block of a dropped slice, however blocks nest, in their order: a typo in
\* a marker is an error and never code lost or left behind.
StripKeepsTheKept ==
  result # "reading" =>
    /\ result = "done" <=> Blocks(lines) # {}
    /\ result = "done" =>
         /\ \A i \in DOMAIN lines : i \in Range(out) <=> Stays(i)
         /\ \A k \in 1..(Len(out) - 1) : out[k] < out[k + 1]

\* No rename lands on a migration that is still to be renamed, and in the end each
\* migration follows those of lower versions: the versions are 1, 2, 3 ... in the
\* order there was.
NoMigrationLost ==
  /\ Cardinality(names) = Cardinality(before)
  /\ turn = Cardinality(before) =>
       \A m \in before : <<1 + Cardinality({n \in before : n[1] < m[1]}), m[2]>> \in names
=============================================================================
