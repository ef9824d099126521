------------------------------ MODULE Scanner ------------------------------
(***************************************************************************)
(* validateResourceTable reads the migrations and keeps track of the       *)
(* tables and indexes they leave (applyRelationStatement), so that a new   *)
(* resource gets a name the database does not use.  Here each statement is *)
(* applied to the scanner's map, by the name it is written with, and to    *)
(* the catalog of a PostgreSQL, where relations are objects.               *)
(*                                                                         *)
(* Migrations are known to apply: statements that PostgreSQL refuses do    *)
(* not occur.  A name without a schema is one of schema public.  Views and *)
(* sequences, which the scanner does not look at, are left out.            *)
(***************************************************************************)
EXTENDS Integers, FiniteSets

CONSTANTS Name,            \* identifiers
          MaxStatements,   \* bound on the statements of all migrations
          NoEntry

ASSUME StatementAssumption == MaxStatements \in Nat
ASSUME EntryAssumption ==
  NoEntry \notin Name /\ NoEntry \notin [kind : {"table", "index"}, owner : Name \cup {NoEntry}]

VARIABLES
  relations,  \* relations[n]: kind and owner, or NoEntry
  catalog,    \* objects of the database; named: by a statement, not by the server
  statements, \* statements so far; also the ids of objects
  outside     \* history: kinds of statements that the scanner cannot follow

scanVars == <<relations, catalog, statements, outside>>

Schema == {"public", "private"}

\* A relation as a statement names it.
Reference == [schema : Schema, name : Name]

Public(ref) == ref.schema = "public"

ScanInit ==
  /\ relations = [n \in Name |-> NoEntry] /\ catalog = {} /\ statements = 0 /\ outside = {}

ScanTypeOK ==
  /\ relations \in [Name -> [kind : {"table", "index"}, owner : Name \cup {NoEntry}] \cup {NoEntry}]
  /\ catalog \subseteq [id : 1..MaxStatements, schema : Schema, name : Name,
                        kind : {"table", "index"}, table : 0..MaxStatements, named : BOOLEAN]
  /\ statements \in 0..MaxStatements
  /\ outside \subseteq {"server's name", "alter index", "set schema"}

-----------------------------------------------------------------------------
(* What PostgreSQL does *)

At(ref)     == {o \in catalog : o.schema = ref.schema /\ o.name = ref.name}
Tables(ref) == {o \in At(ref) : o.kind = "table"}

Add(ref, kind, table, named) ==
  catalog \cup {[id |-> statements + 1, schema |-> ref.schema, name |-> ref.name,
                 kind |-> kind, table |-> table, named |-> named]}

\* IF NOT EXISTS: nothing happens if the name is taken.
AddNew(ref, kind, table) == IF At(ref) = {} THEN Add(ref, kind, table, TRUE) ELSE catalog

\* Dropping a table drops its indexes.
Without(S) == {o \in catalog : o \notin S /\ \A t \in S : o.table # t.id}

-----------------------------------------------------------------------------
(* What the scanner does *)

Indexes(n) ==
  {i \in Name : relations[i] # NoEntry /\ relations[i].kind = "index" /\ relations[i].owner = n}

Created(n, kind, owner) ==
  IF relations[n] = NoEntry THEN [relations EXCEPT ![n] = [kind |-> kind, owner |-> owner]]
                         ELSE relations

\* Mutant: the indexes of a dropped table stay.
DroppedAlone(kind, N) == [n \in Name |-> IF n \in N THEN NoEntry ELSE relations[n]]

Dropped(kind, N) ==
  [n \in Name |-> IF n \in N \/ (kind = "table" /\ \E t \in N : n \in Indexes(t))
                  THEN NoEntry ELSE relations[n]]

Renamed(kind, n, to) ==
  IF relations[n] = NoEntry THEN relations
  ELSE [m \in Name |->
          IF m = to THEN relations[n] ELSE IF m = n THEN NoEntry
          ELSE IF kind = "table" /\ m \in Indexes(n) THEN [relations[m] EXCEPT !.owner = to]
          ELSE relations[m]]

-----------------------------------------------------------------------------
(* Statements *)

Statement == statements < MaxStatements /\ statements' = statements + 1

Outside(kinds) == outside' = outside \cup kinds

\* ref is something to which the server has given its name.
ServersName(ref) == {k \in {"server's name"} : \E o \in At(ref) : ~o.named}

\* CREATE TABLE IF NOT EXISTS ref
CreateTable(ref) ==
  /\ Statement /\ Outside(ServersName(ref))
  /\ catalog' = AddNew(ref, "table", 0)
  /\ relations' = IF Public(ref) THEN Created(ref.name, "table", NoEntry) ELSE relations

\* Mutant: an index whose own name has no schema counts as public.
IndexPublicByName(on) == TRUE

\* An index belongs to the schema of its table.
IndexPublic(on) == Public(on)

\* CREATE INDEX IF NOT EXISTS n ON ref; n cannot have a schema.
CreateIndex(n, on) ==
  /\ Statement /\ Tables(on) # {}
  /\ \E table \in Tables(on), ref \in Reference :
       /\ ref.schema = on.schema /\ ref.name = n
       /\ catalog' = AddNew(ref, "index", table.id)
       /\ Outside(ServersName(ref))
  /\ relations' = IF IndexPublic(on) THEN Created(n, "index", on.name) ELSE relations

\* The server chooses the name n: CREATE INDEX ON ref, or a PRIMARY KEY or UNIQUE
\* constraint, which CREATE TABLE or ALTER TABLE adds.
CreateUnnamed(n, on) ==
  /\ Statement
  /\ \E table \in Tables(on), ref \in Reference :
       /\ ref.schema = on.schema /\ ref.name = n /\ At(ref) = {}
       /\ catalog' = Add(ref, "index", table.id, FALSE)
  /\ UNCHANGED <<relations, outside>>

\* DROP TABLE or DROP INDEX IF EXISTS of one or two relations.  The index of a
\* constraint goes with DROP CONSTRAINT, which is no different for the scanner.
Drop(kind, refs) ==
  /\ Statement
  /\ \A ref \in refs : \A o \in At(ref) : o.kind = kind
  /\ catalog' = Without(UNION {At(ref) : ref \in refs})
  /\ relations' = Dropped(kind, {ref.name : ref \in {r \in refs : Public(r)}})
  /\ UNCHANGED outside

\* ALTER TABLE or ALTER INDEX ref RENAME TO n.  PostgreSQL lets either name a table or
\* an index; the scanner looks for the table's indexes only after ALTER TABLE.
Rename(kind, ref, to) ==
  /\ Statement
  /\ At(ref) # {} /\ At([ref EXCEPT !.name = to]) = {}
  /\ Outside(ServersName(ref) \cup {k \in {"alter index"} : kind = "index" /\ Tables(ref) # {}})
  /\ catalog' = {IF o \in At(ref) THEN [o EXCEPT !.name = to, !.named = TRUE] ELSE o :
                   o \in catalog}
  /\ relations' = IF Public(ref) THEN Renamed(kind, ref.name, to) ELSE relations

\* ALTER TABLE ref SET SCHEMA takes the indexes along; the scanner ignores it.
SetSchema(ref, schema) ==
  /\ Statement /\ schema # ref.schema
  /\ \E t \in Tables(ref) :
       LET Moved == {o \in catalog : o = t \/ o.table = t.id} IN
         /\ \A o \in Moved : At([schema |-> schema, name |-> o.name]) = {}
         /\ catalog' = (catalog \ Moved) \cup {[o EXCEPT !.schema = schema] : o \in Moved}
  /\ Outside({"set schema"})
  /\ UNCHANGED relations

Scan ==
  \/ \E ref \in Reference : CreateTable(ref)
  \/ \E n \in Name, on \in Reference : CreateIndex(n, on) \/ CreateUnnamed(n, on)
  \/ \E kind \in {"table", "index"}, a, b \in Reference : Drop(kind, {a, b})
  \/ \E kind \in {"table", "index"}, ref \in Reference, to \in Name : Rename(kind, ref, to)
  \/ \E ref \in Reference, schema \in Schema : SetSchema(ref, schema)

ScanSpec == ScanInit /\ [][Scan]_scanVars

-----------------------------------------------------------------------------
\* Known to the scanner is what statements have named in schema public.
NamesAgree ==
  \A n \in Name :
    relations[n] # NoEntry <=> \E o \in catalog : o.schema = "public" /\ o.name = n /\ o.named

\* "Literal public table/index declarations ..., including drops and renames": the
\* scanner knows the name of every table and index in schema public that a statement
\* named, and no other, so that a new resource neither collides with what a migration
\* left nor is refused for what is gone.  Outside are statements that name a relation
\* the server has named, rename a table by ALTER INDEX, or move it with SET SCHEMA.
ScanAgrees == outside = {} => NamesAgree

\* "Indexes disappear with their owning table, even after renames" (migrationRelation):
\* an index the scanner knows is there, whatever statement renamed its table.
IndexesDisappear ==
  outside \subseteq {"alter index"} =>
    \A n \in Name : relations[n] # NoEntry /\ relations[n].kind = "index" =>
      \E o \in catalog : o.schema = "public" /\ o.name = n
=============================================================================
