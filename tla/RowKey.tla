------------------------------- MODULE RowKey -------------------------------
(***************************************************************************)
(* The row key of an Idempotency-Key (idempotencyRowKey): the subject with *)
(* "%" and ":" escaped, a colon, and the client's key as it is.  Strings   *)
(* are sequences of characters, and a client may send any key.             *)
(***************************************************************************)
EXTENDS Integers, Sequences, SequencesExt

CONSTANTS Other,              \* the characters that are not escaped
          MaxSubject, MaxKey, \* bounds on lengths
          NoCall

ASSUME OtherAssumption  == Other \cap {"%", ":"} = {}
ASSUME LengthAssumption == MaxSubject \in Nat /\ MaxKey \in Nat

VARIABLE call  \* subject and key of a request

Letter == {"%", ":"} \cup Other

Strings(n) == UNION {[1..k -> Letter] : k \in 0..n}

Calls == [subject : Strings(MaxSubject) \ {<<>>}, key : Strings(MaxKey) \ {<<>>}]

RowKeyInit == call = NoCall
Claim      == call = NoCall /\ call' \in Calls

RowKeySpec == RowKeyInit /\ [][Claim]_call

\* Mutant: only the colon is escaped.
EscapedColon(c) == IF c = ":" THEN <<"%", "3", "A">> ELSE <<c>>

Escaped(c) ==
  CASE c = "%" -> <<"%", "2", "5">>
    [] c = ":" -> <<"%", "3", "A">>
    [] OTHER   -> <<c>>

subjectEscaper(s) == FlattenSeq([i \in DOMAIN s |-> Escaped(s[i])])

idempotencyRowKey(subject, key) == subjectEscaper(subject) \o <<":">> \o key

Rows == [c \in Calls |-> idempotencyRowKey(c.subject, c.key)]

\* Two callers never share a row key, nor do two keys of one caller: the claim of
\* one is never answered with what the other created ("the first ':' in a row key
\* always ends the subject").
OneRowPerCall ==
  call # NoCall =>
    \A other \in Calls :
      Rows[other] = idempotencyRowKey(call.subject, call.key) => other = call
=============================================================================
