------------------------------ MODULE Pipeline ------------------------------
(***************************************************************************)
(* What the router answers to a request (NewRouter): the stages in the     *)
(* order of r.Use, the generated wrapper, SingleJSONDocument, the OpenAPI  *)
(* validator with Authenticate, and the handler.  A stage answers or       *)
(* passes the request on; the first that answers decides.                  *)
(*                                                                         *)
(* The validator is a library: it checks security first, which buffers a   *)
(* body, then parameters, then the body.                                   *)
(***************************************************************************)
EXTENDS Integers, Sequences

CONSTANT NoRequest

VARIABLE request  \* the request being answered

Operations == {"get", "create", "update", "delete"}
Protected  == {"create", "update", "delete"}

\* target: an operation, ops for /livez and the like, mount for a route behind
\* auth.Middleware, missing or method for one the router does not have.  policy: the
\* CORS settings.  size: over the limit by its Content-Length, or only when it is
\* read.  handler: how the handler would end.
Requests ==
  [target : Operations \cup {"ops", "mount", "missing", "method"},
   preflight : BOOLEAN,
   origin : {"none", "own", "foreign"}, policy : {"listed", "reflect", "closed"},
   budget : BOOLEAN,
   size : {"fits", "declared", "streamed"},
   parameters : {"unreadable", "refused", "valid"},
   body : {"valid", "refused", "malformed", "not json"},
   credentials : {"none", "basic", "rejected", "reader", "writer"},
   handler : {"returns", "panics", "panics late", "aborts"}]

PipelineInit == request = NoRequest
Receive      == request = NoRequest /\ request' \in Requests
PipelineSpec == PipelineInit /\ [][Receive]_request

Pass == [status |-> 0, aborted |-> FALSE, challenge |-> "no", called |-> FALSE]

Says(status) == [Pass EXCEPT !.status = status]

-----------------------------------------------------------------------------
\* Listed origins may read answers; any may if there is no list, in development only.
MayRead(q) ==
  \/ q.policy = "listed" /\ q.origin = "own"
  \/ q.policy = "reflect" /\ q.origin # "none"

\* CORS answers every preflight.
CORS(q) == IF q.preflight THEN Says(204) ELSE Pass

Limit(q) == IF q.budget THEN Pass ELSE Says(429)

MaxBytes(q) == IF q.size = "declared" THEN Says(413) ELSE Pass

Route(q) ==
  CASE q.target = "missing" -> Says(404)
    [] q.target = "method"  -> Says(405)
    [] OTHER                -> Pass

\* The generated wrapper binds the parameters of the path and the query.
Bind(q) ==
  IF q.target \in Operations \ {"create"} /\ q.parameters = "unreadable"
    THEN Says(400) ELSE Pass

SingleJSONDocument(q) ==
  IF q.target \notin Operations \/ q.body = "not json" THEN Pass
  ELSE IF q.size = "streamed"  THEN Says(413)
  ELSE IF q.body = "malformed" THEN Says(400) ELSE Pass

Verified(q) == q.credentials \in {"reader", "writer"}

\* A challenge, which names the error if credentials were sent.
Unauthorized(q) ==
  [Says(401) EXCEPT !.challenge = IF q.credentials = "none" THEN "plain" ELSE "invalid_token"]

\* Mutant: the validator's errors are answered by its status alone.
SecurityByStatus(q) == IF Verified(q) /\ q.size = "fits" THEN Pass ELSE Unauthorized(q)

\* The security check reads a body before it authenticates; validationErrorHandler
\* tells one that is too long from one without credentials.
Security(q) ==
  IF q.size # "fits" THEN Says(413) ELSE IF Verified(q) THEN Pass ELSE Unauthorized(q)

Refused(q) ==
  \/ q.target \in Operations \ {"create"} /\ q.parameters # "valid"
  \/ q.target \in {"create", "update"} /\ q.body # "valid"

\* Mutant: only operations with a body are validated.
ValidateBodies(q) ==
  IF q.target \in {"create", "update"} /\ Security(q) # Pass THEN Security(q)
  ELSE IF Refused(q) THEN Says(400) ELSE Pass

Validate(q) ==
  IF q.target \in Protected /\ Security(q) # Pass THEN Security(q)
  ELSE IF Refused(q) THEN Says(400) ELSE Pass

\* auth.Middleware of a mounted route.
Mounted(q) == IF q.target = "mount" /\ ~Verified(q) THEN Says(401) ELSE Pass

\* A panic becomes a 500, or aborts the connection if the response has started or
\* the handler wants it so.
Recoverer(q) ==
  IF q.handler = "panics" THEN Says(500) ELSE [Pass EXCEPT !.aborted = TRUE]

\* authorizeWrite, and then the operation.
Handle(q) ==
  LET end == IF q.target \in Protected /\ q.credentials # "writer" THEN Says(403)
             ELSE IF q.handler = "returns" THEN Says(200) ELSE Recoverer(q)
  IN [end EXCEPT !.called = TRUE]

-----------------------------------------------------------------------------
\* Mutant: the limiter runs before CORS.
OrderLimitFirst ==
  <<"Limit", "CORS", "MaxBytes", "Route", "Bind", "SingleJSONDocument", "Validate",
    "Mounted", "Handle">>

Order ==
  <<"CORS", "Limit", "MaxBytes", "Route", "Bind", "SingleJSONDocument", "Validate",
    "Mounted", "Handle">>

Stage(name, q) ==
  CASE name = "CORS"               -> CORS(q)
    [] name = "Limit"              -> Limit(q)
    [] name = "MaxBytes"           -> MaxBytes(q)
    [] name = "Route"              -> Route(q)
    [] name = "Bind"               -> Bind(q)
    [] name = "SingleJSONDocument" -> SingleJSONDocument(q)
    [] name = "Validate"           -> Validate(q)
    [] name = "Mounted"            -> Mounted(q)
    [] name = "Handle"             -> Handle(q)

Deciding(q) ==
  CHOOSE i \in DOMAIN Order :
    Stage(Order[i], q) # Pass /\ \A j \in 1..(i - 1) : Stage(Order[j], q) = Pass

Answer(q) == Stage(Order[Deciding(q)], q)

\* The headers that let a browser read the answer are set when CORS is reached.
Readable(q) == MayRead(q) /\ \E i \in 1..Deciding(q) : Order[i] = "CORS"

-----------------------------------------------------------------------------
\* No operation that needs credentials, and no mounted route, runs a handler
\* without verified ones, and none succeeds without the permission to write, in
\* whatever way the request is malformed, too long or refused on the way.
NoneUnverified ==
  request # NoRequest =>
    LET a == Answer(request)
    IN /\ a.called /\ request.target \in Protected \cup {"mount"} => Verified(request)
       /\ a.status = 200 /\ request.target \in Protected => request.credentials = "writer"

\* A protected operation refuses for the reason there is: a body over the limit is a
\* 413 and never a credentials problem, whoever reads it first ("It is a size
\* problem, not a credentials one"), and every 401 to missing or bad credentials
\* carries a challenge that says whether some were sent.
RefusedForTheReason ==
  request # NoRequest /\ request.target \in Protected =>
    LET a == Answer(request)
    IN /\ a.status = 413 => request.size # "fits"
       /\ a.status = 401 => request.size = "fits" /\ ~Verified(request) /\ a.challenge # "no"
       /\ a.challenge = "invalid_token" => a.status = 401 /\ request.credentials # "none"
       /\ a.called => request.size = "fits" /\ ~Refused(request)

\* A page of an allowed origin can read whatever it is answered, a refusal of the
\* limiter or of the router included, and a page of another origin nothing.
AllowedReadAnswers ==
  request # NoRequest => (Readable(request) <=> MayRead(request))

\* The answer is the right one, whichever stage gives it.
AnswerRight == NoneUnverified /\ RefusedForTheReason /\ AllowedReadAnswers
=============================================================================
