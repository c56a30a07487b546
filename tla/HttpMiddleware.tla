---------------------------- MODULE HttpMiddleware ----------------------------
(***************************************************************************)
(* What the middleware chain of the HTTP server (infrastructure/http/      *)
(* server.go) makes of what a handler did with a request.  The request     *)
(* runs on one goroutine and the chain touches nothing but its own         *)
(* response, so handlers and middleware are functions on that response:    *)
(*                                                                         *)
(*   status   the status set so far; final once there is a body            *)
(*   body     what the body is made of: the handler's bytes, and the error *)
(*            payload of a middleware or of notFoundHandler                *)
(*   errors   the handler left errors with c.Error                         *)
(*   panic    "none", "unwinding" the stack, or "recovered"                *)
(*   log      the lines logged for the request                             *)
(***************************************************************************)
EXTENDS Naturals

Statuses == {200, 400, 404, 500}

Response(status, body, errors, panic) ==
  [status |-> status, body |-> body, errors |-> errors, panic |-> panic, log |-> {}]

\* c.Writer.Written()
Written(w) == w.body # {}

Wrote(status) == Response(status, {"handler"}, FALSE, "none")

\* AbortWithStatusJSON with an error payload.  Once the body has begun the status
\* stays as it is, and the payload is appended to that body all the same.
AbortWithStatusJSON(w, status) ==
  [w EXCEPT !.status = IF Written(w) THEN @ ELSE status, !.body = @ \cup {"error"}]

healthHandler == Wrote(200)
metricsHandler == Wrote(200)
notFoundHandler == AbortWithStatusJSON(Response(404, {}, FALSE, "none"), 404)

\* What a handler on the shared engine may do: set a status, write, leave errors,
\* panic.  This is what the middleware is there for.
AnyHandler ==
  {Response(status, body, errors, panic) :
     status \in {200, 400, 500}, body \in {{}, {"handler"}},
     errors \in BOOLEAN, panic \in {"none", "unwinding"}}

\* Responses by route.  The NoMethod handler is never reached: gin only looks for
\* other methods when HandleMethodNotAllowed is set.
Routes == {"/healthz", "/metrics", "unknown", "other"}

Handled(route) ==
  CASE route = "/healthz" -> {healthHandler}
    [] route = "/metrics" -> {metricsHandler}
    [] route = "unknown" -> {notFoundHandler}
    [] route = "other" -> AnyHandler

-----------------------------------------------------------------------------
Unwinds(w) == w.panic = "unwinding"

\* A panic passes by the code behind c.Next().
structuredErrorMiddleware(w) ==
  IF Unwinds(w) \/ Written(w) \/ ~ w.errors THEN w
  ELSE AbortWithStatusJSON(w, IF w.status < 400 THEN 500 ELSE w.status)

PanicLine == [about |-> "panic", level |-> "error", status |-> 0]

\* The deferred function: the panic ends here, and is logged.
Recovered(w) == [w EXCEPT !.panic = "recovered", !.log = @ \cup {PanicLine}]

\* Mutant: the panic is logged, and nobody answers.
recoveryMiddleware_LogsOnly(w) == IF Unwinds(w) THEN Recovered(w) ELSE w

recoveryMiddleware(w) ==
  IF Unwinds(w) THEN AbortWithStatusJSON(Recovered(w), 500) ELSE w

Level(status) ==
  CASE status >= 500 -> "error" [] status \in 400 .. 499 -> "warn" [] status < 400 -> "info"

RequestLine(w) == [about |-> "request", level |-> Level(w.status), status |-> w.status]

requestLogger(w) ==
  IF Unwinds(w) THEN w ELSE [w EXCEPT !.log = @ \cup {RequestLine(w)}]

\* The order of engine.Use: the handler returns into the innermost first.
Unwind(w) == requestLogger(recoveryMiddleware(structuredErrorMiddleware(w)))

-----------------------------------------------------------------------------
\* Nobody is misled by w, neither the client nor the log:
\*   - a panic has been recovered and logged, and the client has been sent the error
\*     payload, with a 5xx unless the handler's body had begun by then;
\*   - errors a handler left are answered: as a failure, unless its body had begun;
\*   - a success only carries the error payload after a panic in mid-body;
\*   - what is logged of the answer is its status, and a 5xx is logged as an error.
IsTold(w) ==
  /\ ~ Unwinds(w)
  /\ w.panic = "recovered" =>
       /\ "error" \in w.body /\ PanicLine \in w.log
       /\ w.status >= 500 \/ "handler" \in w.body
  /\ w.errors => Written(w) /\ (w.status >= 400 \/ "handler" \in w.body)
  /\ "error" \in w.body /\ w.status < 400 => w.panic = "recovered" /\ "handler" \in w.body
  /\ \A line \in w.log : line.about = "request" => line.status = w.status
  /\ w.status >= 500 => \E line \in w.log : line.about = "request" /\ line.level = "error"
=============================================================================
