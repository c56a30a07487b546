-------------------------- MODULE HttpMiddlewareProofs --------------------------
(***************************************************************************)
(* What the chain of HttpMiddleware makes of every response its handlers   *)
(* may leave: one lemma for each middleware, innermost first.              *)
(***************************************************************************)
EXTENDS HttpMiddleware, TLAPS

Lines == [about : {"request", "panic"}, level : {"error", "warn", "info"}, status : Nat]

Responses ==
  [status : Statuses, body : SUBSET {"handler", "error"}, errors : BOOLEAN,
   panic : {"none", "unwinding", "recovered"}, log : SUBSET Lines]

\* What a handler leaves: the error payload only goes with the status of a failure, and
\* whoever panics has not sent it.
Left(w) ==
  /\ w \in Responses
  /\ w.log = {}
  /\ w.panic # "recovered"
  /\ "error" \in w.body => w.status >= 400
  /\ Unwinds(w) => "error" \notin w.body

\* The errors of a handler are answered.
Answered(w) == w.errors => Written(w) /\ (w.status >= 400 \/ "handler" \in w.body)

\* What comes out of recovery.
Calm(w) ==
  /\ w \in Responses
  /\ ~ Unwinds(w)
  /\ w.log \subseteq {PanicLine}
  /\ w.panic = "recovered" =>
       /\ "error" \in w.body /\ PanicLine \in w.log
       /\ w.status >= 500 \/ "handler" \in w.body
  /\ Answered(w)
  /\ "error" \in w.body /\ w.status < 400 => w.panic = "recovered" /\ "handler" \in w.body

-----------------------------------------------------------------------------
LEMMA ResponseLeft ==
  \A status \in Statuses, body \in {{}, {"handler"}}, errors \in BOOLEAN,
     panic \in {"none", "unwinding"} :
    Left(Response(status, body, errors, panic))
BY DEF Left, Responses, Response, Unwinds

\* The one helper that writes error payloads, field by field.
LEMMA AbortFields ==
  ASSUME NEW w \in Responses, NEW status \in {400, 404, 500}
  PROVE  LET v == AbortWithStatusJSON(w, status) IN
         /\ v \in Responses
         /\ v.status = IF Written(w) THEN w.status ELSE status
         /\ v.body = w.body \cup {"error"}
         /\ v.errors = w.errors
         /\ v.panic = w.panic
         /\ v.log = w.log
<1> DEFINE code == IF Written(w) THEN w.status ELSE status
           u == [w EXCEPT !.status = code]
           v == [u EXCEPT !.body = w.body \cup {"error"}]
<1>1. code \in Statuses
  BY DEF Responses, Statuses
<1>2. AbortWithStatusJSON(w, status) = v
  BY DEF AbortWithStatusJSON, Responses
<1> HIDE DEF code
<1>3. /\ u \in Responses /\ u.status = code /\ u.body = w.body /\ u.errors = w.errors
      /\ u.panic = w.panic /\ u.log = w.log
  BY <1>1 DEF Responses
<1>4. w.body \cup {"error"} \in SUBSET {"handler", "error"}
  BY DEF Responses
<1> HIDE DEF u
<1>5. /\ v \in Responses /\ v.status = u.status /\ v.body = w.body \cup {"error"}
      /\ v.errors = u.errors /\ v.panic = u.panic /\ v.log = u.log
  BY <1>3, <1>4 DEF Responses
<1> QED
  BY <1>2, <1>3, <1>5 DEF code

\* The responses of every route.
LEMMA HandledLeft ==
  ASSUME NEW route \in Routes, NEW w \in Handled(route)
  PROVE  Left(w)
<1>1. CASE route \in {"/healthz", "/metrics"}
  <2>1. 200 \in Statuses
    BY DEF Statuses
  <2>2. Left(Response(200, {"handler"}, FALSE, "none"))
    BY ONLY <2>1, ResponseLeft
  <2> QED
    BY <1>1, <2>2 DEF Handled, healthHandler, metricsHandler, Wrote
<1>2. CASE route = "unknown"
  <2> DEFINE v == Response(404, {}, FALSE, "none")
  <2>1. 404 \in Statuses
    BY DEF Statuses
  <2>2. v.body = {} /\ v.panic = "none" /\ v.status = 404
    BY DEF Response
  <2>3. Left(v)
    BY ONLY <2>1, ResponseLeft
  <2>4. w = AbortWithStatusJSON(v, 404)
    BY <1>2 DEF Handled, notFoundHandler
  <2> HIDE DEF v
  <2>5. /\ w \in Responses /\ w.status = 404 /\ w.log = {} /\ w.panic = "none"
    BY <2>2, <2>3, <2>4, AbortFields DEF Left
  <2> QED
    BY <2>5 DEF Left, Unwinds
<1>3. CASE route = "other"
  <2>1. PICK status \in {200, 400, 500}, body \in {{}, {"handler"}}, errors \in BOOLEAN,
             panic \in {"none", "unwinding"} : w = Response(status, body, errors, panic)
    BY <1>3 DEF Handled, AnyHandler
  <2>2. status \in Statuses
    BY <2>1 DEF Statuses
  <2> QED
    BY ONLY <2>1, <2>2, ResponseLeft
<1> QED
  BY <1>1, <1>2, <1>3 DEF Routes

\* The error middleware answers what the handler only left.
LEMMA ErrorsMade ==
  ASSUME NEW w, Left(w)
  PROVE  LET v == structuredErrorMiddleware(w) IN
         Left(v) /\ (Unwinds(v) \/ Answered(v))
<1>1. CASE Unwinds(w) \/ ~ w.errors
  BY <1>1 DEF structuredErrorMiddleware, Answered
<1>2. CASE ~ Unwinds(w) /\ Written(w)
  <2>1. "error" \in w.body \/ "handler" \in w.body
    BY <1>2 DEF Left, Responses, Written
  <2> QED
    BY <1>2, <2>1 DEF structuredErrorMiddleware, Answered, Left
<1>3. CASE ~ Unwinds(w) /\ w.errors /\ ~ Written(w)
  <2> DEFINE status == IF w.status < 400 THEN 500 ELSE w.status
             v == AbortWithStatusJSON(w, status)
  <2>1. status \in {400, 404, 500}
    BY DEF Left, Responses, Statuses
  <2>2. structuredErrorMiddleware(w) = v
    BY <1>3 DEF structuredErrorMiddleware
  <2> HIDE DEF status
  <2>3. /\ v \in Responses /\ v.status = status /\ "error" \in v.body
        /\ v.panic = w.panic /\ v.log = {}
    BY <1>3, <2>1, AbortFields DEF Left
  <2> HIDE DEF v
  <2>4. Left(v) /\ Answered(v)
    BY <1>3, <2>1, <2>3 DEF Left, Answered, Written, Unwinds
  <2> QED
    BY <2>2, <2>4
<1> QED
  BY <1>1, <1>2, <1>3

\* Recovery lets no panic by, and answers it.
LEMMA PanicsCaught ==
  ASSUME NEW w, Left(w), Unwinds(w) \/ Answered(w)
  PROVE  Calm(recoveryMiddleware(w))
<1>1. CASE ~ Unwinds(w)
  <2>1. recoveryMiddleware(w) = w
    BY <1>1 DEF recoveryMiddleware
  <2>2. "error" \in w.body => ~ w.status < 400
    BY DEF Left, Responses, Statuses
  <2>3. Calm(w)
    BY <1>1, <2>2 DEF Left, Calm
  <2> QED
    BY <2>1, <2>3
<1>2. CASE Unwinds(w)
  <2> DEFINE u == Recovered(w)
             v == AbortWithStatusJSON(u, 500)
  <2>1. /\ u \in Responses /\ u.status = w.status /\ u.body = w.body
        /\ u.panic = "recovered" /\ u.log = {PanicLine}
    <3>1. PanicLine \in Lines
      BY DEF PanicLine, Lines
    <3> DEFINE r == [w EXCEPT !.panic = "recovered"]
    <3>2. /\ r \in Responses /\ r.status = w.status /\ r.body = w.body
          /\ r.panic = "recovered" /\ r.log = {}
      BY DEF Left, Responses
    <3>3. u = [r EXCEPT !.log = w.log \cup {PanicLine}]
      BY DEF Recovered, Left, Responses
    <3>4. w.log \cup {PanicLine} = {PanicLine}
      BY DEF Left
    <3> HIDE DEF r, u
    <3> QED
      BY <3>1, <3>2, <3>3, <3>4 DEF Responses
  <2>2. recoveryMiddleware(w) = v
    BY <1>2 DEF recoveryMiddleware
  <2> HIDE DEF u
  <2>3. /\ v \in Responses /\ "error" \in v.body /\ v.panic = "recovered"
        /\ v.log = {PanicLine}
    BY <2>1, AbortFields
  <2>4. v.status = 500 \/ "handler" \in v.body
    <3>1. CASE Written(u)
      <4>1. "handler" \in u.body
        BY <1>2, <2>1, <3>1 DEF Left, Responses, Written
      <4> QED
        BY <2>1, <4>1, AbortFields
    <3>2. CASE ~ Written(u)
      BY <2>1, <3>2, AbortFields
    <3> QED
      BY <3>1, <3>2
  <2> HIDE DEF v
  <2>5. Calm(v)
    BY <2>3, <2>4 DEF Calm, Answered, Written, Unwinds
  <2> QED
    BY <2>2, <2>5
<1> QED
  BY <1>1, <1>2

\* The request line tells the truth, and of all the lines only those below the level
\* error may be hidden.
LEMMA LinesTell ==
  ASSUME NEW w, Calm(w), NEW shown \in SUBSET requestLogger(w).log,
         \A line \in requestLogger(w).log : line.level = "error" => line \in shown
  PROVE  LET told == [requestLogger(w) EXCEPT !.log = shown] IN
         IsTold(told) /\ told.status \in Statuses
<1> DEFINE v == requestLogger(w)
           told == [v EXCEPT !.log = shown]
<1>1. v = [w EXCEPT !.log = w.log \cup {RequestLine(w)}]
  BY DEF requestLogger, Calm
<1>2. /\ v.status = w.status /\ v.body = w.body /\ v.errors = w.errors /\ v.panic = w.panic
      /\ v.log = w.log \cup {RequestLine(w)}
  <2> HIDE DEF v
  <2> QED
    BY <1>1 DEF Calm, Responses
<1>3. /\ told.status = w.status /\ told.body = w.body /\ told.errors = w.errors
      /\ told.panic = w.panic /\ told.log = shown
  <2>1. v = [status |-> v.status, body |-> v.body, errors |-> v.errors,
             panic |-> v.panic, log |-> v.log]
    <3> HIDE DEF v
    <3> QED
      BY <1>1 DEF Calm, Responses
  <2> HIDE DEF v
  <2> QED
    BY <1>2, <2>1
<1>4. w.status \in Statuses
  BY DEF Calm, Responses
<1>5. /\ RequestLine(w).about = "request" /\ RequestLine(w).status = w.status
      /\ w.status >= 500 => RequestLine(w).level = "error"
  BY <1>4 DEF RequestLine, Level, Statuses
<1>6. PanicLine.about = "panic" /\ PanicLine.level = "error"
  BY DEF PanicLine
<1>7. \A line \in v.log : line = RequestLine(w) \/ line = PanicLine
  BY <1>2 DEF Calm
<1> HIDE DEF v, told
<1>8. \A line \in told.log : line.about = "request" => line.status = told.status
  BY <1>3, <1>5, <1>6, <1>7 DEF v
<1>9. told.status >= 500 => \E line \in told.log : line.about = "request" /\ line.level = "error"
  BY <1>2, <1>3, <1>5 DEF v
<1>10. told.panic = "recovered" => PanicLine \in told.log
  BY <1>2, <1>3, <1>6 DEF v, Calm
<1>11. IsTold(told)
  BY <1>3, <1>8, <1>9, <1>10 DEF IsTold, Calm, Answered, Unwinds, Written
<1>12. told.status \in Statuses
  BY <1>3, <1>4
<1> QED
  BY <1>11, <1>12 DEF told, v

LEMMA ChainAnswers ==
  ASSUME NEW route \in Routes, NEW w \in Handled(route), NEW shown \in SUBSET Unwind(w).log,
         \A line \in Unwind(w).log : line.level = "error" => line \in shown
  PROVE  LET told == [Unwind(w) EXCEPT !.log = shown] IN
         IsTold(told) /\ told.status \in Statuses
<1> DEFINE made == structuredErrorMiddleware(w)
           calm == recoveryMiddleware(made)
<1>1. Left(made) /\ (Unwinds(made) \/ Answered(made))
  BY HandledLeft, ErrorsMade
<1>2. Unwind(w) = requestLogger(calm)
  BY DEF Unwind
<1> HIDE DEF made
<1>3. Calm(calm)
  BY <1>1, PanicsCaught
<1> HIDE DEF calm
<1> QED
  BY <1>2, <1>3, LinesTell

-----------------------------------------------------------------------------
\* Unwind, the order of engine.Use: every failure is answered as one as far as the
\* handler has left it possible, a panic above all, and both the panic and a 5xx are
\* logged whichever lines below the level error are hidden.
THEOREM ChainTells ==
  ASSUME NEW route \in Routes, NEW w \in Handled(route), NEW shown \in SUBSET Unwind(w).log,
         \A line \in Unwind(w).log : line.level = "error" => line \in shown
  PROVE  IsTold([Unwind(w) EXCEPT !.log = shown])
BY ChainAnswers
=============================================================================
