----------------------------- MODULE CommandCalls -----------------------------
(***************************************************************************)
(* What Router.Send promises those who call it, whatever agents, streams   *)
(* and other callers do (the error semantics of router.go:40-45, as the    *)
(* code keeps them).  CommandRouter implements this specification.         *)
(*                                                                         *)
(* A call returns once, and nothing happens on its behalf afterwards: the  *)
(* caller who got an error may try again and the first command will not    *)
(* follow.  It may have gone out before, though, also when the error is    *)
(* Unavailable.                                                            *)
(***************************************************************************)
CONSTANTS Calls, NoCall

VARIABLES
  requestOf,   \* the request_id of each call's command
  given,       \* the calls whose command was handed to a stream
  answer       \* what each call has been answered: a result or an error

callsVars == <<requestOf, given, answer>>

CallsInit ==
  /\ given = {}
  /\ answer = [k \in Calls |-> NoCall]

Open(k) == answer[k] = NoCall

Return(k, a) == Open(k) /\ answer' = [answer EXCEPT ![k] = a]

\* The command goes out, at most once and never behind the caller's back.
Give(k) ==
  /\ Open(k)
  /\ k \notin given
  /\ given' = given \cup {k}
  /\ UNCHANGED answer

\* A result is an answer to a command that went out under the same request_id: the
\* call's own, or that of a call it shares the request_id with.
ReturnResult(k) ==
  /\ k \in given
  /\ \E j \in given : requestOf[j] = requestOf[k] /\ Return(k, j)
  /\ UNCHANGED given

\* The agent may or may not have the command.
ReturnUnavailable(k) == Return(k, "Unavailable") /\ UNCHANGED given

\* The context is looked at when the command is out, and not before.
ReturnContextOver(k) == k \in given /\ Return(k, "ContextOver") /\ UNCHANGED given

CallsNext ==
  /\ \E k \in Calls :
       Give(k) \/ ReturnResult(k) \/ ReturnUnavailable(k) \/ ReturnContextOver(k)
  /\ UNCHANGED requestOf

CallsSpec == CallsInit /\ [][CallsNext]_callsVars
=============================================================================
