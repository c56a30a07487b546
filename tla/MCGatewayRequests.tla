-------------------------- MODULE MCGatewayRequests --------------------------
(* GatewayRequests on small instances. *)
EXTENDS GatewayRequests, TLC

CONSTANTS s1, s2

\* One agent says its environment under both keys, the other badly under the first.
MCMetadata ==
  s1 :> ("environment" :> "prod" @@ "env" :> "dev")
    @@ s2 :> ("environment" :> "not a string" @@ "env" :> "dev")

Unset == [k \in Keys |-> "unset"]
Plain == [Unset EXCEPT !["grpc.key_pair"] = "valid", !["grpc.mtls"] = "false"]

\* The default environment; two that serve: one with a policy nobody knows and all else
\* plain, one with everything, and a ticker that panics; and one mistake each.
MCEnvironments ==
  {Unset,
   [Plain EXCEPT !["agent.duplicate_policy"] = "evict"],
   [Plain EXCEPT !["grpc.mtls"] = "true", !["grpc.client_ca_file"] = "ca",
                 !["grpc.debug"] = "true", !["app.log_level"] = "error",
                 !["heartbeat.check_interval"] = "not positive"],
   [Plain EXCEPT !["grpc.mtls"] = "empty"],
   [Plain EXCEPT !["grpc.mtls"] = "true", !["grpc.client_ca_file"] = "no certificate"],
   [Plain EXCEPT !["grpc.debug"] = "ill-formed"]}

\* What other requests and the health service answer depends on nothing the streams do.
\* Other routes are only asked for before the first hello, and nothing else happens until
\* the next request; while a check is on its way out, only other RPCs on theirs are.
Answering(r) == stage[r] = "answered"
Checking(h) == answer[h] # "none" /\ told[h] = "none"

MCNext ==
  \/ \E r \in Requests : Answering(r) /\ NextRequest(r)
  \/ /\ \A r \in Requests : ~ Answering(r)
     /\ \E x \in Rpcs : Returns(x)
  \/ /\ \A r \in Requests : ~ Answering(r)
     /\ \A h \in Checks : ~ Checking(h)
     /\ Serves \/ ((\A s \in Streams : pc[s] = "first") /\ \E r \in Requests : ServeRoute(r))

MCSpec == RequestsInit /\ [][MCNext]_requestVars

Symmetric == Permutations(CallerIDs)
=============================================================================
