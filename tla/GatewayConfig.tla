----------------------------- MODULE GatewayConfig -----------------------------
(***************************************************************************)
(* What kd-gateway makes of its environment before it serves: the          *)
(* configuration (configs/config.go), the TLS credentials and interceptor  *)
(* chains of the gRPC server (infrastructure/grpc/server.go) and the log   *)
(* level (infrastructure/observability/logger.go).                         *)
(*                                                                         *)
(* A setting is taken for what the code makes of its text: that of a file  *)
(* is what reading the file gives, that of a duration its sign.            *)
(***************************************************************************)
EXTENDS Naturals, Sequences

\* The certificate and its key are one setting here.
GRPCConfig == {"grpc.key_pair", "grpc.mtls", "grpc.client_ca_file", "grpc.debug"}

Keys ==
  GRPCConfig \cup {"heartbeat.check_interval", "agent.duplicate_policy", "app.log_level"}

\* No key pair, and a path that begins with "~", which os.ReadFile takes literally.
Defaults ==
  [k \in Keys |->
     CASE k = "grpc.key_pair" -> "missing"
       [] k = "grpc.mtls" -> "true"
       [] k = "grpc.client_ca_file" -> "unreadable"
       [] k = "grpc.debug" -> "false"
       [] k = "heartbeat.check_interval" -> "positive"
       [] k = "agent.duplicate_policy" -> "reject_new"
       [] k = "app.log_level" -> "info"]

\* viper takes a variable that is set and empty for one that is not set.
Setting(env, k) == IF env[k] \in {"unset", "empty"} THEN Defaults[k] ELSE env[k]

Config(env) == [k \in Keys |-> Setting(env, k)]

\* Only numbers, booleans and durations can be refused by Unmarshal.
Decodes(cfg) == \A k \in Keys : cfg[k] # "ill-formed"

NoCredentials == [certificate |-> FALSE, clientAuth |-> "none", clientCAs |-> {}]

Certified == [NoCredentials EXCEPT !.certificate = TRUE]

Verifying(pool) ==
  [Certified EXCEPT !.clientAuth = "RequireAndVerifyClientCert", !.clientCAs = pool]

\* Mutant: nobody looks whether the client CA file held a certificate.
BuildCredentials_AnyCA(cfg) ==
  IF cfg["grpc.key_pair"] # "valid" THEN NoCredentials
  ELSE IF cfg["grpc.mtls"] # "true" THEN Certified
  ELSE IF cfg["grpc.client_ca_file"] = "unreadable" THEN NoCredentials
  ELSE Verifying({"ca"} \cap {cfg["grpc.client_ca_file"]})

\* BuildCredentials: NoCredentials stands for an error.  A client_ca_file "" is
\* refused as well, but no environment asks for it (Setting).
BuildCredentials(cfg) ==
  IF cfg["grpc.key_pair"] # "valid" THEN NoCredentials
  ELSE IF cfg["grpc.mtls"] # "true" THEN Certified
  ELSE IF cfg["grpc.client_ca_file"] # "ca" THEN NoCredentials
  ELSE Verifying({"ca"})

BaseInterceptors == <<"logging">>
MetricsInterceptors == <<"metrics">>
DebugInterceptors == <<"debug">>

\* buildServerOptions: the chain of unary calls and that of streams are alike,
\* outermost first.  fx always provides the metrics.
Interceptors(cfg) ==
  MetricsInterceptors \o BaseInterceptors
    \o IF cfg["grpc.debug"] = "true" THEN DebugInterceptors ELSE <<>>

\* The levels of slog, in their order, and parseLevel: what it does not know is info.
Levels == <<"debug", "info", "warn", "error">>

Rank(level) == CHOOSE i \in 1 .. Len(Levels) : Levels[i] = level

LogLevel(cfg) ==
  CASE cfg["app.log_level"] = "warning" -> "warn"
    [] cfg["app.log_level"] \in {"debug", "warn", "error"} -> cfg["app.log_level"]
    [] OTHER -> "info"

\* Whether the logger of NewLogger writes a line of that level.
Logs(cfg, level) == Rank(level) >= Rank(LogLevel(cfg))

\* The interceptors use slog's own functions, and nobody calls slog.SetDefault: their
\* lines go to the default logger, whose level is info, whatever is configured.
LineLevel(interceptor) == IF interceptor = "logging" THEN "info" ELSE "debug"

LineWritten(interceptor) == Rank(LineLevel(interceptor)) >= Rank("info")

\* registerWithPolicy rejects under any value but one.
DuplicatePolicy(cfg) ==
  IF cfg["agent.duplicate_policy"] = "evict_previous" THEN "evict_previous" ELSE "reject_new"
=============================================================================
