------------------------------ MODULE Assembly ------------------------------
(***************************************************************************)
(* What `serve` builds from a configuration: serve_command(), crates/cli/  *)
(* src/commands.rs; from_config(), crates/imagegen-bridge/src/             *)
(* application.rs; the constructors they call, in their order, and what    *)
(* each of them refuses.  A step is a pair of its name and of what can go  *)
(* wrong with it; the first step that goes wrong ends the start.           *)
(***************************************************************************)
EXTENDS Settings

(* What the host can deny: a local root, the artifact directory, the         *)
(* session or job database, the codex program, the credentials, the bearer   *)
(* token's variable, the activation lock, the address.                       *)
World == {"roots", "store", "sessions", "codex", "credentials", "token", "lock", "address",
          "database"}

(* OutputParallelism::resolve()                                              *)
Parallel(provider) ==
  IF provider.max_parallel_outputs = Automatic THEN provider.max_outputs
  ELSE IF provider.max_parallel_outputs > 255 THEN 255 ELSE provider.max_parallel_outputs

(* OutputFanoutConfig::validate()                                            *)
CapacityFits(provider) ==
  provider.max_outputs # 0 /\ Parallel(provider) \in 1..provider.max_outputs

(* AppServerRpc::connect()                                                   *)
RpcRefuses(app) ==
  \/ app.rpc_max_message_bytes \notin 1..(64 * MiB)
  \/ app.rpc_max_notification_bytes \notin 1..app.rpc_max_message_bytes
  \/ app.rpc_max_notification_bytes > 48 * MiB
  \/ app.notification_capacity \notin 1..64
  \/ ~RingFits(app)

(* CodexResponsesProvider::new(), with the URL from_config() parses          *)
ResponsesRefuse(responses) ==
  \/ responses.endpoint.scheme = "none"
  \/ responses.endpoint.scheme # "https" /\ responses.endpoint.host # "localhost"
  \/ ~CapacityFits(responses)
  \/ responses.max_transient_attempts \notin 1..2
  \/ responses.transient_retry_backoff_ms > 30 * Second

(* runtime_config(): the sections as the runtime takes them.  A capacity is  *)
(* a number of permits, and unlimited the largest one.                       *)
Permits(capacity) == IF capacity = Unlimited THEN MaxPermits ELSE capacity
Concurrency(limit) ==
  [max_concurrent |-> Permits(limit.max_concurrent), max_queued |-> Permits(limit.max_queued)]

RuntimeConfig(s) ==
  LET r == s.runtime IN
  [request_limits |-> r.request, default_timeout |-> r.default_timeout_ms,
   cancellation_grace |-> r.cancellation_grace_ms, shutdown_grace |-> r.shutdown_grace_ms,
   global_limit |-> Concurrency(r.global),
   default_provider_limit |-> Concurrency(r.provider_default),
   provider_limits |-> [name \in DOMAIN r.providers |-> Concurrency(r.providers[name])],
   default_circuit_breaker |-> r.circuit_breaker, circuit_breakers |-> r.circuit_breakers,
   idempotency |-> r.idempotency,
   materialization |-> [base64 |-> s.artifacts.max_base64_chars,
                        response |-> s.artifacts.max_response_bytes,
                        public_base |-> s.artifacts.public_base_url]]

(* AdmissionGate::new(): a semaphore of more than MaxPermits panics.         *)
GateRefuses(limit) == limit.max_concurrent \notin 1..MaxPermits

(* CircuitBreaker::new()                                                     *)
BreakerRefuses(b) ==
  b.enabled /\ (b.failure_threshold = 0 \/ b.open_duration_ms = 0 \/ b.half_open_max_calls = 0
                \/ b.success_threshold = 0)

(* IdempotencyCoordinator::new()                                             *)
IdempotencyRefuses(config) == \E field \in DOMAIN config : config[field] = 0

(* OutputMaterializer::new(); from_config() has opened the artifact store.   *)
MaterializerRefuses(config) ==
  \/ config.base64 = 0 \/ config.response = 0
  \/ config.public_base # None /\ ~PublicBase(config.public_base)

(* ImagegenRuntime::new(): limits and breakers are for registered names.     *)
LimitOf(config, name) ==
  IF name \in DOMAIN config.provider_limits THEN config.provider_limits[name]
  ELSE config.default_provider_limit
BreakerOf(config, name) ==
  IF name \in DOMAIN config.circuit_breakers THEN config.circuit_breakers[name]
  ELSE config.default_circuit_breaker

RuntimeSteps(config, registered) ==
  <<<<"default timeout", Outside(config.default_timeout, config.request_limits.timeout)>>,
    <<"cancellation grace", Outside(config.cancellation_grace, 30 * Second)>>,
    <<"shutdown grace", Outside(config.shutdown_grace, 300 * Second)>>,
    <<"unregistered name",
      ~(DOMAIN config.provider_limits \cup DOMAIN config.circuit_breakers \subseteq registered)>>,
    <<"gate", \/ GateRefuses(config.global_limit)
              \/ \E name \in registered : GateRefuses(LimitOf(config, name))>>,
    <<"breaker", \E name \in registered : BreakerRefuses(BreakerOf(config, name))>>,
    <<"idempotency", IdempotencyRefuses(config.idempotency)>>,
    <<"materializer", MaterializerRefuses(config.materialization)>>>>

(* AppServerImageProvider, its child process and its fan-out                 *)
AppServerSteps(app, denied) ==
  IF ~app.enabled THEN <<>>
  ELSE <<<<"sessions", "sessions" \in denied>>, <<"codex", "codex" \in denied>>,
         <<"rpc", RpcRefuses(app)>>, <<"fan-out", ~CapacityFits(app)>>>>

ResponsesSteps(responses, denied) ==
  IF ~responses.enabled THEN <<>>
  ELSE <<<<"credentials", "credentials" \in denied>>, <<"responses", ResponsesRefuse(responses)>>>>

(* ServerState::from_settings(), with JobManager::open() in it               *)
ServerSteps(server, denied) ==
  <<<<"token", server.bearer_token_env # None /\ "token" \in denied>>,
    <<"database", server.jobs.enabled /\ "database" \in denied>>,
    <<"workers", server.jobs.enabled /\ server.jobs.max_running > MaxPermits>>>>

(* ProviderRegistry::new() of what from_config() has built                   *)
RegistryRefuses(s, registered) ==
  registered = {} \/ s.default_provider \in BadNames \/ s.default_provider \notin registered

(* The providers that from_config() builds: this build has no `openai`.      *)
Registry(s) == Enabled(s) \ {"openai"}

(* serve_command() after the check, with from_config() in it                 *)
AssemblySteps(s, denied) ==
  LET registered == Registry(s) IN
  <<<<"lock", s.server.activation_lock # None /\ "lock" \in denied>>,
    <<"openai", s.providers.openai.enabled>>,
    <<"roots", "roots" \in denied>>, <<"store", "store" \in denied>>>>
  \o AppServerSteps(s.providers.codex_app_server, denied)
  \o ResponsesSteps(s.providers.codex_responses, denied)
  \o <<<<"registry", RegistryRefuses(s, registered)>>>>
  \o RuntimeSteps(RuntimeConfig(s), registered)
  \o <<<<"address", "address" \in denied>>>>
  \o ServerSteps(s.server, denied)
  \o <<<<"listener", Permits(s.server.max_connections) \notin 1..MaxPermits>>>>

(* The step that ends the start, None if it goes through.                    *)
Obstacle(s, denied) ==
  LET steps == AssemblySteps(s, denied)
      wrong == {i \in DOMAIN steps : steps[i][2]}
  IN IF wrong = {} THEN None
     ELSE steps[CHOOSE i \in wrong : \A j \in wrong : i <= j][1]
=============================================================================
