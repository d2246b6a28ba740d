------------------------------ MODULE Settings ------------------------------
(***************************************************************************)
(* The configuration: its sections with their defaults, crates/config/src/ *)
(* model.rs; check(), validation.rs; and the objects that `serve` builds   *)
(* from it once it is accepted, crates/imagegen-bridge/src/application.rs. *)
(* Every constructor checks its own part again.  Fields have the names of  *)
(* the file; a path, a name or a credential reference is "fine" or "bad",  *)
(* a URL is what the checks look at, an absent optional field is None.     *)
(***************************************************************************)
EXTENDS Request

CONSTANTS Unlimited,  \* Capacity: no limit
          Automatic   \* OutputParallelism: as many as outputs

Second == 1000
MiB == KiB * KiB
Hour == 3600

(* usize::MAX >> 3, the most permits a semaphore can have.  The model's      *)
(* integers are narrower; the place of the bound is what matters.            *)
MaxPermits == 2 ^ 30

Url(scheme, host) ==
  [scheme |-> scheme, host |-> host, user |-> FALSE, query |-> FALSE, fragment |-> FALSE,
   slash |-> TRUE]

UnlimitedConcurrency == [max_concurrent |-> Unlimited, max_queued |-> Unlimited]

CircuitBreakerDefaults ==
  [enabled |-> TRUE, failure_threshold |-> 5, open_duration_ms |-> 180 * Second,
   half_open_max_calls |-> 1, success_threshold |-> 1]

IdempotencyDefaults ==
  [max_entries |-> 10000, max_completed_bytes |-> 256 * MiB, completed_ttl_secs |-> 24 * Hour,
   in_flight_ttl_secs |-> 31 * 60, unknown_ttl_secs |-> 24 * Hour]

RuntimeDefaults ==
  [default_timeout_ms |-> 300 * Second, cancellation_grace_ms |-> Second,
   shutdown_grace_ms |-> 10 * Second, global |-> UnlimitedConcurrency, provider_default |-> UnlimitedConcurrency,
   providers |-> <<>>, circuit_breaker |-> CircuitBreakerDefaults, circuit_breakers |-> <<>>,
   request |-> [DefaultLimits EXCEPT !.outputs = 255], idempotency |-> IdempotencyDefaults]

RemoteDefaults ==
  [enabled |-> FALSE, allowed_hosts |-> "fine", allowed_ports |-> {80, 443},
   allow_private_networks |-> FALSE, max_redirects |-> 3, timeout_ms |-> 20 * Second,
   max_url_bytes |-> 8 * KiB]

ImageDefaults ==
  [max_encoded_bytes |-> 32 * MiB, max_edge |-> 16384, max_pixels |-> 64 * MiB,
   max_decode_alloc |-> 256 * MiB]

RetentionDefaults ==
  [max_age_secs |-> 7 * 24 * Hour, max_artifacts |-> None, max_scan_entries |-> 100000]

ArtifactDefaults ==
  [root |-> "fine", public_base_url |-> None, max_base64_chars |-> 128 * MiB,
   max_response_bytes |-> 256 * MiB, image |-> ImageDefaults, remote_output |-> RemoteDefaults,
   retention |-> RetentionDefaults]

AppServerDefaults ==
  [enabled |-> TRUE, executable |-> "fine", args |-> "fine", cwd |-> None, codex_model |-> None,
   session_database |-> "fine", max_outputs |-> 255, max_parallel_outputs |-> Automatic,
   rpc_max_message_bytes |-> 64 * MiB, rpc_max_notification_bytes |-> 48 * MiB,
   rpc_timeout_ms |-> 60 * Second, notification_capacity |-> 4,
   shutdown_timeout_ms |-> 5 * Second, restart_backoff_ms |-> 250]

ResponsesDefaults ==
  [enabled |-> TRUE, endpoint |-> Url("https", "remote"), responses_model |-> "gpt-5.5",
   image_model |-> "gpt-image-2", max_outputs |-> 255, max_parallel_outputs |-> Automatic,
   max_transient_attempts |-> 2, transient_retry_backoff_ms |-> 750]

OpenAiDefaults ==
  [enabled |-> FALSE, base_url |-> Url("https", "remote"), api_key_env |-> "fine",
   model |-> None, organization_env |-> "fine", project_env |-> "fine"]

JobDefaults ==
  [enabled |-> TRUE, database |-> "fine", max_pending |-> 1000, max_running |-> 4,
   retention_secs |-> 7 * 24 * Hour, max_retained |-> 10000,
   max_retained_bytes |-> 256 * MiB, max_database_bytes |-> 1024 * MiB]

ServerDefaults ==
  [bind |-> "loopback", bearer_token_env |-> None, activation_lock |-> None,
   max_body_bytes |-> 80 * MiB, max_header_bytes |-> 32 * KiB, max_connections |-> Unlimited,
   read_timeout_ms |-> 0, write_timeout_ms |-> 30 * Second, metrics |-> [enabled |-> FALSE],
   tracing |-> [enabled |-> TRUE], jobs |-> JobDefaults]

(* BridgeConfig::default()                                                   *)
Defaults ==
  [version |-> 1, default_provider |-> "codex-responses", runtime |-> RuntimeDefaults,
   inputs |-> [local_roots |-> 1, remote |-> RemoteDefaults], artifacts |-> ArtifactDefaults,
   providers |-> [codex_app_server |-> AppServerDefaults, codex_responses |-> ResponsesDefaults,
                  openai |-> OpenAiDefaults],
   server |-> ServerDefaults]

Enabled(s) ==
  {pair[1] : pair \in {provider \in {<<"codex-app-server", s.providers.codex_app_server.enabled>>,
                                     <<"codex-responses", s.providers.codex_responses.enabled>>,
                                     <<"openai", s.providers.openai.enabled>>} : provider[2]}}
-----------------------------------------------------------------------------
(* The fields of the rules that are broken.                                  *)
Broken(rules) == {rule[1] : rule \in {pair \in rules : pair[2]}}

(* valid_provider_name(): the names used here that are none.                 *)
BadNames == {"", "Codex", "codex_responses"}

(* validate_concurrency()                                                    *)
NoRoom(limit) == limit.max_concurrent = 0

(* !(1..=most).contains(&value)                                              *)
Outside(value, most) == value \notin 1..most

(* validate_circuit_breaker()                                                *)
BreakerIssue(b) ==
  b.enabled /\ \/ Outside(b.failure_threshold, 10000)
               \/ Outside(b.open_duration_ms, 24 * Hour * Second)
               \/ Outside(b.half_open_max_calls, 100)
               \/ Outside(b.success_threshold, 100)

RuntimeIssues(r) ==
  Broken(
    {<<"runtime.global", NoRoom(r.global)>>,
     <<"runtime.provider_default", NoRoom(r.provider_default)>>,
     <<"runtime.providers", DOMAIN r.providers \cap BadNames # {}>>,
     <<"runtime.providers.*", \E name \in DOMAIN r.providers : NoRoom(r.providers[name])>>,
     <<"runtime.circuit_breaker", BreakerIssue(r.circuit_breaker)>>,
     <<"runtime.circuit_breakers", DOMAIN r.circuit_breakers \cap BadNames # {}>>,
     <<"runtime.circuit_breakers.*",
       \E name \in DOMAIN r.circuit_breakers : BreakerIssue(r.circuit_breakers[name])>>,
     <<"runtime.default_timeout_ms", Outside(r.default_timeout_ms, r.request.timeout)>>,
     <<"runtime.cancellation_grace_ms", Outside(r.cancellation_grace_ms, 30 * Second)>>,
     <<"runtime.shutdown_grace_ms", Outside(r.shutdown_grace_ms, 300 * Second)>>,
     <<"runtime.request", \E field \in DOMAIN r.request : r.request[field] = 0>>,
     <<"runtime.idempotency", \E field \in DOMAIN r.idempotency : r.idempotency[field] = 0>>})

(* validate_remote()                                                         *)
RemoteIssue(remote) ==
  \/ remote.max_redirects > 10 \/ remote.timeout_ms = 0 \/ remote.max_url_bytes = 0
  \/ remote.enabled /\ remote.allowed_ports = {}
  \/ 0 \in remote.allowed_ports
  \/ remote.allowed_hosts = "bad"

(* valid_public_base_url(), and the same rule in OutputMaterializer::new()   *)
PublicBase(url) ==
  url.scheme \in {"http", "https"} /\ ~url.user /\ ~url.query /\ ~url.fragment /\ url.slash

ArtifactIssues(a) ==
  Broken(
    {<<"artifacts.remote_output", RemoteIssue(a.remote_output)>>,
     <<"artifacts", a.max_base64_chars = 0 \/ a.max_response_bytes = 0>>,
     <<"artifacts.image", \E field \in DOMAIN a.image : a.image[field] = 0>>,
     <<"artifacts.image.max_pixels", a.image.max_pixels > a.image.max_edge * a.image.max_edge>>,
     <<"artifacts.retention", \/ a.retention.max_scan_entries = 0 \/ a.retention.max_age_secs = 0
                              \/ a.retention.max_artifacts = 0>>,
     <<"artifacts.public_base_url",
       a.public_base_url # None /\ ~PublicBase(a.public_base_url)>>})

(* Mutant: the parallelism is not held against the outputs.                  *)
OutputsIssueLoose(provider, limits) ==
  \/ provider.max_outputs \notin 1..limits.outputs
  \/ provider.max_parallel_outputs = 0

(* The output capacity of a provider, for both of them.                      *)
OutputsIssue(provider, limits) ==
  \/ provider.max_outputs \notin 1..limits.outputs
  \/ /\ provider.max_parallel_outputs # Automatic
     /\ provider.max_parallel_outputs \notin 1..provider.max_outputs

(* The next power of two: the slots of a broadcast channel.                  *)
Slots(capacity) == CHOOSE n \in {2 ^ k : k \in 0..12} : n >= capacity /\ (n = 1 \/ n < 2 * capacity)

RingFits(app) == app.rpc_max_notification_bytes <= (256 * MiB) \div Slots(app.notification_capacity)

AppServerIssues(app, limits) ==
  Broken(
    {<<"codex_app_server.executable", app.executable = "bad">>,
     <<"codex_app_server.max_outputs", OutputsIssue(app, limits)>>,
     <<"codex_app_server",
       \/ app.rpc_max_message_bytes \notin 1..(64 * MiB)
       \/ app.rpc_max_notification_bytes \notin 1..app.rpc_max_message_bytes
       \/ app.rpc_max_notification_bytes > 48 * MiB
       \/ app.rpc_timeout_ms = 0 \/ app.notification_capacity \notin 1..64
       \/ ~RingFits(app)
       \/ app.shutdown_timeout_ms = 0 \/ app.restart_backoff_ms > 30 * Second>>})

(* valid_upstream_url().  host_str() writes ::1 with its brackets, so the    *)
(* loopback of version 6 is not among the hosts.                             *)
Upstream(url) ==
  /\ url.scheme = "https" \/ (url.scheme = "http" /\ url.host = "localhost")
  /\ ~url.user /\ ~url.fragment

ResponsesIssues(responses, limits) ==
  Broken(
    {<<"codex_responses.endpoint", ~Upstream(responses.endpoint)>>,
     <<"codex_responses", responses.responses_model = "" \/ responses.image_model = "">>,
     <<"codex_responses.max_parallel_outputs", OutputsIssue(responses, limits)>>,
     <<"codex_responses.max_transient_attempts",
       responses.max_transient_attempts \notin 1..2>>,
     <<"codex_responses.transient_retry_backoff_ms",
       responses.transient_retry_backoff_ms > 30 * Second>>})

OpenAiIssues(openai) ==
  Broken(
    {<<"openai.base_url", ~Upstream(openai.base_url)>>,
     <<"openai.api_key_env", openai.api_key_env = "bad">>,
     <<"openai.organization_env", openai.organization_env = "bad">>,
     <<"openai.project_env", openai.project_env = "bad">>})

JobsIssue(jobs) ==
  jobs.enabled /\ \/ jobs.database = "bad"
                  \/ \E field \in {"max_pending", "max_running", "retention_secs", "max_retained",
                                   "max_retained_bytes", "max_database_bytes"} : jobs[field] = 0
                  \/ jobs.max_retained_bytes > jobs.max_database_bytes

ServerIssues(server) ==
  Broken(
    {<<"server.bearer_token_env", server.bearer_token_env = "bad">>,
     <<"server.bearer_token_env", server.bind = "remote" /\ server.bearer_token_env = None>>,
     <<"server.bind", server.bind = "garbage">>,
     <<"server", \/ server.max_body_bytes = 0 \/ server.max_header_bytes = 0
                 \/ server.max_connections = 0 \/ server.write_timeout_ms = 0>>,
     <<"server.activation_lock", server.activation_lock = "bad">>,
     <<"server.jobs", JobsIssue(server.jobs)>>})

(* BridgeConfig::check()                                                     *)
SettingsIssues(s) ==
  LET OfProvider(provider, issues) == IF provider.enabled THEN issues ELSE {}
      limits == s.runtime.request
  IN RuntimeIssues(s.runtime) \cup ArtifactIssues(s.artifacts) \cup ServerIssues(s.server)
     \cup OfProvider(s.providers.codex_app_server,
                     AppServerIssues(s.providers.codex_app_server, limits))
     \cup OfProvider(s.providers.codex_responses,
                     ResponsesIssues(s.providers.codex_responses, limits))
     \cup OfProvider(s.providers.openai, OpenAiIssues(s.providers.openai))
     \cup Broken({<<"version", s.version # 1>>,
                  <<"default_provider", s.default_provider \in BadNames>>,
                  <<"inputs.local_roots", s.inputs.local_roots = 0>>,
                  <<"inputs.remote", RemoteIssue(s.inputs.remote)>>,
                  <<"providers", Enabled(s) = {}>>,
                  <<"default_provider", s.default_provider \notin Enabled(s)>>})
=============================================================================
