----------------------------- MODULE MCPipeline -----------------------------
(* Requests that differ from a few typical ones in up to two fields, under   *)
(* the default configuration and under ones that differ from it in one or    *)
(* two places.                                                               *)
EXTENDS Pipeline

App == [provider |-> "codex-app-server", model |-> None]

Bases ==
  {Plain,
   [Plain EXCEPT !.compatibility = "normalize", !.provider = "codex-app-server",
                 !.rendering = "artifact"],
   [Plain EXCEPT !.compatibility = "normalize", !.background = "transparent"],
   [Plain EXCEPT !.kind = "edit", !.images = 1, !.rendering = "artifact"],
   [Plain EXCEPT !.provider = "codex-app-server", !.session = "persistent", !.key = "k"],
   [Plain EXCEPT !.fallbacks = <<App>>, !.fallback = "on_error", !.n = 2]}

Edits ==
  {<<"prompt", 0>>, <<"prompt", 12 * KiB>>, <<"prompt", 128 * KiB>>, <<"prompt", 128 * KiB + 1>>,
   <<"negative", 5>>, <<"kind", "edit">>, <<"images", 5>>, <<"images", 6>>,
   <<"mask", TRUE>>, <<"references", 6>>, <<"inputs", "bad">>, <<"identifiers", "bad">>,
   <<"n", 0>>, <<"n", 4>>, <<"n", 16>>, <<"n", 17>>, <<"n", 255>>,
   <<"size", <<1024, 1024>>>>, <<"size", <<3840, 2160>>>>, <<"size", <<640, 480>>>>,
   <<"size", <<20000, 1024>>>>, <<"aspect", TRUE>>, <<"resolution", TRUE>>, <<"quality", "high">>,
   <<"format", "jpeg">>, <<"format", "webp">>, <<"compression", 80>>, <<"compression", 101>>,
   <<"background", "opaque">>, <<"background", "transparent">>, <<"moderation", "low">>,
   <<"partials", 3>>, <<"partials", 4>>, <<"fidelity", "low">>, <<"fidelity", "high">>,
   <<"action", "generate">>, <<"action", "edit">>,
   <<"model", "gpt-image-1">>, <<"model", "gpt-image-9">>,
   <<"provider", "codex-app-server">>, <<"provider", "codex-responses">>, <<"provider", "none">>,
   <<"fallbacks", <<App>>>>, <<"fallbacks", <<App, App>>>>, <<"fallback", "on_error">>,
   <<"session", "persistent">>, <<"key", "k">>, <<"rendering", "artifact">>,
   <<"filename", "jpg">>, <<"filename", "png">>, <<"collision", "overwrite">>,
   <<"metadata", "embedded">>, <<"metadata", "sidecar">>, <<"transparency", "native">>,
   <<"transparency", "chroma_key">>, <<"compatibility", "strict">>,
   <<"compatibility", "best_effort">>, <<"negativeMode", "merge">>, <<"negativeMode", "native">>,
   <<"negativeMode", "reject">>, <<"revised", "require">>, <<"batch", "parallel">>,
   <<"timeout", 31 * 60 * 1000>>, <<"user", TRUE>>, <<"policy", "best_effort">>, <<"rendering", "url">>}

Variations == {[[r EXCEPT ![a[1]] = a[2]] EXCEPT ![b[1]] = b[2]] : r \in Bases, a, b \in Edits}
Single == {[r EXCEPT ![a[1]] = a[2]] : r \in Bases, a \in Edits}

Trusted == [headers |-> 500, site |-> None, origin |-> None, token |-> "right"]
By(front, said) ==
  [front |-> front, said |-> said, sender |-> Trusted, header |-> None, twice |-> {}, show |-> None,
   preset |-> None]

(* What one must say for a request, on top of fields that are always said.   *)
Different(r) == {field \in DOMAIN Plain : r[field] # Plain[field]}
Only(r, fields) == [field \in fields |-> r[field]]
ByJson(r)  == By("images", Only(r, Different(r) \cup {"prompt", "kind"}))
ByJob(r)   == [ByJson(r) EXCEPT !.front = "jobs"]
ByHand(r)  == By("cli", Only(r, Different(r) \cup {"prompt", "kind"}))
ByForm(r)  == By("edits", Only(r, (Different(r) \ {"kind"}) \cup {"prompt"}))
Compatibly(r) == By("generations", Only(r, Different(r) \cup {"prompt"}))

(* A plain call, said wrongly, twice, with keys, or by somebody else.        *)
Somebody ==
  {[Trusted EXCEPT !.headers = 1024 * KiB], [Trusted EXCEPT !.site = "cross-site"],
   [Trusted EXCEPT !.site = "same-origin", !.origin = "same"], [Trusted EXCEPT !.origin = "other"],
   [Trusted EXCEPT !.site = "repeated"], [Trusted EXCEPT !.token = "wrong"],
   [Trusted EXCEPT !.token = None]}
HeaderValues == {"k1", "k2", "long", "", "huge"}
Form == "prompt" :> 64 * KiB @@ "images" :> 1
Odd ==
  {[ByJson(Plain) EXCEPT !.sender = s, !.front = f] : s \in Somebody, f \in {"images", "jobs"}}
  \cup {[ByJson(r) EXCEPT !.header = k] :
          k \in HeaderValues, r \in {Plain, [Plain EXCEPT !.idempotency = "k1"]}}
  \cup {[ByJson(r) EXCEPT !.front = f] : f \in {"images", "jobs"}, r \in
          {[Plain EXCEPT !.n = Mistyped], [Plain EXCEPT !.images = 1], [Plain EXCEPT !.idempotency = "long"]}}
  \cup {By("images", "kind" :> "generate"), By("images", "prompt" :> 10), By("generations", "n" :> 2),
        By("edits", "prompt" :> 10), By("edits", "images" :> 1), By("edits", Form),
        By("edits", "negative" :> 64 * KiB @@ Form), By("edits", "references" :> 2 @@ "mask" :> TRUE @@ Form),
        By("edits", "prompt" :> (64 * KiB + 1) @@ Form), By("edits", "n" :> Mistyped @@ Form),
        [By("edits", Form) EXCEPT !.twice = {"images"}], [By("edits", Form) EXCEPT !.twice = {"prompt"}],
        [By("edits", Form) EXCEPT !.twice = {"mask"}]}
  \cup {By("cli", "kind" :> "generate"), By("cli", "kind" :> "generate" @@ "prompt" :> Mistyped)}
  \cup {[ByHand([Plain EXCEPT !.rendering = rendering, !.directory = place, !.metadata = metadata]) EXCEPT !.show = show] :
          rendering \in {"b64_json", "artifact", "url", "metadata"}, place \in {None, "d", "outside"},
          metadata \in {"none", "sidecar"}, show \in {None, "open", "preview"}}
  \cup {ByHand([Plain EXCEPT !.filename = "png", !.thread = "t"]),
        ByJob([Plain EXCEPT !.fallbacks = <<[provider |-> "codex-responses", model |-> None]>>])}

(* Pairs of differences under the defaults, in every way where they can be   *)
(* said; single ones where the limits or the providers differ, and one plain *)
(* call elsewhere.                                                           *)
MCCalls(s) ==
  IF s = Defaults
  THEN {ByJson(r) : r \in Variations} \cup Odd
       \cup UNION {{ByJob(r), ByHand(r), ByForm(r), Compatibly(r)} : r \in Single}
  ELSE IF s.runtime.request # RuntimeDefaults.request \/ s.providers # Defaults.providers
  THEN {ByJson(r) : r \in Single} \cup {ByJob(Plain)}
  ELSE IF s.artifacts # ArtifactDefaults
  THEN {ByJson([Plain EXCEPT !.rendering = rendering]) : rendering \in {"b64_json", "artifact", "url"}}
  ELSE IF s.server # ServerDefaults THEN Odd ELSE {ByJson(Plain)}

(* Presets that a client may store, and what is then said on top of one.     *)
MCTemplates(s) ==
  IF s # Defaults THEN {}
  ELSE {FromRequest(r) : r \in
         {[Plain EXCEPT !.prompt = 0, !.quality = "high", !.compatibility = "normalize"],
          [Plain EXCEPT !.prompt = 200 * KiB], [Plain EXCEPT !.kind = "edit", !.images = 1, !.mask = TRUE],
          [Plain EXCEPT !.session = "persistent", !.key = "k", !.provider = "codex-app-server"],
          [Plain EXCEPT !.action = "edit", !.references = 1], [Plain EXCEPT !.n = 0],
          [Plain EXCEPT !.rendering = "url", !.idempotency = "k1"]}}

MCRevisions == {FromRequest(Plain), [FromRequest(Plain) EXCEPT !.n = 2]}

MCPresetCalls ==
  {[By("cli", said @@ "kind" :> kind) EXCEPT !.preset = "p"] :
     kind \in {"generate", "edit"},
     said \in {"prompt" :> 20, "images" :> 1, "references" :> 1 @@ "prompt" :> 5, "size" :> <<1024, 1024>>,
               "session" :> "persistent" @@ "prompt" :> 5, "key" :> "k9", "metadata" :> "sidecar",
               "filename" :> "png" @@ "directory" :> "d" @@ "prompt" :> 5}}

(* Backgrounds that are not quite flat, not the key, or not there; a subject *)
(* that shines, touches a corner or fills everything; soft edges.            *)
Shade == <<12, 240, 9, 255>>
Glow  == <<90, 190, 80, 255>>
Edge  == <<60, 90, 20, 255>>
Grey  == <<70, 70, 70, 255>>
Veil  == <<0, 0, 0, 10>>
Pictures ==
  {Before(pixel) : pixel \in {Green, Hole, Shade, Glow, Grey, Veil}}
  \cup {<<<<Green, Glow, Green>>, <<Shade, Edge, Green>>>>, <<<<Green, Green, Green>>, <<Green, Green, Green>>>>,
        <<<<Green, Red, Grey>>, <<Red, Red, Grey>>>>, <<<<Green, Red, Green>>, <<Green, Glow, Red>>>>,
        <<<<Grey, Red, Green>>, <<Green, Edge, Veil>>>>}

(* What a provider makes of a request: what it was asked for, or that with a *)
(* fault in the first image or in the set.                                   *)
Flawed(r) ==
  LET honest == Obeyed(r)
      first(field, value) == [honest EXCEPT !.data[1][field] = value]
  IN {first("payload", "url"), first("payload", "internal"), first("flaw", "garbled"),
      first("flaw", "undecodable"), first("flaw", "claims"),
      first("picture", Before(Red)),
      first("format", "webp"), first("format", "jpeg"), first("size", <<1000, 1000>>),
      first("size", <<20000, 1000>>), first("bytes", 32 * 1024 * KiB), first("bytes", 33 * 1024 * KiB),
      first("index", 1)}
     \cup {first("picture", picture) : picture \in Pictures}
     \cup
     {[honest EXCEPT !.data = Tail(@)],
      [honest EXCEPT !.data = Tail(@), !.failures = <<0>>], [honest EXCEPT !.data = Tail(@), !.failures = <<7>>],
      [honest EXCEPT !.data = Reverse(@)], [honest EXCEPT !.model = "gpt-image-9"],
      [honest EXCEPT !.escape = 2], [honest EXCEPT !.escape = 6], [honest EXCEPT !.extras = 64 * KiB],
      [honest EXCEPT !.store = FALSE],
      [honest EXCEPT !.data = [i \in DOMAIN @ |-> [@[i] EXCEPT !.size = <<1536, 1000>>]]],
      [honest EXCEPT !.data = [i \in DOMAIN @ |-> [@[i] EXCEPT !.bytes = 31 * 1024 * KiB]]],
      [honest EXCEPT !.data[1].parts = <<"foreign", "pixels", "end">>],
      [honest EXCEPT !.data[1].parts = <<"older", "pixels", "foreign", "end">>]}

MCAnswers(r) ==
  {Obeyed(r)} \cup IF Cardinality(Different(r)) <= 3 THEN Flawed(r) ELSE {}

Runtime(name)   == <<"runtime", name>>
OfApp(name)     == <<"providers", "codex_app_server", name>>
OfResponses(name) == <<"providers", "codex_responses", name>>
OfLimits(name)  == <<"runtime", "request", name>>
OfBreaker(name) == <<"runtime", "circuit_breaker", name>>
OfServer(name)  == <<"server", name>>
OfJobs(name)    == <<"server", "jobs", name>>
OfImage(name)   == <<"artifacts", "image", name>>
Entry(map, key, field) == <<"runtime", map, key, field>>

(* One field that is not the default one, at and just past its bounds.       *)
Differences ==
  {<<<<"version">>, 2>>, <<<<"default_provider">>, "codex-app-server">>,
   <<<<"default_provider">>, "Codex">>, <<<<"default_provider">>, "openai">>,
   <<Runtime("default_timeout_ms"), 1800 * Second>>, <<Runtime("default_timeout_ms"), 1800 * Second + 1>>,
   <<Runtime("cancellation_grace_ms"), 30 * Second + 1>>, <<Runtime("shutdown_grace_ms"), 0>>,
   <<<<"runtime", "global", "max_concurrent">>, 1>>, <<<<"runtime", "global", "max_concurrent">>, 0>>,
   <<<<"runtime", "global", "max_concurrent">>, MaxPermits + 1>>,
   <<<<"runtime", "global", "max_queued">>, 0>>,
   <<<<"runtime", "provider_default", "max_concurrent">>, 0>>,
   <<Entry("providers", "codex-responses", "max_concurrent"), 2>>,
   <<Entry("providers", "codex-app-server", "max_concurrent"), 0>>,
   <<Entry("providers", "openai", "max_concurrent"), 1>>,
   <<Entry("providers", "Codex", "max_concurrent"), 1>>,
   <<Entry("providers", "codex-responses", "max_running"), 1>>,
   <<Entry("circuit_breakers", "codex-app-server", "half_open_max_calls"), 0>>,
   <<Entry("circuit_breakers", "codex-app-server", "half_open_max_calls"), 2>>,
   <<Entry("circuit_breakers", "", "enabled"), FALSE>>,
   <<OfBreaker("failure_threshold"), 10001>>, <<OfBreaker("enabled"), FALSE>>,
   <<OfBreaker("open_duration_ms"), 0>>, <<OfBreaker("success_threshold"), 101>>,
   <<OfLimits("outputs"), 16>>, <<OfLimits("timeout"), 60 * 60 * 1000>>, <<OfLimits("prompt"), 0>>,
   <<OfLimits("identifier"), 0>>,
   <<<<"runtime", "idempotency", "max_entries">>, 0>>,
   <<<<"runtime", "idempotency", "unknown_ttl_secs">>, 1>>,
   <<<<"inputs", "local_roots">>, 0>>, <<<<"inputs", "remote", "max_redirects">>, 11>>,
   <<<<"inputs", "remote", "allowed_ports">>, {0}>>, <<<<"inputs", "remote", "allowed_ports">>, {}>>,
   <<<<"inputs", "remote", "enabled">>, TRUE>>, <<<<"inputs", "remote", "allowed_hosts">>, "bad">>,
   <<<<"artifacts", "max_base64_chars">>, 0>>, <<OfImage("max_edge"), 8192>>,
   <<OfImage("max_edge"), 8191>>, <<<<"artifacts", "max_response_bytes">>, 2 * MiB>>,
   <<OfImage("max_encoded_bytes"), 1 * MiB>>, <<<<"artifacts", "remote_output", "enabled">>, TRUE>>, <<OfImage("max_pixels"), 0>>,
   <<<<"artifacts", "remote_output", "timeout_ms">>, 0>>,
   <<<<"artifacts", "retention", "max_artifacts">>, 0>>,
   <<<<"artifacts", "retention", "max_artifacts">>, 1>>,
   <<<<"artifacts", "public_base_url">>, Url("http", "remote")>>,
   <<<<"artifacts", "public_base_url">>, [Url("http", "remote") EXCEPT !.slash = FALSE]>>,
   <<<<"artifacts", "public_base_url">>, [Url("https", "remote") EXCEPT !.query = TRUE]>>,
   <<<<"artifacts", "public_base_url">>, Url("ftp", "remote")>>,
   <<OfApp("executable"), "bad">>, <<OfApp("max_outputs"), 0>>, <<OfApp("max_parallel_outputs"), 256>>,
   <<OfApp("max_parallel_outputs"), 255>>, <<OfApp("max_parallel_outputs"), 0>>,
   <<OfApp("rpc_max_message_bytes"), 48 * MiB>>, <<OfApp("rpc_max_message_bytes"), 48 * MiB - 1>>,
   <<OfApp("rpc_max_message_bytes"), 64 * MiB + 1>>, <<OfApp("notification_capacity"), 5>>,
   <<OfApp("notification_capacity"), 3>>, <<OfApp("notification_capacity"), 0>>,
   <<OfApp("rpc_timeout_ms"), 0>>, <<OfApp("restart_backoff_ms"), 30 * Second + 1>>,
   <<OfResponses("endpoint"), Url("http", "localhost")>>, <<OfResponses("endpoint"), Url("http", "::1")>>,
   <<OfResponses("endpoint"), Url("http", "remote")>>, <<OfResponses("endpoint"), Url("none", "remote")>>,
   <<OfResponses("endpoint"), Url("ftp", "localhost")>>,
   <<OfResponses("image_model"), "">>, <<OfResponses("image_model"), "gpt-image-9">>,
   <<OfResponses("max_transient_attempts"), 3>>, <<OfResponses("transient_retry_backoff_ms"), 30 * Second + 1>>,
   <<OfResponses("max_outputs"), 1>>, <<OfResponses("enabled"), FALSE>>,
   <<<<"providers", "openai", "enabled">>, TRUE>>, <<<<"providers", "openai", "project_env">>, None>>,
   <<<<"providers", "openai", "api_key_env">>, None>>,
   <<OfServer("bind"), "remote">>, <<OfServer("bind"), "garbage">>,
   <<OfServer("bearer_token_env"), "fine">>, <<OfServer("bearer_token_env"), "bad">>,
   <<OfServer("activation_lock"), "fine">>, <<OfServer("activation_lock"), "bad">>,
   <<OfServer("max_header_bytes"), 0>>, <<OfServer("max_connections"), 0>>,
   <<OfServer("max_connections"), MaxPermits + 1>>, <<OfServer("read_timeout_ms"), 0>>,
   <<OfServer("write_timeout_ms"), 0>>,
   <<OfJobs("max_running"), 0>>, <<OfJobs("max_running"), MaxPermits + 1>>,
   <<OfJobs("max_retained_bytes"), 1024 * MiB + 1>>, <<OfJobs("enabled"), FALSE>>,
   <<OfJobs("max_pendings"), 1>>, <<OfServer("jobs"), 5>>, <<OfServer("bind"), Mistyped>>}

(* Differences of several fields.                                            *)
Files ==
  {Empty,
   OfResponses("max_outputs") :> 1 @@ <<"default_provider">> :> "codex-app-server",
   OfLimits("outputs") :> 16 @@ OfApp("max_outputs") :> 8 @@ OfResponses("max_outputs") :> 16
     @@ OfResponses("image_model") :> "gpt-image-1" @@ OfLimits("timeout") :> 60 * 60 * 1000,
   OfLimits("prompt") :> 256 * KiB @@ OfApp("max_outputs") :> 1 @@ OfApp("max_parallel_outputs") :> 1
     @@ OfResponses("max_outputs") :> 3 @@ OfResponses("max_parallel_outputs") :> 2,
   OfApp("max_outputs") :> 4 @@ OfApp("max_parallel_outputs") :> 5,
   OfApp("enabled") :> FALSE @@ OfResponses("enabled") :> FALSE,
   OfResponses("enabled") :> FALSE @@ <<"default_provider">> :> "codex-app-server"
     @@ Entry("providers", "codex-responses", "max_concurrent") :> 2,
   OfServer("bind") :> "remote" @@ OfServer("bearer_token_env") :> "fine"}

Untouched == [unreadable |-> FALSE, file |-> Empty, environment |-> {}, overrides |-> <<>>, bind |-> None]
Setting(path, value) == <<path, value>>

(* Fields that the file sets and that another layer touches, alone, with     *)
(* their table or with what is above it.                                     *)
Breaker == OfBreaker("failure_threshold") :> 9 @@ OfBreaker("success_threshold") :> 2
             @@ Entry("providers", "codex-responses", "max_queued") :> 3
Off == [p \in {<<"enabled">>} |-> FALSE]

Later ==
  {Setting(OfBreaker("failure_threshold"), Scalar(7)), Setting(OfBreaker("failure_threshold"), Scalar(None)),
   Setting(<<"runtime", "circuit_breaker">>, Off), Setting(<<"runtime", "circuit_breaker">>, Scalar(1)),
   Setting(<<"runtime", "circuit_breaker">>, Empty),
   Setting(<<"runtime", "providers">>, [p \in {<<"codex-responses", "max_concurrent">>} |-> 4]),
   Setting(Entry("providers", "codex-responses", "max_concurrent"), Scalar(4)),
   Setting(<<"version", "major">>, Scalar(1)), Setting(<<"server", "activation_lock">>, Scalar("fine")),
   Setting(<<"server", "activation_lock">>, Scalar(None))}

MCConfigurations ==
  {[Untouched EXCEPT !.file = difference[1] :> difference[2]] : difference \in Differences}
  \cup {[Untouched EXCEPT !.file = file] : file \in Files}
  \cup {[Untouched EXCEPT !.file = Breaker, !.environment = entries, !.overrides = overrides] :
          entries \in {{}} \cup {{a, b} : a, b \in Later},
          overrides \in {<<>>} \cup {<<a>> : a \in Later}}
  \cup {[Untouched EXCEPT !.unreadable = TRUE], [Untouched EXCEPT !.bind = "remote"],
        [Untouched EXCEPT !.bind = "loopback"]}
=============================================================================
