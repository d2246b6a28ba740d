------------------------------- MODULE Request -------------------------------
(***************************************************************************)
(* A request and what validate_request() says of it before any work,       *)
(* crates/core/src/validation.rs.  Texts are their lengths in bytes; an    *)
(* identifier, a path or an input image is "fine" or "bad"; an optional    *)
(* field that is absent is None.                                           *)
(***************************************************************************)
EXTENDS Integers, Sequences, FiniteSets

CONSTANTS None,      \* nothing said
          Mistyped   \* a value of a type that no field has

KiB == 1024
MaxEmbeddedRequestText == 12 * KiB
AlphaFormats == {"png", "webp"}

(* ImageRequest::generate(): what a caller that says nothing asks for.       *)
Plain ==
  [prompt |-> 10, negative |-> None, kind |-> "generate", images |-> 0, mask |-> FALSE,
   references |-> 0, inputs |-> "fine", identifiers |-> "fine",
   n |-> 1, size |-> <<>>, aspect |-> FALSE, resolution |-> FALSE, quality |-> "auto",
   format |-> "png", compression |-> None, background |-> "auto", moderation |-> "auto",
   partials |-> 0, policy |-> "fail_fast", fidelity |-> None, action |-> "auto",
   model |-> None, provider |-> None, fallbacks |-> <<>>, fallback |-> "on_unavailable", session |-> "isolated",
   key |-> None, thread |-> None, rendering |-> "b64_json", directory |-> None,
   filename |-> None, prefix |-> FALSE, collision |-> "error", metadata |-> "none",
   transparency |-> "auto", keyColor |-> None, thresholds |-> "fine",
   compatibility |-> "strict", negativeMode |-> "auto", revised |-> "include",
   batch |-> "auto", timeout |-> None, user |-> FALSE, idempotency |-> None]

(* Idempotency keys that are neither blank nor over the 256 bytes of an      *)
(* identifier.                                                               *)
IdempotencyKeys == {"k1", "k2"}

(* GenerationParameters, the part that negotiation may change.               *)
Parameters == {"n", "size", "aspect", "resolution", "quality", "format", "compression",
               "background", "moderation", "partials", "fidelity", "action"}

(* RequestLimits::default().  An input that is too long inline and an        *)
(* identifier that is too long are among the "bad" ones.                     *)
DefaultLimits ==
  [prompt |-> 128 * KiB, negative |-> 64 * KiB, outputs |-> 16, inputs |-> 16,
   inline |-> 64 * KiB * KiB, edge |-> 16384, timeout |-> 30 * 60 * 1000, identifier |-> 256]

IsAuto(size)      == size = <<>>
Extension(format) == IF format = "jpeg" THEN {"jpg", "jpeg"} ELSE {format}
Sidecar(request)  == request.metadata \in {"sidecar", "sidecar_and_embedded"}
Embeds(request)   == request.metadata \in {"embedded", "sidecar_and_embedded"}
Text(request)     == request.prompt + (IF request.negative = None THEN 0 ELSE request.negative)
Inputs(request)   == request.images + request.references + (IF request.mask THEN 1 ELSE 0)

TextIssues(r, limits) ==
  {<<"prompt", r.prompt \notin 1..limits.prompt>>,
   <<"negative_prompt",
     r.negative # None /\ r.negative \notin 1..limits.negative>>,
   <<"policies.negative_prompt", r.negative # None /\ r.negativeMode = "reject">>}

ParameterIssues(r, limits) ==
  {<<"parameters.n", r.n \notin 1..limits.outputs>>,
   <<"parameters.size", \E i \in DOMAIN r.size : r.size[i] > limits.edge>>,
   <<"parameters.size", ~IsAuto(r.size) /\ (r.aspect \/ r.resolution)>>,
   <<"parameters.output_compression",
     r.compression # None /\ (r.compression > 100 \/ r.format = "png")>>,
   <<"parameters.partial_images", r.partials \notin 0..3>>,
   <<"parameters.input_fidelity", r.fidelity # None /\ r.images + r.references = 0>>,
   <<"parameters.action", \/ r.kind = "generate" /\ r.references = 0 /\ r.action = "edit"
                          \/ r.kind = "edit" /\ r.action = "generate">>,
   <<"output.transparency", r.thresholds = "bad" \/ r.keyColor = "bad">>}

RoutingIssues(r) ==
  {<<"routing.fallbacks", Len(r.fallbacks) > 4>>,
   <<"routing.fallbacks", \E i, j \in DOMAIN r.fallbacks :
                             i # j /\ r.fallbacks[i] = r.fallbacks[j]>>,
   <<"routing.fallbacks", r.provider # None /\
                          \E i \in DOMAIN r.fallbacks :
                             r.fallbacks[i] = [provider |-> r.provider, model |-> r.model]>>,
   <<"routing.fallbacks", r.fallbacks # <<>> /\ r.session # "isolated">>,
   <<"policies.batch_execution", r.batch = "parallel" /\ r.session # "isolated">>,
   <<"identifiers", r.identifiers = "bad">>,
   <<"idempotency_key", r.idempotency # None /\ r.idempotency \notin IdempotencyKeys>>,
   <<"session", \/ r.session = "isolated" /\ (r.key # None \/ r.thread # None)
                \/ r.session = "persistent" /\ (r.key = None \/ r.thread # None)
                \/ r.session = "thread" /\ (r.thread = None \/ r.key # None)>>}

(* validate_request() of timeout_ms, and of the projection of the images.    *)
OutputIssues(r, limits) ==
  LET stored == r.rendering \in {"artifact", "url"} IN
  {<<"timeout_ms", r.timeout # None /\ (r.timeout = 0 \/ r.timeout > limits.timeout)>>,
   <<"output", ~stored /\ (r.prefix \/ r.directory # None \/ r.filename # None)>>,
   <<"output.filename", r.filename # None /\ (r.prefix \/ r.n # 1)>>,
   <<"output.collision", r.filename = None /\ r.collision # "error">>,
   <<"output.metadata", Sidecar(r) /\ r.rendering # "artifact">>,
   <<"output.metadata", Embeds(r) /\ r.rendering = "metadata">>,
   <<"output.metadata", Embeds(r) /\ Text(r) > MaxEmbeddedRequestText>>,
   <<"output.directory", r.directory = "bad">>,
   <<"output.filename", r.filename \notin {None, "none"} \cup Extension(r.format)>>}

InputIssues(r, limits) ==
  {<<"images", r.kind = "edit" /\ r.images = 0>>,
   <<"operation", Inputs(r) > limits.inputs>>,
   <<"input", Inputs(r) > 0 /\ r.inputs = "bad">>}

(* validation_issues(): the fields that are wrong.                           *)
Issues(request, limits) ==
  {pair[1] : pair \in {rule \in TextIssues(request, limits) \cup ParameterIssues(request, limits)
                                \cup RoutingIssues(request) \cup OutputIssues(request, limits)
                                \cup InputIssues(request, limits) : rule[2]}}

Valid(request, limits) == Issues(request, limits) = {}
=============================================================================
