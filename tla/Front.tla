-------------------------------- MODULE Front --------------------------------
(***************************************************************************)
(* The ways to say a request: the native JSON of crates/server/src/        *)
(* routes.rs, the compatible JSON and the multipart form of compat.rs, a   *)
(* durable job, and the command line of crates/cli/src/commands.rs, alone  *)
(* or over a stored preset.  What a caller says is the function from the   *)
(* fields that are said to their values.  Each front turns it into the     *)
(* request that the runtime is asked, or refuses it.                       *)
(***************************************************************************)
EXTENDS Request, Functions

Refused(code) == [refused |-> code, request |-> Plain]
Asks(request) == [refused |-> None, request |-> request]
Unreadable(said) == \E field \in DOMAIN said : said[field] = Mistyped

(* What is said, over what is not.                                           *)
Saying(said, fields, request) ==
  [field \in DOMAIN request |-> IF field \in fields \cap DOMAIN said THEN said[field] ELSE request[field]]
-----------------------------------------------------------------------------
(* browser_origin_allowed(): a browser's call comes from this server's own   *)
(* pages, or from nowhere.                                                   *)
OriginAllowed(sender) ==
  /\ sender.site \in {None, "same-origin", "none"}
  /\ sender.origin \in {None, "same"}

(* authorize()                                                               *)
Authorized(sender, server) ==
  server.bearer_token_env = None \/ sender.token = "right"

(* router(), enforce_header_limit() and authorize(), outermost first.        *)
Stopped(call, server) ==
  IF call.sender.headers > server.max_header_bytes THEN "invalid_request"
  ELSE IF call.front = "jobs" /\ ~server.jobs.enabled THEN "invalid_request"
  ELSE IF ~OriginAllowed(call.sender) THEN "permission_denied"
  ELSE IF ~Authorized(call.sender, server) THEN "authentication"
  ELSE None

(* apply_idempotency_header(): up to 512 visible bytes, and not another key  *)
(* than the body's.                                                          *)
HeaderKeys == IdempotencyKeys \cup {"long"}
WithHeader(key, ask) ==
  IF ask.refused # None \/ key = None THEN ask
  ELSE IF key \notin HeaderKeys \/ ask.request.idempotency \notin {None, key}
  THEN Refused("invalid_request")
  ELSE Asks([ask.request EXCEPT !.idempotency = key])
-----------------------------------------------------------------------------
(* ImageRequest::deserialize(): the prompt is required, and only an edit has *)
(* images and a mask.                                                        *)
EditOnly == {"images", "mask"}
Native(said) ==
  IF \/ Unreadable(said) \/ "prompt" \notin DOMAIN said
     \/ "kind" \notin DOMAIN said \/ DOMAIN said \ DOMAIN Plain # {}
     \/ said.kind = "generate" /\ DOMAIN said \cap EditOnly # {}
     \/ said.kind = "edit" /\ "images" \notin DOMAIN said
  THEN Refused("invalid_request")
  ELSE Asks(Saying(said, DOMAIN said, Plain))

(* CompatibleGenerationRequest, CompatibleExtensions                         *)
CompatibleFields ==
  {"prompt", "model", "n", "size", "quality", "format", "compression", "background", "moderation",
   "rendering", "user", "identifiers"}
Extensions ==
  {"provider", "negative", "compatibility", "negativeMode", "revised", "aspect", "resolution",
   "partials", "fidelity", "action", "session", "key", "thread", "references", "inputs", "prefix"}

(* into_native()                                                             *)
IntoNative(said) == Saying(said, CompatibleFields \cup Extensions, Plain)

(* generate_compatible(): a prompt that is not said is empty.                *)
Compatible(said) ==
  IF \/ Unreadable(said) \/ DOMAIN said \ (CompatibleFields \cup Extensions) # {}
     \/ "rendering" \in DOMAIN said /\ said.rendering \notin {"b64_json", "url"}
  THEN Refused("invalid_request")
  ELSE Asks(IntoNative(IF "prompt" \in DOMAIN said THEN said
                       ELSE [f \in DOMAIN said \cup {"prompt"} |-> IF f = "prompt" THEN 0 ELSE said[f]]))

(* EditFields                                                                *)
MaxTextField == 64 * KiB
TextFields ==
  {"prompt", "model", "n", "size", "quality", "format", "compression", "background", "moderation",
   "fidelity", "rendering", "user", "provider", "negative", "compatibility", "revised", "key",
   "identifiers"}
ImageFields == {"images", "references", "mask", "inputs"}

(* set_text_field(): known, once, and no longer than a text field may be.    *)
TextRefused(said, twice) ==
  \/ DOMAIN said \ (TextFields \cup ImageFields) # {}
  \/ twice \cap (TextFields \cup {"mask"}) # {}
  \/ \E field \in {"prompt", "negative"} \cap DOMAIN said : said[field] > MaxTextField

(* apply_edit_fields(): a session key makes the session persistent.          *)
ApplyEditFields(said, request) ==
  LET applied == Saying(said, TextFields \cup ImageFields, request) IN
  [applied EXCEPT !.session = IF "key" \in DOMAIN said THEN "persistent" ELSE @]

(* edit_compatible()                                                         *)
Multipart(said, twice) ==
  IF \/ Unreadable(said) \/ TextRefused(said, twice)
     \/ "images" \notin DOMAIN said \/ "prompt" \notin DOMAIN said
     \/ "rendering" \in DOMAIN said /\ said.rendering \notin {"b64_json", "url"}
  THEN Refused("invalid_request")
  ELSE Asks(ApplyEditFields(said, [Plain EXCEPT !.kind = "edit"]))

(* submit(): the artifact store keeps the images of a job.                   *)
Durable(ask) ==
  IF ask.refused # None THEN ask ELSE Asks([ask.request EXCEPT !.rendering = "artifact"])
-----------------------------------------------------------------------------
(* ImagePresetTemplate: a request without inputs and idempotency key, and    *)
(* perhaps without a prompt.                                                 *)
Bare(request) ==
  [request EXCEPT !.images = 0, !.mask = FALSE, !.references = 0, !.inputs = "fine",
                  !.idempotency = None]

(* from_request()                                                            *)
FromRequest(request) ==
  [Bare(request) EXCEPT !.prompt = IF @ = 0 THEN None ELSE @]

(* ImagePresetTemplate::request(); None for want of a prompt.                *)
Applied(template, prompt) ==
  LET text == IF prompt = None THEN template.prompt ELSE prompt IN
  IF text \in {None, 0} THEN None ELSE [Bare(template) EXCEPT !.prompt = text]

(* ImagePresetTemplate::deserialize(), which knows its fields, and           *)
(* validate_preset_write(): with a short prompt, and with an input where the *)
(* operation or the parameters need one.                                     *)
Placeholder == 17
PresetValid(template) ==
  LET request == Applied(template, Placeholder) IN
  /\ DOMAIN template = DOMAIN Plain
  /\ template.prompt # 0
  /\ Valid([request EXCEPT
              !.images = IF request.kind = "edit" THEN 1 ELSE 0,
              !.references = IF request.kind = "generate" /\
                                (request.fidelity # None \/ request.action = "edit")
                             THEN 1 ELSE 0], DefaultLimits)
-----------------------------------------------------------------------------
(* ImageArgs: the flags that replace one field each, and those that do more. *)
Flags ==
  {"negative", "provider", "model", "fallbacks", "fallback", "n", "size", "aspect", "resolution",
   "quality", "format", "compression", "background", "transparency", "keyColor", "thresholds",
   "moderation", "partials", "policy", "batch", "fidelity", "action", "rendering", "prefix",
   "collision", "metadata", "compatibility", "negativeMode", "revised", "idempotency", "timeout",
   "user", "identifiers"}
SessionFlags == {"session", "key", "thread"}

Says(said, field) == field \in DOMAIN said

(* apply_output_location(): --output-path names the file, --output-dir the   *)
(* directory.                                                                *)
Located(said, request) ==
  IF Says(said, "filename")
  THEN [request EXCEPT !.filename = said.filename,
                       !.directory = IF Says(said, "directory") THEN said.directory ELSE None]
  ELSE IF Says(said, "directory") THEN [request EXCEPT !.directory = said.directory]
  ELSE request

(* Asking for a place, or for a sidecar, is asking for artifacts.            *)
Implied(said, request) ==
  LET placed  == Says(said, "filename") \/ Says(said, "directory")
      sidecar == Says(said, "metadata") /\ said.metadata \in {"sidecar", "sidecar_and_embedded"}
  IN IF (placed \/ sidecar) /\ ~Says(said, "rendering") /\ request.rendering = "b64_json"
     THEN [request EXCEPT !.rendering = "artifact"] ELSE request

(* One session flag replaces the whole session.                              *)
InSession(said, request) ==
  IF DOMAIN said \cap SessionFlags = {} THEN request
  ELSE [request EXCEPT
          !.session = IF Says(said, "session") THEN said.session
                      ELSE IF Says(said, "thread") THEN "thread" ELSE "persistent",
          !.key = IF Says(said, "key") THEN said.key ELSE None,
          !.thread = IF Says(said, "thread") THEN said.thread ELSE None]

(* apply_image_args()                                                        *)
ApplyImageArgs(said, request) ==
  InSession(said, Implied(said, Located(said, Saying(said, Flags, request))))

(* prepare_request(): what is to be opened or shown must be a file, or a URL *)
(* that a browser opens.                                                     *)
Presented(said, show, request) ==
  IF \/ show = None \/ request.rendering = "artifact"
     \/ request.rendering = "url" /\ show = "open"
  THEN Asks(request)
  ELSE IF request.rendering = "b64_json" /\ ~Says(said, "rendering")
  THEN Asks([request EXCEPT !.rendering = "artifact"])
  ELSE Refused("invalid_request")

(* generate() and edit(): the inputs are those of the command line, the rest *)
(* comes from the preset where no flag says otherwise.                       *)
CommandLine(call, template) ==
  LET said == call.said
      prompt == IF Says(said, "prompt") THEN said.prompt ELSE None
      start == IF template # None THEN Applied(template, prompt)
               ELSE IF prompt = None THEN None ELSE [Plain EXCEPT !.prompt = prompt]
  IN IF \/ Unreadable(said) \/ start = None
        \/ template # None /\ template.kind # said.kind
        \/ Says(said, "directory") /\ said.directory = "outside"
     THEN Refused("invalid_request")
     ELSE Presented(said, call.show,
            ApplyImageArgs(said, Saying(said, {"kind", "images", "mask", "references", "inputs"}, start)))
-----------------------------------------------------------------------------
(* The request of a call that the server, or the command line, takes.        *)
Taken(call, server, template) ==
  IF call.front = "cli" THEN CommandLine(call, template)
  ELSE IF Stopped(call, server) # None THEN Refused(Stopped(call, server))
  ELSE WithHeader(call.header,
         CASE call.front = "images"      -> Native(call.said)
           [] call.front = "generations" -> Compatible(call.said)
           [] call.front = "edits"       -> Multipart(call.said, call.twice)
           [] OTHER -> Durable(Native(call.said)))
=============================================================================
