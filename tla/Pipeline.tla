------------------------------ MODULE Pipeline ------------------------------
(***************************************************************************)
(* From the layers of a configuration to images in the caller's hands: the *)
(* layers are resolved, the configuration is checked and the application   *)
(* is assembled from it; a call is understood by the front it arrives at,  *)
(* judged by the runtime's limits, by the route it takes (transparency     *)
(* plan, limits, capabilities), by the fan-out around the app-server       *)
(* provider and by the provider; and what the provider returns is verified *)
(* and delivered.  Each of them may refuse the request or change it, and   *)
(* the answer lists the changes.  A refused route may be followed by the   *)
(* next one of the request.                                                *)
(***************************************************************************)
EXTENDS Materialization, ConfigLoader, Assembly, Errors, Presets

CONSTANTS Configurations,  \* the layers of the configurations tried
          Calls(_),        \* the calls tried under a configuration
          PresetCalls,     \* the command lines tried on top of a preset
          Templates(_),    \* the templates that clients store under a configuration,
          Revisions,       \* and those they put in their place
          Answers(_)       \* what the provider may make of a request

ASSUME PipelineAssumption == \A c \in PresetCalls : c.preset \in PresetNames

VARIABLES layers,    \* the file, the environment and the arguments of `serve`
          settings,  \* the effective configuration
          stage,     \* how far the process, and the request in it, has come
          call,      \* what the caller said, and how
          asked,     \* the request that was understood
          route,     \* which of its routes is tried
          capable,   \* what the route's provider says it can do
          routed,    \* the request the runtime hands to the provider
          request,   \* the request as it is now
          notes,     \* the normalizations of the answer
          answer,    \* what the provider returned, then what the caller is given; None before
          reply      \* [code, at]: why the request was refused

pipelineVars == <<layers, settings, stage, call, asked, route, capable, routed, request, notes, answer, reply,
          shelf, writer>>
standing == <<layers, settings, shelf, writer>>

Models == {"gpt-image-2", "gpt-image-1"}
References == 5

(* capabilities() of the Responses provider                                  *)
ResponsesCaps(model, provider) ==
  [name |-> "codex-responses", model |-> model, generation |-> TRUE, edits |-> TRUE,
   count |-> [min |-> 1, max |-> provider.max_outputs],
   batching |-> [mode |-> "fan_out", min |-> 1, max |-> 1, parallel |-> Parallel(provider)],
   sizes |-> [auto |-> TRUE, arbitrary |-> None,
              allowed |-> <<<<1024, 1024>>, <<1024, 1536>>, <<1536, 1024>>>> \o
                          IF model = "gpt-image-1" THEN <<>>
                          ELSE <<<<2048, 1152>>, <<2048, 2048>>, <<2160, 3840>>, <<3840, 2160>>>>],
   aspect |-> TRUE, resolution |-> TRUE,
   qualities |-> {"auto", "low", "medium", "high"}, formats |-> {"png", "jpeg", "webp"},
   backgrounds |-> {"auto", "opaque"} \cup
                   (IF model = "gpt-image-2" THEN {} ELSE {"transparent"}),
   alpha |-> IF model = "gpt-image-2" THEN "emulated" ELSE "native",
   moderation |-> {"auto", "low"}, negative |-> "emulated", revised |-> TRUE, user |-> FALSE,
   fidelities |-> IF model = "gpt-image-2" THEN {"high"} ELSE {"low", "high"},
   actions |-> {"auto", "generate", "edit"}, references |-> References, images |-> References,
   masks |-> FALSE, partials |-> [min |-> 0, max |-> 3], sessions |-> FALSE, threads |-> FALSE]

(* capabilities() of the app-server provider                                 *)
AppServerCaps ==
  [name |-> "codex-app-server", model |-> "gpt-image-2", generation |-> TRUE, edits |-> TRUE,
   count |-> [min |-> 1, max |-> 1],
   batching |-> [mode |-> "native", min |-> 1, max |-> 1, parallel |-> 1],
   sizes |-> [auto |-> TRUE, arbitrary |-> None, allowed |-> <<>>],
   aspect |-> FALSE, resolution |-> FALSE,
   qualities |-> {"auto"}, formats |-> {"png"}, backgrounds |-> {"auto"}, alpha |-> "emulated",
   moderation |-> {"auto"}, negative |-> "emulated", revised |-> TRUE, user |-> FALSE,
   fidelities |-> {"high"}, actions |-> {"auto"}, references |-> References,
   images |-> References, masks |-> FALSE, partials |-> [min |-> 0, max |-> 0],
   sessions |-> TRUE, threads |-> TRUE]

(* effective_capabilities() of the fan-out                                   *)
Effective(caps, provider) ==
  IF provider.max_outputs <= caps.count.max THEN caps
  ELSE [caps EXCEPT !.count.max = provider.max_outputs,
                    !.batching = [mode |-> "fan_out", min |-> caps.count.min,
                                  max |-> caps.count.max, parallel |-> Parallel(provider)]]

(* ImageProvider::capabilities(), None for a model the provider has not      *)
Capabilities(s, name, model) ==
  IF name = "codex-app-server"
  THEN IF model \in {None, "gpt-image-2"} THEN Effective(AppServerCaps, s.providers.codex_app_server) ELSE None
  ELSE LET selected == IF model = None THEN s.providers.codex_responses.image_model ELSE model IN
       IF selected \in Models THEN ResponsesCaps(selected, s.providers.codex_responses) ELSE None

-----------------------------------------------------------------------------
(* execute_leader(): the routes of a request, the first one resolved.        *)
Routes(s, r) ==
  <<[provider |-> IF r.provider = None THEN s.default_provider ELSE r.provider, model |-> r.model]>>
  \o r.fallbacks

(* routed_request of execute_route_admitted()                                *)
On(r, way) == [r EXCEPT !.provider = way.provider, !.model = way.model, !.fallbacks = <<>>]

Way == Routes(settings, asked)[route]
Nothing == [code |-> None, at |-> None]

PipelineInit ==
  /\ layers \in Configurations
  /\ settings = Defaults
  /\ stage = "read"
  /\ call = None
  /\ asked = Plain /\ routed = Plain /\ request = Plain
  /\ route = 0 /\ capable = AppServerCaps
  /\ notes = <<>> /\ answer = None /\ reply = Nothing
  /\ PresetsInit

(* resolve_config(), and the address that `serve --bind` puts in afterwards  *)
Load ==
  LET resolved == Resolve(layers) IN
  /\ stage = "read"
  /\ IF resolved.failed THEN stage' = "unreadable" /\ UNCHANGED settings
     ELSE /\ stage' = "loaded"
          /\ settings' = [Typed(resolved.document) EXCEPT
                            !.server.bind = IF layers.bind = None THEN @ ELSE layers.bind]
  /\ UNCHANGED <<layers, shelf, writer, call, asked, route, capable, routed, request, notes, answer, reply>>

(* BridgeConfig::validate()                                                  *)
Check ==
  /\ stage = "loaded"
  /\ stage' = IF SettingsIssues(settings) = {} THEN "checked" ELSE "misconfigured"
  /\ UNCHANGED <<standing, call, asked, route, capable, routed, request, notes, answer, reply>>

(* serve_command() up to serve(); the host denies something, or nothing.     *)
Assemble(denied) ==
  LET obstacle == Obstacle(settings, denied) IN
  /\ stage = "checked"
  /\ stage' = IF obstacle = None THEN "serving" ELSE "unstarted"
  /\ reply' = [Nothing EXCEPT !.at = obstacle]
  /\ UNCHANGED <<standing, call, asked, route, capable, routed, request, notes, answer>>

(* execute_with() and execute_leader(): the runtime's own limits, and routes *)
(* that are equal once the default provider is put in.                       *)
Enter(r) ==
  LET ways == Routes(settings, r)
      refused == ~Valid(r, settings.runtime.request) \/ ~IsInjective(ways)
  IN /\ asked' = r
     /\ route' = 1
     /\ stage' = IF refused THEN "refused" ELSE "admitted"
     /\ reply' = IF refused THEN [code |-> "invalid_request", at |-> stage] ELSE Nothing

TurnAway(code) ==
  /\ stage' = "refused" /\ reply' = [code |-> code, at |-> "front"]
  /\ UNCHANGED <<asked, route>>

(* The handlers of routes.rs and compat.rs, and execute_or_preview().  A job *)
(* is judged by validate_request() and stored, JobManager::submit().         *)
Arrive(c) ==
  LET template == IF c.preset = None THEN None ELSE shelf[c.preset]
      taken == Taken(c, settings.server, template)
  IN
  /\ stage = "serving"
  /\ call' = c
  /\ IF taken.refused # None THEN TurnAway(taken.refused)
     ELSE IF c.front # "jobs" THEN Enter(taken.request)
     ELSE IF ~Valid(taken.request, settings.runtime.request) THEN TurnAway("invalid_request")
     ELSE stage' = "queued" /\ asked' = taken.request /\ UNCHANGED <<route, reply>>
  /\ UNCHANGED <<standing, capable, routed, request, notes, answer>>

(* execute_claimed()                                                         *)
RunJob ==
  /\ stage = "queued"
  /\ Enter(asked)
  /\ UNCHANGED <<standing, call, capable, routed, request, notes, answer>>

(* Other clients change the shelf between two calls.                         *)
ChangeShelf ==
  /\ stage = "serving" /\ settings.server.jobs.enabled
  /\ PresetsNext(Templates(settings), Revisions)
  /\ UNCHANGED <<layers, settings, stage, call, asked, route, capable, routed, request, notes, answer, reply>>

(* A route fails: execute_leader() goes on to the next one, or answers.      *)
Reject(code) ==
  LET next == route < Len(Routes(settings, asked)) /\ ShouldFallback(Known(code), asked.fallback)
  IN /\ stage' = IF next THEN "admitted" ELSE "refused"
     /\ route' = IF next THEN route + 1 ELSE route
     /\ reply' = [code |-> code, at |-> stage]
     /\ UNCHANGED <<standing, call, asked, capable, routed, request, notes, answer>>

(* execute_route() and execute_route_admitted(), up to the provider's call   *)
Route ==
  LET caps == Capabilities(settings, Way.provider, Way.model)
      prepared == Prepare(On(asked, Way), caps)
      negotiated == Negotiate(prepared.request, caps)
  IN /\ stage = "admitted"
     /\ IF Way.provider \notin Registry(settings) THEN Reject("configuration")
        ELSE IF caps = None \/ prepared.refused # None THEN Reject("unsupported_capability")
        ELSE IF ~Valid(prepared.request, settings.runtime.request) THEN Reject("invalid_request")
        ELSE IF ~Consistent(caps) THEN Reject("protocol")
        ELSE IF negotiated.refused # None THEN Reject("unsupported_capability")
        ELSE /\ stage' = IF Way.provider = "codex-app-server" THEN "fan_out" ELSE "provider"
             /\ capable' = caps
             /\ routed' = negotiated.request
             /\ request' = negotiated.request
             /\ notes' = prepared.notes \o negotiated.notes
             /\ UNCHANGED <<standing, call, asked, route, answer, reply>>

(* execute() of the fan-out, and execute_inner() of a provider: each judges  *)
(* the request again, by the library's limits and by its own capabilities,   *)
(* and sends on at most so many outputs in one call.                         *)
Judge(caps, next, outputs) ==
  LET negotiated == Negotiate(request, caps) IN
  IF ~Valid(request, DefaultLimits) THEN Reject("invalid_request")
  ELSE IF ~Consistent(caps) THEN Reject("protocol")
  ELSE IF negotiated.refused # None THEN Reject("unsupported_capability")
  ELSE /\ stage' = next
       /\ request' = [negotiated.request EXCEPT !.n = IF @ < outputs THEN @ ELSE outputs]
       /\ notes' = notes \o negotiated.notes
       /\ UNCHANGED <<standing, call, asked, route, capable, routed, answer, reply>>

(* The first, and largest, chunk of the fan-out.                             *)
FanOut ==
  stage = "fan_out" /\ Judge(capable, "provider", AppServerCaps.count.max)

Call ==
  /\ stage = "provider"
  /\ Judge(IF Way.provider = "codex-app-server" THEN AppServerCaps ELSE capable,
           "sent", request.n)

(* The provider's execute() returns.                                         *)
Return(given) ==
  /\ stage = "sent"
  /\ stage' = "returned" /\ answer' = given
  /\ UNCHANGED <<standing, call, asked, route, capable, routed, request, notes, reply>>

(* The images that were made of the answer become the caller's, or the route *)
(* has failed; execute_leader() puts a fallback in front of the              *)
(* normalizations.                                                           *)
Conclude(work) ==
  IF work.error # None THEN Reject(work.error)
  ELSE /\ stage' = "materialized"
       /\ answer' = [answer EXCEPT !.data = work.images, !.size = work.size]
       /\ notes' = (IF route = 1 THEN <<>>
                    ELSE <<Note("provider", Routes(settings, asked)[1].provider, Way.provider)>>)
                      \o notes \o work.notes
       /\ UNCHANGED <<standing, call, asked, route, capable, routed, request, reply>>

(* execute_route_admitted(), from the provider's answer on.                  *)
Materialize ==
  /\ stage = "returned"
  /\ IF answer.model \notin {None, capable.model} THEN Reject("protocol")
     ELSE Conclude(Materialized(answer, asked, routed, Keyed(On(asked, Way), capable), settings.artifacts))

(* attach_metadata(): a sidecar that the store does not take fails the       *)
(* request, whose images are published; no other route is tried.             *)
AttachMetadata(stored) ==
  /\ stage = "materialized"
  /\ stored \/ Sidecar(routed)
  /\ stage' = IF stored THEN "delivered" ELSE "refused"
  /\ reply' = IF stored THEN Nothing ELSE [code |-> "artifact", at |-> stage]
  /\ UNCHANGED <<standing, call, asked, route, capable, routed, request, notes, answer>>

(* The process takes its next request.                                       *)
Answer ==
  /\ stage \in {"refused", "delivered"}
  /\ stage' = "serving"
  /\ call' = None
  /\ asked' = Plain /\ routed' = Plain /\ request' = Plain
  /\ route' = 0 /\ capable' = AppServerCaps
  /\ notes' = <<>> /\ answer' = None /\ reply' = Nothing
  /\ UNCHANGED standing

(* Bounds: calls that use no preset are tried with an empty shelf, calls     *)
(* that use one while nobody is replacing it (a preset is read at once).     *)
Quiet == \A c \in PresetClients : writer[c] = Unoccupied
Fresh == Quiet /\ \A name \in PresetNames : shelf[name] = None

PipelineNext ==
  \/ Load \/ Check \/ RunJob \/ Route \/ FanOut \/ Call \/ Answer \/ ChangeShelf
  \/ \E denied \in {{}} \cup {{thing} : thing \in World} : Assemble(denied)
  \/ Materialize
  \/ stage = "sent" /\ \E given \in Answers(routed) : Return(given)
  \/ \E stored \in BOOLEAN : AttachMetadata(stored)
  \/ stage = "serving" /\ Fresh /\ \E c \in Calls(settings) : c.preset = None /\ Arrive(c)
  \/ stage = "serving" /\ Quiet /\ \E c \in PresetCalls : shelf[c.preset] # None /\ Arrive(c)

PipelineSpec == PipelineInit /\ [][PipelineNext]_pipelineVars
-----------------------------------------------------------------------------
Stages == {"read", "unreadable", "loaded", "checked", "misconfigured", "serving", "unstarted", "queued",
           "admitted", "fan_out", "provider", "sent", "returned", "materialized", "delivered", "refused"}

(* The stages and codes are those of the code, the route is one of the       *)
(* request's, and a request in front of a model asks for at least one image  *)
(* and no more than a u8 can count.                                          *)
PipelineTypeOK ==
  /\ stage \in Stages
  /\ DOMAIN asked = DOMAIN Plain
  /\ route \in 0..Len(Routes(settings, asked))
  /\ DOMAIN request = DOMAIN Plain
  /\ reply.code \in ErrorCode \cup {None} /\ (stage = "refused" => reply.at \in Stages \cup {"front"})
  /\ stage = "sent" => request.n \in 1..255 /\ request.partials \in 0..3
  /\ answer # None => DOMAIN answer = DOMAIN Obeyed(Plain)

(* What `config check` accepts, the constructors accept too.  Only the host, *)
(* a provider that this build has not, a limit for a name that is not a      *)
(* provider (orchestrator.rs:192), and a limit beyond what a semaphore can   *)
(* hold keep a checked configuration from starting.                          *)
ConfigurationSound ==
  stage = "unstarted" =>
    \/ reply.at \in World \cup {"openai"}
    \/ /\ reply.at = "unregistered name"
       /\ ~(DOMAIN settings.runtime.providers \cup DOMAIN settings.runtime.circuit_breakers
              \subseteq Enabled(settings))
    \/ reply.at \in {"gate", "workers", "listener"}

(* docs/configuration.md:14: the origin of a field is where its effective    *)
(* value came from; `serve --bind` replaces the address afterwards.          *)
OriginsAreTrue ==
  stage = "loaded" =>
    OriginsNameTheirValues(layers, settings,
                           IF layers.bind = None THEN {} ELSE {<<"server", "bind">>})

Settles ==
  /\ notes' = notes
  /\ stage' \in {"admitted", "refused"} => reply'.code # "unsupported_capability"
  /\ \A field \in DOMAIN request : field # "n" => request'[field] = request[field]

(* The runtime negotiates for good: the fan-out and the provider, which      *)
(* negotiate the same request again, find nothing left to change, and refuse *)
(* nothing as unsupported.                                                   *)
NegotiationSettles == [][(stage \in {"fan_out", "provider"}) => Settles]_pipelineVars

(* effective of the answer: a keyed background is made transparent again.    *)
Answered ==
  IF Keyed(On(asked, Way), capable) THEN [routed EXCEPT !.background = "transparent"] ELSE routed

(* A request that reaches a model differs from what the caller asked for by  *)
(* exactly what its normalizations say, from the caller's value to the       *)
(* effective one.  Only the compression of a JPEG that becomes a PNG for the *)
(* sake of transparency goes unmentioned (transparency.rs:84).               *)
ReportIsTrue ==
  stage = "sent" =>
    \A field \in Parameters :
      LET told == SelectSeq(notes, LAMBDA note : note.field = field) IN
      IF told # <<>>
      THEN told[1].from = asked[field] /\ told[Len(told)].to = Answered[field]
      ELSE \/ Answered[field] = asked[field]
           \/ field = "compression" /\ Keyed(On(asked, Way), capable) /\ asked.format = "jpeg"

(* Under strict compatibility nothing is changed but the action, which       *)
(* negotiate_action() gives up without asking the mode.                      *)
StrictIsExact ==
  stage = "sent" /\ asked.compatibility = "strict" =>
    \A field \in Parameters \ {"action"} : Answered[field] = asked[field]

(* Fields that a front changes although nobody said them: a compatible       *)
(* request has no prompt, a job renders to artifacts, a form is an edit and  *)
(* its session key a persistent session, a place or a sidecar asks for       *)
(* artifacts, one session flag replaces the whole session (docs/cli.md:160   *)
(* knows only of matching fields).                                           *)
Untold(c) ==
  (IF c.front = "jobs" THEN {"rendering"} ELSE {})
  \cup (IF c.front = "generations" THEN {"prompt"} ELSE {})
  \cup (IF c.header # None THEN {"idempotency"} ELSE {})
  \cup (IF c.front = "edits" THEN {"kind"} \cup (IF Says(c.said, "key") THEN {"session"} ELSE {}) ELSE {})
  \cup (IF c.front # "cli" THEN {}
        ELSE {"rendering"}
             \cup (IF DOMAIN c.said \cap SessionFlags = {} THEN {} ELSE SessionFlags)
             \cup (IF Says(c.said, "filename") THEN {"directory"} ELSE {}))

(* What a caller says reaches the runtime as said, whichever way it is said; *)
(* what is not said is the preset's, or the default.                         *)
SaidIsAsked ==
  call # None /\ ~(stage = "refused" /\ reply.at = "front") =>
    LET base == IF call.preset = None THEN Plain ELSE Bare(shelf[call.preset]) IN
    \A field \in DOMAIN Plain :
      \/ asked[field] = IF Says(call.said, field) THEN call.said[field] ELSE base[field]
      \/ field \in Untold(call) /\ (Says(call.said, field) => call.front = "jobs")

(* What the caller is told of an image is what the image is: its format, its *)
(* size, by itself or for all of them, its matte, the failures beside it,    *)
(* and the record that is in its file, which can be read back.  As many      *)
(* results are given as the normalized request asked for.                    *)
DeliveredAsTold ==
  stage = "delivered" =>
    LET About(field) == SelectSeq(notes, LAMBDA note : note.field = field)
        size == IF answer.size # None THEN answer.size ELSE routed.size
        Of(index, field) == SelectSeq(About(field), LAMBDA note : note.image = index)
        made == {answer.data[i].index : i \in DOMAIN answer.data}
    IN
    /\ Len(answer.data) + Len(answer.failures) = routed.n
    /\ made \cup ToSet(answer.failures) = 0..(routed.n - 1)
    /\ answer.failures # <<>> => asked.policy = "best_effort"
    /\ answer.size # None => Last(About("size")).to = answer.size
    /\ \A i \in DOMAIN answer.data :
         LET image == answer.data[i]  own == Of(image.index, "data.size") IN
         /\ image.format = Answered.format /\ image.payload = asked.rendering
         /\ IsAuto(routed.size) \/ image.size = IF own = <<>> THEN size ELSE own[1].to
         /\ asked.background = "transparent" /\ Answered.background = "transparent" =>
              /\ Of(image.index, "data.alpha")[1].to = Summary(image.picture)
              /\ Clear(image.picture) \notin {{}, Cells(image.picture)}
         /\ Embeds(asked) => /\ Extracted(image.parts) = "record"
                             /\ PacketBytes(RecordBytes(asked, routed, answer)) <= MaxXmp

(* Where a background was removed, no visible pixel has its color, and no    *)
(* soft edge shines in the channels of a bright key (chroma.rs:51).          *)
BackgroundIsGone ==
  stage = "delivered" /\ Keyed(On(asked, Way), capable) =>
    \A i \in DOMAIN answer.data :
      LET image == answer.data[i]
          key == SelectSeq(notes, LAMBDA note : note.field = "data.keyColor" /\ note.image = image.index)[1].to
      IN \A cell \in Cells(image.picture) \ Clear(image.picture) :
           LET pixel == PixelAt(image.picture, cell)  color == ColorOf(pixel) IN
           /\ color # key
           /\ pixel[4] < 252 /\ Spill(key) # {} => Dominance(color, key) <= 0

(* The origins tell where the configuration is from, normalizations[] tells  *)
(* all that happened to a request since it was said, under strict            *)
(* compatibility there is nothing to tell before the images are there, and   *)
(* what is told of them is so.                                               *)
ReportSound == PipelineTypeOK /\ OriginsAreTrue /\ SaidIsAsked /\ ReportIsTrue /\ StrictIsExact /\ DeliveredAsTold /\ BackgroundIsGone

(* Prompts that the key instructions or a merged negative prompt can push    *)
(* past a limit.                                                             *)
MayOutgrow(r) ==
  LET grown == Text(r) + KeyPrompt + MergePrompt IN
  \/ grown > settings.runtime.request.prompt \/ grown > DefaultLimits.prompt
  \/ Embeds(r) /\ grown > MaxEmbeddedRequestText

(* A request that passed the runtime's limits is not called invalid, nor the *)
(* provider broken, by a later stage.  The exceptions are all of them:       *)
(* limits configured above the library's (provider.rs:195, fanout/mod.rs:    *)
(* 191), a prompt the bridge itself makes too long, a file name whose        *)
(* extension no longer fits the format, and max_outputs = 1 for Responses.   *)
RequestsAreServed ==
  stage = "refused" /\ reply.at \in {"admitted", "fan_out", "provider"}
                    /\ reply.code \in {"invalid_request", "protocol"} =>
    \/ ~Valid(asked, DefaultLimits)
    \/ MayOutgrow(asked)
    \/ asked.filename \notin {None, "none"} /\ asked.format # "png"
    \/ settings.providers.codex_responses.max_outputs = 1 /\ Way.provider = "codex-responses"

(* A job that was accepted is not refused when its turn comes.  The one      *)
(* exception: submit() does not resolve the routes, and two of them can be   *)
(* the same (orchestrator.rs:466).                                           *)
JobsAreRun ==
  stage = "refused" /\ reply.at = "queued" => ~IsInjective(Routes(settings, asked))

(* A provider that did what it was asked has worked for somebody: the images *)
(* reach the caller, unless the store refuses them.  The exceptions: a URL   *)
(* without a public base is refused only now (materialize.rs:468); a JPEG    *)
(* cannot carry the transparency that was asked of the model; JSON escapes   *)
(* can make a prompt within the 12 KiB of docs/api.md:211 too long for its   *)
(* image; images near their limits can be too much for one response, or with *)
(* a record in them.                                                         *)
WorkIsDelivered ==
  LET limits == settings.artifacts
      room  == IF Embeds(routed) THEN PacketBytes(MaxMetadata) ELSE 0
      usual == [i \in DOMAIN answer.data |-> [answer.data[i] EXCEPT !.bytes = 1024 * KiB]]
      honest == /\ usual = Obeyed(routed).data /\ answer.failures = <<>>
                /\ answer.model = None /\ answer.store
  IN stage = "refused" /\ reply.at = "returned" /\ honest =>
       \/ routed.rendering = "url" /\ limits.public_base_url = None
       \/ routed.background = "transparent" /\ routed.format = "jpeg"
       \/ Embeds(routed) /\ answer.escape > 1
       \/ 4 * FoldLeft(LAMBDA sum, image : sum + image.bytes, 0, answer.data) > limits.max_response_bytes
       \/ \E i \in DOMAIN answer.data :
            ~Decodes([answer.data[i] EXCEPT !.bytes = @ + room], limits.image)

(* Nor is another provider asked for the same images, unless the caller      *)
(* accepts that (on_error) or the bridge could not have served any answer of *)
(* this shape: an answer by URL that it may not fetch, or one that it may    *)
(* not give.                                                                 *)
WorkIsNotRepeated ==
  stage = "admitted" /\ reply.at = "returned" =>
    \/ asked.fallback = "on_error"
    \/ reply.code = "configuration" /\
         (asked.rendering = "url" \/ \E i \in DOMAIN answer.data : answer.data[i].payload = "url")

(* What was accepted, as a request, as a job or as a preset, is served.      *)
AdmittedIsServed ==
  RequestsAreServed /\ JobsAreRun /\ ShelfIsUsable /\ ReplacementsAnswer
  /\ WorkIsDelivered /\ WorkIsNotRepeated

(* docs/errors.md:66: one request can ask for at most 255 outputs.  A count  *)
(* that the provider advertises is not refused as an invalid one.            *)
AdvertisedCountsAreServed ==
  stage = "refused" /\ reply.at \in {"fan_out", "provider"} =>
    ~(Issues(request, DefaultLimits) = {"parameters.n"} /\ InRange(request.n, capable.count))
=============================================================================
