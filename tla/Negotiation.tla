----------------------------- MODULE Negotiation -----------------------------
(***************************************************************************)
(* What a provider says it can do, crates/core/src/capabilities.rs, the    *)
(* request that is made of a caller's request to fit it,                   *)
(* crates/core/src/negotiation.rs, and the plan for a transparent          *)
(* background, crates/runtime/src/transparency.rs.  A negotiation under    *)
(* way is [request, notes, refused]: the request so far, what was changed  *)
(* in it, and the field that cannot be honored.                            *)
(***************************************************************************)
EXTENDS Request, SequencesExt

KeyPrompt   == 428    \* bytes of the chroma-key instructions, write! of prepare_transparency()
MergePrompt == 47     \* bytes before a negative prompt that is merged

Qualities   == <<"auto", "low", "medium", "high">>
Formats     == <<"png", "jpeg", "webp">>
Backgrounds == <<"auto", "opaque", "transparent">>
Moderations == <<"auto", "low">>

(* The first element of a BTreeSet.                                          *)
First(set, order) ==
  order[CHOOSE i \in DOMAIN order :
          order[i] \in set /\ \A j \in 1..(i - 1) : order[j] \notin set]

InRange(value, range) == range.min <= value /\ value <= range.max
Clamp(value, range) ==
  IF value < range.min THEN range.min ELSE IF value > range.max THEN range.max ELSE value

(* ProviderCapabilities::validate()                                          *)
Consistent(caps) ==
  LET count == caps.count  batch == caps.batching IN
  /\ 0 < count.min /\ count.min <= count.max
  /\ 0 < batch.min /\ batch.min <= batch.max /\ count.min <= batch.min /\ batch.max <= count.max
  /\ 0 < batch.parallel /\ batch.parallel <= count.max
  /\ batch.mode = "native" => [min |-> batch.min, max |-> batch.max] = count
  /\ batch.mode = "fan_out" => batch.max < count.max
  /\ caps.partials.min <= caps.partials.max
  /\ (caps.alpha = "native") <=> ("transparent" \in caps.backgrounds)
  /\ caps.alpha = "emulated" =>
       /\ caps.backgrounds \cap {"auto", "opaque"} # {}
       /\ caps.formats \cap AlphaFormats # {}

-----------------------------------------------------------------------------
(* What a refusal names: a field, or what Unmet() checks.                    *)
Refusable ==
  DOMAIN Plain \cup {"routing.model", "operation", "reference_images", "session.mode",
                    "parameters.input_fidelity", "policies.revised_prompt"}

ASSUME NoneAssumption == None \notin Refusable

Start(request) == [request |-> request, notes |-> <<>>, refused |-> None]

Declined(talk) == talk.refused # None   \* the first refusal is the answer
Refuse(talk, field) == [talk EXCEPT !.refused = field]
Note(field, from, to) == [field |-> field, from |-> from, to |-> to]

(* record(), record_optional()                                               *)
Change(talk, field, value) ==
  [talk EXCEPT !.request[field] = value,
               !.notes = Append(@, Note(field, talk.request[field], value))]

(* normalize_or_reject(), and the guards like it                             *)
Normalize(talk, field, value) ==
  IF talk.request.compatibility = "strict" THEN Refuse(talk, field)
                                           ELSE Change(talk, field, value)

(* check_model() ... check_input_fidelity(), and the last check of           *)
(* negotiate_request(): what no normalization can make up for.               *)
Unmet(r, caps) ==
  {pair[1] : pair \in {check \in
    {<<"routing.model", r.model \notin {None, caps.model} /\ caps.model # None>>,
     <<"operation", IF r.kind = "edit" THEN ~caps.edits ELSE ~caps.generation>>,
     <<"reference_images", r.references > caps.references>>,
     <<"images", r.kind = "edit" /\ r.images > caps.images>>,
     <<"mask", r.mask /\ ~caps.masks>>,
     <<"session.mode", \/ r.session = "persistent" /\ ~caps.sessions
                       \/ r.session = "thread" /\ ~caps.threads>>,
     <<"user", r.user /\ ~caps.user>>,
     <<"parameters.input_fidelity", r.fidelity \notin {None} \cup caps.fidelities>>,
     <<"policies.revised_prompt", r.revised = "require" /\ ~caps.revised>>} : check[2]}}

(* negotiate_action()                                                        *)
Action(talk, caps) ==
  IF Declined(talk) \/ talk.request.action \in caps.actions THEN talk
  ELSE IF "auto" \in caps.actions THEN Change(talk, "action", "auto")
                                  ELSE Refuse(talk, "action")

(* negotiate_count(), negotiate_partial_images()                             *)
Ranged(talk, field, range) ==
  IF Declined(talk) \/ InRange(talk.request[field], range) THEN talk
  ELSE Normalize(talk, field, Clamp(talk.request[field], range))

(* size_supported()                                                          *)
SizeSupported(size, sizes) ==
  IF IsAuto(size) THEN sizes.auto
  ELSE LET width == size[1]  height == size[2]
           short == IF width < height THEN width ELSE height
           long  == IF width < height THEN height ELSE width IN
       \/ \E i \in DOMAIN sizes.allowed : sizes.allowed[i] = size
       \/ /\ sizes.arbitrary # None
          /\ sizes.arbitrary.minEdge <= short /\ long <= sizes.arbitrary.maxEdge
          /\ width % sizes.arbitrary.multiple = 0 /\ height % sizes.arbitrary.multiple = 0
          /\ sizes.arbitrary.minPixels <= width * height
          /\ width * height <= sizes.arbitrary.maxPixels
          /\ long <= sizes.arbitrary.maxRatio * short

(* negotiate_size()                                                          *)
Size(talk, sizes) ==
  LET size == talk.request.size IN
  IF Declined(talk) \/ SizeSupported(size, sizes) THEN talk
  ELSE IF ~IsAuto(size) /\ sizes.auto THEN Normalize(talk, "size", <<>>)
  ELSE IF sizes.allowed # <<>> THEN Normalize(talk, "size", sizes.allowed[1])
  ELSE Refuse(talk, "size")

(* negotiate_hints()                                                         *)
Hint(talk, field, supported) ==
  IF Declined(talk) \/ ~talk.request[field] \/ supported THEN talk ELSE Normalize(talk, field, FALSE)

(* negotiate_quality(), _format(), _background(), _moderation()              *)
OneOf(talk, field, allowed, preferred, order) ==
  IF Declined(talk) \/ talk.request[field] \in allowed THEN talk
  ELSE IF preferred \in allowed THEN Normalize(talk, field, preferred)
  ELSE IF allowed = {} THEN Refuse(talk, field)
  ELSE Normalize(talk, field, First(allowed, order))

(* Mutant: the compression stays when the format went.                       *)
CompressionStays(talk) == talk

(* negotiate_format(), its second half                                       *)
Compression(talk) ==
  IF Declined(talk) \/ talk.request.compression = None \/ talk.request.format # "png" THEN talk
  ELSE Normalize(talk, "compression", None)

(* Mutant: the negative prompt stays after it was merged.                    *)
MergeTwice(talk) ==
  [talk EXCEPT !.request.prompt = @ + MergePrompt + talk.request.negative,
               !.notes = Append(@, Note("negative", TRUE, "merged"))]

Merge(talk) ==
  [talk EXCEPT !.request.prompt = @ + MergePrompt + talk.request.negative,
               !.request.negative = None,
               !.notes = Append(@, Note("negative", TRUE, "merged"))]

(* negotiate_negative_prompt()                                               *)
Negative(talk, level) ==
  LET mode == talk.request.negativeMode IN
  IF Declined(talk) \/ talk.request.negative = None THEN talk
  ELSE IF \/ mode = "reject" \/ (mode = "native" /\ level # "native")
          \/ (mode = "auto" /\ level = "unsupported")
  THEN Refuse(talk, "negative")
  ELSE IF mode = "merge" \/ (mode = "auto" /\ level = "emulated") THEN Merge(talk) ELSE talk

(* The checks in front of the normalizations, and revised_prompt.            *)
Able(request, caps) ==
  IF Unmet(request, caps) = {} THEN Start(request)
  ELSE Refuse(Start(request), CHOOSE field \in Unmet(request, caps) : TRUE)

(* negotiate_request(), in its order                                         *)
Negotiate(request, caps) ==
  LET action      == Action(Able(request, caps), caps)
      count       == Ranged(action, "n", caps.count)
      size        == Size(count, caps.sizes)
      aspect      == Hint(size, "aspect", caps.aspect)
      resolution  == Hint(aspect, "resolution", caps.resolution)
      quality     == OneOf(resolution, "quality", caps.qualities, "auto", Qualities)
      format      == OneOf(quality, "format", caps.formats, "png", Formats)
      compression == Compression(format)
      background  == OneOf(compression, "background", caps.backgrounds, "auto", Backgrounds)
      moderation  == OneOf(background, "moderation", caps.moderation, "auto", Moderations)
      partials    == Ranged(moderation, "partials", caps.partials)
  IN Negative(partials, caps.negative)

(***************************************************************************)
(* prepare_transparency(): what the provider is asked for when the caller  *)
(* wants a transparent background.                                         *)
(***************************************************************************)
TransparencyMode(request, caps) ==
  IF request.transparency # "auto" THEN request.transparency
  ELSE IF caps.alpha = "native" THEN "native" ELSE "chroma_key"

Keyed(request, caps) ==
  request.background = "transparent" /\ TransparencyMode(request, caps) # "native"

(* A format without alpha gives way to PNG; its compression goes unrecorded. *)
AlphaFormat(talk) ==
  IF talk.request.format # "jpeg" THEN talk
  ELSE LET changed == Normalize(talk, "format", "png") IN
       IF changed.refused # None THEN changed
       ELSE [changed EXCEPT !.request.compression = None]

KeyBackground(talk, caps) ==
  IF talk.refused # None THEN talk
  ELSE IF caps.backgrounds \cap {"auto", "opaque"} = {} THEN Refuse(talk, "background")
  ELSE [talk EXCEPT !.request.background = First(caps.backgrounds, Backgrounds),
                    !.request.prompt = @ + KeyPrompt,
                    !.notes = @ \o <<Note("background", "transparent", "transparent"),
                                     Note("keyColor", talk.request.keyColor, "keyed")>>]

Prepare(request, caps) ==
  LET mode == TransparencyMode(request, caps)
      noted == [Start(request) EXCEPT
                  !.notes = <<Note("transparency", request.transparency, mode)>>]
  IN IF request.background # "transparent" THEN Start(request)
     ELSE IF request.transparency = "auto" /\ caps.alpha = "unsupported"
     THEN Refuse(Start(request), "background")
     ELSE IF mode = "native" /\ caps.alpha # "native" THEN Refuse(noted, "transparency")
     ELSE IF mode = "native" THEN noted
     ELSE KeyBackground(AlphaFormat(noted), caps)
=============================================================================
