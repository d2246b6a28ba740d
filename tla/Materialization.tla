--------------------------- MODULE Materialization ---------------------------
(***************************************************************************)
(* What becomes of the images that a provider hands over,                  *)
(* crates/runtime/src/materialize.rs, with the checks of an image,         *)
(* crates/artifacts/src/inspect.rs and chroma.rs, and the record that is   *)
(* put into its file, crates/artifacts/src/metadata.rs.                    *)
(*                                                                         *)
(* A file is the sequence of its parts, of which only those that hold XMP  *)
(* are told apart: a "foreign" one, an "older" record of the bridge, and   *)
(* the "record" of this request.  Pixels are whether they decode, and a     *)
(* coarse raster of the picture.                                           *)
(***************************************************************************)
EXTENDS Negotiation, Chroma

MaxMetadata == 40 * KiB     \* JSON bytes in an image
MaxXmp      == 56 * KiB     \* the packet around them, as it is read back
Packet      == 289          \* its bytes besides the JSON
Segment     == 29 + 2       \* what a JPEG segment adds to the packet
Contract    == 3 * KiB      \* bound: the JSON of a record besides the texts

(* A red subject before a green screen, or before nothing.                   *)
Green  == <<0, 255, 0, 255>>
Red    == <<200, 40, 30, 255>>
Hole   == <<0, 0, 0, 0>>
Before(pixel) == <<<<pixel, Red, pixel>>, <<pixel, Red, pixel>>>>

(* ChromaKeyOptions::default(), which is what a request that says nothing    *)
(* asks for.                                                                 *)
DefaultCut == [transparent |-> 12, opaque |-> 96, despill |-> TRUE]

Base64(bytes) == 4 * ((bytes + 2) \div 3)

(* An answer as it comes: what a provider that obeys makes of a request.     *)
(* `escape` is how many bytes of JSON a byte of the prompt takes, `extras`   *)
(* the bytes of usage, session, warnings and revised prompt, and `store`     *)
(* whether the artifact store takes the images.                              *)
Obeyed(request) ==
  [data |-> [i \in 1..request.n |->
               [index |-> i - 1, payload |-> "b64", format |-> request.format,
                size |-> IF IsAuto(request.size) THEN <<1024, 1024>> ELSE request.size,
                bytes |-> 1024 * KiB, flaw |-> None, parts |-> <<"pixels", "end">>,
                picture |-> Before(IF request.background = "transparent" THEN Hole ELSE Green)]],
   failures |-> <<>>, size |-> None, model |-> None, escape |-> 1, extras |-> 100, store |-> TRUE]

(* validate_output_set(): one result for each output, in order.              *)
Increasing(s) == \A i \in 2..Len(s) : s[i - 1] < s[i]
Indices(data) == [i \in DOMAIN data |-> data[i].index]
SetIsWhole(answer, n, policy) ==
  LET made == Indices(answer.data) IN
  /\ answer.failures # <<>> => policy = "best_effort"
  /\ Len(made) + Len(answer.failures) = n
  /\ ToSet(made) \cup ToSet(answer.failures) = 0..(n - 1)
  /\ Increasing(made) /\ Increasing(answer.failures)

-----------------------------------------------------------------------------
(* The materialization under way: the images so far, what was changed, the   *)
(* bytes that are held for the response, and what is wrong.                  *)
Work(answer) ==
  [images |-> <<>>, size |-> None, notes |-> <<>>, error |-> None,
   bytes |-> FoldLeft(LAMBDA sum, image : sum + (IF image.payload = "b64" THEN Base64(image.bytes) ELSE 0),
                      0, answer.data)]

Fail(work, code) == IF work.error = None THEN [work EXCEPT !.error = code] ELSE work

(* check_response_budget()                                                   *)
Hold(work, bytes, limits) ==
  IF work.bytes + bytes > limits.max_response_bytes THEN Fail(work, "protocol")
  ELSE [work EXCEPT !.bytes = @ + bytes]

(* inspect_image()                                                           *)
Decodes(image, limits) ==
  /\ image.flaw # "undecodable"
  /\ 0 < image.bytes /\ image.bytes <= limits.max_encoded_bytes
  /\ \A i \in {1, 2} : 0 < image.size[i] /\ image.size[i] <= limits.max_edge
  /\ image.size[1] * image.size[2] <= limits.max_pixels

(* verify(): the image is fetched, decoded, and what was claimed of it       *)
(* compared with what it is.                                                 *)
Unverified(image, format, limits) ==
  IF image.payload = "internal" THEN "protocol"
  ELSE IF image.payload = "url" /\ ~limits.remote_output.enabled THEN "configuration"
  ELSE IF image.payload = "b64" /\ (image.flaw = "garbled" \/ Base64(image.bytes) > limits.max_base64_chars)
  THEN "protocol"
  ELSE IF ~Decodes(image, limits.image) THEN "artifact"
  ELSE IF image.format # format \/ image.flaw = "claims" THEN "protocol" ELSE None

NoteOf(index, field, from, to) == Note(field, from, to) @@ "image" :> index

(* The transparent background: removed where the key is sampled, looked for  *)
(* otherwise.  A JPEG has no alpha.                                          *)
Decoded(image) ==
  IF image.format \in AlphaFormats THEN image.picture
  ELSE [y \in DOMAIN image.picture |->
          [x \in DOMAIN image.picture[y] |-> [image.picture[y][x] EXCEPT ![4] = 255]]]

(* The matte is looked at, kept and reported.                                *)
Measured(work, image, matte, summary, notes, keyed, limits) ==
  IF ~Plausible(summary, keyed) THEN Fail(work, "artifact")
  ELSE Hold([work EXCEPT !.images = Append(@, [image EXCEPT !.picture = matte]),
                         !.notes = @ \o Append(notes, NoteOf(image.index, "data.alpha", None, summary))],
            image.bytes, limits)

Matted(work, image, matte, notes, keyed, limits) ==
  Measured(work, image, matte, Summary(matte), notes, keyed, limits)

(* The background of the sampled key goes.                                   *)
Keyless(work, image, key, limits) ==
  Matted(work, image, Removed(Decoded(image), key, DefaultCut),
         <<NoteOf(image.index, "data.keyColor", "asked", key)>>, TRUE, limits)

(* One turn of the first loop of materialize().                              *)
Verify(work, image, request, keyed, limits) ==
  LET issue == Unverified(image, request.format, limits) IN
  IF work.error # None THEN work
  ELSE IF issue # None THEN Fail(work, issue)
  ELSE IF keyed THEN Keyless(work, image, Detected(Decoded(image)), limits)
  ELSE IF request.background = "transparent"
  THEN Matted(work, image, Decoded(image), <<>>, FALSE, limits)
  ELSE Hold([work EXCEPT !.images = Append(@, image)], image.bytes, limits)

(* Mutant: the first image speaks for all of them.                           *)
ReconcileFirst(work, size) ==
  IF work.error # None \/ IsAuto(size) \/ work.images = <<>> \/ work.images[1].size = size THEN work
  ELSE [work EXCEPT !.size = work.images[1].size,
                    !.notes = Append(@, Note("size", size, work.images[1].size))]

(* reconcile_dimensions(): one note when all images have the same other      *)
(* size, else one for each that has not the size that was asked for.         *)
Reconcile(work, size) ==
  LET sizes == {work.images[i].size : i \in DOMAIN work.images}
      other == SelectSeq(work.images, LAMBDA image : image.size # size)
  IN IF work.error # None \/ IsAuto(size) \/ work.images = <<>> \/ sizes = {size} THEN work
     ELSE IF Cardinality(sizes) = 1
     THEN [work EXCEPT !.size = work.images[1].size,
                       !.notes = Append(@, Note("size", size, work.images[1].size))]
     ELSE [work EXCEPT !.notes = @ \o [i \in DOMAIN other |->
                                         NoteOf(other[i].index, "data.size", size, other[i].size)]]

-----------------------------------------------------------------------------
Xmp == {"foreign", "older", "record"}
PacketBytes(json) == Packet + Base64(json)

(* embedded_metadata(): the JSON, without what a response may do without     *)
(* where there is too much of it; None when it is still too much.            *)
RecordBytes(asked, request, answer) ==
  LET texts == asked.prompt + (IF asked.negative = None THEN 0 ELSE asked.negative)
                 + (IF request.prompt = asked.prompt THEN 0 ELSE request.prompt)
      least == Contract + answer.escape * texts
  IN IF least + answer.extras <= MaxMetadata THEN least + answer.extras
     ELSE IF least <= MaxMetadata THEN least ELSE None

(* embed_png(), embed_jpeg(), embed_webp()                                   *)
Embedded(format, parts) ==
  LET others == SelectSeq(parts, LAMBDA part : part \notin Xmp) IN
  CASE format = "png"  -> Front(others) \o <<"record">> \o <<Last(others)>>
    [] format = "jpeg" -> <<"record">> \o parts
    [] format = "webp" -> others \o <<"record">>

(* extract_embedded_metadata(): the first XMP part is the one that is read.  *)
Extracted(parts) ==
  LET found == SelectSeq(parts, LAMBDA part : part \in Xmp) IN
  IF found = <<>> THEN None ELSE IF found[1] = "foreign" THEN "malformed" ELSE found[1]

(* embed_image_metadata()                                                    *)
Embed(work, image, json, limits) ==
  LET grown == [image EXCEPT !.parts = Embedded(image.format, @), !.bytes = @ + PacketBytes(json)] IN
  IF json = None THEN Fail(work, "artifact")
  ELSE IF image.format = "jpeg" /\ Segment + PacketBytes(json) >= 2^16 THEN Fail(work, "artifact")
  ELSE IF ~Decodes(grown, limits.image) THEN Fail(work, "artifact")
  ELSE [work EXCEPT !.images = Append(@, grown)]

(* project(): the payload that the caller asked for.                         *)
Project(work, rendering, answer, limits) ==
  LET image == Last(work.images) IN
  IF work.error # None THEN work
  ELSE IF rendering = "url" /\ limits.public_base_url = None THEN Fail(work, "configuration")
  ELSE IF rendering \in {"url", "artifact"} /\ ~answer.store THEN Fail(work, "artifact")
  ELSE Hold([work EXCEPT !.images = [@ EXCEPT ![Len(@)].payload = rendering]],
            IF rendering = "b64_json" THEN Base64(image.bytes) ELSE 0, limits)

(* One turn of the second loop of materialize().                             *)
Deliver(work, image, asked, request, answer, limits) ==
  IF work.error # None THEN work
  ELSE Project(IF Embeds(request) THEN Embed(work, image, RecordBytes(asked, request, answer), limits)
               ELSE [work EXCEPT !.images = Append(@, image)],
               request.rendering, answer, limits)

DeliverAll(work, asked, request, answer, limits) ==
  IF work.error # None THEN work
  ELSE FoldLeft(LAMBDA delivered, image : Deliver(delivered, image, asked, request, answer, limits),
                [work EXCEPT !.images = <<>>], work.images)

(* materialize()                                                             *)
Materialized(answer, asked, request, keyed, limits) ==
  LET started  == IF SetIsWhole(answer, request.n, request.policy) THEN Hold(Work(answer), 0, limits)
                  ELSE Fail(Work(answer), "protocol")
      verified == FoldLeft(LAMBDA work, image : Verify(work, image, request, keyed, limits),
                           started, answer.data)
  IN DeliverAll(Reconcile(verified, request.size), asked, request, answer, limits)
=============================================================================
