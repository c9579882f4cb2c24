------------------------------ MODULE Responses ------------------------------
(***************************************************************************)
(* What becomes of the value a handler returns (serialization.py,          *)
(* responses.py, _kwargs/extractors.py) or of the exception it raises      *)
(* (error_handlers.py): the answer Rust is handed.                         *)
(*                                                                         *)
(* A returned value is [k, elem, valid, status]: its kind, the kind of     *)
(* what it holds (the items of a list or a QuerySet, the payload of a JSON *)
(* or Response object, the second half of a tuple, the error a File cannot *)
(* be opened for), whether that fits the schema the route declares (a File *)
(* can be opened), and the status it carries.                              *)
(*                                                                         *)
(* A route declares [type, validate, class, status, multi]: the annotation *)
(* of its answer, whether answers are validated, its response_class, its   *)
(* status and, for several statuses, the annotation of each.               *)
(*                                                                         *)
(* A body is [form, of]: how it was made of what.  "raw" is the encoder's  *)
(* view of a value, "dumped" a Serializer's dump(), "validated" the        *)
(* declared type after conversion, "projected" the declared attributes.    *)
(***************************************************************************)
EXTENDS Integers, Sequences, FiniteSets

NoopTypes == {"dict", "list", "str"}
StructTypes == {"Struct", "Serializer"}
ListOfStruct == {"list_Struct", "list_Serializer"}
Lists == ListOfStruct \union {"list_int"}
Streams == {"stream_Struct", "stream_str", "stream"}

Body(form, of) == [form |-> form, of |-> of]
Wire(status, meta, kind, body) == [exc |-> "none", status |-> status, meta |-> meta, kind |-> kind, body |-> body]
Raised(e) == [exc |-> e, status |-> 0, meta |-> "none", kind |-> "none", body |-> Body("none", "none")]

WireBytes(status, meta, body) == Wire(status, meta, "bytes", body)
WireStream(status, body) == Wire(status, "streaming", "stream", body)
WireFile(status, body) == Wire(status, "file", "file", body)

----------------------------------------------------------------------------
(* Encoding and validation. *)

\* What msgspec's encoder and default_serializer accept.
Encodable(v) ==
  IF v.k \in {"list", "tuple"} THEN v.elem # "object"
  ELSE v.k \in {"None", "dict", "bytes", "str", "Serializer", "Struct", "OtherStruct", "Paginated"}

EncodeRaw(status, v) ==
  IF Encodable(v) THEN WireBytes(status, "json", Body("raw", IF v.k = "list" THEN v.elem ELSE v.k))
  ELSE Raised("TypeError")

\* _convert_serializers: whether dump() is called on the value or its items.
IsSerializer(v) == v.k = "Serializer" \/ (v.k = "list" /\ v.elem = "Serializer")

\* extract_response_metadata: the names of the fields of list[Struct].
HasFieldNames(d) == d.type \in ListOfStruct

\* _response_validation_is_required and _compile_response_validator.
ValidationRequired(type) == type \notin {"none"} \union NoopTypes
Validates(d) == d.validate /\ ValidationRequired(d.type)

\* Conversion to the declared type: [ok, body].
Failed == [ok |-> FALSE, body |-> Body("none", "none")]
Converted(d, v) == IF v.valid THEN [ok |-> TRUE, body |-> Body("validated", d.type)] ELSE Failed
AsIs(v) == [ok |-> TRUE, body |-> Body("raw", v.k)]

\* A list for a list, None for an empty one, and the attributes of items that
\* are neither dicts nor structs.
CoerceList(d, v) ==
  IF v.k = "None" THEN [ok |-> TRUE, body |-> Body("validated", d.type)]
  ELSE IF v.k \notin {"list", "tuple"} THEN Failed
  ELSE IF v.elem = "object" /\ ~HasFieldNames(d) THEN Failed
  ELSE IF v.elem \in {"OtherStruct", "Serializer"} /\ d.type # "list_Serializer" THEN Failed
  ELSE IF v.elem = "Serializer" THEN [ok |-> TRUE, body |-> Body("validated", d.type)]
  ELSE Converted(d, v)

\* isinstance(value, annotation).
InstanceOf(v, type) ==
  \/ type \in StructTypes /\ v.k = type
  \/ type = "Union" /\ v.k = "Struct"

CoerceStruct(d, v) ==
  IF v.k \in {"list", "tuple"} THEN Failed ELSE Converted(d, v)

\* coerce_to_response_type.
Coerce(d, v) ==
  IF v.k = "Paginated" THEN AsIs(v)
  ELSE IF v.k = "QuerySet" /\ HasFieldNames(d) THEN Converted(d, v)
  ELSE IF d.type \in Lists THEN CoerceList(d, v)
  ELSE IF InstanceOf(v, d.type) THEN AsIs(v)
  ELSE IF d.type \in StructTypes THEN CoerceStruct(d, v)
  ELSE IF d.type \in {"Union", "dict_of"} /\ v.k = "dict" THEN Converted(d, v)
  ELSE Failed

JsonPayload_Escapes(d, v, status, body) ==
  IF ~Validates(d)
  THEN IF Encodable(v) \/ body.form # "raw" THEN WireBytes(status, "json", body) ELSE Raised("TypeError")
  ELSE IF Coerce(d, v).ok THEN WireBytes(status, "json", Coerce(d, v).body)
  ELSE Raised("ValidationError")

\* _serialize_json_payload: any failure of the validator is the server's.
JsonPayload(d, v, status, body) ==
  IF ~Validates(d)
  THEN IF Encodable(v) \/ body.form # "raw" THEN WireBytes(status, "json", body) ELSE Raised("TypeError")
  ELSE IF Coerce(d, v).ok THEN WireBytes(status, "json", Coerce(d, v).body)
  ELSE Raised("ResponseValidationError")

----------------------------------------------------------------------------
(* Streams. *)

\* _extract_stream_item_type: whether the annotation is a stream, of what.
IsStreamType(type) == type \in Streams
ItemType(type) == CASE type = "stream_Struct" -> "Struct" [] type = "stream_str" -> "str" [] OTHER -> "none"

\* _is_stream_protocol_instance, for what is not a generator.
IsIterator(v) == v.k \in {"iterator", "object_iterator"}

\* _build_auto_streaming_response: a generator always streams, an iterator
\* where the route declares a stream.
AutoStreams(d, v) == v.k = "generator" \/ (IsStreamType(d.type) /\ IsIterator(v))

\* _serialize_stream_chunk: the chunks of a typed stream are lines of JSON,
\* validated if the route validates; of any other, what the generator yields.
ChunkForm(d) ==
  CASE ~IsStreamType(d.type) \/ ItemType(d.type) \in {"none", "str"} -> "chunks"
    [] d.validate                                                    -> "validated_lines"
    [] OTHER                                                         -> "lines"

\* _serialize_sse_chunk and format_sse_event: every item is framed.
SseForm == "events"

\* _to_stream_wire.
StreamWire(k, status, form) ==
  WireStream(status, Body(IF k = "SSE" THEN SseForm ELSE form, k))

AutoStream(d, v, status) ==
  IF d.class = "SSE" THEN StreamWire("SSE", status, SseForm)
  ELSE StreamWire("Streaming", status, ChunkForm(d))

----------------------------------------------------------------------------
(* compile_response_handlers. *)

\* The dump of a Serializer, or the attributes of the declared fields, as the
\* payload that is validated or encoded.
Dumped(v) == [v EXCEPT !.k = IF @ = "Serializer" THEN "dict" ELSE @, !.elem = IF @ = "Serializer" THEN "dict" ELSE @]

DataList(d, v, status) ==
  IF v.elem = "Serializer" THEN JsonPayload(d, Dumped(v), status, Body("dumped", "Serializer"))
  ELSE IF v.elem = "object" /\ HasFieldNames(d)
  THEN JsonPayload(d, [v EXCEPT !.elem = "dict"], status, Body("projected", "object"))
  ELSE JsonPayload(d, v, status, Body("raw", v.elem))

\* _compile_queryset_serializers: the declared fields, or the models.
DataQuerySet(d, v, status) ==
  IF HasFieldNames(d) THEN JsonPayload(d, [v EXCEPT !.k = "list", !.elem = "dict"], status, Body("projected", "QuerySet"))
  ELSE JsonPayload(d, [v EXCEPT !.k = "list", !.elem = "object"], status, Body("raw", "object"))

\* data_handler, the same in both colours.
DataHandler(d, v, status) ==
  IF v.k = "None" /\ status = 204 THEN WireBytes(204, "empty", Body("none", "none"))
  ELSE IF v.k = "dict" THEN JsonPayload(d, v, status, Body("raw", "dict"))
  ELSE IF v.k = "list" THEN DataList(d, v, status)
  ELSE IF v.k = "bytes" THEN WireBytes(status, "octetstream", Body("raw", "bytes"))
  ELSE IF v.k = "str" THEN WireBytes(status, "plaintext", Body("raw", "str"))
  ELSE IF AutoStreams(d, v) THEN AutoStream(d, v, status)
  ELSE IF v.k = "Serializer" THEN JsonPayload(d, Dumped(v), status, Body("dumped", "Serializer"))
  ELSE IF v.k = "QuerySet" THEN DataQuerySet(d, v, status)
  ELSE IF v.k \in {"Struct", "OtherStruct", "Paginated"} \/ Validates(d)
  THEN JsonPayload(d, v, status, Body("raw", v.k))
  ELSE Raised("TypeError")

ResponseTypes ==
  {"JSON", "PlainText", "HTML", "Redirect", "File", "FileResponse", "Streaming", "SSE",
   "Response", "Django", "DjangoRedirect"}

\* The payload of a JSON or Response object, as a value of its own.
Payload(v) == [k |-> v.elem, elem |-> "none", valid |-> v.valid, status |-> 0]

JsonResponse(d, v) ==
  IF ~Validates(d) THEN EncodeRaw(v.status, Payload(v))
  ELSE IF Coerce(d, Payload(v)).ok THEN WireBytes(v.status, "json", Coerce(d, Payload(v)).body)
  ELSE Raised("ResponseValidationError")

\* Response(content, media_type="application/json"): as JSON, with its own
\* content type among the headers.
GenericResponse(d, v) == JsonResponse(d, v)

\* Neither a redirect nor a Django response is validated.
PlainTextResponse(v) == WireBytes(v.status, "plaintext", Body("raw", "str"))
HtmlResponse(v) == WireBytes(v.status, "html", Body("raw", "str"))
RedirectResponse(v) == WireBytes(v.status, "redirect", Body("none", "none"))
DjangoResponse(v) ==
  WireBytes(v.status, IF v.k = "DjangoRedirect" THEN "redirect" ELSE "octetstream",
            IF v.k = "DjangoRedirect" THEN Body("none", "none") ELSE Body("raw", "bytes"))

\* File opens what it names when it is answered, and whatever open() raises is
\* raised: no file, no permission, or another OSError (a directory, say).
OpenError(e) == IF e \in {"FileNotFoundError", "PermissionError"} THEN e ELSE "OSError"
FileContent(v) ==
  IF v.valid THEN WireBytes(v.status, "file", Body("raw", "bytes")) ELSE Raised(OpenError(v.elem))

\* FileResponse leaves it to Rust.
FileStreaming(v) == WireFile(v.status, Body("raw", "path"))

\* response_type_handler.
ResponseTypeHandler(d, v) ==
  IF v.k = "JSON" THEN JsonResponse(d, v)
  ELSE IF v.k \in {"Streaming", "SSE"} THEN StreamWire(v.k, v.status, "chunks")
  ELSE IF v.k = "PlainText" THEN PlainTextResponse(v)
  ELSE IF v.k = "HTML" THEN HtmlResponse(v)
  ELSE IF v.k = "Redirect" THEN RedirectResponse(v)
  ELSE IF v.k = "File" THEN FileContent(v)
  ELSE IF v.k = "FileResponse" THEN FileStreaming(v)
  ELSE IF v.k = "Response" THEN GenericResponse(d, v)
  ELSE DjangoResponse(v)

\* serialize_response.
Serialize(d, v) ==
  IF v.k \in ResponseTypes THEN ResponseTypeHandler(d, v) ELSE DataHandler(d, v, d.status)

\* Whether making the answer runs the query of a QuerySet: of the value, or of a
\* payload that is validated.
Queries(d, v) ==
  \/ v.k = "QuerySet"
  \/ v.k \in {"JSON", "Response"} /\ v.elem = "QuerySet" /\ Validates(d) /\ HasFieldNames(d)

\* serialize_response_sync called where an event loop runs: Django refuses the
\* query, and within the validator that is a failure of the validator.
SerializeOnLoop(d, v) ==
  IF ~Queries(d, v) THEN Serialize(d, v)
  ELSE Raised(IF v.k = "QuerySet" THEN "SynchronousOnlyOperation" ELSE "ResponseValidationError")

----------------------------------------------------------------------------
(* Executors (api.py): how the value reaches serialize_response, or does   *)
(* not.  slow is what serialize_response makes of the value where the       *)
(* executor runs.                                                           *)

\* _compile_inline_response_validator.
InlineKind(d) ==
  IF ~d.validate \/ d.class # "none" \/ d.status = 204 \/ d.multi # <<>> THEN "none"
  ELSE IF d.type \in {"Struct", "Union"} THEN "struct"
  ELSE IF d.type = "list_Struct" THEN "list"
  ELSE "none"

\* Encoded as it is: the annotation promises a dict or a list.
SkipsConvert(d) == d.type \in Lists \union {"dict", "dict_of"}

DirectDict(d, v, slow) ==
  IF SkipsConvert(d) \/ v.k = "dict" THEN EncodeRaw(d.status, v)
  ELSE IF v.k # "list" THEN slow
  ELSE IF IsSerializer(v) THEN WireBytes(d.status, "json", Body("dumped", "Serializer"))
  ELSE EncodeRaw(d.status, v)

InlineStruct(d, v, slow) == IF v.k = "Struct" THEN EncodeRaw(d.status, v) ELSE slow

InlineList_NoProjection(d, v, slow) ==
  IF v.k # "list" THEN slow
  ELSE IF v.elem # "none" /\ (v.elem \in {"OtherStruct", "Serializer", "object"} \/ ~v.valid)
  THEN Raised("ResponseValidationError")
  ELSE WireBytes(d.status, "json", Body("validated", d.type))

InlineList(d, v, slow) ==
  IF v.k # "list" \/ v.elem = "object" THEN slow
  ELSE IF v.elem # "none" /\ (v.elem \in {"OtherStruct", "Serializer"} \/ ~v.valid)
  THEN Raised("ResponseValidationError")
  ELSE WireBytes(d.status, "json", Body("validated", d.type))

\* The executor that serves every route: it moves to a thread for a handler
\* that blocks and for a QuerySet.
GenericAnswer(d, v, onLoop) ==
  IF onLoop /\ v.k # "QuerySet" THEN SerializeOnLoop(d, v) ELSE Serialize(d, v)

\* The executors specialised for a handler whose arguments its injector binds.
FastAnswer(d, v) ==
  IF ~Validates(d) THEN DirectDict(d, v, Serialize(d, v))
  ELSE IF InlineKind(d) = "struct" THEN InlineStruct(d, v, Serialize(d, v))
  ELSE IF InlineKind(d) = "list" THEN InlineList(d, v, Serialize(d, v))
  ELSE Serialize(d, v)

\* The same for a handler that is not a coroutine: these call
\* serialize_response_sync where they are, on the loop or, dispatched by Rust, on
\* its worker thread.
FastAnswerSync(d, v, onLoop) ==
  LET slow == IF onLoop THEN SerializeOnLoop(d, v) ELSE Serialize(d, v) IN
  IF ~Validates(d) THEN DirectDict(d, v, slow)
  ELSE IF InlineKind(d) = "struct" THEN InlineStruct(d, v, slow)
  ELSE IF InlineKind(d) = "list" THEN InlineList(d, v, slow)
  ELSE GenericAnswer(d, v, onLoop)

\* A route that declares several statuses, as a sequence of [status, type]; the
\* status 0 stands for the catch-all.
Entry(d, i) == [d EXCEPT !.type = d.multi[i].type, !.multi = <<>>, !.class = "none",
                         !.status = IF d.multi[i].status = 0 THEN d.status ELSE d.multi[i].status]
EntriesOf(d, code) ==
  LET exact == {i \in DOMAIN d.multi : d.multi[i].status = code}
      any == {i \in DOMAIN d.multi : d.multi[i].status = 0}
  IN IF exact # {} THEN exact ELSE any

MultiTuple(d, v, onLoop) ==
  IF EntriesOf(d, v.status) = {} THEN Raised("TypeError") ELSE
  LET e == Entry(d, CHOOSE i \in EntriesOf(d, v.status) : TRUE)
      data == Payload(v)
  IN IF e.type = "none" \/ data.k = "None" THEN WireBytes(v.status, "empty", Body("none", "none"))
     ELSE IF data.k \in {"dict", "list"} /\ ~Validates(e) THEN EncodeRaw(v.status, data)
     ELSE IF onLoop /\ data.k = "QuerySet" THEN Raised("SynchronousOnlyOperation")
     ELSE DataHandler(e, data, v.status)

MultiAnswer(d, v, onLoop) ==
  LET dflt == {i \in DOMAIN d.multi : d.multi[i].status = d.status}
      default == Entry(d, IF dflt # {} THEN CHOOSE i \in dflt : TRUE ELSE 1)
      entry == IF v.k = "JSON" /\ EntriesOf(d, v.status) # {}
               THEN Entry(d, CHOOSE i \in EntriesOf(d, v.status) : TRUE) ELSE default
  IN IF v.k = "tuple" THEN MultiTuple(d, v, onLoop)
     ELSE IF onLoop THEN SerializeOnLoop(entry, v)
     ELSE Serialize(entry, v)

----------------------------------------------------------------------------
(* Exceptions. *)

\* format_error_response.
ErrorWire(status, form) == WireBytes(status, "json", Body(form, "error"))

\* handle_exception; a debug page is HTML.
HandleException(exc, status, debug) ==
  IF exc = "HTTPException" THEN ErrorWire(status, "detail")
  ELSE IF exc \in {"RequestValidationError", "ValidationError"} THEN ErrorWire(422, "errors")
  ELSE IF exc = "ResponseValidationError" THEN ErrorWire(500, "errors")
  ELSE IF exc = "FileNotFoundError" THEN ErrorWire(404, "detail")
  ELSE IF exc = "PermissionError" THEN ErrorWire(403, "detail")
  ELSE IF debug THEN WireBytes(500, "html", Body("traceback", "error"))
  ELSE ErrorWire(500, "detail")

=============================================================================
