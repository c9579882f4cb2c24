------------------------------- MODULE Uploads -------------------------------
(***************************************************************************)
(* Form bodies: parse_multipart, parse_urlencoded and read_file_content in *)
(* src/form_parsing.rs, the constraints compiler.py derives for them, and  *)
(* the life of an upload in handle_request, the injector and dispatch.     *)
(*                                                                         *)
(* A body arrives part by part and chunk by chunk.  A chunk is known by    *)
(* its number in its part and has a size; a file is known by the number of *)
(* its part.  An optional constraint is a set of at most one value.        *)
(***************************************************************************)
EXTENDS Integers, Sequences, FiniteSetsExt

CONSTANTS
  Params,         \* file parameters: [name, alias, max_size, min_size, types, max_files]
  Names,          \* field names a client may use
  Types,          \* content types of files, as <<type, subtype>>
  Hinted,         \* names of form fields with a type hint
  GlobalLimit,    \* BOLT_MAX_UPLOAD_SIZE
  MemoryLimit,    \* BOLT_MEMORY_SPOOL_THRESHOLD
  MaxParts,       \* DEFAULT_MAX_PARTS
  MaxParamLength, \* max_param_length
  MaxChunk,       \* bound on the size of a chunk
  MaxPairs        \* bound on the pairs of a URL-encoded body

ASSUME UploadsAssumption ==
  /\ \A p \in Params : p.name \in Names /\ p.alias \subseteq Names /\ p.max_files \subseteq Nat
  /\ {GlobalLimit, MemoryLimit, MaxParts, MaxParamLength, MaxChunk, MaxPairs} \subseteq Nat
  /\ Names # {} /\ Types # {}

VARIABLES
  pc,          \* where the request is
  part_count,  \* parts seen; pairs seen of a URL-encoded body
  field,       \* field_name of the current part
  ctype,       \* content_type of the current file
  size,        \* bytes read of the current part
  buffer,      \* read_file_content: chunks in memory
  disk,        \* temp_file: none, or the chunks written to it
  files_map,   \* files_map[n]: the FileInfos of field n
  form_map,    \* form_map[n]: the values of field n; Single when there is one
  temps,       \* parts whose NamedTempFile exists
  tracked,     \* request.state["_upload_files"], as parts
  handles,     \* temporary files Python has open
  gone,        \* the client left and Actix dropped handle_request
  arrived      \* history: arrived[i]: chunks read of part i

part == <<field, ctype, size, buffer, disk, arrived>>
maps == <<files_map, form_map>>
python == <<tracked, handles>>
vars == <<pc, part_count, part, maps, temps, python, gone>>
-----------------------------------------------------------------------------
(* What registration hands to Rust. *)

\* The field a parameter is read from: alias or name.
Key(p) == IF p.alias = {} THEN p.name ELSE CHOOSE a \in p.alias : TRUE

\* file_constraints, kept under the name of the parameter.
ConstraintsOf(n) == {p \in Params : p.name = n}

\* max_upload_size: the largest max_size of a field, or the global setting.
\* A max_size of zero is falsy.
UploadLimit ==
  LET sizes == UNION {p.max_size : p \in Params} \ {0}
  IN  IF sizes = {} THEN GlobalLimit ELSE Max(sizes)

ASSUME LimitAssumption == UploadLimit \in Nat

\* is_content_type_allowed
Allowed(pattern, t) ==
  pattern = <<"*", "*">> \/ (pattern[2] = "*" /\ pattern[1] = t[1]) \/ pattern = t

\* validate_file
Valid(p, n, t) ==
  /\ \A m \in p.max_size : n <= m
  /\ \A m \in p.min_size : n >= m
  /\ \A ts \in p.types : \E pattern \in ts : Allowed(pattern, t)
-----------------------------------------------------------------------------
Init ==
  /\ pc \in {"parts", "pairs"}
  /\ part_count = 0
  /\ field = CHOOSE n \in Names : TRUE
  /\ ctype = CHOOSE t \in Types : TRUE
  /\ size = 0
  /\ buffer = <<>>
  /\ disk = {}
  /\ files_map = [n \in Names |-> <<>>]
  /\ form_map = [n \in Names |-> <<>>]
  /\ temps = {}
  /\ tracked = {}
  /\ handles = {}
  /\ gone = FALSE
  /\ arrived = [i \in 1..MaxParts |-> 0]

\* An error return: what was parsed is dropped, its temporary files with it,
\* and the client is answered 422.
Fail_KeepsFiles == pc' = "answered" /\ UNCHANGED <<part, maps, temps, python, gone>>
Fail ==
  /\ pc' = "answered"
  /\ temps' = {}
  /\ UNCHANGED <<part, maps, python, gone>>

\* The count is checked before the part is looked at.
Counted == part_count + 1 <= MaxParts

TooManyParts ==
  /\ pc = "parts"
  /\ ~Counted
  /\ part_count' = part_count + 1
  /\ Fail

\* A part that cannot be read, at its head or in the middle, or a
\* URL-encoded body that cannot be read or parsed at all.
ReadError ==
  /\ \/ pc = "parts" /\ Counted
     \/ pc \in {"file", "field"}
     \/ pc = "pairs" /\ part_count = 0
  /\ Fail
  /\ UNCHANGED part_count

\* A part without Content-Disposition is skipped.
SkipPart ==
  /\ pc = "parts"
  /\ Counted
  /\ part_count' = part_count + 1
  /\ UNCHANGED <<pc, part, maps, temps, python, gone>>

\* A part with a filename is a file, another one is a field.
BeginPart(kind, n, t) ==
  /\ pc = "parts"
  /\ Counted
  /\ part_count' = part_count + 1
  /\ pc' = kind
  /\ field' = n
  /\ ctype' = t
  /\ size' = 0
  /\ buffer' = <<>>
  /\ disk' = {}
  /\ UNCHANGED <<arrived, maps, temps, python, gone>>
-----------------------------------------------------------------------------
(* read_file_content *)

FileTooLarge(k) ==
  /\ pc = "file"
  /\ size + k > UploadLimit
  /\ Fail
  /\ UNCHANGED part_count

Chunk == arrived[part_count] + 1

Spool_BufferLost(d) == {<<Chunk>>}
Spool(d) == IF d = {} THEN {Append(buffer, Chunk)} ELSE {Append(w, Chunk) : w \in d}

FileChunk(k) ==
  /\ pc = "file"
  /\ size + k <= UploadLimit
  /\ size' = size + k
  /\ arrived' = [arrived EXCEPT ![part_count] = Chunk]
  /\ IF disk = {} /\ size + k <= MemoryLimit
       THEN /\ buffer' = Append(buffer, Chunk)
            /\ UNCHANGED <<disk, temps>>
       ELSE /\ disk' = Spool(disk)
            /\ buffer' = <<>>
            /\ temps' = temps \union {part_count}
  /\ UNCHANGED <<pc, part_count, field, ctype, maps, python, gone>>

\* The temporary file cannot be created or written.
DiskError(k) ==
  /\ pc = "file"
  /\ size + k <= UploadLimit
  /\ disk # {} \/ size + k > MemoryLimit
  /\ Fail
  /\ UNCHANGED part_count

FileInfo ==
  [id |-> part_count, size |-> size, content_type |-> ctype, on_disk |-> disk # {},
   content |-> IF disk = {} THEN buffer ELSE CHOOSE w \in disk : TRUE]

TooMany(p, count) == \E m \in p.max_files : count > m

\* validate_file before the file is added, max_files after.
Refused_BeforePush ==
  \E p \in ConstraintsOf(field) :
    ~Valid(p, size, ctype) \/ TooMany(p, Len(files_map[field]))
Refused ==
  \E p \in ConstraintsOf(field) :
    ~Valid(p, size, ctype) \/ TooMany(p, Len(files_map[field]) + 1)

FileRefused ==
  /\ pc = "file"
  /\ Refused
  /\ Fail
  /\ UNCHANGED part_count

FileAccepted ==
  /\ pc = "file"
  /\ ~Refused
  /\ files_map' = [files_map EXCEPT ![field] = Append(@, FileInfo)]
  /\ pc' = "parts"
  /\ UNCHANGED <<part_count, part, form_map, temps, python, gone>>
-----------------------------------------------------------------------------
(* Form fields *)

FieldTooLong(k) ==
  /\ pc = "field"
  /\ size + k > MaxParamLength
  /\ Fail
  /\ UNCHANGED part_count

FieldChunk(k) ==
  /\ pc = "field"
  /\ size + k <= MaxParamLength
  /\ size' = size + k
  /\ UNCHANGED <<pc, part_count, field, ctype, buffer, disk, arrived, maps, temps, python, gone>>

\* coerce_param_with_limit, by its outcome: a value longer than max_param_length
\* is an error, and one that does not have the hinted type.  Bytes that are no
\* UTF-8 were replaced by longer ones, so a part that was read may be too long.
Outcomes == {"plain", "junk", "long"}
Coerces(n, v) == v # "long" /\ (n \in Hinted => v # "junk")

\* FormValue::Single, promoted to Multi by append.
AddValue(n, v) == form_map' = [form_map EXCEPT ![n] = Append(@, v)]

FieldValue(v) ==
  /\ pc = "field"
  /\ Coerces(field, v)
  /\ AddValue(field, v)
  /\ pc' = "parts"
  /\ UNCHANGED <<part_count, part, files_map, temps, python, gone>>

BadFieldValue(v) ==
  /\ pc = "field"
  /\ ~Coerces(field, v)
  /\ Fail
  /\ UNCHANGED part_count

\* parse_urlencoded, pair by pair.
Pair(n, v) ==
  /\ pc = "pairs"
  /\ part_count < MaxPairs
  /\ part_count' = part_count + 1
  /\ Coerces(n, v)
  /\ AddValue(n, v)
  /\ UNCHANGED <<pc, part, files_map, temps, python, gone>>

BadPair(n, v) ==
  /\ pc = "pairs"
  /\ part_count < MaxPairs
  /\ part_count' = part_count + 1
  /\ ~Coerces(n, v)
  /\ Fail

EndOfBody ==
  /\ pc \in {"parts", "pairs"}
  /\ pc' = "parsed"
  /\ UNCHANGED <<part_count, part, maps, temps, python, gone>>
-----------------------------------------------------------------------------
(* The request with its form, in Python. *)

FilesOf(n) == {files_map[n][i] : i \in DOMAIN files_map[n]}
AllFiles == UNION {FilesOf(n) : n \in Names}
OnDisk(files) == {f.id : f \in {g \in files : g.on_disk}}

\* The injector makes an UploadFile of every file of a parameter and, when
\* every parameter was extracted, leaves them in the state of the request.
Uploads == UNION {FilesOf(Key(p)) : p \in Params}

Inject ==
  /\ pc = "parsed"
  /\ \A p \in Params : p.required => files_map[Key(p)] # <<>>
  /\ tracked' = {f.id : f \in Uploads}
  /\ pc' = "handler"
  /\ UNCHANGED <<part_count, part, maps, temps, handles, gone>>

\* A required file or another parameter is missing or wrong.
InjectFails ==
  /\ pc = "parsed"
  /\ pc' = "cleanup"
  /\ UNCHANGED <<part_count, part, maps, temps, python, gone>>

\* _ensure_file_open: a spooled file is opened when the handler first uses it.
Open(i) ==
  /\ pc = "handler"
  /\ i \in (tracked \intersect temps \intersect OnDisk(AllFiles)) \ handles
  /\ handles' = handles \union {i}
  /\ UNCHANGED <<pc, part_count, part, maps, temps, tracked, gone>>

\* UploadFile.close, by the handler itself.
Close(i) ==
  /\ pc = "handler"
  /\ i \in handles
  /\ handles' = handles \ {i}
  /\ UNCHANGED <<pc, part_count, part, maps, temps, tracked, gone>>

\* The handler returns or raises.
HandlerEnds ==
  /\ pc = "handler"
  /\ pc' = "cleanup"
  /\ UNCHANGED <<part_count, part, maps, temps, python, gone>>

\* The finally clause of _dispatch and _dispatch_sync.
Cleanup ==
  /\ pc = "cleanup"
  /\ handles' = handles \ tracked
  /\ pc' = "respond"
  /\ UNCHANGED <<part_count, part, maps, temps, tracked, gone>>

\* handle_request returns and drops form_result.
Respond ==
  /\ pc = "respond"
  /\ temps' = {}
  /\ pc' = "answered"
  /\ UNCHANGED <<part_count, part, maps, python, gone>>

\* The client leaves.  Dropping handle_request ends the parsing; the call to
\* Python, which follows it at once, goes on without the temporary files.
Disconnect ==
  /\ pc # "answered"
  /\ ~gone
  /\ gone' = TRUE
  /\ temps' = {}
  /\ pc' = IF pc \in {"parsed", "handler", "cleanup"} THEN pc ELSE "answered"
  /\ UNCHANGED <<part_count, part, maps, python>>

Next ==
  \/ TooManyParts \/ ReadError \/ SkipPart \/ EndOfBody
  \/ \E n \in Names :
       \/ \E t \in Types : BeginPart("file", n, t)
       \/ BeginPart("field", n, ctype)
       \/ \E v \in Outcomes : Pair(n, v) \/ BadPair(n, v)
  \/ \E k \in 1..MaxChunk :
       FileTooLarge(k) \/ FileChunk(k) \/ DiskError(k) \/ FieldTooLong(k) \/ FieldChunk(k)
  \/ FileRefused \/ FileAccepted
  \/ \E v \in Outcomes : FieldValue(v) \/ BadFieldValue(v)
  \/ Inject \/ InjectFails \/ HandlerEnds \/ Cleanup \/ Respond \/ Disconnect
  \/ \E i \in 1..MaxParts : Open(i) \/ Close(i)

Spec == Init /\ [][Next]_vars
-----------------------------------------------------------------------------
(* Properties. *)

\* Every variable has its type; no part beyond max_parts is looked at.
TypeOK ==
  /\ pc \in {"parts", "pairs", "file", "field", "parsed", "handler", "cleanup",
             "respond", "answered"}
  /\ part_count \in Nat
  /\ pc \in {"file", "field"} => part_count \in 1..MaxParts
  /\ field \in Names
  /\ ctype \in Types
  /\ size \in Nat
  /\ \A v, w \in disk : v = w
  /\ temps \union tracked \union handles \subseteq 1..MaxParts
  /\ gone \in BOOLEAN

\* A handler that runs was given only files that satisfy every constraint
\* declared for the field they came in, and none above max_upload_size.
Fits(p, files) ==
  /\ \A i \in DOMAIN files : Valid(p, files[i].size, files[i].content_type)
  /\ ~TooMany(p, Len(files))

AcceptedWithinLimits ==
  pc = "handler" =>
    /\ \A f \in AllFiles : f.size <= UploadLimit
    /\ \A p \in Params : p.alias = {} => Fits(p, files_map[p.name])

\* A file has all the chunks the client sent, in order, on whichever side of
\* the spooling threshold it ended, and no file above the threshold is held
\* in memory.
Whole(content, i) == content = [j \in 1..arrived[i] |-> j]

ContentComplete ==
  /\ \A f \in AllFiles : Whole(f.content, f.id) /\ (f.on_disk \/ f.size <= MemoryLimit)
  /\ pc = "file" =>
       IF disk = {} THEN Whole(buffer, part_count) /\ size <= MemoryLimit
       ELSE \A w \in disk : Whole(w, part_count)

\* A temporary file is there as long as the request may open it, and nothing
\* of an upload outlives the request: no file on disk, no handle in Python,
\* whether the request was refused, failed or left by its client.
FilesLiveWithRequest ==
  /\ pc \in {"parsed", "handler", "cleanup", "respond"} /\ ~gone => temps = OnDisk(AllFiles)
  /\ pc = "answered" => temps = {} /\ handles = {}

----------------------------------------------------------------------------
(* What the documentation says and the code does not do. *)

\* extractors.py: "File validation (max_size, min_size, allowed_types,
\* max_files) is now handled in Rust at parse time".
DeclaredLimitsHold ==
  pc = "handler" => \A p \in Params : Fits(p, files_map[Key(p)])
=============================================================================
