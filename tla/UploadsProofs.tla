--------------------------- MODULE UploadsProofs ---------------------------
(***************************************************************************)
(* For any parameters, limits and bodies: what reaches a handler keeps to  *)
(* the declared limits and is complete, and its files live exactly as long *)
(* as the request.                                                         *)
(***************************************************************************)
EXTENDS Uploads, TLAPS

Info == [id : 1..MaxParts, size : Nat, content_type : Types, on_disk : BOOLEAN,
         content : Seq(Nat)]

\* The types TypeOK leaves open, which the other parts rest on.
Shapes ==
  /\ pc = "parts" => part_count <= MaxParts
  /\ buffer \in Seq(Nat)
  /\ disk \in SUBSET Seq(Nat)
  /\ arrived \in [1..MaxParts -> Nat]
  /\ files_map \in [Names -> Seq(Info)]

\* The limits hold from the moment a file is added, handler or not.
Limits ==
  /\ pc = "file" => size <= UploadLimit
  /\ \A n \in Names : \A i \in DOMAIN files_map[n] : files_map[n][i].size <= UploadLimit
  /\ \A p \in Params : Fits(p, files_map[p.name])

\* A file that was added belongs to an earlier part than the current one,
\* and nothing has been read of a later part.
Earlier ==
  /\ \A n \in Names : \A i \in DOMAIN files_map[n] :
       pc \in {"parts", "file", "field"} =>
         /\ files_map[n][i].id <= part_count
         /\ pc # "parts" => files_map[n][i].id # part_count
  /\ \A i \in 1..MaxParts : i > part_count => arrived[i] = 0

Spooled == IF pc = "file" /\ disk # {} THEN {part_count} ELSE {}

\* While the parse goes on, the current part may have a file as well; once
\* handle_request is gone, nothing of the request has one.
Lives ==
  /\ pc # "answered" /\ ~gone => temps = OnDisk(AllFiles) \union Spooled
  /\ pc = "answered" \/ gone => temps = {}
  /\ gone => pc \in {"parsed", "handler", "cleanup", "respond", "answered"}
  /\ handles \subseteq tracked
  /\ pc \notin {"handler", "cleanup"} => handles = {}

IInv == TypeOK /\ Shapes /\ Limits /\ Earlier /\ ContentComplete /\ Lives

-----------------------------------------------------------------------------
(* Steps that leave the parsed files alone. *)

\* A file of the map is a FileInfo.
LEMMA FileTyped ==
  ASSUME Shapes, NEW n \in Names, NEW i \in DOMAIN files_map[n]
  PROVE  files_map[n][i] \in Info /\ files_map[n][i].id \in Nat
  <1>1. files_map[n] \in Seq(Info)
    BY DEF Shapes
  <1>2. files_map[n][i] \in Info
    BY <1>1
  <1> QED
    BY <1>2, UploadsAssumption DEF Info

\* What is said of the parsed files is said of files_map and arrived only.
LEMMA SameFiles ==
  ASSUME IInv, UNCHANGED <<files_map, arrived>>
  PROVE  /\ AllFiles' = AllFiles
         /\ OnDisk(AllFiles)' = OnDisk(AllFiles)
         /\ files_map' \in [Names -> Seq(Info)]
         /\ arrived' \in [1..MaxParts -> Nat]
         /\ \A n \in Names : \A i \in DOMAIN files_map'[n] : files_map'[n][i].size <= UploadLimit
         /\ \A p \in Params : Fits(p, files_map'[p.name])
         /\ \A f \in AllFiles' : Whole(f.content, f.id)' /\ (f.on_disk \/ f.size <= MemoryLimit)
  <1>1. AllFiles' = AllFiles /\ OnDisk(AllFiles)' = OnDisk(AllFiles)
    BY DEF AllFiles, FilesOf, OnDisk
  <1>2. \A f \in AllFiles : Whole(f.content, f.id)' /\ (f.on_disk \/ f.size <= MemoryLimit)
    BY DEF IInv, ContentComplete, Whole
  <1> QED
    BY <1>1, <1>2 DEF IInv, Shapes, Limits

\* An error return.
LEMMA FailKeeps ==
  ASSUME IInv, Fail, part_count' \in {part_count, part_count + 1},
         pc \in {"parts", "pairs", "file", "field"}
  PROVE  IInv'
  <1> USE DEF Fail, part, maps, python
  <1>0. part_count \in Nat /\ part_count' \in Nat /\ MaxParts \in Nat
    BY UploadsAssumption DEF IInv, TypeOK
  <1>1. TypeOK'
    BY <1>0 DEF IInv, TypeOK
  <1>2. Shapes' /\ Limits' /\ Earlier'
    BY <1>0, SameFiles DEF IInv, Shapes, Limits, Earlier
  <1>3. ContentComplete'
    BY SameFiles DEF IInv, ContentComplete
  <1>4. Lives'
    BY DEF IInv, Lives
  <1> QED
    BY <1>1, <1>2, <1>3, <1>4 DEF IInv

\* A step of the parse that opens or skips a part, or ends the body.
LEMMA PartKeeps ==
  ASSUME IInv,
         \/ SkipPart \/ EndOfBody
         \/ \E kind \in {"file", "field"}, n \in Names, t \in Types : BeginPart(kind, n, t)
  PROVE  IInv'
  <1> USE DEF Counted, part, maps, python
  <1>0. /\ MaxParts \in Nat /\ MemoryLimit \in Nat /\ UploadLimit \in Nat
        /\ part_count \in Nat
    BY UploadsAssumption, LimitAssumption DEF IInv, TypeOK
  <1>1. UNCHANGED <<files_map, arrived, form_map, temps, tracked, handles, gone>>
    BY DEF SkipPart, EndOfBody, BeginPart
  <1>4. \A n \in Names : \A i \in DOMAIN files_map[n] : files_map[n][i].id \in Nat
    BY FileTyped DEF IInv
  <1>2. CASE SkipPart \/ EndOfBody
    <2> USE <1>2 DEF SkipPart, EndOfBody
    <2>1. TypeOK' /\ Shapes'
      BY <1>0 DEF IInv, TypeOK, Shapes
    <2>2. Limits' /\ ContentComplete'
      BY <1>1, SameFiles DEF IInv, Limits, ContentComplete
    <2>3. Earlier'
      BY <1>0, <1>1, <1>4 DEF IInv, Earlier
    <2>4. Lives'
      BY <1>1, SameFiles DEF IInv, Lives, Spooled
    <2> QED
      BY <2>1, <2>2, <2>3, <2>4 DEF IInv
  <1>3. ASSUME NEW kind \in {"file", "field"}, NEW n \in Names, NEW t \in Types,
               BeginPart(kind, n, t)
        PROVE  IInv'
    <2> USE <1>3 DEF BeginPart
    <2>1. TypeOK' /\ Shapes'
      BY <1>0 DEF IInv, TypeOK, Shapes
    <2>2. Limits'
      BY <1>0, <1>1, SameFiles DEF IInv, Limits
    <2>3. Earlier'
      BY <1>0, <1>1, <1>4 DEF IInv, Earlier
    <2>4. arrived'[part_count'] = 0
      BY <1>0 DEF IInv, Earlier
    <2>5. Whole(buffer, part_count)'
      BY <2>4 DEF Whole
    <2>6. ContentComplete'
      BY <1>0, <1>1, <2>5, SameFiles DEF IInv, ContentComplete
    <2>7. Lives'
      BY <1>1, SameFiles DEF IInv, Lives, Spooled
    <2> QED
      BY <2>1, <2>2, <2>3, <2>6, <2>7 DEF IInv
  <1> QED
    BY <1>2, <1>3

\* A step within a form field, a pair or a value.
LEMMA FieldKeeps ==
  ASSUME IInv,
         \/ \E k \in 1..MaxChunk : FieldChunk(k)
         \/ \E v \in Outcomes : FieldValue(v) \/ (\E n \in Names : Pair(n, v))
  PROVE  IInv'
  <1> USE DEF FieldChunk, FieldValue, Pair, AddValue, part, maps, python
  <1>0. MaxParts \in Nat /\ MaxChunk \in Nat
    BY UploadsAssumption
  <1>1. UNCHANGED <<files_map, arrived, temps, tracked, handles, gone, buffer, disk>>
    OBVIOUS
  <1>2. TypeOK'
    BY <1>0 DEF IInv, TypeOK
  <1>3. Shapes' /\ Limits' /\ Earlier'
    BY <1>0, <1>1, SameFiles DEF IInv, Shapes, Limits, Earlier, TypeOK
  <1>5. ContentComplete'
    BY <1>1, SameFiles DEF IInv, ContentComplete
  <1>6. Lives'
    BY <1>1, SameFiles DEF IInv, Lives, Spooled
  <1> QED
    BY <1>2, <1>3, <1>5, <1>6 DEF IInv

-----------------------------------------------------------------------------
(* Reading and adding a file. *)

\* One more chunk, in memory or on disk.
LEMMA ChunkKeeps ==
  ASSUME IInv, NEW k \in 1..MaxChunk, FileChunk(k)
  PROVE  IInv'
  <1> USE DEF FileChunk, maps, python
  <1>0. /\ MaxParts \in Nat /\ MemoryLimit \in Nat /\ UploadLimit \in Nat /\ k \in Nat
        /\ part_count \in 1..MaxParts /\ size \in Nat /\ pc = "file" /\ pc' = "file"
        /\ arrived \in [1..MaxParts -> Nat] /\ buffer \in Seq(Nat) /\ disk \in SUBSET Seq(Nat)
    BY UploadsAssumption, LimitAssumption DEF IInv, TypeOK, Shapes
  <1>1. Chunk = arrived[part_count] + 1 /\ Chunk \in Nat
    BY <1>0 DEF Chunk
  <1>2. arrived' = [arrived EXCEPT ![part_count] = arrived[part_count] + 1]
    BY <1>1
  <1>3. UNCHANGED <<files_map, part_count, form_map, tracked, handles, gone>>
    OBVIOUS
  <1>4. \A w \in Seq(Nat) : Whole(w, part_count) =>
          /\ Append(w, Chunk) = [j \in 1..arrived'[part_count] |-> j]
          /\ Append(w, Chunk) \in Seq(Nat)
    <2> SUFFICES ASSUME NEW w \in Seq(Nat), Whole(w, part_count)
                 PROVE  /\ Append(w, Chunk) = [j \in 1..arrived'[part_count] |-> j]
                        /\ Append(w, Chunk) \in Seq(Nat)
      OBVIOUS
    <2> DEFINE a == arrived[part_count]
    <2>1. a \in Nat /\ w = [j \in 1..a |-> j] /\ arrived'[part_count] = a + 1
      BY <1>0, <1>2 DEF Whole
    <2>2. Append(w, a + 1) = [j \in 1..(a + 1) |-> j]
      <3> HIDE DEF a
      <3>1. Len(w) = a
        BY <2>1
      <3> QED
        BY <2>1, <3>1
    <2> QED
      BY <1>1, <2>1, <2>2
  <1>5. /\ buffer' \in Seq(Nat) /\ disk' \in SUBSET Seq(Nat)
        /\ \A v, w \in disk' : v = w
        /\ disk' = {} => disk = {} /\ temps' = temps /\ size' <= MemoryLimit
                           /\ buffer' = [j \in 1..arrived'[part_count] |-> j]
        /\ disk' # {} => temps' = temps \union {part_count}
        /\ \A w \in disk' : w = [j \in 1..arrived'[part_count] |-> j]
    <2>1. CASE disk = {} /\ size + k <= MemoryLimit
      <3>1. buffer' = Append(buffer, Chunk) /\ disk' = {} /\ temps' = temps /\ size' = size + k
        BY <2>1
      <3>2. Whole(buffer, part_count)
        BY <1>0, <2>1 DEF IInv, ContentComplete
      <3> QED
        BY <1>0, <1>4, <2>1, <3>1, <3>2
    <2>2. CASE ~(disk = {} /\ size + k <= MemoryLimit)
      <3>1. disk' = Spool(disk) /\ buffer' = <<>> /\ temps' = temps \union {part_count}
        BY <2>2
      <3>2. PICK w \in Seq(Nat) : Whole(w, part_count) /\ disk' = {Append(w, Chunk)}
        <4>1. CASE disk = {}
          BY <1>0, <3>1, <4>1 DEF Spool, IInv, ContentComplete
        <4>2. CASE disk # {}
          <5>1. PICK w \in disk : disk = {w}
            BY <4>2 DEF IInv, TypeOK
          <5>2. Whole(w, part_count) /\ w \in Seq(Nat)
            BY <1>0, <4>2 DEF IInv, ContentComplete
          <5>3. Spool(disk) = {Append(w, Chunk)}
            BY <4>2, <5>1 DEF Spool
          <5> QED
            BY <3>1, <5>2, <5>3
        <4> QED
          BY <4>1, <4>2
      <3>3. /\ Append(w, Chunk) = [j \in 1..arrived'[part_count] |-> j]
            /\ Append(w, Chunk) \in Seq(Nat)
        BY <1>4, <3>2
      <3>4. buffer' \in Seq(Nat)
        BY <3>1
      <3> HIDE DEF FileChunk
      <3> QED
        BY <3>1, <3>2, <3>3, <3>4
    <2> QED
      BY <2>1, <2>2
  <1>6. AllFiles' = AllFiles /\ OnDisk(AllFiles)' = OnDisk(AllFiles)
    BY <1>3 DEF AllFiles, FilesOf, OnDisk
  <1>7. TypeOK'
    <2>1. UNCHANGED <<field, ctype>> /\ size' = size + k
      OBVIOUS
    <2> HIDE DEF FileChunk, maps, python
    <2>2. size' \in Nat
      BY <1>0, <2>1
    <2>3. temps' \union tracked' \union handles' \subseteq 1..MaxParts
      <3>1. temps' \subseteq temps \union {part_count}
        BY <1>5
      <3> QED
        BY <1>0, <1>3, <3>1 DEF IInv, TypeOK
    <2> QED
      BY <1>0, <1>3, <1>5, <2>1, <2>2, <2>3 DEF IInv, TypeOK
  <1>8. Shapes'
    <2> HIDE DEF FileChunk, maps, python
    <2>1. arrived' \in [1..MaxParts -> Nat]
      BY <1>0, <1>1, <1>2
    <2> QED
      BY <1>0, <1>3, <1>5, <2>1 DEF IInv, Shapes
  <1>9. Limits'
    BY <1>0, <1>3 DEF IInv, Limits
  <1>10. Earlier'
    BY <1>0, <1>2, <1>3 DEF IInv, Earlier
  <1>11. \A f \in AllFiles : f.id # part_count /\ f.id \in 1..MaxParts
    BY <1>0, FileTyped DEF IInv, Earlier, AllFiles, FilesOf, Info
  <1>12. ContentComplete'
    <2>1. \A f \in AllFiles' : Whole(f.content, f.id)' /\ (f.on_disk \/ f.size <= MemoryLimit)
      BY <1>0, <1>2, <1>6, <1>11 DEF IInv, ContentComplete, Whole
    <2> QED
      BY <1>3, <1>5, <2>1 DEF ContentComplete, Whole
  <1>13. Lives'
    BY <1>0, <1>3, <1>5, <1>6 DEF IInv, Lives, Spooled
  <1> QED
    BY <1>7, <1>8, <1>9, <1>10, <1>12, <1>13 DEF IInv

\* A file that passed its checks is added.
LEMMA AcceptKeeps ==
  ASSUME IInv, FileAccepted
  PROVE  IInv'
  <1> DEFINE old == files_map[field]
             new == Append(old, FileInfo)
  <1>0. /\ MaxParts \in Nat /\ MemoryLimit \in Nat /\ UploadLimit \in Nat
        /\ part_count \in 1..MaxParts /\ size \in Nat /\ pc = "file" /\ pc' = "parts"
        /\ field \in Names /\ ctype \in Types /\ size <= UploadLimit
        /\ buffer \in Seq(Nat) /\ disk \in SUBSET Seq(Nat)
        /\ files_map \in [Names -> Seq(Info)] /\ old \in Seq(Info)
    BY UploadsAssumption, LimitAssumption DEF FileAccepted, IInv, TypeOK, Shapes, Limits
  <1>1. UNCHANGED <<part_count, field, ctype, size, buffer, disk, arrived, form_map,
                    temps, tracked, handles, gone>>
    BY DEF FileAccepted, part, python
  <1>2. files_map' = [files_map EXCEPT ![field] = new]
    BY DEF FileAccepted
  <1>3. /\ FileInfo.id = part_count /\ FileInfo.size = size /\ FileInfo.content_type = ctype
        /\ FileInfo.on_disk = (disk # {})
        /\ FileInfo.content = IF disk = {} THEN buffer ELSE CHOOSE w \in disk : TRUE
    BY DEF FileInfo
  <1>4. FileInfo.content \in Seq(Nat) /\ Whole(FileInfo.content, part_count)
    <2>1. CASE disk = {}
      BY <1>0, <1>3, <2>1 DEF IInv, ContentComplete
    <2>2. CASE disk # {}
      <3>1. (CHOOSE w \in disk : TRUE) \in disk
        BY <2>2
      <3> QED
        BY <1>0, <1>3, <2>2, <3>1 DEF IInv, ContentComplete
    <2> QED
      BY <2>1, <2>2
  <1>5. FileInfo \in Info
    BY <1>0, <1>4 DEF FileInfo, Info
  <1>6. /\ new \in Seq(Info) /\ Len(new) = Len(old) + 1 /\ DOMAIN new = 1..(Len(old) + 1)
        /\ DOMAIN old = 1..Len(old) /\ Len(old) \in Nat
        /\ new[Len(old) + 1] = FileInfo /\ \A i \in 1..Len(old) : new[i] = old[i]
    <2> HIDE DEF old
    <2> QED
      BY <1>0, <1>5
  <1> HIDE DEF old, new
  <1>7. /\ files_map' \in [Names -> Seq(Info)] /\ files_map'[field] = new
        /\ \A n \in Names : n # field => files_map'[n] = files_map[n]
    BY <1>0, <1>2, <1>6
  <1>8. AllFiles' = AllFiles \union {FileInfo}
    <2>1. FilesOf(field)' = FilesOf(field) \union {FileInfo}
      <3>1. {new[i] : i \in DOMAIN new} = {old[i] : i \in DOMAIN old} \union {FileInfo}
        BY <1>6
      <3> QED
        BY <1>1, <1>7, <3>1 DEF FilesOf, old
    <2>2. \A n \in Names : n # field => FilesOf(n)' = FilesOf(n)
      BY <1>7 DEF FilesOf
    <2>3. \A x : x \in AllFiles <=> \E n \in Names : x \in FilesOf(n)
      BY DEF AllFiles
    <2>4. \A x : x \in AllFiles' <=> \E n \in Names : x \in FilesOf(n)'
      BY DEF AllFiles
    <2>5. ASSUME NEW x
          PROVE  x \in AllFiles' <=> x \in AllFiles \/ x = FileInfo
      <3>1. x \in FilesOf(field)' <=> x \in FilesOf(field) \/ x = FileInfo
        BY <2>1
      <3>2. (\E n \in Names : x \in FilesOf(n)') <=> (\E n \in Names : x \in FilesOf(n)) \/ x = FileInfo
        <4>1. field' = field /\ field \in Names
          BY <1>0, <1>1
        <4> HIDE DEF FileAccepted
        <4> QED
          BY <2>2, <3>1, <4>1, Zenon
      <3> QED
        BY <2>3, <2>4, <3>2, Zenon
    <2> QED
      BY <2>5
  <1>9. TypeOK' /\ Shapes'
    BY <1>0, <1>1, <1>7 DEF IInv, TypeOK, Shapes
  <1>10. Limits'
    <2>1. \A n \in Names : \A i \in DOMAIN files_map'[n] : files_map'[n][i].size <= UploadLimit
      <3> SUFFICES ASSUME NEW n \in Names, NEW i \in DOMAIN files_map'[n]
                   PROVE  files_map'[n][i].size <= UploadLimit
        OBVIOUS
      <3>1. CASE n # field
        BY <1>7, <3>1 DEF IInv, Limits
      <3>2. CASE n = field /\ i = Len(old) + 1
        BY <1>0, <1>3, <1>6, <1>7, <3>2
      <3>3. CASE n = field /\ i # Len(old) + 1
        BY <1>0, <1>6, <1>7, <3>3 DEF IInv, Limits, old
      <3> QED
        BY <3>1, <3>2, <3>3
    <2>2. ASSUME NEW p \in Params
          PROVE  Fits(p, files_map'[p.name])
      <3>1. p.name \in Names /\ Fits(p, files_map[p.name])
        BY UploadsAssumption DEF IInv, Limits
      <3>2. CASE p.name # field
        BY <1>7, <3>1, <3>2
      <3>3. CASE p.name = field
        <4>1. Valid(p, size, ctype) /\ ~TooMany(p, Len(old) + 1)
          BY <3>3 DEF FileAccepted, Refused, ConstraintsOf, old
        <4>2. \A i \in DOMAIN old : Valid(p, old[i].size, old[i].content_type)
          BY <3>1, <3>3 DEF Fits, old
        <4>3. \A i \in DOMAIN new : Valid(p, new[i].size, new[i].content_type)
          BY <1>3, <1>6, <4>1, <4>2
        <4> QED
          BY <1>6, <1>7, <3>3, <4>1, <4>3 DEF Fits
      <3> QED
        BY <3>2, <3>3
    <2> QED
      BY <1>0, <2>1, <2>2 DEF Limits
  <1>11. Earlier'
    <2>1. ASSUME NEW n \in Names, NEW i \in DOMAIN files_map'[n]
          PROVE  files_map'[n][i].id <= part_count
      <3>1. CASE n # field
        BY <1>0, <1>7, <3>1 DEF IInv, Earlier
      <3>2. CASE n = field /\ i = Len(old) + 1
        BY <1>0, <1>3, <1>6, <1>7, <3>2
      <3>3. CASE n = field /\ i # Len(old) + 1
        <4>1. i \in DOMAIN old /\ files_map'[n][i] = old[i]
          BY <1>6, <1>7, <3>3
        <4> QED
          BY <1>0, <3>3, <4>1 DEF IInv, Earlier, old
      <3> QED
        BY <3>1, <3>2, <3>3
    <2> QED
      BY <1>0, <1>1, <2>1 DEF IInv, Earlier
  <1>12. ContentComplete'
    <2>1. \A f \in AllFiles : Whole(f.content, f.id)' /\ (f.on_disk \/ f.size <= MemoryLimit)
      BY <1>1 DEF IInv, ContentComplete, Whole
    <2>2. Whole(FileInfo.content, FileInfo.id) /\ (FileInfo.on_disk \/ FileInfo.size <= MemoryLimit)
      BY <1>0, <1>3, <1>4 DEF IInv, ContentComplete
    <2>3. FileInfo.content = [j \in 1..arrived'[FileInfo.id] |-> j]
      BY <1>1, <2>2 DEF Whole
    <2> QED
      BY <1>0, <1>1, <1>8, <2>1, <2>2, <2>3 DEF IInv, ContentComplete, Whole
  <1>13. Lives'
    <2>1. OnDisk(AllFiles)' = OnDisk(AllFiles) \union Spooled
      BY <1>0, <1>3, <1>8 DEF OnDisk, Spooled
    <2>2. Spooled' = {}
      BY <1>0 DEF Spooled
    <2> QED
      BY <1>0, <1>1, <2>1, <2>2 DEF IInv, Lives
  <1> QED
    BY <1>9, <1>10, <1>11, <1>12, <1>13 DEF IInv

-----------------------------------------------------------------------------
(* The request in Python, and a client that leaves. *)

\* Every parameter reads files that the parse has added.
LEMMA UploadsAreParts ==
  ASSUME Shapes
  PROVE  {f.id : f \in Uploads} \subseteq 1..MaxParts
  <1> SUFFICES ASSUME NEW p \in Params, NEW f \in FilesOf(Key(p))
               PROVE  f.id \in 1..MaxParts
    BY DEF Uploads
  <1>1. Key(p) \in Names
    BY UploadsAssumption DEF Key
  <1> QED
    BY <1>1, FileTyped DEF FilesOf, Info

\* What Python does with the parsed files, and every way out of the request,
\* keeps the invariant: the files go with the request and not before.
LEMMA PythonKeeps ==
  ASSUME IInv,
         \/ Inject \/ InjectFails \/ HandlerEnds \/ Cleanup \/ Respond \/ Disconnect
         \/ \E i \in 1..MaxParts : Open(i) \/ Close(i)
  PROVE  IInv'
  <1> USE DEF Inject, InjectFails, HandlerEnds, Cleanup, Respond, Disconnect, Open, Close,
              part, maps, python
  <1>1. UNCHANGED <<part_count, field, ctype, size, buffer, disk, files_map, arrived,
                    form_map>>
    OBVIOUS
  <1>2. tracked' \subseteq 1..MaxParts
    BY UploadsAreParts DEF IInv, TypeOK
  <1>3. TypeOK'
    BY <1>1, <1>2 DEF IInv, TypeOK
  <1>4. Shapes' /\ Limits' /\ Earlier'
    BY <1>1, SameFiles DEF IInv, Shapes, Limits, Earlier
  <1>5. ContentComplete'
    BY <1>1, SameFiles DEF IInv, ContentComplete
  <1>6. Lives'
    BY <1>1, SameFiles DEF IInv, Lives, Spooled
  <1> QED
    BY <1>3, <1>4, <1>5, <1>6 DEF IInv

-----------------------------------------------------------------------------
(* The inductive invariant, and what follows from it. *)

\* A request starts with no file, in memory or on disk.
LEMMA InitKeeps == Init => IInv
  <1> SUFFICES ASSUME Init PROVE IInv
    OBVIOUS
  <1> USE DEF Init
  <1>0. MaxParts \in Nat /\ Names # {} /\ Types # {}
    BY UploadsAssumption
  <1>1. AllFiles = {} /\ OnDisk(AllFiles) = {}
    BY DEF AllFiles, FilesOf, OnDisk
  <1>2. field \in Names /\ ctype \in Types
    BY <1>0
  <1>3. TypeOK
    BY <1>0, <1>2 DEF TypeOK
  <1>8. Shapes
    BY <1>0 DEF Shapes
  <1>4. Limits
    <2>1. \A p \in Params : p.name \in Names /\ p.max_files \subseteq Nat
      BY UploadsAssumption
    <2>2. \A p \in Params : Fits(p, <<>>)
      BY <2>1 DEF Fits, TooMany
    <2> QED
      BY <2>1, <2>2 DEF Limits
  <1>5. Earlier
    BY DEF Earlier
  <1>6. ContentComplete
    BY <1>1 DEF ContentComplete
  <1>7. Lives
    BY <1>1 DEF Lives, Spooled
  <1> QED
    BY <1>3, <1>4, <1>5, <1>6, <1>7, <1>8 DEF IInv

\* Every step of the parse, of Python and of the client keeps the invariant.
LEMMA NextKeeps == IInv /\ [Next]_vars => IInv'
  <1> SUFFICES ASSUME IInv, [Next]_vars PROVE IInv'
    OBVIOUS
  <1>1. CASE TooManyParts
    BY <1>1, FailKeeps DEF TooManyParts
  <1>2. CASE ReadError
    BY <1>2, FailKeeps DEF ReadError
  <1>3. CASE SkipPart \/ EndOfBody
    BY <1>3, PartKeeps
  <1>4. ASSUME NEW n \in Names, NEW t \in Types, BeginPart("file", n, t)
        PROVE  IInv'
    BY <1>4, PartKeeps
  <1>5. ASSUME NEW n \in Names, BeginPart("field", n, ctype)
        PROVE  IInv'
    BY <1>5, PartKeeps DEF IInv, TypeOK
  <1>6. ASSUME NEW n \in Names, NEW v \in Outcomes, Pair(n, v)
        PROVE  IInv'
    BY <1>6, FieldKeeps
  <1>7. ASSUME NEW n \in Names, NEW v \in Outcomes, BadPair(n, v)
        PROVE  IInv'
    BY <1>7, FailKeeps DEF BadPair
  <1>8. ASSUME NEW k \in 1..MaxChunk, FileTooLarge(k) \/ DiskError(k) \/ FieldTooLong(k)
        PROVE  IInv'
    BY <1>8, FailKeeps DEF FileTooLarge, DiskError, FieldTooLong
  <1>9. ASSUME NEW k \in 1..MaxChunk, FileChunk(k)
        PROVE  IInv'
    BY <1>9, ChunkKeeps
  <1>10. ASSUME NEW k \in 1..MaxChunk, FieldChunk(k)
         PROVE  IInv'
    BY <1>10, FieldKeeps
  <1>11. CASE FileRefused
    BY <1>11, FailKeeps DEF FileRefused
  <1>12. CASE FileAccepted
    BY <1>12, AcceptKeeps
  <1>13. ASSUME NEW v \in Outcomes, FieldValue(v)
         PROVE  IInv'
    BY <1>13, FieldKeeps
  <1>14. ASSUME NEW v \in Outcomes, BadFieldValue(v)
         PROVE  IInv'
    BY <1>14, FailKeeps DEF BadFieldValue
  <1>15. CASE Inject \/ InjectFails \/ HandlerEnds \/ Cleanup \/ Respond \/ Disconnect
    BY <1>15, PythonKeeps
  <1>16. ASSUME NEW i \in 1..MaxParts, Open(i) \/ Close(i)
         PROVE  IInv'
    BY <1>16, PythonKeeps
  <1>17. CASE UNCHANGED vars
    <2> USE <1>17 DEF vars, part, maps, python
    <2>1. TypeOK' /\ Shapes' /\ Limits' /\ Earlier'
      BY DEF IInv, TypeOK, Shapes, Limits, Earlier
    <2>2. ContentComplete' /\ Lives'
      BY SameFiles DEF IInv, ContentComplete, Lives, Spooled, Whole
    <2> QED
      BY <2>1, <2>2 DEF IInv
  <1> QED
    BY <1>1, <1>2, <1>3, <1>4, <1>5, <1>6, <1>7, <1>8, <1>9, <1>10, <1>11, <1>12, <1>13,
       <1>14, <1>15, <1>16, <1>17 DEF Next

\* The invariant holds from the first byte of the body to the end of the request.
LEMMA Invariance == Spec => []IInv
  BY InitKeeps, NextKeeps, PTL DEF Spec

\* form_parsing.rs and compiler.py: no order of parts, no size of chunk and
\* no mix of fields gets a file past the limits declared for its field.
THEOREM OnlyFittingFiles == Spec => []AcceptedWithinLimits
  <1>1. IInv => AcceptedWithinLimits
    BY DEF IInv, Limits, AcceptedWithinLimits, AllFiles, FilesOf
  <1> QED
    BY <1>1, Invariance, PTL

\* read_file_content: whatever the threshold and however the chunks fall, a
\* file is the chunks that were sent, in order, and memory holds none that
\* is larger than the threshold.
THEOREM FilesAreWhole == Spec => []ContentComplete
  <1>1. IInv => ContentComplete
    BY DEF IInv
  <1> QED
    BY <1>1, Invariance, PTL

\* handle_request and _dispatch: the temporary files of a request exist while
\* it may open them, and neither they nor their handles outlive it.
THEOREM NothingOutlivesRequest == Spec => []FilesLiveWithRequest
  <1>1. IInv => FilesLiveWithRequest
    BY DEF IInv, Lives, Spooled, FilesLiveWithRequest
  <1> QED
    BY <1>1, Invariance, PTL
=============================================================================
