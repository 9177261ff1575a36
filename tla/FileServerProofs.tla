--------------------------- MODULE FileServerProofs ---------------------------
(***************************************************************************)
(* Type correctness and safety of the file server and its cache, for any   *)
(* number of connections, paths, files, requests, lengths and changes of   *)
(* files.                                                                  *)
(***************************************************************************)
EXTENDS FileServer, TLAPS

\* Byte ranges and response heads.

(***************************************************************************)
(* bytes_range never leaves the file: whatever the Range header says, the  *)
(* interval it returns starts at or before its end and ends within the     *)
(* file, so sub_len = end - start of response_body cannot underflow.       *)
(***************************************************************************)
LEMMA RangeBounded ==
    ASSUME NEW range \in RangeHeader, NEW max_len \in U64
    PROVE  LET r == bytes_range(range, max_len)
           IN  /\ r.ok \in BOOLEAN
               /\ r.start \in U64
               /\ r.end \in U64
               /\ r.start <= r.end
               /\ r.ok => r.end <= max_len
<1> USE MaxU64Assumption DEF U64
<1>1. CASE ~range.present
  <2>1. bytes_range(range, max_len) = Ok(0, max_len)
    BY <1>1, Zenon DEF bytes_range
  <2> QED
    BY <2>1 DEF Ok
<1>2. CASE range.present /\ (range.specs = << >> \/ Reversed(Head(range.specs)))
  <2>1. bytes_range(range, max_len) = BadRangeError
    BY <1>2, Zenon DEF bytes_range
  <2> QED
    BY <2>1 DEF BadRangeError
<1>3. CASE range.present /\ ~(range.specs = << >> \/ Reversed(Head(range.specs)))
  <2> DEFINE m == Head(range.specs)
             i == Interval(m, max_len)
  <2>1. m \in RangeSpec
    BY <1>3 DEF RangeHeader
  <2>2. m.start.at \in U64 /\ m.end.at \in U64
    BY <2>1 DEF RangeSpec, Bound, Unbounded, Included
  <2>3. i.start \in U64 /\ i.end \in U64
    BY <2>2 DEF Interval, WrappingSucc
  <2> HIDE DEF i
  <2>4. bytes_range(range, max_len) = Clamp(i, max_len)
    BY <1>3, Zenon DEF bytes_range, i
  <2> QED
    BY <2>3, <2>4 DEF Clamp, Ok, BadRangeError
<1> QED
  BY <1>1, <1>2, <1>3, Zenon

ResponseHead == [status : Nat, start : U64, end : U64, last_modified : Int]

(***************************************************************************)
(* The head response_body makes announces a body that lies within the      *)
(* file it was made for, from the disk and from the cache alike.           *)
(***************************************************************************)
LEMMA HeadBounded ==
    ASSUME NEW h \in ConditionalHeaders, NEW len \in U64, NEW last_modified \in Int
    PROVE  LET head == response_body(h, len, last_modified)
           IN  /\ head \in ResponseHead
               /\ head.start <= head.end
               /\ head.end <= len
<1> DEFINE c == check(h, last_modified)
           r == bytes_range(c.range, len)
<1> USE MaxU64Assumption DEF U64, ResponseHead
<1>1. c.range \in RangeHeader /\ c.status \in Nat
  BY DEF check, NoBody, WithBody, NoRange, RangeHeader, ConditionalHeaders
<1>2. /\ r.start \in U64 /\ r.end \in U64 /\ r.start <= r.end
      /\ r.ok => r.end <= len
  BY <1>1, RangeBounded, Zenon
<1> HIDE DEF c, r
<1>3. response_body(h, len, last_modified) =
        IF ~c.body THEN Bodiless(c.status)
        ELSE IF ~r.ok THEN Bodiless(416)
        ELSE BodyResponse(r, len, last_modified)
  BY Zenon DEF response_body, c, r
<1>4. CASE ~c.body
  BY <1>1, <1>3, <1>4 DEF Bodiless, NoDate
<1>5. CASE c.body /\ ~r.ok
  BY <1>3, <1>5 DEF Bodiless, NoDate
<1>6. CASE c.body /\ r.ok
  BY <1>2, <1>3, <1>6 DEF BodyResponse
<1> QED
  BY <1>4, <1>5, <1>6, Zenon

(***************************************************************************)
(* A Last-Modified is a date, or NoDate for the epoch.                     *)
(***************************************************************************)
LEMMA LastModifiedType ==
    ASSUME NEW mtime \in Nat
    PROVE  LastModified(mtime) \in Int
BY TicksPerSecondAssumption DEF LastModified, NoDate

----------------------------------------------------------------------------
\* Types.

\* The permit is held by the one connection that is about to drop it.
PermitInv ==
    /\ \A c \in Conns : pc[c] = "release" => permits = 0
    /\ \A c, d \in Conns : pc[c] = "release" /\ pc[d] = "release" => c = d

\* An idle connection holds a request of the right type.
LEMMA AnyRequestType == AnyRequest \in Requests /\ AnyRequest \in Request
BY FilesAssumption, Zenon DEF AnyRequest

\* The set of responses, in terms of the heads that response_body makes.
LEMMA ResponseType == Response = [head : ResponseHead, encoding : BOOLEAN]
BY Zenon DEF Response, ResponseHead

\* The server starts well-typed, with its one permit free.
LEMMA InitType == Init => TypeOK /\ PermitInv
<1> SUFFICES ASSUME Init PROVE TypeOK /\ PermitInv
  OBVIOUS
<1>1. AnyRequest \in Request /\ AnyRequest.path \in Files
  BY AnyRequestType, FilesAssumption, Zenon DEF Request
<1>2. NoReply \in Response /\ NoMeta \in Meta /\ NoBytes \in Bytes
  BY MaxU64Assumption DEF NoReply, Reply, Bodiless, NoDate, Response, NoMeta, Meta,
     NoBytes, Bytes, U64
<1>3. [exists : BOOLEAN, len : Lengths, ver : {0, 1}] \subseteq File
  BY FilesAssumption DEF File
<1>4. disk \in [Files -> File]
  BY <1>3, Zenon DEF Init
<1> QED
  BY <1>1, <1>2, <1>4, Zenon DEF Init, TypeOK, PermitInv, PCs

\* Handing a chunk to the client, and perhaps the file to the cache, keeps
\* the types: the body never outgrows the range that take(sub_len) cuts off.
LEMMA DeliverType ==
    ASSUME TypeOK, NEW c \in Conns, NEW n \in Nat, NEW ver \in Nat,
           Want(c) > 0, n <= Want(c), n > 0, Deliver(c, n, ver)
    PROVE  /\ buf' \in [Conns -> Bytes]
           /\ filling' \in [Conns -> BOOLEAN]
           /\ store' \in [Paths -> MemFile \cup {NotCached}]
<1> DEFINE sent == [buf[c] EXCEPT !.len = @ + n, !.vers = @ \cup {ver}]
<1> USE MaxU64Assumption, SizesAssumption
<1>1. /\ buf[c] \in Bytes /\ meta[c] \in Meta /\ src[c] \in Files
      /\ req[c].path \in Paths
      /\ resp[c].head.start \in U64 /\ resp[c].head.end \in U64
  BY Zenon DEF TypeOK, Response, Request
<1>2. n <= resp[c].head.end - resp[c].head.start - buf[c].len
  BY <1>1 DEF Want, Least, SubLen, optimal_buf_size, Bytes, Meta, U64
<1>3. buf[c].len + n \in U64
  BY <1>1, <1>2 DEF Bytes, U64
<1>4. sent \in Bytes
  BY <1>1, <1>3, Zenon DEF Bytes
<1> HIDE DEF sent
<1>5. buf' \in [Conns -> Bytes]
  BY <1>4, Zenon DEF Deliver, TypeOK, sent
<1>6. filling' \in [Conns -> BOOLEAN]
  BY Zenon DEF Deliver, TypeOK
<1>7. MemFileOf(c, sent) \in MemFile
  BY <1>1, <1>4, Zenon DEF MemFileOf, MemFile, Bytes, Meta
<1>8. store' \in [Paths -> MemFile \cup {NotCached}]
  BY <1>1, <1>7, Zenon DEF Deliver, TypeOK, sent
<1> QED
  BY <1>5, <1>6, <1>8, Zenon

\* What the types say of one connection.
LEMMA ConnTypes ==
    ASSUME TypeOK, NEW c \in Conns
    PROVE  /\ req[c].path \in Paths /\ req[c].h \in ConditionalHeaders
           /\ src[c] \in Files /\ clock \in Nat
           /\ meta[c].len \in U64 /\ meta[c].len \in Nat /\ meta[c].ver \in Nat
           /\ fd[c].len \in Nat /\ fd[c].ver \in Nat
           /\ ahead[c] \in Meta /\ ahead[c].len \in Nat /\ ahead[c].ver \in Nat
           /\ buf[c].len \in Nat /\ buf[c].vers \subseteq Nat
           /\ resp[c].head.start \in Nat /\ resp[c].head.end \in Nat
           /\ filling[c] \in BOOLEAN /\ linked[c] \in BOOLEAN
           /\ disk[src[c]].ver \in Nat
<1>1. /\ req[c] \in Request /\ src[c] \in Files /\ meta[c] \in Meta /\ fd[c] \in Meta
      /\ ahead[c] \in Meta /\ buf[c] \in Bytes /\ resp[c] \in Response
      /\ filling[c] \in BOOLEAN /\ linked[c] \in BOOLEAN /\ clock \in Nat
      /\ disk[src[c]] \in File
  BY Zenon DEF TypeOK
<1>2. req[c].path \in Paths /\ req[c].h \in ConditionalHeaders
  BY <1>1, Zenon DEF Request
<1>3. U64 \subseteq Nat
  BY MaxU64Assumption DEF U64
<1>4. /\ meta[c].len \in U64 /\ meta[c].ver \in Nat /\ fd[c].len \in U64
      /\ fd[c].ver \in Nat /\ ahead[c].len \in U64 /\ ahead[c].ver \in Nat
  BY <1>1, Zenon DEF Meta
<1>5. buf[c].len \in U64 /\ buf[c].vers \subseteq Nat
  BY <1>1, Zenon DEF Bytes
<1>6. resp[c].head.start \in U64 /\ resp[c].head.end \in U64
  BY <1>1, Zenon DEF Response
<1>7. disk[src[c]].ver \in Nat
  BY <1>1, Zenon DEF File
<1> QED
  BY <1>1, <1>2, <1>3, <1>4, <1>5, <1>6, <1>7, Zenon

\* What the types say of one entry.
LEMMA EntryTypes ==
    ASSUME TypeOK, NEW p \in Paths, store[p] # NotCached
    PROVE  /\ store[p] \in MemFile /\ store[p].len \in U64 /\ store[p].ver \in Nat
           /\ store[p].vers \subseteq Nat /\ store[p].src \in Files
           /\ disk[store[p].src].ver \in Nat
<1>1. store[p] \in MemFile
  BY Zenon DEF TypeOK
<1>2. store[p].src \in Files
  BY <1>1, Zenon DEF MemFile
<1>3. disk[store[p].src].ver \in Nat
  BY <1>2, Zenon DEF TypeOK, File
<1> QED
  BY <1>1, <1>2, <1>3, Zenon DEF MemFile

\* How much a poll wants is a number.
LEMMA WantType ==
    ASSUME TypeOK, NEW c \in Conns
    PROVE  Want(c) \in Int
BY ConnTypes, SizesAssumption DEF Want, SubLen, optimal_buf_size, Least

(***************************************************************************)
(* A chunk, read or read ahead, is of n bytes of a version ver, which the  *)
(* open file shows or the reader has buffered; a stays in the buffer.      *)
(***************************************************************************)
LEMMA Chunk ==
    ASSUME TypeOK, NEW c \in Conns, PollBuffered(c) \/ PollRead(c)
    PROVE  /\ pc[c] = "stream" /\ Want(c) > 0
           /\ UNCHANGED <<envVars, permits, fd, linked, taskVars>>
           /\ \E n \in Nat, ver \in Nat, a \in Meta :
                /\ n > 0 /\ n <= Want(c) /\ Deliver(c, n, ver)
                /\ ahead' = [ahead EXCEPT ![c] = a] /\ a.ver = ver
                /\ ver = fd[c].ver \/ (ahead[c].len > 0 /\ ver = ahead[c].ver)
<1>1. /\ ahead[c].len \in Nat /\ ahead[c].ver \in Nat
      /\ fd[c].len \in Nat /\ fd[c].ver \in Nat
  BY ConnTypes, Zenon
<1>2. Position(c) \in Nat /\ Want(c) \in Int
  BY ConnTypes, WantType DEF Position
<1>3. ahead[c].len <= MaxU64 /\ fd[c].len <= MaxU64 /\ MaxU64 \in Nat
  BY MaxU64Assumption DEF TypeOK, Meta, U64
<1>4. CASE PollBuffered(c)
  <2> DEFINE n == Least(Want(c), ahead[c].len)
             a == [len |-> ahead[c].len - n, ver |-> ahead[c].ver]
  <2>1. /\ pc[c] = "stream" /\ Want(c) > 0 /\ ahead[c].len > 0
        /\ Deliver(c, n, ahead[c].ver) /\ ahead' = [ahead EXCEPT ![c] = a]
        /\ UNCHANGED <<envVars, permits, fd, linked, taskVars>>
    BY <1>4, Zenon DEF PollBuffered
  <2>2. n \in Nat /\ n > 0 /\ n <= Want(c) /\ n <= ahead[c].len
    BY <1>1, <1>2, <2>1 DEF Least
  <2> HIDE DEF n
  <2>3. ahead[c].len - n \in U64
    BY <1>1, <1>3, <2>2 DEF U64
  <2>4. a \in Meta /\ a.ver = ahead[c].ver
    BY <1>1, <2>3, Zenon DEF Meta
  <2> HIDE DEF a
  <2> QED
    BY <1>1, <2>1, <2>2, <2>4, Zenon
<1>5. CASE PollRead(c)
  <2>1. /\ pc[c] = "stream" /\ Want(c) > 0
        /\ UNCHANGED <<envVars, permits, fd, linked, taskVars>>
    BY <1>5, Zenon DEF PollRead
  <2>2. PICK k \in 1 .. Least(fd[c].len - Position(c), Greatest(Want(c), BufReaderSize)) :
           /\ Deliver(c, Least(Want(c), k), fd[c].ver)
           /\ ahead' = [ahead EXCEPT ![c] =
                          [len |-> k - Least(Want(c), k), ver |-> fd[c].ver]]
    BY <1>5, Zenon DEF PollRead
  <2> DEFINE n == Least(Want(c), k)
             a == [len |-> k - n, ver |-> fd[c].ver]
  <2>3. k \in Nat /\ k > 0 /\ k <= fd[c].len
    BY <1>1, <1>2, <2>2, SizesAssumption DEF Least, Greatest
  <2>4. n \in Nat /\ n > 0 /\ n <= Want(c) /\ n <= k
    BY <1>2, <2>1, <2>3 DEF Least
  <2>5. Deliver(c, n, fd[c].ver) /\ ahead' = [ahead EXCEPT ![c] = a]
    BY <2>2, Zenon
  <2> HIDE DEF n
  <2>6. k - n \in U64
    BY <1>1, <1>3, <2>3, <2>4 DEF U64
  <2>7. a \in Meta /\ a.ver = fd[c].ver
    BY <1>1, <2>6, Zenon DEF Meta
  <2> HIDE DEF a
  <2> QED
    BY <1>1, <2>1, <2>4, <2>5, <2>7, Zenon
<1> QED
  BY <1>4, <1>5, Zenon

\* Handing out a chunk keeps the types and the permit.
LEMMA ChunkType ==
    ASSUME TypeOK, PermitInv, NEW c \in Conns, PollBuffered(c) \/ PollRead(c)
    PROVE  TypeOK' /\ PermitInv'
<1>1. PICK n \in Nat, ver \in Nat, a \in Meta :
        /\ n > 0 /\ n <= Want(c) /\ Deliver(c, n, ver)
        /\ ahead' = [ahead EXCEPT ![c] = a]
  BY Chunk, Zenon
<1>2. Want(c) > 0 /\ UNCHANGED <<envVars, permits, fd, linked, taskVars>>
  BY Chunk, Zenon
<1>3. /\ buf' \in [Conns -> Bytes] /\ filling' \in [Conns -> BOOLEAN]
      /\ store' \in [Paths -> MemFile \cup {NotCached}]
  BY <1>1, <1>2, DeliverType, Zenon
<1>4. ahead' \in [Conns -> Meta]
  BY <1>1, Zenon DEF TypeOK
<1>5. PermitInv'
  BY <1>2, Zenon DEF PermitInv, taskVars
<1> QED
  BY <1>2, <1>3, <1>4, <1>5, Zenon DEF TypeOK, envVars, taskVars

\* An answer from the cache keeps the types and the permit.
LEMMA HitType ==
    ASSUME TypeOK, PermitInv, NEW c \in Conns, Hit(c)
    PROVE  TypeOK' /\ PermitInv'
<1> DEFINE e == store[req[c].path]
           head == response_body(req[c].h, e.len, LastModified(e.ver))
           body == IF HasBody(head)
                   THEN [from |-> head.start, len |-> head.end - head.start,
                         vers |-> e.vers]
                   ELSE NoBytes
<1>1. /\ src' = [src EXCEPT ![c] = e.src] /\ meta' = [meta EXCEPT ![c] = MetaOf(e)]
      /\ resp' = [resp EXCEPT ![c] = Reply(head, FALSE)]
      /\ buf' = [buf EXCEPT ![c] = body] /\ e # NotCached
      /\ pc' = [pc EXCEPT ![c] = "done"] /\ pc[c] = "lookup"
      /\ UNCHANGED <<envVars, cacheVars, req, fd, linked, ahead, filling>>
  BY Zenon DEF Hit, Goto
<1>2. req[c].h \in ConditionalHeaders /\ req[c].path \in Paths
  BY ConnTypes, Zenon
<1>3. e.len \in U64 /\ e.ver \in Nat /\ e.vers \subseteq Nat /\ e.src \in Files
  BY <1>1, <1>2, EntryTypes, Zenon
<1>4. LastModified(e.ver) \in Int
  BY <1>3, LastModifiedType, Zenon
<1>5. head \in ResponseHead /\ head.start <= head.end
  BY <1>2, <1>3, <1>4, HeadBounded, Zenon
<1> HIDE DEF e, head
<1>6. body \in Bytes
  <2>1. head.start \in U64 /\ head.end - head.start \in U64 /\ 0 \in U64
    BY <1>5, MaxU64Assumption DEF ResponseHead, U64
  <2> QED
    BY <1>3, <2>1, Zenon DEF Bytes, NoBytes
<1>7. Reply(head, FALSE) \in Response
  BY <1>5, ResponseType, Zenon DEF Reply
<1>8. MetaOf(e) \in Meta
  BY <1>3, Zenon DEF MetaOf, Meta
<1> HIDE DEF body
<1>9. PermitInv'
  BY <1>1, Zenon DEF PermitInv, TypeOK, cacheVars
<1> QED
  BY Zenon, <1>1, <1>3, <1>6, <1>7, <1>8, <1>9 DEF TypeOK, envVars, cacheVars, PCs

\* So does an answer without a body.
LEMMA AnswerType ==
    ASSUME TypeOK, PermitInv, NEW c \in Conns, NEW from \in PCs, NEW status \in Nat,
           Answer(c, from, status)
    PROVE  TypeOK' /\ PermitInv'
<1>1. Reply(Bodiless(status), FALSE) \in Response
  BY MaxU64Assumption DEF Reply, Bodiless, Response, NoDate, U64
<1>2. /\ pc' = [pc EXCEPT ![c] = "done"]
      /\ resp' = [resp EXCEPT ![c] = Reply(Bodiless(status), FALSE)]
      /\ UNCHANGED <<envVars, cacheVars, bodyVars, req, src, meta>>
  BY Zenon DEF Answer, Goto
<1>3. PermitInv'
  BY <1>2, Zenon DEF PermitInv, TypeOK, cacheVars
<1> QED
  BY Zenon, <1>1, <1>2, <1>3 DEF TypeOK, envVars, cacheVars, bodyVars, PCs

\* So does the opening of the file.
LEMMA OpenType ==
    ASSUME TypeOK, PermitInv, NEW c \in Conns, Open(c)
    PROVE  TypeOK' /\ PermitInv'
<1> DEFINE head == response_body(req[c].h, meta[c].len, LastModified(meta[c].ver))
           streams == HasBody(head) /\ req[c].method = "GET"
           to == IF streams THEN "stream" ELSE "done"
           fills == streams /\ MemoryCache /\ meta[c].len <= MaxFileSize
           empty == [from |-> head.start, len |-> 0, vers |-> {}]
           reply == Reply(head, src[c] # req[c].path)
<1>1. CASE Answer(c, "open", 404)
  BY <1>1, AnswerType DEF PCs
<1>2. CASE ~Answer(c, "open", 404)
  <2>1. /\ pc' = [pc EXCEPT ![c] = to]
        /\ fd' = [fd EXCEPT ![c] = MetaOf(disk[src[c]])]
        /\ linked' = [linked EXCEPT ![c] = TRUE]
        /\ resp' = [resp EXCEPT ![c] = reply]
        /\ buf' = [buf EXCEPT ![c] = empty]
        /\ filling' = [filling EXCEPT ![c] = fills]
        /\ UNCHANGED <<envVars, cacheVars, ahead, req, src, meta>>
    BY <1>2, Zenon DEF Open, Goto
  <2>2. to \in PCs /\ to # "release"
    BY Zenon DEF PCs
  <2>3. fills \in BOOLEAN
    OBVIOUS
  <2>4. head \in ResponseHead
    BY ConnTypes, LastModifiedType, HeadBounded, Zenon
  <2> HIDE DEF head, streams, to, fills
  <2>5. reply \in Response
    BY <2>4, ResponseType, Zenon DEF Reply
  <2>6. empty \in Bytes
    BY <2>4, MaxU64Assumption DEF Bytes, ResponseHead, U64
  <2>7. MetaOf(disk[src[c]]) \in Meta
    BY Zenon DEF MetaOf, Meta, File, TypeOK
  <2> HIDE DEF reply, empty
  <2>8. PermitInv'
    BY <2>1, <2>2, Zenon DEF PermitInv, TypeOK, cacheVars
  <2> QED
    BY <2>1, <2>2, <2>3, <2>5, <2>6, <2>7, <2>8, Zenon DEF TypeOK, envVars, cacheVars
<1> QED
  BY <1>1, <1>2, Zenon

(***************************************************************************)
(* The steps of the file server with any request at all, so that what they *)
(* keep can also be used where other clients are composed with it.         *)
(***************************************************************************)
AnyNext == Next \/ \E c \in Conns, r \in Request : Receive(c, r)

\* Every step of static_files::handle, of the streams, of the cache and of
\* the disk keeps the types and the one permit.
LEMMA TypeStep == TypeOK /\ PermitInv /\ [AnyNext]_vars => TypeOK' /\ PermitInv'
<1> SUFFICES ASSUME TypeOK, PermitInv, [AnyNext]_vars PROVE TypeOK' /\ PermitInv'
  OBVIOUS
<1> USE MaxU64Assumption, SizesAssumption, FilesAssumption
        DEF TypeOK, PermitInv, envVars, cacheVars, bodyVars, taskVars, PCs
<1>1. ASSUME NEW c \in Conns, NEW r \in Request, Receive(c, r)
      PROVE  TypeOK' /\ PermitInv'
  <2>1. r.path \in Files
    BY Zenon DEF Request
  <2> QED
    BY <1>1, <2>1, Zenon DEF Receive, Goto
<1>2. ASSUME NEW c \in Conns, Hit(c) PROVE TypeOK' /\ PermitInv'
  BY <1>2, HitType, Zenon
<1>3. ASSUME NEW c \in Conns, Miss(c) PROVE TypeOK' /\ PermitInv'
  BY <1>3, Zenon DEF Miss, Goto
<1>4. ASSUME NEW c \in Conns, AcquirePermit(c) PROVE TypeOK' /\ PermitInv'
  BY <1>4 DEF AcquirePermit, Goto
<1>5. ASSUME NEW c \in Conns, DropPermit(c) PROVE TypeOK' /\ PermitInv'
  BY <1>5, SMTT(40) DEF DropPermit, Goto
<1>7. ASSUME NEW c \in Conns, Stat(c) PROVE TypeOK' /\ PermitInv'
  <2>1. Source(c) \in Files
    BY Zenon DEF Source, Request
  <2>2. MetaOf(disk[Source(c)]) \in Meta
    BY <2>1, SMTT(40) DEF MetaOf, Meta, File
  <2>3. CASE \E status \in {404, 204} : Answer(c, "stat", status)
    BY <2>3, AnswerType DEF PCs
  <2>4. CASE /\ Goto(c, "stat", "open")
             /\ src' = [src EXCEPT ![c] = Source(c)]
             /\ meta' = [meta EXCEPT ![c] = MetaOf(disk[Source(c)])]
             /\ UNCHANGED <<envVars, cacheVars, bodyVars, req, resp>>
    BY <2>1, <2>2, <2>4, Zenon DEF Goto
  <2> QED
    BY <1>7, <2>3, <2>4 DEF Stat
<1>8. ASSUME NEW c \in Conns, Open(c) PROVE TypeOK' /\ PermitInv'
  BY <1>8, OpenType, Zenon
<1>9. ASSUME NEW c \in Conns, PollBuffered(c) \/ PollRead(c) PROVE TypeOK' /\ PermitInv'
  BY <1>9, ChunkType, Zenon
<1>11. ASSUME NEW c \in Conns, PollEnd(c) PROVE TypeOK' /\ PermitInv'
  BY <1>11, Zenon DEF PollEnd, Goto
<1>12. ASSUME NEW c \in Conns, pc[c] # "release", DropTask(c) PROVE TypeOK' /\ PermitInv'
  <2>1. AnyRequest \in Request /\ AnyRequest.path \in Files
    BY AnyRequestType, Zenon DEF Request
  <2>2. NoReply \in Response /\ NoMeta \in Meta /\ NoBytes \in Bytes
    BY DEF NoReply, Reply, Bodiless, NoDate, Response, NoMeta, Meta, NoBytes, Bytes, U64
  <2> QED
    BY <1>12, <2>1, <2>2, Zenon DEF DropTask
<1>13. ASSUME NEW c \in Conns, Finish(c) \/ Abort(c) PROVE TypeOK' /\ PermitInv'
  BY <1>12, <1>13, Zenon DEF Finish, Abort
<1>14. ASSUME NEW p \in Paths, Evict(p) PROVE TypeOK' /\ PermitInv'
  BY <1>14, Zenon DEF Evict
<1>15. ASSUME NEW f \in Files, NEW len \in Lengths, Replace(f, len)
       PROVE  TypeOK' /\ PermitInv'
  <2>1. [exists |-> TRUE, len |-> len, ver |-> clock + 1] \in File
    BY DEF File
  <2> QED
    BY <1>15, <2>1 DEF Replace
<1>16. ASSUME NEW f \in Files, NEW len \in Lengths, Overwrite(f, len)
       PROVE  TypeOK' /\ PermitInv'
  <2>1. /\ [exists |-> TRUE, len |-> len, ver |-> clock + 1] \in File
        /\ [len |-> len, ver |-> clock + 1] \in Meta
    BY DEF File, Meta
  <2> QED
    BY <1>16, <2>1 DEF Overwrite
<1>17. ASSUME NEW f \in Files, Remove(f) PROVE TypeOK' /\ PermitInv'
  <2>1. [exists |-> FALSE, len |-> disk[f].len, ver |-> disk[f].ver] \in File
    BY Zenon DEF File
  <2> QED
    BY <1>17, <2>1, Zenon DEF Remove
<1>18. CASE UNCHANGED vars
  BY <1>18, Zenon DEF vars
<1> HIDE DEF TypeOK, PermitInv, envVars, cacheVars, bodyVars, taskVars, PCs
<1> QED
  BY Zenon, <1>1, <1>2, <1>3, <1>4, <1>5, <1>7, <1>8, <1>9, <1>11, <1>13, <1>14,
     <1>15, <1>16, <1>17, <1>18, FilesAssumption, Zenon
     DEF AnyNext, Next, Serve, Step, Environment

(***************************************************************************)
(* Every variable keeps its type: offsets and lengths stay within u64, no  *)
(* chunk is longer than its reader has bytes for, and CACHE_PERMIT never   *)
(* has more than the one permit it was made with.                          *)
(***************************************************************************)
THEOREM TypeCorrect == Spec => []TypeOK
<1>1. [Next]_vars => [AnyNext]_vars
  BY Zenon DEF AnyNext
<1> QED
  BY <1>1, InitType, TypeStep, PTL DEF Spec

----------------------------------------------------------------------------
(***************************************************************************)
(* The inductive invariant.  m is no newer than n, and versions name       *)
(* content: equal versions have equal lengths.                             *)
(***************************************************************************)
NoNewer(m, n) == m.ver <= n.ver /\ (m.ver = n.ver => m.len = n.len)

\* Every version handed out is one the clock has passed.
DiskInv == \A f \in Files : disk[f].ver <= clock

\* A request that has not reached its body holds nothing yet.
QuietInv(c) ==
    pc[c] \notin {"stream", "done"} =>
        resp[c] = NoReply /\ buf[c] = NoBytes /\ ahead[c] = NoMeta /\ ~filling[c]

\* The head of a response announces a part of the file its metadata is of.
HeadInv(c) ==
    /\ resp[c].head.start <= resp[c].head.end
    /\ resp[c].head.end <= meta[c].len
    /\ buf[c].len <= SubLen(c)
    /\ pc[c] = "stream" => buf[c].from = resp[c].head.start
    /\ filling[c] => meta[c].len <= MaxFileSize

\* metadata <= bytes read <= open file <= file on disk, in the order of versions.
OrderInv(c) ==
    /\ meta[c].ver <= clock
    /\ \A v \in buf[c].vers : meta[c].ver <= v
    /\ pc[c] \in {"open", "stream"} => NoNewer(meta[c], disk[src[c]])

StreamInv(c) ==
    pc[c] = "stream" =>
        /\ NoNewer(meta[c], fd[c])
        /\ NoNewer(fd[c], disk[src[c]])
        /\ linked[c] => disk[src[c]].exists /\ fd[c] = MetaOf(disk[src[c]])
        /\ ahead[c].len > 0 =>
            meta[c].ver <= ahead[c].ver /\ ahead[c].ver <= fd[c].ver
        /\ \A v \in buf[c].vers : v <= fd[c].ver

\* A complete body, or one whose file has changed.
EndInv(c) ==
    /\ pc[c] = "done"
    /\ HasBody(resp[c].head)
    /\ req[c].method = "GET"
    /\ Unchanged(src[c], meta[c])
    => buf[c].len = SubLen(c)

\* Without writes in place, all bytes come from the version that was opened.
TearInv(c) ==
    ~InPlaceWrites =>
        /\ OneVersion(buf[c].vers)
        /\ pc[c] = "stream" =>
            /\ buf[c].vers \subseteq {fd[c].ver}
            /\ ahead[c].len > 0 => ahead[c].ver = fd[c].ver

ConnInv(c) ==
    QuietInv(c) /\ HeadInv(c) /\ OrderInv(c) /\ StreamInv(c) /\ EndInv(c) /\ TearInv(c)

\* An entry is whole, and between its label and the file on disk.
EntryInv(p) ==
    store[p] # NotCached =>
        /\ WholeEntry(store[p])
        /\ NoNewer(store[p], disk[store[p].src])
        /\ \A v \in store[p].vers : store[p].ver <= v /\ v <= disk[store[p].src].ver
        /\ ~InPlaceWrites => OneVersion(store[p].vers)

Inv ==
    /\ DiskInv
    /\ \A c \in Conns : ConnInv(c)
    /\ \A p \in Paths : EntryInv(p)

\* The order of versions, which the steps below use of numbers only.
LEMMA VersionOrder ==
    /\ ~(0 > 0)
    /\ \A x \in Nat : x <= x /\ x + 1 \in Nat
    /\ \A x, y \in Nat : x <= y => x <= y + 1 /\ x # y + 1
OBVIOUS

\* The metadata of a file are its length and its version.
LEMMA MetaFields == \A f : MetaOf(f).len = f.len /\ MetaOf(f).ver = f.ver
BY Zenon DEF MetaOf

(***************************************************************************)
(* A body that ends as long as the file starts at its first byte: have     *)
(* bytes and n more are those of the range, and as many as the file has.   *)
(***************************************************************************)
LEMMA WholeBody ==
    ASSUME NEW start \in Nat, NEW end \in Nat, NEW have \in Nat, NEW n \in Nat,
           NEW len \in Nat, NEW max \in Nat,
           n > 0, n <= end - start - have, have + n = len, end <= len, len <= max
    PROVE  start = 0 /\ len \in 1 .. max
OBVIOUS

----------------------------------------------------------------------------
\* The invariant.

\* The inductive invariant holds at the start, when nothing is being served.
LEMMA InitInv == Init => Inv
<1> SUFFICES ASSUME Init PROVE Inv
  OBVIOUS
<1>1. DiskInv
  BY DEF Init, DiskInv
<1>2. ASSUME NEW p \in Paths PROVE EntryInv(p)
  BY Zenon DEF Init, EntryInv
<1>3. ASSUME NEW c \in Conns PROVE ConnInv(c)
  <2>1. /\ pc[c] = "idle" /\ resp[c] = NoReply /\ buf[c] = NoBytes
        /\ ahead[c] = NoMeta /\ meta[c] = NoMeta /\ filling[c] = FALSE /\ clock = 1
    BY Zenon DEF Init
  <2>2. /\ NoReply.head.start = 0 /\ NoReply.head.end = 0 /\ NoBytes.len = 0
        /\ NoBytes.vers = {} /\ NoMeta.len = 0 /\ NoMeta.ver = 0
    BY Zenon DEF NoReply, Reply, Bodiless, NoBytes, NoMeta
  <2>3. QuietInv(c) /\ HeadInv(c)
    BY <2>1, <2>2, SMTT(40) DEF QuietInv, HeadInv, SubLen
  <2>4. OrderInv(c) /\ StreamInv(c) /\ EndInv(c)
    BY <2>1, <2>2 DEF OrderInv, StreamInv, EndInv
  <2>5. TearInv(c)
    BY <2>1, <2>2, Zenon DEF TearInv, OneVersion
  <2> QED
    BY <2>3, <2>4, <2>5, Zenon DEF ConnInv
<1> QED
  BY <1>1, <1>2, <1>3, Zenon DEF Inv

----------------------------------------------------------------------------
\* Steps of one connection leave the others alone.
Same(d) ==
    /\ pc'[d] = pc[d] /\ req'[d] = req[d] /\ src'[d] = src[d] /\ meta'[d] = meta[d]
    /\ resp'[d] = resp[d] /\ fd'[d] = fd[d] /\ linked'[d] = linked[d]
    /\ ahead'[d] = ahead[d] /\ buf'[d] = buf[d] /\ filling'[d] = filling[d]

OtherConns(c) == \A d \in Conns : d # c => Same(d)

\* A connection that is left alone keeps its invariant while the disk is too.
LEMMA SameConn ==
    ASSUME NEW d \in Conns, ConnInv(d), Same(d), UNCHANGED envVars
    PROVE  ConnInv(d)'
<1> USE DEF Same, envVars
<1>1. QuietInv(d)'
  BY Zenon DEF ConnInv, QuietInv
<1>2. HeadInv(d)'
  BY Zenon DEF ConnInv, HeadInv, SubLen
<1>3. OrderInv(d)'
  BY Zenon DEF ConnInv, OrderInv, NoNewer
<1>4. StreamInv(d)'
  BY Zenon DEF ConnInv, StreamInv, NoNewer, MetaOf
<1>5. EndInv(d)'
  BY DEF ConnInv, EndInv, Unchanged, HasBody, SubLen
<1>6. TearInv(d)'
  BY Zenon DEF ConnInv, TearInv, OneVersion
<1> QED
  BY <1>1, <1>2, <1>3, <1>4, <1>5, <1>6, Zenon DEF ConnInv

\* So does an entry that is left alone.
LEMMA SameEntry ==
    ASSUME NEW p \in Paths, EntryInv(p), store'[p] = store[p], UNCHANGED envVars
    PROVE  EntryInv(p)'
BY Zenon DEF EntryInv, WholeEntry, NoNewer, OneVersion, envVars

\* What remains to be shown of a step of one connection.
LEMMA OneConn ==
    ASSUME Inv, NEW c \in Conns, OtherConns(c), UNCHANGED envVars, ConnInv(c)',
           \A p \in Paths : EntryInv(p)'
    PROVE  Inv'
<1>1. DiskInv'
  BY Zenon DEF Inv, DiskInv, envVars
<1>2. ASSUME NEW d \in Conns PROVE ConnInv(d)'
  <2>1. CASE d = c
    BY <2>1, Zenon
  <2>2. CASE d # c
    BY <2>2, SameConn, Zenon DEF Inv, OtherConns
  <2> QED
    BY <2>1, <2>2, Zenon
<1> QED
  BY <1>1, <1>2, Zenon DEF Inv

\* The same for a step that does not reach the cache.
LEMMA OneConnNoStore ==
    ASSUME Inv, NEW c \in Conns, OtherConns(c), UNCHANGED <<envVars, store>>, ConnInv(c)'
    PROVE  Inv'
<1>1. ASSUME NEW p \in Paths PROVE EntryInv(p)'
  BY SameEntry, Zenon DEF Inv
<1> QED
  BY <1>1, OneConn, Zenon

\* The steps before the metadata is read keep the invariant.
LEMMA QuietStep ==
    ASSUME TypeOK, Inv, NEW c \in Conns,
           pc[c] \in {"idle", "lookup", "acquire", "release"},
           pc' = [pc EXCEPT ![c] = pc'[c]],
           pc'[c] \in {"idle", "lookup", "acquire", "release", "stat"},
           req' = [req EXCEPT ![c] = req'[c]],
           src' = [src EXCEPT ![c] = src'[c]],
           UNCHANGED <<envVars, store, bodyVars, meta, resp>>
    PROVE  Inv'
<1>1. OtherConns(c)
  BY Zenon DEF OtherConns, Same, TypeOK, bodyVars
<1>2. ConnInv(c)
  BY Zenon DEF Inv
<1>3. /\ meta'[c] = meta[c] /\ resp'[c] = resp[c] /\ buf'[c] = buf[c]
      /\ ahead'[c] = ahead[c] /\ filling'[c] = filling[c] /\ clock' = clock
  BY Zenon DEF bodyVars, envVars
<1>4. QuietInv(c)' /\ HeadInv(c)'
  BY <1>2, <1>3, Zenon DEF ConnInv, QuietInv, HeadInv, SubLen
<1>5. OrderInv(c)' /\ StreamInv(c)' /\ EndInv(c)'
  BY <1>2, <1>3, Zenon DEF ConnInv, OrderInv, StreamInv, EndInv
<1>6. TearInv(c)'
  BY <1>2, <1>3, Zenon DEF ConnInv, TearInv, OneVersion
<1> QED
  BY <1>1, <1>4, <1>5, <1>6, OneConnNoStore, Zenon DEF ConnInv

\* Dropping the task of a request keeps the invariant: nothing it holds stays.
LEMMA DropStep ==
    ASSUME TypeOK, Inv, NEW c \in Conns, DropTask(c)
    PROVE  Inv'
<1>1. OtherConns(c)
  BY Zenon DEF OtherConns, Same, TypeOK, DropTask
<1>2. /\ pc'[c] = "idle" /\ resp'[c] = NoReply /\ buf'[c] = NoBytes
      /\ ahead'[c] = NoMeta /\ meta'[c] = NoMeta /\ filling'[c] = FALSE
      /\ clock' = clock /\ clock \in Nat
  BY Zenon DEF DropTask, TypeOK, envVars
<1>3. /\ NoReply.head.start = 0 /\ NoReply.head.end = 0 /\ NoBytes.len = 0
      /\ NoBytes.vers = {} /\ NoMeta.len = 0 /\ NoMeta.ver = 0
  BY Zenon DEF NoReply, Reply, Bodiless, NoBytes, NoMeta
<1>4. QuietInv(c)' /\ HeadInv(c)'
  BY <1>2, <1>3, SMTT(40) DEF QuietInv, HeadInv, SubLen
<1>5. OrderInv(c)' /\ StreamInv(c)' /\ EndInv(c)'
  BY <1>2, <1>3 DEF OrderInv, StreamInv, EndInv
<1>6. TearInv(c)'
  BY <1>2, <1>3, Zenon DEF TearInv, OneVersion
<1>7. UNCHANGED <<envVars, store>>
  BY Zenon DEF DropTask, cacheVars
<1> QED
  BY <1>1, <1>4, <1>5, <1>6, <1>7, OneConnNoStore, Zenon DEF ConnInv

\* An answer without a body keeps the invariant.
LEMMA AnswerStep ==
    ASSUME TypeOK, Inv, NEW c \in Conns, NEW from \in {"stat", "open"},
           NEW status \in {404, 204}, Answer(c, from, status)
    PROVE  Inv'
<1>1. OtherConns(c)
  BY DEF OtherConns, Same, TypeOK, Answer, Goto, bodyVars
<1>2. /\ pc[c] = from /\ pc'[c] = "done" /\ resp'[c] = Reply(Bodiless(status), FALSE)
      /\ buf'[c] = buf[c] /\ meta'[c] = meta[c] /\ filling'[c] = filling[c]
      /\ clock' = clock
  BY DEF Answer, Goto, TypeOK, bodyVars, envVars
<1>3. ConnInv(c) /\ meta[c].len \in Nat
  BY ConnTypes, ZenonT(40) DEF Inv
<1>4. buf[c] = NoBytes /\ ~filling[c] /\ NoBytes.len = 0 /\ NoBytes.vers = {}
  BY <1>2, <1>3, Zenon DEF ConnInv, QuietInv, NoBytes
<1>5. resp'[c].head.start = 0 /\ resp'[c].head.end = 0 /\ ~HasBody(resp'[c].head)
  BY <1>2 DEF Reply, Bodiless, HasBody
<1>6. QuietInv(c)' /\ StreamInv(c)'
  BY <1>2, ZenonT(40) DEF QuietInv, StreamInv
<1>7. HeadInv(c)'
  <2>1. buf'[c].len = 0 /\ meta'[c].len \in Nat /\ ~filling'[c] /\ pc'[c] # "stream"
    BY <1>2, <1>3, <1>4, SMTT(40)
  <2> QED
    BY <1>5, <2>1, SMTT(40) DEF HeadInv, SubLen
<1>11. OrderInv(c)'
  BY <1>2, <1>3, <1>4 DEF ConnInv, OrderInv
<1>8. EndInv(c)'
  BY <1>5, Zenon DEF EndInv, HasBody
<1>9. TearInv(c)'
  BY <1>2, <1>4 DEF TearInv, OneVersion
<1>10. UNCHANGED <<envVars, store>>
  BY Zenon DEF Answer, cacheVars
<1> QED
  BY <1>1, <1>6, <1>7, <1>8, <1>9, <1>10, <1>11, OneConnNoStore, ZenonT(40) DEF ConnInv

\* An answer from the cache keeps the invariant: the entry was whole, so the
\* range cut out of it is as long as announced.
LEMMA HitStep ==
    ASSUME TypeOK, Inv, NEW c \in Conns, Hit(c)
    PROVE  Inv'
<1> DEFINE e == store[req[c].path]
           head == response_body(req[c].h, e.len, LastModified(e.ver))
           body == IF HasBody(head)
                   THEN [from |-> head.start, len |-> head.end - head.start,
                         vers |-> e.vers]
                   ELSE NoBytes
<1>1. req[c].path \in Paths /\ req[c].h \in ConditionalHeaders /\ e # NotCached
  BY ConnTypes, Zenon DEF Hit
<1>2. /\ e.len \in U64 /\ e.ver \in Nat /\ e.vers \subseteq Nat /\ e.src \in Files
      /\ disk[e.src].ver \in Nat /\ clock \in Nat
  BY <1>1, EntryTypes, Zenon DEF TypeOK
<1>3. head \in ResponseHead /\ head.start <= head.end /\ head.end <= e.len
  BY <1>1, <1>2, LastModifiedType, HeadBounded, Zenon
<1>4. /\ pc[c] = "lookup" /\ pc'[c] = "done" /\ meta'[c] = MetaOf(e) /\ clock' = clock
      /\ resp'[c] = Reply(head, FALSE) /\ buf'[c] = body /\ filling'[c] = filling[c]
  BY Zenon DEF Hit, Goto, TypeOK, envVars
<1>5. OtherConns(c) /\ UNCHANGED <<envVars, store>>
  BY Zenon DEF OtherConns, Same, TypeOK, Hit, Goto, cacheVars
<1>6. ~filling[c]
  BY <1>4, Zenon DEF Inv, ConnInv, QuietInv
<1>7. EntryInv(req[c].path) /\ disk[e.src].ver <= clock
  BY <1>1, <1>2, Zenon DEF Inv, DiskInv
<1>8. /\ e.ver <= disk[e.src].ver /\ \A v \in e.vers : e.ver <= v
      /\ ~InPlaceWrites => OneVersion(e.vers)
  BY <1>1, <1>7, Zenon DEF EntryInv, NoNewer
<1> HIDE DEF e, head
<1>9. /\ resp'[c].head = head /\ meta'[c].len = e.len /\ meta'[c].ver = e.ver
      /\ head.start \in Nat /\ head.end \in Nat
  BY <1>3, <1>4, MaxU64Assumption DEF Reply, MetaOf, ResponseHead, U64
<1>10. /\ HasBody(head) => body.len = head.end - head.start /\ body.vers = e.vers
       /\ ~HasBody(head) => body.len = 0 /\ body.vers = {}
  BY Zenon DEF NoBytes
<1> HIDE DEF body
<1>11. QuietInv(c)' /\ StreamInv(c)'
  BY <1>4, Zenon DEF QuietInv, StreamInv
<1>12. HeadInv(c)'
  <2>1. body.len \in Nat /\ body.len <= head.end - head.start
    BY <1>3, <1>9, <1>10
  <2>2. buf'[c].len = body.len /\ ~filling'[c] /\ pc'[c] # "stream"
    BY <1>4, <1>6, ZenonT(40)
  <2> QED
    BY <1>3, <1>9, <2>1, <2>2, Zenon DEF HeadInv, SubLen
<1>13. OrderInv(c)'
  BY <1>2, <1>4, <1>7, <1>8, <1>9, <1>10 DEF OrderInv
<1>14. EndInv(c)'
  <2>1. /\ resp'[c].head = head /\ buf'[c].len = body.len
        /\ HasBody(head) => body.len = head.end - head.start
    BY <1>4, <1>9, <1>10, Zenon
  <2> QED
    BY <2>1, Zenon DEF EndInv, SubLen, HasBody
<1>15. TearInv(c)'
  BY <1>4, <1>8, <1>10, Zenon DEF TearInv, OneVersion
<1> QED
  BY <1>5, <1>11, <1>12, <1>13, <1>14, <1>15, OneConnNoStore, Zenon DEF ConnInv

\* Reading the metadata keeps the invariant: it is that of the file on disk.
LEMMA StatStep ==
    ASSUME TypeOK, Inv, NEW c \in Conns, Stat(c)
    PROVE  Inv'
<1> DEFINE f == Source(c)
<1>1. CASE \E status \in {404, 204} : Answer(c, "stat", status)
  BY <1>1, AnswerStep
<1>2. CASE ~\E status \in {404, 204} : Answer(c, "stat", status)
  <2>1. /\ pc[c] = "stat" /\ pc' = [pc EXCEPT ![c] = "open"]
        /\ src' = [src EXCEPT ![c] = f]
        /\ meta' = [meta EXCEPT ![c] = MetaOf(disk[f])]
        /\ UNCHANGED <<envVars, cacheVars, bodyVars, req, resp>>
    BY <1>2 DEF Stat, Goto
  <2>2. f \in Files
    BY FilesAssumption, Zenon DEF Source, Request, TypeOK
  <2> HIDE DEF f
  <2>3. /\ pc'[c] = "open" /\ src'[c] = f /\ meta'[c] = MetaOf(disk[f])
        /\ resp'[c] = resp[c] /\ buf'[c] = buf[c] /\ ahead'[c] = ahead[c]
        /\ filling'[c] = filling[c] /\ disk' = disk /\ clock' = clock
    BY <2>1, Zenon DEF TypeOK, envVars, bodyVars
  <2>4. OtherConns(c) /\ UNCHANGED <<envVars, store>>
    BY <2>1, Zenon DEF OtherConns, Same, TypeOK, bodyVars, cacheVars
  <2>5. /\ resp[c] = NoReply /\ buf[c] = NoBytes /\ ahead[c] = NoMeta /\ ~filling[c]
        /\ disk[f].ver <= clock
    BY <2>1, <2>2, ZenonT(40) DEF Inv, ConnInv, QuietInv, DiskInv
  <2>6. /\ meta'[c].len = disk[f].len /\ meta'[c].ver = disk[f].ver
        /\ disk[f].len \in Nat /\ disk[f].ver \in Nat
    BY <2>2, <2>3, MaxU64Assumption DEF MetaOf, TypeOK, File, U64
  <2>7. /\ NoReply.head.start = 0 /\ NoReply.head.end = 0
        /\ NoBytes.len = 0 /\ NoBytes.vers = {}
    BY Zenon DEF NoReply, Reply, Bodiless, NoBytes
  <2>8. QuietInv(c)'
    BY <2>3, <2>5, ZenonT(40) DEF QuietInv
  <2>9. HeadInv(c)'
    <3>1. /\ resp'[c].head.start = 0 /\ resp'[c].head.end = 0 /\ buf'[c].len = 0
          /\ ~filling'[c] /\ pc'[c] # "stream"
      BY <2>3, <2>5, <2>7, ZenonT(40)
    <3> QED
      BY <2>6, <3>1 DEF HeadInv, SubLen
  <2>10. OrderInv(c)'
    <3>1. buf'[c].vers = {}
      BY <2>3, <2>5, <2>7, Zenon
    <3> QED
      BY <2>3, <2>5, <2>6, <3>1 DEF OrderInv, NoNewer
  <2>11. StreamInv(c)' /\ EndInv(c)'
    BY <2>3, Zenon DEF StreamInv, EndInv
  <2>12. TearInv(c)'
    BY <2>3, <2>5, <2>7, Zenon DEF TearInv, OneVersion
  <2> QED
    BY <2>4, <2>8, <2>9, <2>10, <2>11, <2>12, OneConnNoStore, Zenon DEF ConnInv
<1> QED
  BY <1>1, <1>2, ZenonT(40)

\* Opening the file keeps the invariant: the head is made from the metadata,
\* and the file that is opened is no older.
LEMMA OpenStep ==
    ASSUME TypeOK, Inv, NEW c \in Conns, Open(c)
    PROVE  Inv'
<1> DEFINE head == response_body(req[c].h, meta[c].len, LastModified(meta[c].ver))
           streams == HasBody(head) /\ req[c].method = "GET"
           to == IF streams THEN "stream" ELSE "done"
           fills == streams /\ MemoryCache /\ meta[c].len <= MaxFileSize
           empty == [from |-> head.start, len |-> 0, vers |-> {}]
           reply == Reply(head, src[c] # req[c].path)
<1>1. CASE Answer(c, "open", 404)
  BY <1>1, AnswerStep
<1>2. CASE ~Answer(c, "open", 404)
  <2>1. /\ pc[c] = "open" /\ pc' = [pc EXCEPT ![c] = to] /\ disk[src[c]].exists
        /\ fd' = [fd EXCEPT ![c] = MetaOf(disk[src[c]])]
        /\ linked' = [linked EXCEPT ![c] = TRUE]
        /\ resp' = [resp EXCEPT ![c] = reply]
        /\ buf' = [buf EXCEPT ![c] = empty]
        /\ filling' = [filling EXCEPT ![c] = fills]
        /\ UNCHANGED <<envVars, cacheVars, ahead, req, src, meta>>
    BY <1>2, Zenon DEF Open, Goto
  <2>2. /\ head \in ResponseHead /\ head.start <= head.end /\ head.end <= meta[c].len
    BY ConnTypes, LastModifiedType, HeadBounded, ZenonT(40)
  <2>3. /\ to \in {"stream", "done"}
        /\ fills => meta[c].len <= MaxFileSize
        /\ to = "done" => ~(HasBody(head) /\ req[c].method = "GET")
    OBVIOUS
  <2> HIDE DEF head, streams, to, fills
  <2>4. /\ reply.head = head /\ empty.from = head.start /\ empty.len = 0
        /\ empty.vers = {} /\ head.start \in Nat /\ head.end \in Nat
    BY <2>2, MaxU64Assumption DEF Reply, ResponseHead, U64
  <2> HIDE DEF reply, empty
  <2>5. /\ pc'[c] = to /\ src'[c] = src[c] /\ meta'[c] = meta[c] /\ req'[c] = req[c]
        /\ resp'[c] = reply /\ buf'[c] = empty /\ ahead'[c] = ahead[c]
        /\ filling'[c] = fills /\ fd'[c] = MetaOf(disk[src[c]]) /\ disk' = disk
        /\ clock' = clock
    BY <2>1, Zenon DEF TypeOK, envVars
  <2>6. OtherConns(c) /\ UNCHANGED <<envVars, store>>
    BY <2>1, Zenon DEF OtherConns, Same, TypeOK, cacheVars
  <2>7. /\ meta[c].len \in Nat /\ meta[c].ver \in Nat /\ disk[src[c]].ver \in Nat
        /\ ahead[c].len = 0 /\ meta[c].ver <= clock
        /\ NoNewer(meta[c], disk[src[c]])
    <3>1. pc[c] = "open" /\ ConnInv(c)
      BY <2>1, Zenon DEF Inv
    <3>2. pc[c] \notin {"stream", "done"} /\ pc[c] \in {"open", "stream"}
      BY <3>1, Zenon
    <3>3. ahead[c] = NoMeta /\ meta[c].ver <= clock /\ NoNewer(meta[c], disk[src[c]])
      BY <3>1, <3>2, Zenon DEF ConnInv, QuietInv, OrderInv
    <3>4. NoMeta.len = 0
      BY SMTT(40) DEF NoMeta
    <3> QED
      BY <3>3, <3>4, ConnTypes, Zenon
  <2>8. QuietInv(c)'
    BY <2>3, <2>5, Zenon DEF QuietInv
  <2>9. HeadInv(c)'
    <3>1. /\ resp'[c].head.start = head.start /\ resp'[c].head.end = head.end
          /\ buf'[c].len = 0 /\ buf'[c].from = head.start
          /\ filling'[c] => meta[c].len <= MaxFileSize
      BY <2>3, <2>4, <2>5, Zenon
    <3>2. 0 <= head.end - head.start
      BY <2>2, <2>4
    <3> QED
      BY <2>2, <2>5, <3>1, <3>2, Zenon DEF HeadInv, SubLen
  <2>10. OrderInv(c)'
    <3>1. buf'[c].vers = {}
      BY <2>4, <2>5, Zenon
    <3>2. meta'[c].ver <= clock' /\ NoNewer(meta'[c], disk'[src'[c]])
      BY <2>5, <2>7, Zenon
    <3> QED
      BY <3>1, <3>2, Zenon DEF OrderInv, NoNewer
  <2>11. StreamInv(c)'
    <3>1. fd'[c].ver = disk[src[c]].ver /\ fd'[c].len = disk[src[c]].len
      BY <2>5, MetaFields, Zenon
    <3>2. NoNewer(meta[c], fd'[c]) /\ NoNewer(fd'[c], disk[src[c]])
      BY <2>7, <3>1, VersionOrder, ZenonT(40) DEF NoNewer
    <3>3. ~(ahead'[c].len > 0) /\ buf'[c].vers = {}
      BY <2>4, <2>5, <2>7, VersionOrder, ZenonT(40)
    <3> QED
      BY <2>1, <2>5, <3>2, <3>3, Zenon DEF StreamInv, NoNewer, MetaOf
  <2>12. EndInv(c)'
    BY <2>3, <2>4, <2>5 DEF EndInv, HasBody
  <2>13. TearInv(c)'
    <3>1. ~(ahead'[c].len > 0) /\ buf'[c].vers = {}
      BY <2>4, <2>5, <2>7
    <3> QED
      BY <3>1, Zenon DEF TearInv, OneVersion
  <2> QED
    BY <2>6, <2>8, <2>9, <2>10, <2>11, <2>12, <2>13, OneConnNoStore, Zenon DEF ConnInv
<1> QED
  BY <1>1, <1>2, Zenon

----------------------------------------------------------------------------
\* The body, the cache and the files.

(***************************************************************************)
(* One chunk: n bytes of version ver go to the client and into mem_buf,    *)
(* and a stays in the buffer of the reader.                                *)
(***************************************************************************)
LEMMA DeliverStep ==
    ASSUME TypeOK, Inv, NEW c \in Conns, NEW n \in Nat, NEW ver \in Nat, NEW a \in Meta,
           pc[c] = "stream", n > 0, n <= Want(c), Deliver(c, n, ver),
           meta[c].ver <= ver, ver <= fd[c].ver,
           ~InPlaceWrites => ver = fd[c].ver,
           ahead' = [ahead EXCEPT ![c] = a], a.ver = ver,
           UNCHANGED <<envVars, permits, fd, linked, taskVars>>
    PROVE  Inv'
<1> DEFINE sent == [buf[c] EXCEPT !.len = @ + n, !.vers = @ \cup {ver}]
           e == MemFileOf(c, sent)
           path == req[c].path
<1>1. /\ buf' = [buf EXCEPT ![c] = sent]
      /\ filling' = [filling EXCEPT ![c] = filling[c] /\ ~Complete(c, sent)]
      /\ store' = IF Complete(c, sent) THEN [store EXCEPT ![path] = e] ELSE store
  BY Zenon DEF Deliver
<1>2. /\ sent.len = buf[c].len + n /\ sent.vers = buf[c].vers \cup {ver}
      /\ sent.from = buf[c].from
  BY DEF TypeOK, Bytes
<1>3. /\ buf[c].len \in Nat /\ buf[c].vers \subseteq Nat /\ meta[c].len \in Nat
      /\ src[c] \in Files /\ path \in Paths
      /\ resp[c].head.start \in Nat /\ resp[c].head.end \in Nat
      /\ meta[c].ver \in Nat /\ fd[c].ver \in Nat /\ disk[src[c]].ver \in Nat
  BY ConnTypes, ZenonT(40)
<1>4. n <= SubLen(c) - buf[c].len
  BY <1>3, SizesAssumption DEF Want, Least, SubLen, optimal_buf_size
<1>5. /\ e.from = sent.from /\ e.len = sent.len /\ e.ver = meta[c].ver
      /\ e.vers = sent.vers /\ e.src = src[c]
  BY Zenon DEF MemFileOf
<1>6. Complete(c, sent) => filling[c] /\ sent.len = meta[c].len
  BY Zenon DEF Complete
<1> HIDE DEF sent, e, path
<1>7. QuietInv(c) /\ HeadInv(c) /\ OrderInv(c) /\ StreamInv(c) /\ TearInv(c)
  BY Zenon DEF Inv, ConnInv
<1>8. /\ buf'[c] = sent /\ ahead'[c] = a /\ (filling'[c] => filling[c])
      /\ pc'[c] = pc[c] /\ req'[c] = req[c] /\ src'[c] = src[c] /\ meta'[c] = meta[c]
      /\ resp'[c] = resp[c] /\ fd'[c] = fd[c] /\ linked'[c] = linked[c]
      /\ disk' = disk /\ clock' = clock
  <2>1. buf'[c] = sent /\ ahead'[c] = a
    BY <1>1, Zenon DEF TypeOK
  <2>2. filling'[c] = (filling[c] /\ ~Complete(c, sent))
    BY <1>1, Zenon DEF TypeOK
  <2> QED
    BY <2>1, <2>2, Zenon DEF taskVars, envVars
<1>9. OtherConns(c)
  BY <1>1, ZenonT(40) DEF OtherConns, Same, TypeOK, taskVars
<1>10. /\ meta[c].ver <= disk[src[c]].ver /\ ver <= disk[src[c]].ver
       /\ \A v \in buf[c].vers : meta[c].ver <= v /\ v <= fd[c].ver /\ v \in Nat
       /\ \A v \in buf[c].vers : v <= disk[src[c]].ver
  <2>1. fd[c].ver <= disk[src[c]].ver
    BY <1>7, Zenon DEF StreamInv, NoNewer
  <2>2. \A v \in buf[c].vers : meta[c].ver <= v /\ v <= fd[c].ver /\ v \in Nat
    BY <1>3, <1>7, ZenonT(40) DEF StreamInv, OrderInv
  <2> QED
    BY <1>3, <2>1, <2>2
<1>11. ~InPlaceWrites => sent.vers \subseteq {fd[c].ver} /\ OneVersion(sent.vers)
  BY <1>2, <1>7, SMTT(40) DEF TearInv, OneVersion
<1>12. ASSUME NEW p \in Paths PROVE EntryInv(p)'
  <2>1. CASE store'[p] = store[p]
    BY <2>1, SameEntry, Zenon DEF Inv
  <2>2. CASE store'[p] # store[p]
    <3>1. store'[p] = e /\ Complete(c, sent)
      BY <1>1, <2>2, Zenon DEF TypeOK
    <3>2. /\ resp[c].head.start <= resp[c].head.end /\ resp[c].head.end <= meta[c].len
          /\ buf[c].from = resp[c].head.start /\ meta[c].len <= MaxFileSize
      BY <1>6, <1>7, <3>1, ZenonT(40) DEF HeadInv
    <3>3. sent.from = 0 /\ sent.len \in 1 .. MaxFileSize
      <4>1. /\ n <= resp[c].head.end - resp[c].head.start - buf[c].len
            /\ buf[c].len + n = meta[c].len
        BY <1>2, <1>4, <1>6, <3>1, ZenonT(40) DEF SubLen
      <4>2. resp[c].head.start = 0 /\ meta[c].len \in 1 .. MaxFileSize
        BY <1>3, <3>2, <4>1, SizesAssumption, WholeBody
      <4> QED
        BY <1>2, <1>6, <3>1, <3>2, <4>2, Zenon
    <3>4. sent.vers # {}
      BY <1>2, Zenon
    <3>5. WholeEntry(e)
      BY <1>5, <3>3, <3>4, Zenon DEF WholeEntry
    <3>6. NoNewer(e, disk[e.src])
      <4>1. NoNewer(meta[c], disk[src[c]])
        BY <1>7, Zenon DEF OrderInv
      <4> QED
        BY <1>5, <1>6, <3>1, <4>1, Zenon DEF NoNewer
    <3>7. ASSUME NEW v \in e.vers PROVE e.ver <= v /\ v <= disk[e.src].ver
      <4>1. v \in buf[c].vers \/ v = ver
        BY <1>2, <1>5, Zenon
      <4> QED
        BY <1>5, <1>10, <4>1, Zenon
    <3>8. ~InPlaceWrites => OneVersion(e.vers)
      BY <1>5, <1>11, Zenon
    <3> QED
      BY <1>8, <3>1, <3>5, <3>6, <3>7, <3>8, Zenon
         DEF EntryInv, WholeEntry, NoNewer, OneVersion
  <2> QED
    BY <2>1, <2>2, Zenon
<1>13. QuietInv(c)' /\ EndInv(c)'
  BY <1>8, Zenon DEF QuietInv, EndInv
<1>14. HeadInv(c)'
  <2>1. sent.len <= SubLen(c)
    BY <1>2, <1>3, <1>4 DEF SubLen
  <2> QED
    BY <1>2, <1>7, <1>8, <2>1, ZenonT(40) DEF HeadInv, SubLen
<1>15. OrderInv(c)' /\ StreamInv(c)'
  <2>1. \A v \in sent.vers : meta[c].ver <= v /\ v <= fd[c].ver
    BY <1>2, <1>10, Zenon
  <2>2. OrderInv(c)'
    BY <1>7, <1>8, <2>1, Zenon DEF OrderInv, NoNewer
  <2>3. StreamInv(c)'
    BY <1>7, <1>8, <2>1, Zenon DEF StreamInv, NoNewer, MetaOf
  <2> QED
    BY <2>2, <2>3, Zenon
<1>16. TearInv(c)'
  BY <1>8, <1>11, Zenon DEF TearInv, OneVersion
<1>17. ConnInv(c)'
  BY <1>13, <1>14, <1>15, <1>16, Zenon DEF ConnInv
<1> QED
  BY <1>9, <1>12, <1>17, OneConn, Zenon

\* A chunk, read or read ahead, keeps the invariant.
LEMMA PollStep ==
    ASSUME TypeOK, Inv, NEW c \in Conns, PollBuffered(c) \/ PollRead(c)
    PROVE  Inv'
<1>1. PICK n \in Nat, ver \in Nat, a \in Meta :
        /\ n > 0 /\ n <= Want(c) /\ Deliver(c, n, ver)
        /\ ahead' = [ahead EXCEPT ![c] = a] /\ a.ver = ver
        /\ ver = fd[c].ver \/ (ahead[c].len > 0 /\ ver = ahead[c].ver)
  BY Chunk, Zenon
<1>2. pc[c] = "stream" /\ UNCHANGED <<envVars, permits, fd, linked, taskVars>>
  BY Chunk, Zenon
<1>3. /\ meta[c].ver <= fd[c].ver
      /\ ahead[c].len > 0 => meta[c].ver <= ahead[c].ver /\ ahead[c].ver <= fd[c].ver
      /\ ~InPlaceWrites /\ ahead[c].len > 0 => ahead[c].ver = fd[c].ver
  BY <1>2, Zenon DEF Inv, ConnInv, StreamInv, TearInv, NoNewer
<1>4. fd[c].ver <= fd[c].ver
  <2>1. fd[c].ver \in Nat
    BY ConnTypes, Zenon
  <2> QED
    BY <2>1
<1>5. meta[c].ver <= ver /\ ver <= fd[c].ver /\ (~InPlaceWrites => ver = fd[c].ver)
  BY <1>1, <1>3, <1>4, Zenon
<1> QED
  BY <1>1, <1>2, <1>5, DeliverStep, Zenon

\* The end of a stream keeps the invariant: a stream that ends short of its
\* range has found its file truncated.
LEMMA PollEndStep ==
    ASSUME TypeOK, Inv, NEW c \in Conns, PollEnd(c)
    PROVE  Inv'
<1>1. /\ pc[c] = "stream" /\ pc' = [pc EXCEPT ![c] = "done"]
      /\ UNCHANGED <<envVars, cacheVars, bodyVars, req, src, meta, resp>>
  BY Zenon DEF PollEnd, Goto
<1>2. /\ pc'[c] = "done" /\ req'[c] = req[c] /\ src'[c] = src[c] /\ meta'[c] = meta[c]
      /\ resp'[c] = resp[c] /\ buf'[c] = buf[c] /\ filling'[c] = filling[c]
      /\ disk' = disk /\ clock' = clock
  BY <1>1, Zenon DEF TypeOK, envVars, bodyVars
<1>3. OtherConns(c) /\ UNCHANGED <<envVars, store>>
  BY <1>1, Zenon DEF OtherConns, Same, TypeOK, bodyVars, cacheVars
<1>4. HeadInv(c) /\ OrderInv(c) /\ StreamInv(c) /\ TearInv(c)
  BY Zenon DEF Inv, ConnInv
<1>5. ASSUME Unchanged(src[c], meta[c]) PROVE buf[c].len = SubLen(c)
  <2>1. /\ buf[c].len \in Nat /\ meta[c].len \in Nat
        /\ resp[c].head.start \in Nat /\ resp[c].head.end \in Nat
        /\ meta[c].ver \in Nat /\ fd[c].ver \in Nat /\ disk[src[c]].ver \in Nat
        /\ fd[c].len \in Nat
    BY ConnTypes, Zenon
  <2>2. fd[c].len = meta[c].len
    <3>1. /\ meta[c].ver <= fd[c].ver /\ fd[c].ver <= disk[src[c]].ver
          /\ disk[src[c]].ver = meta[c].ver
      BY <1>1, <1>4, <1>5, ZenonT(40) DEF StreamInv, NoNewer, Unchanged
    <3>2. meta[c].ver = fd[c].ver
      BY <2>1, <3>1
    <3> QED
      BY <1>1, <1>4, <3>2, Zenon DEF StreamInv, NoNewer
  <2>3. /\ resp[c].head.start <= resp[c].head.end /\ resp[c].head.end <= meta[c].len
        /\ buf[c].len <= SubLen(c)
    BY <1>4, ZenonT(40) DEF HeadInv
  <2>4. CASE Want(c) = 0
    <3>1. SubLen(c) \in Nat /\ SubLen(c) <= meta[c].len
      BY <2>1, <2>3 DEF SubLen
    <3>2. Least(Least(BlockSize, meta[c].len), SubLen(c) - buf[c].len) = 0
      BY <2>4, ZenonT(40) DEF Want, optimal_buf_size
    <3> QED
      BY <2>1, <2>3, <3>1, <3>2, SizesAssumption, SMTT(40) DEF Least
  <2>5. CASE fd[c].len <= Position(c)
    BY <2>1, <2>2, <2>3, <2>5 DEF Position, SubLen
  <2> QED
    BY <2>4, <2>5, Zenon DEF PollEnd
<1>6. QuietInv(c)' /\ StreamInv(c)'
  BY <1>2, Zenon DEF QuietInv, StreamInv
<1>7. HeadInv(c)'
  BY <1>2, <1>4, Zenon DEF HeadInv, SubLen
<1>8. OrderInv(c)'
  BY <1>2, <1>4, Zenon DEF OrderInv
<1>9. EndInv(c)'
  BY <1>2, <1>5, Zenon DEF EndInv, Unchanged, SubLen
<1>10. TearInv(c)'
  BY <1>2, <1>4, Zenon DEF TearInv, OneVersion
<1>11. ConnInv(c)'
  BY <1>6, <1>7, <1>8, <1>9, <1>10, Zenon DEF ConnInv
<1> QED
  BY <1>3, <1>11, OneConnNoStore, Zenon

\* Eviction keeps the invariant.
LEMMA EvictStep ==
    ASSUME TypeOK, Inv, NEW p \in Paths, Evict(p)
    PROVE  Inv'
<1>1. /\ store' = [store EXCEPT ![p] = NotCached]
      /\ UNCHANGED <<envVars, bodyVars, taskVars>>
  BY Zenon DEF Evict
<1>2. DiskInv'
  BY <1>1, Zenon DEF Inv, DiskInv, envVars
<1>3. ASSUME NEW c \in Conns PROVE ConnInv(c)'
  <2>1. Same(c)
    BY <1>1, Zenon DEF Same, bodyVars, taskVars
  <2> QED
    BY <1>1, <2>1, SameConn, Zenon DEF Inv
<1>4. ASSUME NEW q \in Paths PROVE EntryInv(q)'
  <2>1. CASE q = p
    <3>1. store'[q] = NotCached
      BY <1>1, <2>1, Zenon DEF TypeOK
    <3> QED
      BY <3>1, Zenon DEF EntryInv
  <2>2. CASE q # p
    <3>1. store'[q] = store[q]
      BY <1>1, <2>2, Zenon DEF TypeOK
    <3> QED
      BY <1>1, <3>1, SameEntry, Zenon DEF Inv
  <2> QED
    BY <2>1, <2>2, Zenon
<1> QED
  BY <1>2, <1>3, <1>4, Zenon DEF Inv

\* What no change of the files touches of a connection keeps its invariant.
LEMMA FilesChange ==
    ASSUME NEW c \in Conns, ConnInv(c),
           UNCHANGED <<ahead, buf, filling, taskVars>>
    PROVE  /\ QuietInv(c)' /\ HeadInv(c)'
           /\ fd'[c] = fd[c] \/ InPlaceWrites => TearInv(c)'
<1>1. /\ pc'[c] = pc[c] /\ meta'[c] = meta[c] /\ resp'[c] = resp[c] /\ buf'[c] = buf[c]
      /\ ahead'[c] = ahead[c] /\ filling'[c] = filling[c]
  BY Zenon DEF taskVars
<1>2. QuietInv(c)'
  BY <1>1, Zenon DEF ConnInv, QuietInv
<1>3. HeadInv(c)'
  BY <1>1, Zenon DEF ConnInv, HeadInv, SubLen
<1>4. fd'[c] = fd[c] \/ InPlaceWrites => TearInv(c)'
  BY <1>1, Zenon DEF ConnInv, TearInv, OneVersion
<1> QED
  BY <1>2, <1>3, <1>4, Zenon

(***************************************************************************)
(* A file gets a fresh version: everything read so far is strictly older.  *)
(***************************************************************************)
LEMMA ChangeStep ==
    ASSUME TypeOK, Inv, NEW f \in Files, NEW len \in Lengths,
           Replace(f, len) \/ Overwrite(f, len)
    PROVE  Inv'
<1> DEFINE new == [exists |-> TRUE, len |-> len, ver |-> clock + 1]
<1>1. /\ clock' = clock + 1 /\ disk' = [disk EXCEPT ![f] = new]
      /\ UNCHANGED <<cacheVars, ahead, buf, filling, taskVars>>
  BY Zenon DEF Replace, Overwrite
<1>2. \/ fd' = fd /\ linked' = [c \in Conns |-> linked[c] /\ src[c] # f]
      \/ /\ linked' = linked /\ InPlaceWrites
         /\ fd' = [c \in Conns |-> IF Shows(c, f)
                                   THEN [len |-> len, ver |-> clock + 1] ELSE fd[c]]
  BY Zenon DEF Replace, Overwrite
<1>3. /\ new.ver = clock + 1 /\ new.exists
      /\ MetaOf(new) = [len |-> len, ver |-> clock + 1]
  BY Zenon DEF MetaOf
<1>4. clock \in Nat
  BY Zenon DEF TypeOK
<1> HIDE DEF new
<1>5. ASSUME NEW g \in Files
      PROVE  disk[g].ver \in Nat /\ disk[g].ver <= clock
  BY Zenon DEF TypeOK, File, Inv, DiskInv
<1>6. /\ disk'[f] = new
      /\ \A g \in Files : g # f => disk'[g] = disk[g]
  BY <1>1, Zenon DEF TypeOK
<1>7. DiskInv'
  <2> SUFFICES ASSUME NEW g \in Files PROVE disk'[g].ver <= clock'
    BY ZenonT(40) DEF DiskInv
  <2>1. CASE g = f
    BY <1>1, <1>3, <1>4, <1>6, <2>1
  <2>2. CASE g # f
    <3>1. disk'[g] = disk[g]
      BY <1>6, <2>2, Zenon
    <3> QED
      BY <1>1, <1>4, <1>5, <3>1
  <2> QED
    BY <2>1, <2>2, Zenon
\* What was no newer than the file is no newer than the file as it is now.
<1>8. ASSUME NEW g \in Files, NEW m, m.ver \in Nat, NoNewer(m, disk[g])
      PROVE  NoNewer(m, disk'[g])
  <2>1. CASE g = f
    <3>1. m.ver <= clock
      BY <1>4, <1>5, <1>8 DEF NoNewer
    <3>2. m.ver <= clock + 1 /\ m.ver # clock + 1
      BY <1>4, <1>8, <3>1
    <3> QED
      BY <1>3, <1>6, <2>1, <3>2, Zenon DEF NoNewer
  <2>2. CASE g # f
    BY <1>6, <1>8, <2>2, Zenon
  <2> QED
    BY <2>1, <2>2, Zenon
<1>9. ASSUME NEW p \in Paths PROVE EntryInv(p)'
  <2>1. store' = store
    BY <1>1, Zenon DEF cacheVars
  <2>2. CASE store[p] = NotCached
    BY <2>1, <2>2, Zenon DEF EntryInv
  <2>3. CASE store[p] # NotCached
    <3> DEFINE e == store[p]
    <3>1. /\ e.src \in Files /\ e.ver \in Nat /\ e.vers \subseteq Nat
          /\ disk[e.src].ver \in Nat
      BY <2>3, EntryTypes, Zenon
    <3>2. /\ WholeEntry(e) /\ NoNewer(e, disk[e.src])
          /\ \A v \in e.vers : e.ver <= v /\ v <= disk[e.src].ver
          /\ ~InPlaceWrites => OneVersion(e.vers)
      BY <2>3, Zenon DEF Inv, EntryInv
    <3>3. store'[p] = e
      BY <2>1, Zenon
    <3> HIDE DEF e
    <3>4. NoNewer(e, disk'[e.src])
      BY <1>8, <3>1, <3>2, ZenonT(40)
    <3>5. ASSUME NEW v \in e.vers PROVE v <= disk'[e.src].ver
      <4>1. CASE e.src = f
        BY <1>3, <1>4, <1>5, <1>6, <3>1, <3>2, <4>1
      <4>2. CASE e.src # f
        BY <1>6, <3>1, <3>2, <4>2, Zenon
      <4> QED
        BY <4>1, <4>2, ZenonT(40)
    <3> QED
      BY <3>2, <3>3, <3>4, <3>5, Zenon DEF EntryInv, WholeEntry, NoNewer, OneVersion
  <2> QED
    BY <2>2, <2>3, Zenon
<1>10. ASSUME NEW c \in Conns PROVE ConnInv(c)'
  <2>1. /\ pc'[c] = pc[c] /\ req'[c] = req[c] /\ src'[c] = src[c] /\ meta'[c] = meta[c]
        /\ resp'[c] = resp[c] /\ buf'[c] = buf[c] /\ ahead'[c] = ahead[c]
    BY <1>1, Zenon DEF taskVars
  <2>2. /\ \/ fd'[c] = fd[c] /\ (linked'[c] => linked[c] /\ src[c] # f)
           \/ /\ fd'[c] = [len |-> len, ver |-> clock + 1]
              /\ src[c] = f /\ linked[c] /\ linked'[c] = linked[c]
        /\ fd'[c] = fd[c] \/ InPlaceWrites
    BY <1>2, Zenon DEF Shows
  <2>3. /\ src[c] \in Files /\ meta[c].ver \in Nat /\ fd[c].ver \in Nat
        /\ ahead[c].ver \in Nat /\ buf[c].vers \subseteq Nat
    BY ConnTypes, Zenon
  <2>4. ConnInv(c)
    BY Zenon DEF Inv
  <2>5. QuietInv(c)' /\ HeadInv(c)' /\ TearInv(c)'
    BY <1>1, <2>2, <2>4, FilesChange, ZenonT(40)
  <2>6. meta[c].ver <= clock /\ meta[c].ver <= clock'
    <3>1. meta[c].ver <= clock
      BY <2>4, Zenon DEF ConnInv, OrderInv
    <3> QED
      BY <1>1, <1>4, <2>3, <3>1
  <2>7. pc[c] \in {"open", "stream"} => NoNewer(meta[c], disk'[src[c]])
    BY <1>8, <2>3, <2>4, Zenon DEF ConnInv, OrderInv
  <2>8. OrderInv(c)'
    BY <2>1, <2>4, <2>6, <2>7, Zenon DEF ConnInv, OrderInv, NoNewer
  <2>9. StreamInv(c)'
    <3> SUFFICES ASSUME pc[c] = "stream" PROVE StreamInv(c)'
      BY <2>1, Zenon DEF StreamInv
    <3>1. /\ NoNewer(meta[c], fd[c]) /\ NoNewer(fd[c], disk[src[c]])
          /\ linked[c] => disk[src[c]].exists /\ fd[c] = MetaOf(disk[src[c]])
          /\ ahead[c].len > 0 => meta[c].ver <= ahead[c].ver /\ ahead[c].ver <= fd[c].ver
          /\ \A v \in buf[c].vers : v <= fd[c].ver
      BY <2>4, ZenonT(40) DEF ConnInv, StreamInv
    <3>2. fd[c].ver <= clock
      BY <1>4, <1>5, <2>3, <3>1 DEF NoNewer
    <3>3. CASE fd'[c] = fd[c] /\ (linked'[c] => linked[c] /\ src[c] # f)
      <4>1. NoNewer(fd[c], disk'[src[c]])
        BY <1>8, <2>3, <3>1, Zenon
      <4>2. linked'[c] => disk'[src[c]].exists /\ fd[c] = MetaOf(disk'[src[c]])
        BY <1>6, <2>3, <3>1, <3>3, Zenon
      <4> QED
        BY <2>1, <3>1, <3>3, <4>1, <4>2, Zenon DEF StreamInv, NoNewer, MetaOf
    <3>4. CASE fd'[c] = [len |-> len, ver |-> clock + 1] /\ src[c] = f
      <4>1. fd'[c] = MetaOf(disk'[src[c]]) /\ disk'[src[c]].exists
        BY <1>3, <1>6, <3>4, ZenonT(40)
      <4>2. fd'[c].ver = clock + 1 /\ disk'[src[c]].ver = clock + 1
        BY <1>3, <1>6, <3>4, SMTT(40)
      <4>3. fd'[c].len = disk'[src[c]].len
        BY <4>1 DEF MetaOf
      <4>4. NoNewer(fd'[c], disk'[src[c]])
        BY <1>4, <4>2, <4>3, VersionOrder, ZenonT(40) DEF NoNewer
      <4>5. NoNewer(meta[c], fd'[c])
        <5>1. meta[c].ver \in Nat /\ clock \in Nat /\ meta[c].ver <= clock
          BY <1>4, <2>3, <2>6, Zenon
        <5>2. meta[c].ver <= clock + 1 /\ meta[c].ver # clock + 1
          BY <5>1, VersionOrder, Zenon
        <5> QED
          BY <4>2, <5>2, Zenon DEF NoNewer
      <4>6. ASSUME NEW v \in buf[c].vers PROVE v <= fd'[c].ver
        <5>1. v \in Nat /\ v <= fd[c].ver
          BY <2>3, <3>1, ZenonT(40)
        <5> QED
          BY <1>4, <2>3, <3>2, <4>2, <5>1
      <4>7. ahead[c].len > 0 =>
              meta[c].ver <= ahead[c].ver /\ ahead[c].ver <= fd'[c].ver
        BY <1>4, <2>3, <3>1, <3>2, <4>2
      <4> QED
        BY <2>1, <4>1, <4>4, <4>5, <4>6, <4>7, Zenon DEF StreamInv, NoNewer, MetaOf
    <3> QED
      BY <2>2, <3>3, <3>4, Zenon
  <2>10. EndInv(c)'
    <3>1. ASSUME disk'[src[c]].ver = meta[c].ver PROVE disk'[src[c]] = disk[src[c]]
      <4>1. src[c] # f
        BY <1>3, <1>4, <1>6, <2>3, <2>6, <3>1
      <4> QED
        BY <1>6, <2>3, <4>1, Zenon
    <3> QED
      BY <2>1, <2>4, <3>1, ZenonT(40) DEF ConnInv, EndInv, Unchanged, SubLen
  <2> QED
    BY <2>5, <2>8, <2>9, <2>10, Zenon DEF ConnInv
<1> QED
  BY <1>7, <1>9, <1>10, Zenon DEF Inv

\* Removing a file keeps the invariant: open files keep their content.
LEMMA RemoveStep ==
    ASSUME TypeOK, Inv, NEW f \in Files, Remove(f)
    PROVE  Inv'
<1>1. /\ disk' = [disk EXCEPT ![f] =
                    [exists |-> FALSE, len |-> disk[f].len, ver |-> disk[f].ver]]
      /\ linked' = [c \in Conns |-> linked[c] /\ src[c] # f]
      /\ UNCHANGED <<clock, cacheVars, fd, ahead, buf, filling, taskVars>>
  BY Zenon DEF Remove
<1>2. ASSUME NEW g \in Files
      PROVE  /\ disk'[g].ver = disk[g].ver /\ disk'[g].len = disk[g].len
             /\ g # f => disk'[g] = disk[g]
             /\ disk'[g].exists => disk[g].exists
  BY <1>1, Zenon DEF TypeOK
<1>3. DiskInv'
  BY <1>1, <1>2, Zenon DEF Inv, DiskInv
<1>4. ASSUME NEW p \in Paths PROVE EntryInv(p)'
  <2>1. store'[p] = store[p]
    BY <1>1, Zenon DEF cacheVars
  <2>2. CASE store[p] = NotCached
    BY <2>1, <2>2, Zenon DEF EntryInv
  <2>3. CASE store[p] # NotCached
    <3> DEFINE e == store[p]
    <3>1. disk'[e.src].ver = disk[e.src].ver /\ disk'[e.src].len = disk[e.src].len
      BY <1>2, <2>3, EntryTypes, Zenon
    <3>2. /\ WholeEntry(e) /\ NoNewer(e, disk[e.src])
          /\ \A v \in e.vers : e.ver <= v /\ v <= disk[e.src].ver
          /\ ~InPlaceWrites => OneVersion(e.vers)
      BY <2>3, Zenon DEF Inv, EntryInv
    <3>3. store'[p] = e
      BY <2>1, Zenon
    <3> HIDE DEF e
    <3>4. NoNewer(e, disk'[e.src]) /\ \A v \in e.vers : v <= disk'[e.src].ver
      BY <3>1, <3>2, Zenon DEF NoNewer
    <3> QED
      BY <3>2, <3>3, <3>4, Zenon DEF EntryInv, WholeEntry, NoNewer, OneVersion
  <2> QED
    BY <2>2, <2>3, Zenon
<1>5. ASSUME NEW c \in Conns PROVE ConnInv(c)'
  <2>1. /\ pc'[c] = pc[c] /\ req'[c] = req[c] /\ src'[c] = src[c] /\ meta'[c] = meta[c]
        /\ resp'[c] = resp[c] /\ buf'[c] = buf[c] /\ ahead'[c] = ahead[c]
        /\ fd'[c] = fd[c] /\ clock' = clock
    BY <1>1, Zenon DEF taskVars
  <2>2. ConnInv(c) /\ src[c] \in Files
    BY ConnTypes, Zenon DEF Inv
  <2>3. QuietInv(c)' /\ HeadInv(c)' /\ TearInv(c)'
    BY <1>1, <2>1, <2>2, FilesChange, Zenon
  <2>4. linked'[c] => linked[c] /\ disk'[src[c]] = disk[src[c]]
    BY <1>1, <1>2, <2>2, Zenon
  <2>5. /\ disk'[src[c]].ver = disk[src[c]].ver /\ disk'[src[c]].len = disk[src[c]].len
        /\ disk'[src[c]].exists => disk[src[c]].exists
    BY <1>2, <2>2, Zenon
  <2>6. OrderInv(c)'
    BY <2>1, <2>2, <2>5, Zenon DEF ConnInv, OrderInv, NoNewer
  <2>7. StreamInv(c)'
    <3> SUFFICES ASSUME pc[c] = "stream" PROVE StreamInv(c)'
      BY <2>1, Zenon DEF StreamInv
    <3>1. /\ NoNewer(meta[c], fd[c]) /\ NoNewer(fd[c], disk[src[c]])
          /\ linked[c] => disk[src[c]].exists /\ fd[c] = MetaOf(disk[src[c]])
          /\ ahead[c].len > 0 => meta[c].ver <= ahead[c].ver /\ ahead[c].ver <= fd[c].ver
          /\ \A v \in buf[c].vers : v <= fd[c].ver
      BY <2>2, Zenon DEF ConnInv, StreamInv
    <3>2. NoNewer(fd[c], disk'[src[c]])
      BY <2>5, <3>1, Zenon DEF NoNewer
    <3>3. linked'[c] => disk'[src[c]].exists /\ fd[c] = MetaOf(disk'[src[c]])
      BY <2>4, <3>1, Zenon
    <3> QED
      BY <2>1, <3>1, <3>2, <3>3, Zenon DEF StreamInv, NoNewer, MetaOf
  <2>8. EndInv(c)'
    <3>1. EndInv(c)
      BY <2>2, Zenon DEF ConnInv
    <3> QED
      BY <2>1, <2>5, <3>1, Zenon DEF EndInv, Unchanged, SubLen
  <2> QED
    BY <2>3, <2>6, <2>7, <2>8, Zenon DEF ConnInv
<1> QED
  BY <1>3, <1>4, <1>5, Zenon DEF Inv

\* Every step keeps the invariant, whatever the requests.
LEMMA InvStep ==
    ASSUME TypeOK, Inv, [AnyNext]_vars
    PROVE  Inv'
<1>1. ASSUME NEW c \in Conns, NEW r \in Request, Receive(c, r) PROVE Inv'
  <2>1. /\ pc[c] = "idle"
        /\ pc' = [pc EXCEPT ![c] = IF MemoryCache THEN "lookup" ELSE "stat"]
        /\ req' = [req EXCEPT ![c] = r] /\ src' = [src EXCEPT ![c] = r.path]
        /\ UNCHANGED <<envVars, store, bodyVars, meta, resp>>
    BY <1>1, ZenonT(40) DEF Receive, Goto, cacheVars
  <2>2. /\ pc'[c] \in {"lookup", "stat"} /\ pc' = [pc EXCEPT ![c] = pc'[c]]
        /\ req' = [req EXCEPT ![c] = req'[c]] /\ src' = [src EXCEPT ![c] = src'[c]]
    BY <2>1, Zenon DEF TypeOK
  <2>3. pc[c] \in {"idle", "lookup", "acquire", "release"}
    BY <2>1, Zenon
  <2>4. pc'[c] \in {"idle", "lookup", "acquire", "release", "stat"}
    BY <2>2, SMTT(40)
  <2> QED
    BY <2>1, <2>2, <2>3, <2>4, QuietStep, Zenon
<1>2. ASSUME NEW c \in Conns, Miss(c) \/ AcquirePermit(c) \/ DropPermit(c) PROVE Inv'
  BY <1>2, QuietStep DEF Miss, AcquirePermit, DropPermit, Goto, TypeOK, cacheVars
<1>3. CASE UNCHANGED vars
  <2>1. \A c \in Conns : Same(c)
    BY <1>3, Zenon DEF Same, vars, bodyVars, taskVars
  <2>2. UNCHANGED envVars /\ \A p \in Paths : store'[p] = store[p]
    BY <1>3, Zenon DEF vars, cacheVars
  <2>3. DiskInv'
    BY <2>2, Zenon DEF Inv, DiskInv, envVars
  <2> QED
    BY <2>1, <2>2, <2>3, SameConn, SameEntry, Zenon DEF Inv
<1> QED
  BY Zenon, <1>1, <1>2, <1>3, HitStep, StatStep, OpenStep, PollStep, PollEndStep,
     DropStep, EvictStep, ChangeStep, RemoveStep, FilesAssumption, ZenonT(40)
     DEF AnyNext, Next, Serve, Step, Environment, Finish, Abort

(***************************************************************************)
(* The inductive invariant holds in every reachable state.                 *)
(***************************************************************************)
LEMMA Invariance == Spec => [](TypeOK /\ Inv)
<1>1. TypeOK /\ Inv /\ [Next]_vars => Inv'
  BY InvStep, Zenon DEF AnyNext
<1> QED
  BY <1>1, InitInv, TypeCorrect, PTL DEF Spec

(***************************************************************************)
(* No cached file is partial, for any number of connections filling the    *)
(* cache and whatever ranges, truncations, disconnects and changes of the  *)
(* files they meet.                                                        *)
(***************************************************************************)
THEOREM EntriesWholeAlways == Spec => []EntriesWhole
<1>1. Inv => EntriesWhole
  BY Zenon DEF Inv, EntryInv, EntriesWhole
<1> QED
  BY <1>1, Invariance, PTL

(***************************************************************************)
(* No byte is ever sent or cached under a Last-Modified newer than itself. *)
(***************************************************************************)
THEOREM LabelNotNewerAlways == Spec => []LabelNotNewer
<1>1. Inv => LabelNotNewer
  BY Zenon DEF Inv, ConnInv, OrderInv, EntryInv, LabelNotNewer
<1> QED
  BY <1>1, Invariance, PTL

(***************************************************************************)
(* While a file is unchanged since a fill read its metadata, the cached    *)
(* entry of it holds exactly its bytes.                                    *)
(***************************************************************************)
THEOREM UnchangedEntryExactAlways == Spec => []UnchangedEntryExact
<1>1. TypeOK /\ Inv => UnchangedEntryExact
  <2> SUFFICES ASSUME TypeOK, Inv, NEW p \in Paths, store[p] # NotCached,
                      Unchanged(store[p].src, store[p])
               PROVE  /\ store[p].vers = {store[p].ver}
                      /\ store[p].len = disk[store[p].src].len
    BY SMTT(40) DEF UnchangedEntryExact
  <2>1. /\ store[p].ver \in Nat /\ \A v \in store[p].vers : v \in Nat
        /\ store[p].vers # {}
    BY SMTT(40) DEF TypeOK, MemFile, Inv, EntryInv, WholeEntry
  <2>2. /\ \A v \in store[p].vers : store[p].ver <= v /\ v <= store[p].ver
        /\ store[p].len = disk[store[p].src].len
    BY Zenon DEF Inv, EntryInv, NoNewer, Unchanged
  <2> QED
    BY <2>1, <2>2
<1> QED
  BY <1>1, Invariance, PTL

(***************************************************************************)
(* Files that are only ever replaced by rename are never served or cached  *)
(* torn, however the replacement interleaves with open and the reads.      *)
(***************************************************************************)
THEOREM ReplaceNeverTearsAlways == Spec => []ReplaceNeverTears
<1>1. Inv => ReplaceNeverTears
  BY Zenon DEF Inv, ConnInv, TearInv, EntryInv, ReplaceNeverTears
<1> QED
  BY <1>1, Invariance, PTL

(***************************************************************************)
(* A body never exceeds the length announced, and falls short of it only   *)
(* if its file changed.                                                    *)
(***************************************************************************)
THEOREM BodyAsAnnouncedAlways == Spec => []BodyAsAnnounced
<1>1. Inv => BodyAsAnnounced
  BY Zenon DEF Inv, ConnInv, HeadInv, EndInv, BodyAsAnnounced
<1> QED
  BY <1>1, Invariance, PTL

=============================================================================
