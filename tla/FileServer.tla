------------------------------ MODULE FileServer ------------------------------
(***************************************************************************)
(* Serving files with the in-memory cache: static_files::handle from the   *)
(* cache lookup to the last byte of the body (src/src/static_files.rs,     *)
(* src/src/mem_cache/, src/src/response.rs, src/src/fs/stream.rs), run by  *)
(* several connections at once while the files change under them.          *)
(*                                                                         *)
(* A file is its length and its modification time.  Every change of a file *)
(* gets a fresh modification time, which therefore also names the content: *)
(* bytes are known by the version they were read from.                     *)
(***************************************************************************)
EXTENDS FileResponse, FiniteSets

CONSTANTS
    Conns,              \* connections, each with one request at a time
    Paths,              \* the paths clients ask for, and the cache keys
    Files,              \* the files on disk: Paths and pre-compressed variants
    Variant,            \* Variant[p]: the pre-compressed file of p
    Requests,           \* the requests clients send
    Lengths,            \* the lengths files may have
    MaxClock,           \* bound on the number of file changes
    MemoryCache,        \* is the experimental cache configured?
    MaxFileSize,        \* MemCacheOpts::max_file_size
    CompressionStatic,  \* the compression-static option
    InPlaceWrites,      \* may files be overwritten in place, or only replaced?
    BlockSize,          \* the block size that bounds one read of a stream
    BufReaderSize       \* the capacity of std's BufReader

Methods == {"GET", "HEAD", "OPTIONS"}

Request == [path : Paths, method : Methods, gzip : BOOLEAN, h : ConditionalHeaders]

ASSUME FilesAssumption ==
    /\ Paths \subseteq Files
    /\ Variant \in [Paths -> Files]
    /\ Requests \subseteq Request
    /\ Requests # {}
    /\ Lengths \subseteq U64

ASSUME OptionsAssumption ==
    /\ MemoryCache \in BOOLEAN
    /\ CompressionStatic \in BOOLEAN
    /\ InPlaceWrites \in BOOLEAN

ASSUME SizesAssumption ==
    /\ MaxClock \in Nat
    /\ MaxFileSize \in Nat
    /\ BlockSize \in Nat \ {0}
    /\ BufReaderSize \in Nat \ {0}

VARIABLES
    disk,       \* disk[f]: the file at f
    clock,      \* the latest modification time given out
    store,      \* CACHE_STORE
    permits,    \* CACHE_PERMIT: permits left
    pc,         \* where the request of a connection is
    req,        \* the request being answered
    src,        \* the file its body comes from
    meta,       \* the metadata its head is made from
    fd,         \* the content its open file shows
    linked,     \* is that file still the one on disk?
    ahead,      \* what BufReader has read ahead
    buf,        \* the body sent so far (and mem_buf, while filling)
    filling,    \* is the stream still collecting mem_buf for the cache?
    resp        \* the response head

envVars == <<disk, clock>>
cacheVars == <<store, permits>>
bodyVars == <<fd, linked, ahead, buf, filling>>
taskVars == <<pc, req, src, meta, resp>>
vars == <<envVars, cacheVars, bodyVars, taskVars>>

----------------------------------------------------------------------------
\* Metadata, which also identifies content: ver is the modification time.
Meta == [len : U64, ver : Nat]
File == [exists : BOOLEAN, len : U64, ver : Nat]
NoMeta == [len |-> 0, ver |-> 0]
MetaOf(f) == [len |-> f.len, ver |-> f.ver]

\* Bytes in memory: a run of len bytes at offset from, of the versions vers.
Bytes == [from : U64, len : U64, vers : SUBSET Nat]
NoBytes == [from |-> 0, len |-> 0, vers |-> {}]

\* MemFile; src is the file that was read, vers the versions of its bytes.
MemFile == [from : U64, len : U64, ver : Nat, vers : SUBSET Nat, src : Files]
NotCached == [none |-> TRUE]

\* A response head, and whether it carries a Content-Encoding.
Reply(head, encoding) == [head |-> head, encoding |-> encoding]
NoReply == Reply(Bodiless(0), FALSE)
Response ==
    [head : [status : Nat, start : U64, end : U64, last_modified : Int],
     encoding : BOOLEAN]

\* What the slot of an idle connection holds.
AnyRequest == CHOOSE r \in Requests : TRUE

PCs == {"idle", "lookup", "acquire", "release", "stat", "open", "stream", "done"}

TypeOK ==
    /\ disk \in [Files -> File]
    /\ clock \in Nat
    /\ store \in [Paths -> MemFile \cup {NotCached}]
    /\ permits \in {0, 1}
    /\ pc \in [Conns -> PCs]
    /\ req \in [Conns -> Request]
    /\ src \in [Conns -> Files]
    /\ meta \in [Conns -> Meta]
    /\ fd \in [Conns -> Meta]
    /\ linked \in [Conns -> BOOLEAN]
    /\ ahead \in [Conns -> Meta]
    /\ buf \in [Conns -> Bytes]
    /\ filling \in [Conns -> BOOLEAN]
    /\ resp \in [Conns -> Response]

\* Files start out with a modification time of the epoch or of one tick after.
Init ==
    /\ clock = 1
    /\ disk \in [Files -> [exists : BOOLEAN, len : Lengths, ver : {0, 1}]]
    /\ store = [p \in Paths |-> NotCached]
    /\ permits = 1
    /\ pc = [c \in Conns |-> "idle"]
    /\ req = [c \in Conns |-> AnyRequest]
    /\ src = [c \in Conns |-> AnyRequest.path]
    /\ meta = [c \in Conns |-> NoMeta]
    /\ fd = [c \in Conns |-> NoMeta]
    /\ linked = [c \in Conns |-> FALSE]
    /\ ahead = [c \in Conns |-> NoMeta]
    /\ buf = [c \in Conns |-> NoBytes]
    /\ filling = [c \in Conns |-> FALSE]
    /\ resp = [c \in Conns |-> NoReply]

----------------------------------------------------------------------------
Goto(c, from, to) ==
    /\ pc[c] = from
    /\ pc' = [pc EXCEPT ![c] = to]

\* A request reaches static_files::handle.
Receive(c, r) ==
    /\ Goto(c, "idle", IF MemoryCache THEN "lookup" ELSE "stat")
    /\ req' = [req EXCEPT ![c] = r]
    /\ src' = [src EXCEPT ![c] = r.path]
    /\ UNCHANGED <<envVars, cacheVars, bodyVars, meta, resp>>

(***************************************************************************)
(* get_or_acquire: a hit is answered at once from the stored bytes by      *)
(* MemFile::response_body, whatever the method; a miss waits for the       *)
(* permit.                                                                 *)
(***************************************************************************)
Hit(c) ==
    LET e == store[req[c].path]
        head == response_body(req[c].h, e.len, LastModified(e.ver))
    IN  /\ e # NotCached
        /\ Goto(c, "lookup", "done")
        /\ src' = [src EXCEPT ![c] = e.src]
        /\ meta' = [meta EXCEPT ![c] = MetaOf(e)]
        /\ resp' = [resp EXCEPT ![c] = Reply(head, FALSE)]
        /\ buf' = [buf EXCEPT ![c] =
                    IF HasBody(head)
                    THEN [from |-> head.start, len |-> head.end - head.start,
                          vers |-> e.vers]
                    ELSE NoBytes]
        /\ UNCHANGED <<envVars, cacheVars, req, fd, linked, ahead, filling>>

\* Mutant: a permit is released that was never acquired.
MissWithoutPermit(c) ==
    /\ store[req[c].path] = NotCached
    /\ Goto(c, "lookup", "release")
    /\ UNCHANGED <<envVars, cacheVars, bodyVars, req, src, meta, resp>>

Miss(c) ==
    /\ store[req[c].path] = NotCached
    /\ Goto(c, "lookup", "acquire")
    /\ UNCHANGED <<envVars, cacheVars, bodyVars, req, src, meta, resp>>

\* CACHE_PERMIT.acquire().await
AcquirePermit(c) ==
    /\ permits > 0
    /\ permits' = permits - 1
    /\ Goto(c, "acquire", "release")
    /\ UNCHANGED <<envVars, store, bodyVars, req, src, meta, resp>>

\* Mutant: the permit is forgotten instead of dropped.
ForgetPermit(c) ==
    /\ Goto(c, "release", "stat")
    /\ UNCHANGED <<envVars, cacheVars, bodyVars, req, src, meta, resp>>

\* The permit is a temporary of the if-let, dropped before None is returned.
DropPermit(c) ==
    /\ permits' = permits + 1
    /\ Goto(c, "release", "stat")
    /\ UNCHANGED <<envVars, store, bodyVars, req, src, meta, resp>>

----------------------------------------------------------------------------
\* A response without a body from the file.
Answer(c, from, status) ==
    /\ Goto(c, from, "done")
    /\ resp' = [resp EXCEPT ![c] = Reply(Bodiless(status), FALSE)]
    /\ UNCHANGED <<envVars, cacheVars, bodyVars, req, src, meta>>

\* The pre-compressed variant wins over the file whenever it exists.
UseVariant(c) ==
    /\ CompressionStatic
    /\ req[c].gzip
    /\ disk[Variant[req[c].path]].exists

Source(c) == IF UseVariant(c) THEN Variant[req[c].path] ELSE req[c].path

\* get_composed_file_metadata, then the OPTIONS answer.
Stat(c) ==
    \/ /\ ~disk[Source(c)].exists
       /\ Answer(c, "stat", 404)
    \/ /\ disk[Source(c)].exists
       /\ req[c].method = "OPTIONS"
       /\ Answer(c, "stat", 204)
    \/ /\ disk[Source(c)].exists
       /\ req[c].method # "OPTIONS"
       /\ Goto(c, "stat", "open")
       /\ src' = [src EXCEPT ![c] = Source(c)]
       /\ meta' = [meta EXCEPT ![c] = MetaOf(disk[Source(c)])]
       /\ UNCHANGED <<envVars, cacheVars, bodyVars, req, resp>>

(***************************************************************************)
(* file_reply: the file is opened by name, the head is made from the       *)
(* metadata of Stat.  hyper never polls the body of an answer to HEAD.     *)
(***************************************************************************)
Open(c) ==
    \/ /\ ~disk[src[c]].exists
       /\ Answer(c, "open", 404)
    \/ LET head == response_body(req[c].h, meta[c].len, LastModified(meta[c].ver))
           streams == HasBody(head) /\ req[c].method = "GET"
       IN  /\ disk[src[c]].exists
           /\ Goto(c, "open", IF streams THEN "stream" ELSE "done")
           /\ fd' = [fd EXCEPT ![c] = MetaOf(disk[src[c]])]
           /\ linked' = [linked EXCEPT ![c] = TRUE]
           /\ resp' = [resp EXCEPT ![c] = Reply(head, src[c] # req[c].path)]
           /\ buf' = [buf EXCEPT ![c] =
                        [from |-> head.start, len |-> 0, vers |-> {}]]
           /\ filling' = [filling EXCEPT ![c] =
                            streams /\ MemoryCache /\ meta[c].len <= MaxFileSize]
           /\ UNCHANGED <<envVars, cacheVars, ahead, req, src, meta>>

----------------------------------------------------------------------------
(***************************************************************************)
(* poll_next of MemCacheFileStream (and of FileStream, when not filling):  *)
(* one chunk of at most buf_size bytes from a BufReader cut off by take at *)
(* the end of the range.  BufReader reads ahead past the chunk, unless the *)
(* chunk is at least as large as its buffer.                               *)
(***************************************************************************)
Least(a, b) == IF a <= b THEN a ELSE b
Greatest(a, b) == IF a >= b THEN a ELSE b

optimal_buf_size(len) == Least(BlockSize, len)

SubLen(c) == resp[c].head.end - resp[c].head.start
Want(c) == Least(optimal_buf_size(meta[c].len), SubLen(c) - buf[c].len)
Position(c) == resp[c].head.start + buf[c].len

\* Mutant: the entry is labelled when the read ends, not when it began.
MemFileOfLate(c, bytes) ==
    [from |-> bytes.from, len |-> bytes.len, ver |-> fd[c].ver,
     vers |-> bytes.vers, src |-> src[c]]

\* When mem_buf reaches the length of the metadata the file is inserted.
MemFileOf(c, bytes) ==
    [from |-> bytes.from, len |-> bytes.len, ver |-> meta[c].ver,
     vers |-> bytes.vers, src |-> src[c]]

\* Mutants: the end of the range, or the last byte but one, completes a file.
CompleteRange(c, bytes) == filling[c] /\ bytes.len = SubLen(c)
CompleteEarly(c, bytes) == filling[c] /\ bytes.len + 1 >= meta[c].len

Complete(c, bytes) == filling[c] /\ bytes.len = meta[c].len

Deliver(c, n, ver) ==
    LET sent == [buf[c] EXCEPT !.len = @ + n, !.vers = @ \cup {ver}]
    IN  /\ buf' = [buf EXCEPT ![c] = sent]
        /\ filling' = [filling EXCEPT ![c] = @ /\ ~Complete(c, sent)]
        /\ store' = IF Complete(c, sent)
                    THEN [store EXCEPT ![req[c].path] = MemFileOf(c, sent)]
                    ELSE store

PollBuffered(c) ==
    LET n == Least(Want(c), ahead[c].len)
    IN  /\ pc[c] = "stream"
        /\ Want(c) > 0
        /\ ahead[c].len > 0
        /\ Deliver(c, n, ahead[c].ver)
        /\ ahead' = [ahead EXCEPT ![c] =
                        [len |-> ahead[c].len - n, ver |-> ahead[c].ver]]
        /\ UNCHANGED <<envVars, permits, fd, linked, taskVars>>

\* Mutant: every chunk is read from the file that has the name by then.
PollReadByName(c) ==
    /\ pc[c] = "stream"
    /\ Want(c) > 0
    /\ disk[src[c]].len > Position(c)
    /\ Deliver(c, Least(Want(c), disk[src[c]].len - Position(c)), disk[src[c]].ver)
    /\ UNCHANGED <<envVars, permits, fd, linked, ahead, taskVars>>

PollRead(c) ==
    /\ pc[c] = "stream"
    /\ Want(c) > 0
    /\ ahead[c].len = 0
    /\ \E k \in 1 .. Least(fd[c].len - Position(c), Greatest(Want(c), BufReaderSize)) :
        LET n == Least(Want(c), k)
        IN  /\ Deliver(c, n, fd[c].ver)
            /\ ahead' = [ahead EXCEPT ![c] = [len |-> k - n, ver |-> fd[c].ver]]
    /\ UNCHANGED <<envVars, permits, fd, linked, taskVars>>

\* Mutant: a read shorter than asked for is taken for the end of the file.
PollEndShort(c) ==
    /\ Want(c) = 0 \/ ahead[c].len = 0
    /\ Goto(c, "stream", "done")
    /\ UNCHANGED <<envVars, cacheVars, bodyVars, req, src, meta, resp>>

\* A read of no bytes ends the body, complete or cut short by a truncation.
PollEnd(c) ==
    /\ Want(c) = 0 \/ (ahead[c].len = 0 /\ fd[c].len <= Position(c))
    /\ Goto(c, "stream", "done")
    /\ UNCHANGED <<envVars, cacheVars, bodyVars, req, src, meta, resp>>

----------------------------------------------------------------------------
\* The task of a request is dropped with everything it holds.
DropTask(c) ==
    /\ pc' = [pc EXCEPT ![c] = "idle"]
    /\ req' = [req EXCEPT ![c] = AnyRequest]
    /\ src' = [src EXCEPT ![c] = AnyRequest.path]
    /\ meta' = [meta EXCEPT ![c] = NoMeta]
    /\ fd' = [fd EXCEPT ![c] = NoMeta]
    /\ linked' = [linked EXCEPT ![c] = FALSE]
    /\ ahead' = [ahead EXCEPT ![c] = NoMeta]
    /\ buf' = [buf EXCEPT ![c] = NoBytes]
    /\ filling' = [filling EXCEPT ![c] = FALSE]
    /\ resp' = [resp EXCEPT ![c] = NoReply]
    /\ UNCHANGED <<envVars, cacheVars>>

Finish(c) == pc[c] = "done" /\ DropTask(c)

\* The client disconnects at an await point, or a read of the file fails.
Abort(c) == pc[c] \in {"acquire", "stream"} /\ DropTask(c)

\* TTL, TTI or capacity: the store may drop any entry at any time.
Evict(p) ==
    /\ store[p] # NotCached
    /\ store' = [store EXCEPT ![p] = NotCached]
    /\ UNCHANGED <<envVars, permits, bodyVars, taskVars>>

(***************************************************************************)
(* The files change: replaced by rename (open files keep the old content), *)
(* overwritten in place (open files show the new content) or removed.      *)
(***************************************************************************)
Shows(c, f) == linked[c] /\ src[c] = f

Replace(f, len) ==
    /\ clock < MaxClock
    /\ clock' = clock + 1
    /\ disk' = [disk EXCEPT ![f] = [exists |-> TRUE, len |-> len, ver |-> clock + 1]]
    /\ linked' = [c \in Conns |-> linked[c] /\ src[c] # f]
    /\ UNCHANGED <<cacheVars, fd, ahead, buf, filling, taskVars>>

Overwrite(f, len) ==
    /\ InPlaceWrites
    /\ disk[f].exists
    /\ clock < MaxClock
    /\ clock' = clock + 1
    /\ disk' = [disk EXCEPT ![f] = [exists |-> TRUE, len |-> len, ver |-> clock + 1]]
    /\ fd' = [c \in Conns |-> IF Shows(c, f)
                              THEN [len |-> len, ver |-> clock + 1] ELSE fd[c]]
    /\ UNCHANGED <<cacheVars, linked, ahead, buf, filling, taskVars>>

Remove(f) ==
    /\ disk[f].exists
    /\ disk' = [disk EXCEPT ![f] =
                [exists |-> FALSE, len |-> disk[f].len, ver |-> disk[f].ver]]
    /\ linked' = [c \in Conns |-> linked[c] /\ src[c] # f]
    /\ UNCHANGED <<clock, cacheVars, fd, ahead, buf, filling, taskVars>>

----------------------------------------------------------------------------
Step(c) ==
    \/ Hit(c)
    \/ Miss(c)
    \/ DropPermit(c)
    \/ Stat(c)
    \/ Open(c)
    \/ PollBuffered(c)
    \/ PollRead(c)
    \/ PollEnd(c)

Serve(c) == Step(c) \/ Finish(c)

Environment ==
    \/ \E f \in Files, len \in Lengths : Replace(f, len)
    \/ \E f \in Files, len \in Lengths : Overwrite(f, len)
    \/ \E f \in Files : Remove(f)
    \/ \E p \in Paths : Evict(p)

Next ==
    \/ \E c \in Conns, r \in Requests : Receive(c, r)
    \/ \E c \in Conns : AcquirePermit(c)
    \/ \E c \in Conns : Serve(c)
    \/ \E c \in Conns : Abort(c)
    \/ Environment

Spec == Init /\ [][Next]_vars

(***************************************************************************)
(* The runtime keeps polling a task that is ready, and the semaphore of    *)
(* tokio hands its permit out in the order of arrival.                     *)
(***************************************************************************)
Fairness ==
    \A c \in Conns : WF_vars(Serve(c)) /\ SF_vars(AcquirePermit(c))

FairSpec == Spec /\ Fairness

----------------------------------------------------------------------------
\* Properties.

(***************************************************************************)
(* A cached file is never partial: whatever ranges, truncations and        *)
(* disconnects its fill met, an entry of CACHE_STORE starts at offset 0,   *)
(* is as long as the metadata it was made from, is not empty and fits      *)
(* max_file_size (poll_next inserts at len == capacity only).              *)
(***************************************************************************)
WholeEntry(e) == e.from = 0 /\ e.len \in 1 .. MaxFileSize /\ e.vers # {}

EntriesWhole == \A p \in Paths : store[p] # NotCached => WholeEntry(store[p])

(***************************************************************************)
(* No byte is older than the Last-Modified it is sent or cached under:     *)
(* the metadata is read before the file is opened and read, never after.   *)
(* It is what makes a later 304 (ConditionalHeaders::check) truthful even  *)
(* when the file changed while it was being read.                          *)
(***************************************************************************)
LabelNotNewer ==
    /\ \A c \in Conns : \A v \in buf[c].vers : meta[c].ver <= v
    /\ \A p \in Paths :
        store[p] # NotCached => \A v \in store[p].vers : store[p].ver <= v

(***************************************************************************)
(* An entry is stale or torn only if its file changed after the fill read  *)
(* its metadata: while the file on disk is still that version, the entry   *)
(* holds exactly its bytes.                                                *)
(***************************************************************************)
Unchanged(f, m) == disk[f].exists /\ disk[f].ver = m.ver

UnchangedEntryExact ==
    \A p \in Paths :
        LET e == store[p]
        IN  e # NotCached /\ Unchanged(e.src, e)
            => e.vers = {e.ver} /\ e.len = disk[e.src].len

(***************************************************************************)
(* When files are only ever replaced by rename, no body and no entry mixes *)
(* two versions: file_reply opens the file once and streams that handle.   *)
(***************************************************************************)
OneVersion(vers) == \A v, w \in vers : v = w

ReplaceNeverTears ==
    ~InPlaceWrites =>
        /\ \A c \in Conns : OneVersion(buf[c].vers)
        /\ \A p \in Paths : store[p] # NotCached => OneVersion(store[p].vers)

(***************************************************************************)
(* A body never runs past the range announced in the head, and a GET body  *)
(* that ends while its file is unchanged is exactly as long as announced,  *)
(* from disk and from the cache (take(sub_len) and ContentLength agree).   *)
(***************************************************************************)
BodyAsAnnounced ==
    \A c \in Conns :
        /\ buf[c].len <= SubLen(c)
        /\ /\ pc[c] = "done"
           /\ HasBody(resp[c].head)
           /\ req[c].method = "GET"
           /\ Unchanged(src[c], meta[c])
           => buf[c].len = SubLen(c)

(***************************************************************************)
(* Every request is answered or dropped: in particular nobody waits for    *)
(* CACHE_PERMIT for ever, because it is dropped before the file is read.   *)
(***************************************************************************)
Answered == \A c \in Conns : pc[c] # "idle" ~> pc[c] = "idle"

(***************************************************************************)
(* What static_files::handle says it sends the headers for: a body read    *)
(* from a pre-compressed variant is announced with its Content-Encoding.   *)
(***************************************************************************)
EncodingAnnounced ==
    \A c \in Conns :
        pc[c] = "done" /\ HasBody(resp[c].head)
            => (resp[c].encoding <=> src[c] # req[c].path)

=============================================================================
