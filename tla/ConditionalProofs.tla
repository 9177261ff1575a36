-------------------------- MODULE ConditionalProofs --------------------------
(***************************************************************************)
(* Proofs about conditional requests and ranges: what one response head    *)
(* says (RangeReply), for every width of the integers, every file length   *)
(* and every header; and what a client may conclude from several of them   *)
(* (ClientCopy), for any number of connections, files, lengths, changes    *)
(* and ticks to the second.                                                *)
(***************************************************************************)
EXTENDS RangeReply, ClientCopy, FileServerProofs

----------------------------------------------------------------------------
\* RangeReply: one request and its response head.

(***************************************************************************)
(* One member of a Range header gives exactly the positions it asks for:   *)
(* the special case b == max_len, the suffix form and the cut at the end   *)
(* of bytes_range, unless the end of the member is the largest u64.        *)
(***************************************************************************)
LEMMA MemberExact ==
    ASSUME NEW r \in RangeSpec, NEW max_len \in U64, NoWrap(r), ~Reversed(r)
    PROVE  Asked(r, max_len) =
             IF Clamp(Interval(r, max_len), max_len).ok
             THEN Sent(Clamp(Interval(r, max_len), max_len)) ELSE {}
<1> DEFINE i == Interval(r, max_len)
           c == Clamp(i, max_len)
<1> USE MaxU64Assumption DEF U64
<1>1. r.start.at \in U64 /\ r.end.at \in U64
  BY DEF RangeSpec, Bound, Unbounded, Included
<1>2. i.start \in U64 /\ i.end \in U64
  BY <1>1 DEF Interval, WrappingSucc
<1>3. \A k \in Nat : k \in Asked(r, max_len) <=> i.start <= k /\ k < i.end /\ k < max_len
  BY <1>1 DEF Asked, Interval, WrappingSucc, NoWrap, Reversed
<1> HIDE DEF i
<1>4. CASE c.ok
  <2>1. \A k \in Nat : k \in Sent(c) <=> i.start <= k /\ k < i.end /\ k < max_len
    BY <1>2, <1>4 DEF Clamp, Ok, BadRangeError, Sent
  <2>2. Sent(c) \subseteq Nat
    BY <1>2, <1>4 DEF Clamp, Ok, BadRangeError, Sent
  <2>3. Asked(r, max_len) \subseteq Nat
    BY DEF Asked
  <2>4. Asked(r, max_len) = Sent(c)
    BY <1>3, <2>1, <2>2, <2>3
  <2> QED
    BY <1>4, <2>4 DEF i
<1>5. CASE ~c.ok
  <2>1. \A k \in Nat : ~(i.start <= k /\ k < i.end /\ k < max_len)
    BY <1>2, <1>5 DEF Clamp, Ok, BadRangeError
  <2>2. Asked(r, max_len) = {}
    BY <1>3, <2>1 DEF Asked
  <2> QED
    BY <1>5, <2>2 DEF i
<1> QED
  BY <1>4, <1>5

(***************************************************************************)
(* The state of RangeReply before and after the response: the head is      *)
(* either not there yet or the one response_body makes.                    *)
(***************************************************************************)
Replied ==
    /\ headers \in ConditionalHeaders
    /\ size \in U64
    /\ mtime \in Nat
    /\ reply.status # 0 => reply = response_body(headers, size, LastModified(mtime))

\* Respond and AskAgain keep the response the one made for its own request.
LEMMA RepliedInvariant == RSpec => []Replied
<1>1. RInit => Replied
  BY HeadersAssumption DEF RInit, Replied, Bodiless
<1>2. Replied /\ [RNext]_rvars => Replied'
  <2> SUFFICES ASSUME Replied, [RNext]_rvars PROVE Replied'
    OBVIOUS
  <2>1. CASE Respond
    BY <2>1 DEF Replied, Respond
  <2>2. CASE AskAgain
    BY <2>2, HeadersAssumption DEF Replied, AskAgain, Bodiless
  <2>3. CASE UNCHANGED rvars
    BY <2>3 DEF Replied, rvars
  <2> QED
    BY <2>1, <2>2, <2>3 DEF RNext
<1> QED
  BY <1>1, <1>2, PTL DEF RSpec

(***************************************************************************)
(* For every file length, width of the integers and combination of         *)
(* conditional headers, an honoured range is answered with exactly the     *)
(* bytes it asks for and refused only if there are none (bytes_range and   *)
(* response_body of src/src/response.rs).                                  *)
(***************************************************************************)
THEOREM RangeExactAlways == RSpec => []RangeExact
<1>1. Replied => RangeExact
  <2> SUFFICES ASSUME Replied, reply.status \in {200, 206, 416}, Honoured,
                      headers.range.specs # << >>, NoWrap(First)
               PROVE  Asked(First, size) = IF HasBody(reply) THEN Sent(reply) ELSE {}
    BY DEF RangeExact
  <2> DEFINE lm == LastModified(mtime)
             b == bytes_range(headers.range, size)
  <2> HIDE DEF lm
  <2>1. reply = response_body(headers, size, lm)
    BY DEF Replied, lm
  <2>2. check(headers, lm) = WithBody(headers.range)
    BY DEF Honoured, check, WithBody, NoBody, NoRange, lm
  <2>3. reply = IF ~b.ok THEN Bodiless(416) ELSE BodyResponse(b, size, lm)
    BY <2>1, <2>2 DEF response_body, WithBody
  <2>4. headers.range \in RangeHeader /\ size \in U64 /\ First \in RangeSpec
    BY DEF Replied, ConditionalHeaders, RangeHeader, First
  <2>5. Asked(First, size) = IF b.ok THEN Sent(b) ELSE {}
    <3>1. CASE Reversed(First)
      <4>1. b = BadRangeError
        BY <3>1 DEF bytes_range, First, Honoured
      <4>2. First.start.at \in Nat /\ First.end.at \in Nat
        BY <2>4, MaxU64Assumption DEF RangeSpec, Bound, Unbounded, Included, U64
      <4>3. Asked(First, size) = {}
        BY <3>1, <4>2 DEF Reversed, Asked
      <4> QED
        BY <4>1, <4>3 DEF BadRangeError
    <3>2. CASE ~Reversed(First)
      <4>1. b = Clamp(Interval(First, size), size)
        BY <3>2 DEF bytes_range, First, Honoured
      <4> QED
        BY <3>2, <4>1, <2>4, MemberExact
    <3> QED
      BY <3>1, <3>2
  <2>6. HasBody(reply) <=> b.ok
    BY <2>3 DEF HasBody, Bodiless, BodyResponse
  <2>7. b.ok => Sent(reply) = Sent(b)
    BY <2>3 DEF Sent, BodyResponse
  <2> QED
    BY <2>5, <2>6, <2>7
<1> QED
  BY <1>1, RepliedInvariant, PTL

(***************************************************************************)
(* For every file, date and combination of conditional headers, no body    *)
(* bypasses If-Unmodified-Since or If-Modified-Since and no part of one    *)
(* bypasses If-Range (check of src/src/conditional_headers.rs with the     *)
(* ranges and the status of src/src/response.rs).                          *)
(***************************************************************************)
THEOREM BodyAsConditionedAlways == RSpec => []BodyAsConditioned
<1>1. Replied => BodyAsConditioned
  <2> SUFFICES ASSUME Replied, HasBody(reply) PROVE BodyAsConditioned
    BY DEF BodyAsConditioned
  <2> DEFINE lm == LastModified(mtime)
             c == check(headers, lm)
             b == bytes_range(c.range, size)
  <2>1. reply = response_body(headers, size, lm)
    BY DEF Replied, HasBody
  <2>2. /\ lm = IF mtime = 0 THEN NoDate ELSE Second(mtime)
        /\ mtime \in Nat /\ Second(mtime) \in Nat
    BY TicksPerSecondAssumption DEF Replied, LastModified, Second
  <2>3. /\ headers.if_unmodified_since \in Int /\ headers.if_modified_since \in Int
        /\ headers.if_range \in IfRange /\ headers.if_range.date \in Int
    BY DEF Replied, ConditionalHeaders, IfRange, Date, NoDate
  <2> HIDE DEF lm
  <2>4. ~PreconditionFailed(headers, lm) /\ ~NotModified(headers, lm)
    BY <2>1 DEF response_body, check, NoBody, Bodiless, HasBody
  <2>5. c = WithBody(IF RangeVoid(headers, lm) THEN NoRange ELSE headers.range)
    BY <2>4 DEF check
  <2> HIDE DEF c
  <2>6. c.body /\ c.range = IF RangeVoid(headers, lm) THEN NoRange ELSE headers.range
    BY <2>5 DEF WithBody
  <2>7. reply = IF ~b.ok THEN Bodiless(416) ELSE BodyResponse(b, size, lm)
    BY <2>1, <2>6 DEF response_body, c
  \* A body of less than the whole file answers a range that counts.
  <2>8. reply.status = 206 => ~RangeVoid(headers, lm)
    <3> SUFFICES ASSUME RangeVoid(headers, lm) PROVE reply.status # 206
      OBVIOUS
    <3>1. b = Ok(0, size)
      BY <2>6 DEF bytes_range, NoRange
    <3>2. b.ok /\ b.end = size /\ b.start = 0 /\ size \in Nat
      BY <3>1, MaxU64Assumption DEF Ok, Replied, U64
    <3> QED
      BY <2>7, <3>2 DEF BodyResponse
  <2>9. headers.if_unmodified_since # NoDate =>
          mtime # 0 /\ Second(mtime) <= headers.if_unmodified_since
    BY <2>2, <2>3, <2>4 DEF PreconditionFailed, PreconditionPasses, NoDate
  <2>10. headers.if_modified_since # NoDate =>
          mtime = 0 \/ Second(mtime) > headers.if_modified_since
    BY <2>2, <2>3, <2>4 DEF NotModified, IsModified, NoDate
  <2>11. reply.status = 206 /\ headers.if_range.kind # "absent" =>
            /\ headers.if_range.kind = "date"
            /\ mtime # 0
            /\ Second(mtime) <= headers.if_range.date
    BY <2>2, <2>3, <2>8 DEF RangeVoid, IfRangeIsModified, IfRange, NoDate
  <2> QED
    BY <2>9, <2>10, <2>11 DEF BodyAsConditioned
<1> QED
  BY <1>1, RepliedInvariant, PTL

----------------------------------------------------------------------------
\* ClientCopy: the inductive invariant, on top of that of the file server.

\* Everyone asks for the file itself, so that is all that is read and cached.
PageOnly ==
    /\ \A c \in Conns :
        pc[c] # "idle" => req[c].path = Page /\ ~req[c].gzip /\ src[c] = Page
    /\ store[Page] # NotCached => store[Page].src = Page

CopyType ==
    /\ copy.label \in Date
    /\ copy.total \in U64
    /\ copy.len \in Nat
    /\ copy.vers \subseteq Nat
    /\ hit \in BOOLEAN

(***************************************************************************)
(* The copy is from before n: so are its bytes, and it is labelled and     *)
(* measured by some version w up to that of n.                             *)
(***************************************************************************)
Before(n) ==
    /\ \A v \in copy.vers : v <= n.ver
    /\ copy.label # NoDate =>
        \E w \in 0 .. n.ver :
            copy.label = LastModified(w) /\ (w = n.ver => copy.total = n.len)

\* The headers of Download, Resume and Revalidate, for the copy there is.
ResumeHeaders ==
    [Unconditional EXCEPT !.range = From(copy.len), !.if_range = IfRangeDate(copy.label)]
RevalidateHeaders == [Unconditional EXCEPT !.if_modified_since = copy.label]

AskedInv ==
    pc[Client] # "idle" =>
        /\ req[Client].method = "GET"
        /\ \/ req[Client].h = Unconditional
           \/ req[Client].h = ResumeHeaders /\ copy.len < copy.total
           \/ req[Client].h = RevalidateHeaders /\ copy.len = copy.total

(***************************************************************************)
(* The head of the client's response is made from metadata no newer than   *)
(* the file, and no older than the copy unless it came from memory.        *)
(***************************************************************************)
FromPage ==
    /\ resp[Client].head =
        response_body(req[Client].h, meta[Client].len, LastModified(meta[Client].ver))
    /\ NoNewer(meta[Client], disk[Page])
    /\ \A v \in buf[Client].vers : v <= disk[Page].ver
    /\ hit \/ Before(meta[Client])

AnsweredInv ==
    /\ pc[Client] = "open" => hit \/ Before(meta[Client])
    /\ pc[Client] \in {"stream", "done"} =>
        resp[Client].head = Bodiless(404) \/ FromPage

\* The client's part of the invariant, and the whole.
ClientInv == CopyType /\ AskedInv /\ AnsweredInv /\ Before(disk[Page]) /\ CopyNotOlder

CopyInv == PageOnly /\ ClientInv

----------------------------------------------------------------------------
\* Dates and response heads.

\* A Reply without an encoding keeps the head it is given.
LEMMA ReplyHead == \A x : Reply(x, FALSE).head = x
BY DEF Reply

(***************************************************************************)
(* LastModified::from keeps the order of modification times: the epoch,    *)
(* which counts as unknown, comes before every date.                       *)
(***************************************************************************)
LEMMA LastModifiedMonotone ==
    ASSUME NEW a \in Nat, NEW b \in Nat, a <= b
    PROVE  LastModified(a) <= LastModified(b)
<1> DEFINE T == TicksPerSecond
           p == a \div T
           q == b \div T
<1>1. T \in Nat /\ T > 0
  BY TicksPerSecondAssumption
<1>2. p \in Nat /\ q \in Nat
  BY <1>1
<1>3. T * p <= a /\ b < T * (q + 1)
  BY <1>1
<1> HIDE DEF T, p, q
<1>4. p <= q
  <2> SUFFICES ASSUME q + 1 <= p PROVE FALSE
    BY <1>2
  <2>1. T * (q + 1) <= T * p
    BY <1>1, <1>2, SMTT(40)
  <2> QED
    BY <1>1, <1>2, <1>3, <2>1, SMTT(40)
<1> QED
  BY <1>2, <1>4 DEF LastModified, NoDate, p, q, T

(***************************************************************************)
(* What the status of a head made by response_body says of the request and *)
(* of the file it was made for.                                            *)
(***************************************************************************)
LEMMA HeadMeans ==
    ASSUME NEW h \in ConditionalHeaders, NEW len \in U64, NEW lm \in Int,
           NEW head, head = response_body(h, len, lm)
    PROVE  /\ head.status \in {200, 206, 304, 412, 416}
           /\ HasBody(head) => head.last_modified = lm
           /\ head.status = 200 => head.end = len
           /\ head.status = 206 =>
                /\ h.range.present /\ ~RangeVoid(h, lm)
                /\ bytes_range(h.range, len).ok
                /\ head.end = bytes_range(h.range, len).end
           /\ head.status = 304 => NotModified(h, lm)
<1> DEFINE c == check(h, lm)
           b == bytes_range(c.range, len)
<1>1. /\ c.range \in {NoRange, h.range} /\ c.range \in RangeHeader
      /\ ~c.body => c.status \in {304, 412}
      /\ ~c.body /\ c.status = 304 => NotModified(h, lm)
      /\ c.body => c.range = NoRange \/ ~RangeVoid(h, lm)
  BY SMTT(40) DEF check, NoBody, WithBody, NoRange, RangeHeader, ConditionalHeaders
<1> HIDE DEF c
<1>2. b.start \in Nat /\ b.end \in Nat /\ len \in Nat /\ (b.ok => b.end <= len)
  BY <1>1, RangeBounded, MaxU64Assumption DEF U64
<1>3. ~c.range.present => b = Ok(0, len)
  BY Zenon DEF bytes_range
<1>4. ~NoRange.present
  BY Zenon DEF NoRange
<1>5. head = IF ~c.body THEN Bodiless(c.status)
             ELSE IF ~b.ok THEN Bodiless(416)
             ELSE BodyResponse(b, len, lm)
  BY ZenonT(40) DEF response_body, c
<1> HIDE DEF b
<1>6. CASE ~c.body
  <2>1. head = Bodiless(c.status)
    BY <1>5, <1>6, Zenon
  <2>2. head.status = c.status
    BY <2>1, SMTT(20) DEF Bodiless
  <2>3. head.status \in {304, 412}
    BY <1>1, <1>6, <2>2
  <2>4. head.status = 304 => NotModified(h, lm)
    BY <1>1, <1>6, <2>2, SMTT(40)
  <2> QED
    BY <2>3, <2>4 DEF HasBody
<1>7. CASE c.body /\ ~b.ok
  <2>1. head = Bodiless(416)
    BY <1>5, <1>7, Zenon
  <2>2. head.status = 416
    BY <2>1, SMTT(20) DEF Bodiless
  <2> QED
    BY <2>2 DEF HasBody
<1>8. CASE c.body /\ b.ok
  <2>1. head = BodyResponse(b, len, lm)
    BY <1>5, <1>8, Zenon
  <2>2. /\ head.status \in {200, 206} /\ head.last_modified = lm
        /\ head.status = 200 => head.end = len
        /\ head.status = 206 => b.end - b.start # len
        /\ head.end = b.end
    BY <1>2, <1>8, <2>1 DEF BodyResponse
  <2>3. head.status = 206 => c.range.present
    BY <1>2, <1>3, <2>2, SMTT(40) DEF Ok
  <2> QED
    BY <1>1, <1>4, <1>8, <2>2, <2>3 DEF HasBody, b
<1> QED
  BY <1>6, <1>7, <1>8, ZenonT(40)

\* "bytes=from-" runs to the end of the file.
LEMMA FromRange ==
    ASSUME NEW from \in U64, NEW len \in U64, bytes_range(From(from), len).ok
    PROVE  bytes_range(From(from), len).end = len
<1> DEFINE r == [start |-> Included(from), end |-> Unbounded]
<1>1. From(from).present /\ From(from).specs = <<r>>
  BY ZenonT(40) DEF From
<1> HIDE DEF r
<1>2. From(from).specs # << >> /\ Head(From(from).specs) = r
  BY <1>1
<1>3. r.start.bounded /\ ~r.end.bounded /\ r.start.at = from
  BY Zenon DEF r, Included, Unbounded
<1>4. bytes_range(From(from), len) = Clamp(Interval(r, len), len)
  BY <1>1, <1>2, <1>3, Zenon DEF bytes_range, Reversed, BadRangeError
<1> QED
  BY <1>3, <1>4, MaxU64Assumption DEF Interval, Clamp, Ok, BadRangeError, U64

----------------------------------------------------------------------------
\* The steps of the composition are steps of the file server.

\* What Download, Resume and Revalidate send is a request.
LEMMA GetType ==
    ASSUME CopyType
    PROVE  /\ Get(Unconditional) \in Request
           /\ copy.len < copy.total => Get(ResumeHeaders) \in Request
           /\ Get(RevalidateHeaders) \in Request
<1> USE MaxU64Assumption
<1>1. Unconditional \in ConditionalHeaders
  BY DEF Unconditional, ConditionalHeaders, Date, NoIfRange, IfRange, NoRange, RangeHeader
<1>2. RevalidateHeaders \in ConditionalHeaders
  BY <1>1, Zenon DEF RevalidateHeaders, ConditionalHeaders, CopyType
<1>3. ASSUME copy.len < copy.total PROVE ResumeHeaders \in ConditionalHeaders
  <2>1. copy.len \in U64
    BY <1>3 DEF CopyType, U64
  <2>2. [start |-> Included(copy.len), end |-> Unbounded] \in RangeSpec
    BY <2>1, Zenon DEF RangeSpec, Bound
  <2>3. From(copy.len) \in RangeHeader
    BY <2>2 DEF From, RangeHeader
  <2>4. IfRangeDate(copy.label) \in IfRange
    BY Zenon DEF IfRangeDate, IfRange, CopyType
  <2> QED
    BY <1>1, <2>3, <2>4, Zenon DEF ResumeHeaders, ConditionalHeaders
<1>4. ASSUME NEW h \in ConditionalHeaders PROVE Get(h) \in Request
  BY ClientAssumption, Zenon DEF Get, Request, Methods
<1> QED
  BY <1>1, <1>2, <1>3, <1>4, Zenon

\* Every step of the composition is one of the file server, or leaves it alone.
LEMMA IsFileServerStep ==
    ASSUME CopyType, [CNext]_cvars
    PROVE  [AnyNext]_vars
<1>1. CASE Download
  BY <1>1, GetType, ClientAssumption, Zenon DEF Download, AnyNext
<1>2. CASE Resume
  BY <1>2, GetType, ClientAssumption, Zenon DEF Resume, AnyNext, ResumeHeaders
<1>3. CASE Revalidate
  BY <1>3, GetType, ClientAssumption, Zenon DEF Revalidate, AnyNext, RevalidateHeaders
<1>4. CASE Take
  BY <1>4, ClientAssumption, Zenon DEF Take, AnyNext, Next, Serve
<1>5. CASE Work
  BY <1>5, ClientAssumption, Zenon DEF Work, AnyNext, Next, Serve
<1>6. CASE Others
  BY <1>6, GetType, Zenon DEF Others, AnyNext, Next
<1>7. CASE Environment
  BY <1>7, Zenon DEF AnyNext, Next
<1>8. CASE UNCHANGED cvars
  BY <1>8, Zenon DEF cvars
<1> QED
  BY <1>1, <1>2, <1>3, <1>4, <1>5, <1>6, <1>7, <1>8 DEF CNext

----------------------------------------------------------------------------
\* Only the page is read and cached.

\* The requests of the other connections, and what they read, stay.
Elsewhere(c) ==
    \A d \in Conns : d # c => pc'[d] = pc[d] /\ req'[d] = req[d] /\ src'[d] = src[d]

\* A step that leaves the cache alone and changes one request at most.
LEMMA PageOnlyOne ==
    ASSUME TypeOK, PageOnly, NEW c \in Conns, Elsewhere(c), store' = store,
           pc'[c] # "idle" => req'[c].path = Page /\ ~req'[c].gzip /\ src'[c] = Page
    PROVE  PageOnly'
BY Zenon DEF PageOnly, Elsewhere

\* A request for the page comes in.
LEMMA PageOnlyReceive ==
    ASSUME TypeOK, PageOnly, NEW c \in Conns, NEW h, Receive(c, Get(h))
    PROVE  PageOnly'
<1>1. /\ pc' = [pc EXCEPT ![c] = IF MemoryCache THEN "lookup" ELSE "stat"]
      /\ req' = [req EXCEPT ![c] = Get(h)] /\ src' = [src EXCEPT ![c] = Get(h).path]
      /\ store' = store
  BY Zenon DEF Receive, Goto, cacheVars
<1>2. Get(h).path = Page /\ ~Get(h).gzip
  BY Zenon DEF Get
<1>3. req'[c] = Get(h) /\ src'[c] = Get(h).path /\ Elsewhere(c)
  BY <1>1, Zenon DEF TypeOK, Elsewhere
<1> QED
  BY <1>1, <1>2, <1>3, PageOnlyOne, Zenon

\* The steps of a request read the page and cache what they read.
LEMMA PageOnlyWork ==
    ASSUME TypeOK, PageOnly, NEW c \in Conns,
           Step(c) \/ AcquirePermit(c) \/ Finish(c) \/ Abort(c)
    PROVE  PageOnly'
<1>1. /\ pc[c] # "idle" => req[c].path = Page /\ ~req[c].gzip /\ src[c] = Page
      /\ store[Page] # NotCached => store[Page].src = Page
  BY Zenon DEF PageOnly
<1>2. CASE Hit(c)
  <2>1. /\ pc[c] = "lookup" /\ store[req[c].path] # NotCached
        /\ pc' = [pc EXCEPT ![c] = "done"]
        /\ src' = [src EXCEPT ![c] = store[req[c].path].src]
        /\ req' = req /\ store' = store
    BY <1>2, Zenon DEF Hit, Goto, cacheVars
  <2>2. pc[c] # "idle"
    BY <2>1, Zenon
  <2>3. Elsewhere(c) /\ src'[c] = store[Page].src /\ store[Page] # NotCached
    BY <1>1, <2>1, <2>2, Zenon DEF TypeOK, Elsewhere
  <2> QED
    BY <1>1, <2>1, <2>2, <2>3, PageOnlyOne, Zenon
<1>3. ASSUME NEW from \in PCs \ {"idle"}, NEW to, Goto(c, from, to),
             UNCHANGED <<store, req, src>>
      PROVE  PageOnly'
  <2>1. pc[c] # "idle" /\ Elsewhere(c)
    BY <1>3, Zenon DEF Goto, TypeOK, Elsewhere
  <2> QED
    BY <1>1, <1>3, <2>1, PageOnlyOne, Zenon
<1>4. {"lookup", "acquire", "release", "stat", "open", "stream"} \subseteq PCs \ {"idle"}
  BY Zenon DEF PCs
<1>5. ASSUME NEW from \in {"stat", "open"}, NEW status, Answer(c, from, status)
      PROVE  PageOnly'
  BY <1>3, <1>4, <1>5, Zenon DEF Answer, cacheVars
<1>6. CASE Miss(c) \/ AcquirePermit(c) \/ DropPermit(c) \/ PollEnd(c)
  BY <1>3, <1>4, <1>6, Zenon DEF Miss, AcquirePermit, DropPermit, PollEnd, cacheVars
<1>7. CASE Stat(c)
  <2> SUFFICES ASSUME /\ Goto(c, "stat", "open")
                      /\ src' = [src EXCEPT ![c] = Source(c)]
                      /\ UNCHANGED <<envVars, cacheVars, bodyVars, req, resp>>
               PROVE  PageOnly'
    BY <1>5, <1>7, Zenon DEF Stat
  <2>1. pc[c] # "idle" /\ Elsewhere(c) /\ req' = req /\ store' = store
    BY Zenon DEF Goto, TypeOK, Elsewhere, cacheVars
  <2>2. Source(c) = Page /\ src'[c] = Source(c)
    BY <1>1, <2>1, Zenon DEF Source, UseVariant, TypeOK
  <2> QED
    BY <1>1, <2>1, <2>2, PageOnlyOne, Zenon
<1>8. CASE Open(c)
  <2> SUFFICES ASSUME NEW to, Goto(c, "open", to),
                      UNCHANGED <<envVars, cacheVars, ahead, req, src, meta>>
               PROVE  PageOnly'
    BY <1>5, <1>8, ZenonT(40) DEF Open
  <2> QED
    BY <1>3, <1>4, Zenon DEF cacheVars
<1>9. CASE PollBuffered(c) \/ PollRead(c)
  <2>1. \E n, ver : Deliver(c, n, ver)
    BY <1>9, Zenon DEF PollBuffered, PollRead
  <2>2. pc[c] = "stream" /\ pc' = pc /\ req' = req /\ src' = src
    BY <1>9, Zenon DEF PollBuffered, PollRead, taskVars
  <2>3. \/ store' = store
        \/ \E bytes : store' = [store EXCEPT ![req[c].path] = MemFileOf(c, bytes)]
    BY <2>1, Zenon DEF Deliver
  <2>4. ASSUME NEW bytes PROVE MemFileOf(c, bytes).src = src[c]
    BY Zenon DEF MemFileOf
  <2>5. pc[c] # "idle"
    BY <2>2, Zenon
  <2>6. store'[Page] # NotCached => store'[Page].src = Page
    BY <1>1, <2>3, <2>4, <2>5, ClientAssumption, ZenonT(40) DEF TypeOK
  <2> QED
    BY <2>2, <2>6, Zenon DEF PageOnly
<1>10. CASE DropTask(c)
  <2>1. pc'[c] = "idle" /\ store' = store /\ Elsewhere(c)
    BY <1>10, Zenon DEF DropTask, TypeOK, Elsewhere, cacheVars
  <2> QED
    BY <2>1, PageOnlyOne, Zenon
<1> QED
  BY <1>2, <1>6, <1>7, <1>8, <1>9, <1>10, Zenon DEF Step, Finish, Abort

----------------------------------------------------------------------------
\* Steps that leave the client alone.

\* The page stays as it is, or gets a version it never had.
Later ==
    \/ disk'[Page].ver = disk[Page].ver /\ disk'[Page].len = disk[Page].len
    \/ disk'[Page].ver > disk[Page].ver

\* What was no newer than the page is no newer than the page as it is now.
LEMMA LaterDisk ==
    ASSUME CopyType, Later, disk[Page].ver \in Nat, disk'[Page].ver \in Nat
    PROVE  /\ Before(disk[Page]) => Before(disk'[Page])
           /\ \A m : m.ver \in Nat /\ NoNewer(m, disk[Page]) => NoNewer(m, disk'[Page])
           /\ \A v \in Nat : v <= disk[Page].ver => v <= disk'[Page].ver
<1> DEFINE d == disk[Page]
           e == disk'[Page]
<1>1. (e.ver = d.ver /\ e.len = d.len) \/ e.ver > d.ver
  BY Zenon DEF Later
<1>2. d.ver \in Nat /\ e.ver \in Nat
  OBVIOUS
<1> HIDE DEF d, e
<1>3. \A v \in Nat : v <= d.ver => v <= e.ver
  BY <1>1, <1>2
<1>4. \A m : m.ver \in Nat /\ NoNewer(m, d) => NoNewer(m, e)
  BY <1>1, <1>2 DEF NoNewer
<1>5. ASSUME Before(d) PROVE Before(e)
  <2>1. \A v \in copy.vers : v <= e.ver
    BY <1>3, <1>5, Zenon DEF Before, CopyType
  <2>2. ASSUME copy.label # NoDate
        PROVE  \E w \in 0 .. e.ver :
                 copy.label = LastModified(w) /\ (w = e.ver => copy.total = e.len)
    <3>1. PICK w \in 0 .. d.ver :
            copy.label = LastModified(w) /\ (w = d.ver => copy.total = d.len)
      BY <1>5, <2>2, Zenon DEF Before
    <3>2. w \in 0 .. e.ver /\ (w = e.ver => copy.total = e.len)
      BY <1>1, <1>2, <3>1
    <3> QED
      BY <3>1, <3>2, Zenon
  <2> QED
    BY <2>1, <2>2, Zenon DEF Before
<1> QED
  BY <1>3, <1>4, <1>5, Zenon DEF d, e

\* The client's part survives whatever does not touch its connection.
LEMMA ClientAlone ==
    ASSUME TypeOK, TypeOK', ClientInv, Later, UNCHANGED <<copy, hit>>,
           pc'[Client] = pc[Client], req'[Client] = req[Client],
           meta'[Client] = meta[Client], resp'[Client] = resp[Client],
           buf'[Client] = buf[Client]
    PROVE  ClientInv'
<1>1. /\ disk[Page].ver \in Nat /\ disk'[Page].ver \in Nat /\ meta[Client].ver \in Nat
      /\ buf[Client].vers \subseteq Nat
  BY ClientAssumption, FilesAssumption DEF TypeOK, File, Meta, Bytes
<1>2. /\ Before(disk[Page]) => Before(disk'[Page])
      /\ \A m : m.ver \in Nat /\ NoNewer(m, disk[Page]) => NoNewer(m, disk'[Page])
      /\ \A v \in Nat : v <= disk[Page].ver => v <= disk'[Page].ver
  BY <1>1, LaterDisk, Zenon DEF ClientInv
<1>3. CopyType' /\ CopyNotOlder' /\ AskedInv'
  BY Zenon DEF ClientInv, CopyType, CopyNotOlder, AskedInv, ResumeHeaders, RevalidateHeaders
<1>5. Before(disk[Page])'
  BY <1>2, Zenon DEF ClientInv, Before
<1>6. AnsweredInv'
  <2>1. pc'[Client] = "open" => hit' \/ Before(meta[Client])'
    BY Zenon DEF ClientInv, AnsweredInv, Before
  <2>2. ASSUME FromPage PROVE FromPage'
    <3>1. resp'[Client].head = response_body(req'[Client].h, meta'[Client].len,
                                             LastModified(meta'[Client].ver))
      BY <2>2, Zenon DEF FromPage
    <3>2. NoNewer(meta'[Client], disk'[Page])
      BY <1>1, <1>2, <2>2, Zenon DEF FromPage
    <3>3. \A v \in buf'[Client].vers : v <= disk'[Page].ver
      BY <1>1, <1>2, <2>2, Zenon DEF FromPage
    <3>4. hit' \/ Before(meta[Client])'
      BY <2>2, Zenon DEF FromPage, Before
    <3> QED
      BY <3>1, <3>2, <3>3, <3>4, Zenon DEF FromPage, NoNewer
  <2> QED
    BY <2>1, <2>2, ZenonT(40) DEF ClientInv, AnsweredInv
<1> QED
  BY <1>3, <1>5, <1>6, Zenon DEF ClientInv

----------------------------------------------------------------------------
\* Steps of the client.

\* The client asks, with the headers its copy gives it.
LEMMA ClientAsks ==
    ASSUME TypeOK, ClientInv, Download \/ Resume \/ Revalidate
    PROVE  ClientInv'
<1>1. PICK h : /\ Receive(Client, Get(h))
               /\ UNCHANGED <<copy, hit>>
               /\ \/ h = Unconditional
                  \/ h = ResumeHeaders /\ copy.len < copy.total
                  \/ h = RevalidateHeaders /\ copy.len = copy.total
  BY Zenon DEF Download, Resume, Revalidate, ResumeHeaders, RevalidateHeaders
<1>2. /\ pc' = [pc EXCEPT ![Client] = IF MemoryCache THEN "lookup" ELSE "stat"]
      /\ req' = [req EXCEPT ![Client] = Get(h)] /\ disk' = disk
  BY <1>1, Zenon DEF Receive, Goto, envVars
<1>3. pc'[Client] \in {"lookup", "stat"} /\ req'[Client] = Get(h)
  BY <1>2, ClientAssumption, Zenon DEF TypeOK
<1>4. Get(h).method = "GET" /\ Get(h).h = h
  BY Zenon DEF Get
<1>5. AskedInv'
  BY <1>1, <1>3, <1>4, Zenon DEF AskedInv, ResumeHeaders, RevalidateHeaders
<1>6. AnsweredInv'
  BY <1>3 DEF AnsweredInv
<1>7. CopyType' /\ CopyNotOlder' /\ Before(disk[Page])'
  BY <1>1, <1>2, Zenon DEF ClientInv, CopyType, CopyNotOlder, Before
<1> QED
  BY <1>5, <1>6, <1>7, Zenon DEF ClientInv

(***************************************************************************)
(* A step of the server for the client: what remains to be shown is where  *)
(* the head of the response, if there is one by then, comes from.          *)
(***************************************************************************)
LEMMA ClientServed ==
    ASSUME TypeOK, ClientInv, pc[Client] # "idle", hit' = (hit \/ Hit(Client)),
           req' = req, UNCHANGED <<copy, disk>>, AnsweredInv'
    PROVE  ClientInv'
<1>1. hit' \in BOOLEAN
  OBVIOUS
<1>2. CopyType'
  BY <1>1, Zenon DEF ClientInv, CopyType
<1>3. AskedInv'
  BY Zenon DEF ClientInv, AskedInv, ResumeHeaders, RevalidateHeaders
<1>4. CopyNotOlder' /\ Before(disk[Page])'
  BY Zenon DEF ClientInv, CopyNotOlder, Before
<1> QED
  BY <1>2, <1>3, <1>4, Zenon DEF ClientInv

\* The server works on the client's request.
LEMMA ClientWork ==
    ASSUME TypeOK, Inv, Inv', TypeOK', PageOnly, PageOnly', ClientInv, Work
    PROVE  ClientInv'
<1> USE ClientAssumption
<1>0. /\ pc \in [Conns -> PCs] /\ resp \in [Conns -> Response]
      /\ meta \in [Conns -> Meta] /\ buf \in [Conns -> Bytes]
  BY Zenon DEF TypeOK
<1>1. /\ Step(Client) \/ AcquirePermit(Client)
      /\ hit' = (hit \/ Hit(Client)) /\ copy' = copy
  BY Zenon DEF Work
<1>2. pc[Client] # "idle" /\ req' = req /\ disk' = disk
  <2>1. CASE Hit(Client) \/ Miss(Client) \/ DropPermit(Client) \/ AcquirePermit(Client)
    BY <2>1, Zenon DEF Hit, Miss, DropPermit, AcquirePermit, Goto, envVars
  <2>2. CASE Stat(Client) \/ Open(Client) \/ PollEnd(Client)
    BY <2>2, Zenon DEF Stat, Open, PollEnd, Answer, Goto, envVars
  <2>3. CASE PollBuffered(Client) \/ PollRead(Client)
    BY <2>3, Zenon DEF PollBuffered, PollRead, envVars, taskVars
  <2> QED
    BY <1>1, <2>1, <2>2, <2>3, Zenon DEF Step
<1>3. /\ req[Client].path = Page /\ ~req[Client].gzip /\ src[Client] = Page
      /\ req[Client].method = "GET"
  BY <1>2, Zenon DEF PageOnly, ClientInv, AskedInv
\* Where the head does not come from memory the copy is older, as before.
<1>4. ASSUME NEW n, hit \/ Before(n) PROVE hit' \/ (Before(n))'
  BY <1>1, <1>4, Zenon DEF Before
<1>5. SUFFICES AnsweredInv'
  BY <1>1, <1>2, ClientServed, Zenon
<1>6. ASSUME NEW from, Answer(Client, from, 404) PROVE AnsweredInv'
  <2>1. pc'[Client] = "done" /\ resp'[Client] = Reply(Bodiless(404), FALSE)
    BY <1>0, <1>6, Zenon DEF Answer, Goto
  <2>2. resp'[Client].head = Bodiless(404)
    BY <2>1, ReplyHead, Zenon
  <2> QED
    BY <2>1, <2>2, ZenonT(40) DEF AnsweredInv
<1>7. ASSUME NEW to \in {"acquire", "release", "stat"}, pc' = [pc EXCEPT ![Client] = to]
      PROVE  AnsweredInv'
  BY <1>0, <1>7 DEF AnsweredInv
<1>8. CASE Miss(Client) \/ DropPermit(Client) \/ AcquirePermit(Client)
  BY <1>7, <1>8, ZenonT(40) DEF Miss, DropPermit, AcquirePermit, Goto
<1>9. CASE Hit(Client)
  <2> DEFINE e == store[Page]
             head == response_body(req[Client].h, e.len, LastModified(e.ver))
  <2>1. /\ e # NotCached /\ pc'[Client] = "done" /\ meta'[Client] = MetaOf(e)
        /\ resp'[Client] = Reply(head, FALSE)
        /\ buf'[Client] = IF HasBody(head)
                          THEN [from |-> head.start, len |-> head.end - head.start,
                                vers |-> e.vers]
                          ELSE NoBytes
    BY <1>0, <1>3, <1>9, Zenon DEF Hit, Goto
  <2>2. NoNewer(e, disk[e.src]) /\ \A v \in e.vers : v <= disk[e.src].ver
    BY <2>1, Zenon DEF Inv, EntryInv
  <2>3. e.src = Page
    BY <2>1, Zenon DEF PageOnly
  <2>4. hit'
    BY <1>1, <1>9, ZenonT(40)
  <2> HIDE DEF e, head
  <2>5. meta'[Client].len = e.len /\ meta'[Client].ver = e.ver
    BY <2>1, MetaFields, Zenon
  <2>6. resp'[Client].head = head /\ buf'[Client].vers \subseteq e.vers
    BY <2>1 DEF Reply, NoBytes
  <2>7. resp'[Client].head = response_body(req'[Client].h, meta'[Client].len,
                                           LastModified(meta'[Client].ver))
    BY <1>2, <2>5, <2>6, Zenon DEF head
  <2>8. NoNewer(meta'[Client], disk'[Page])
    BY <1>2, <2>2, <2>3, <2>5, Zenon DEF NoNewer
  <2>9. \A v \in buf'[Client].vers : v <= disk'[Page].ver
    BY <1>2, <2>2, <2>3, <2>6, Zenon
  <2>10. FromPage'
    BY <2>4, <2>7, <2>8, <2>9, Zenon DEF FromPage, NoNewer
  <2> QED
    BY <2>1, <2>10, Zenon DEF AnsweredInv
<1>10. CASE Stat(Client)
  <2>1. Source(Client) = Page
    BY <1>3, Zenon DEF Source, UseVariant
  <2>2. CASE Answer(Client, "stat", 404)
    BY <1>6, <2>2, Zenon
  <2>3. CASE pc' = [pc EXCEPT ![Client] = "open"] /\ meta' = [meta EXCEPT ![Client] = MetaOf(disk[Page])]
    <3>1. pc'[Client] = "open" /\ meta'[Client] = MetaOf(disk[Page])
      BY <1>0, <2>3, Zenon
    <3>2. MetaOf(disk[Page]).ver = disk[Page].ver /\ MetaOf(disk[Page]).len = disk[Page].len
      BY Zenon DEF MetaOf
    <3>3. Before(MetaOf(disk[Page]))
      BY <3>2, Zenon DEF ClientInv, Before
    <3>4. hit' \/ Before(meta[Client])'
      BY <1>1, <3>1, <3>3, Zenon DEF Before
    <3> QED
      BY <3>1, <3>4 DEF AnsweredInv
  <2> QED
    BY <1>3, <1>10, <2>1, <2>2, <2>3, Zenon DEF Stat, Goto
<1>11. CASE Open(Client)
  <2> DEFINE head == response_body(req[Client].h, meta[Client].len,
                                   LastModified(meta[Client].ver))
  <2>1. CASE Answer(Client, "open", 404)
    BY <1>6, <2>1, ZenonT(40)
  <2>2. CASE ~Answer(Client, "open", 404)
    <3>1. /\ pc[Client] = "open" /\ meta' = meta
          /\ resp' = [resp EXCEPT ![Client] = Reply(head, src[Client] # req[Client].path)]
          /\ buf' = [buf EXCEPT ![Client] = [from |-> head.start, len |-> 0, vers |-> {}]]
          /\ pc' = [pc EXCEPT ![Client] =
                        IF HasBody(head) /\ req[Client].method = "GET"
                        THEN "stream" ELSE "done"]
      BY <1>11, <2>2, ZenonT(40) DEF Open, Goto
    <3> HIDE DEF head
    <3>2. /\ resp'[Client] = Reply(head, src[Client] # req[Client].path)
          /\ buf'[Client] = [from |-> head.start, len |-> 0, vers |-> {}]
          /\ pc'[Client] \in {"stream", "done"}
      BY <1>0, <3>1, Zenon
    <3>3. resp'[Client].head = head /\ buf'[Client].vers = {}
      BY <3>2, SMTT(40) DEF Reply
    <3>4. NoNewer(meta[Client], disk[Page])
      BY <1>3, <3>1, Zenon DEF Inv, ConnInv, OrderInv
    <3>5. hit' \/ Before(meta[Client])'
      BY <1>1, <3>1, Zenon DEF ClientInv, AnsweredInv, Before
    <3>6. FromPage'
      BY <1>2, <3>1, <3>3, <3>4, <3>5, ZenonT(40) DEF FromPage, NoNewer, head
    <3> QED
      BY <3>2, <3>6 DEF AnsweredInv
  <2> QED
    BY <2>1, <2>2, Zenon
<1>12. ASSUME pc[Client] = "stream", pc'[Client] \in {"stream", "done"},
              UNCHANGED <<meta, resp>>,
              \A v \in buf'[Client].vers : v <= disk[Page].ver
       PROVE  AnsweredInv'
  <2>1. resp[Client].head = Bodiless(404) \/ FromPage
    BY <1>12, Zenon DEF ClientInv, AnsweredInv
  <2>2. FromPage => hit' \/ Before(meta[Client])'
    BY <1>1, <1>12, Zenon DEF FromPage, Before
  <2>3. FromPage => FromPage'
    BY <1>2, <1>12, <2>2, Zenon DEF FromPage, NoNewer
  <2> QED
    BY <1>12, <2>1, <2>3 DEF AnsweredInv
<1>13. CASE PollEnd(Client)
  <2>1. /\ pc[Client] = "stream" /\ pc'[Client] = "done" /\ UNCHANGED <<meta, resp, buf, fd>>
    BY <1>0, <1>13, Zenon DEF PollEnd, Goto, bodyVars
  <2>2. \A v \in buf[Client].vers : v <= fd[Client].ver /\ fd[Client].ver <= disk[Page].ver
    BY <1>3, <2>1, Zenon DEF Inv, ConnInv, StreamInv, NoNewer
  <2>3. buf[Client].vers \subseteq Nat /\ fd[Client].ver \in Nat /\ disk[Page].ver \in Nat
    BY <1>3, ConnTypes, Zenon
  <2>4. \A v \in buf[Client].vers : v <= disk[Page].ver
    BY <2>2, <2>3
  <2> QED
    BY <1>12, <2>1, <2>4, Zenon
<1>14. CASE PollBuffered(Client) \/ PollRead(Client)
  <2>1. /\ pc[Client] = "stream" /\ UNCHANGED <<pc, meta, resp, src>>
    BY <1>14, Zenon DEF PollBuffered, PollRead, taskVars
  <2>2. \A v \in buf'[Client].vers : v <= fd'[Client].ver /\ fd'[Client].ver <= disk[Page].ver
    BY <1>2, <1>3, <2>1, Zenon DEF Inv, ConnInv, StreamInv, NoNewer
  <2>3. buf'[Client].vers \subseteq Nat /\ fd'[Client].ver \in Nat /\ disk[Page].ver \in Nat
    BY <1>2, FilesAssumption, Zenon DEF TypeOK, Bytes, Meta, File
  <2>4. \A v \in buf'[Client].vers : v <= disk[Page].ver
    BY <2>2, <2>3
  <2> QED
    BY <1>12, <2>1, <2>4, Zenon
<1> QED
  BY <1>1, <1>8, <1>9, <1>10, <1>11, <1>13, <1>14, Zenon DEF Step

\* A copy labelled by the metadata of a response, and measured by it.
LEMMA Relabelled ==
    ASSUME TypeOK, FromPage, copy'.label = LastModified(meta[Client].ver),
           copy'.total = meta[Client].len,
           copy'.vers \subseteq Nat, \A v \in copy'.vers : v <= disk[Page].ver,
           \A v \in copy'.vers : copy'.label <= LastModified(v),
           copy'.len \in Nat, hit' \in BOOLEAN, disk' = disk
    PROVE  CopyType' /\ Before(disk[Page])' /\ CopyNotOlder'
<1> DEFINE m == meta[Client]
<1>1. m.len \in U64 /\ m.ver \in Nat /\ disk[Page].ver \in Nat
  BY ClientAssumption, FilesAssumption, Zenon DEF TypeOK, Meta, File
<1>2. LastModified(m.ver) \in Date
  BY <1>1, TicksPerSecondAssumption DEF LastModified, Date
<1>3. CopyType'
  BY <1>1, <1>2, Zenon DEF CopyType
<1>4. CopyNotOlder'
  BY ZenonT(40) DEF CopyNotOlder
<1>5. m.ver \in 0 .. disk[Page].ver /\ (m.ver = disk[Page].ver => m.len = disk[Page].len)
  BY <1>1 DEF FromPage, NoNewer
<1>6. Before(disk[Page])'
  BY <1>5, Zenon DEF Before
<1> QED
  BY <1>3, <1>4, <1>6, Zenon

\* A 206 extends the copy it was asked for, and only up to its own label.
LEMMA PartContinues ==
    ASSUME TypeOK, ClientInv, pc[Client] # "idle", FromPage,
           resp[Client].head.status = 206
    PROVE  /\ LastModified(meta[Client].ver) <= copy.label
           /\ resp[Client].head.end = meta[Client].len
<1> DEFINE h == req[Client].h
           len == meta[Client].len
           lm == LastModified(meta[Client].ver)
           head == resp[Client].head
<1>1. h \in ConditionalHeaders /\ len \in U64 /\ lm \in Int
  BY ConnTypes, LastModifiedType, ClientAssumption
<1>2. head = response_body(h, len, lm)
  BY ZenonT(40) DEF FromPage
<1> HIDE DEF lm, head
<1>3. /\ h.range.present /\ ~RangeVoid(h, lm)
      /\ bytes_range(h.range, len).ok
      /\ head.end = bytes_range(h.range, len).end
  BY <1>1, <1>2, HeadMeans DEF head
<1>4. h = ResumeHeaders /\ copy.len < copy.total
  <2>1. ~Unconditional.range.present /\ ~RevalidateHeaders.range.present
    BY Zenon DEF Unconditional, RevalidateHeaders, NoRange
  <2> QED
    BY <1>3, <2>1, Zenon DEF ClientInv, AskedInv
<1>5. h.range = From(copy.len) /\ h.if_range = IfRangeDate(copy.label)
  BY <1>4, SMTT(40) DEF ResumeHeaders, Unconditional
<1>6. copy.len \in U64
  BY <1>4, MaxU64Assumption, SMTT(40) DEF ClientInv, CopyType, U64
<1> HIDE DEF h, len
<1>7. head.end = len
  BY <1>1, <1>3, <1>5, <1>6, FromRange, SMTT(40)
<1>8. lm <= copy.label
  BY <1>1, <1>3, <1>5 DEF RangeVoid, IfRangeIsModified, IfRangeDate, ClientInv, CopyType,
                          Date, NoDate
<1> QED
  BY <1>7, <1>8, Zenon DEF lm, head, len

\* The client takes what it got: a whole file, a part, or word of its copy.
LEMMA ClientTake ==
    ASSUME TypeOK, Inv, ClientInv, Take
    PROVE  ClientInv'
<1> DEFINE m == meta[Client]
           head == resp[Client].head
           got == buf[Client]
<1>1. /\ pc[Client] \in {"acquire", "stream", "done"} /\ DropTask(Client)
      /\ copy' = Received /\ hit' = FALSE
  BY Zenon DEF Take, Finish, Abort
<1>2. pc'[Client] = "idle" /\ disk' = disk
  BY <1>1, ClientAssumption, Zenon DEF DropTask, TypeOK, envVars
<1>3. AskedInv' /\ AnsweredInv'
  BY <1>2, Zenon DEF AskedInv, AnsweredInv
<1>4. SUFFICES CopyType' /\ Before(disk[Page])' /\ CopyNotOlder'
  BY <1>3, ZenonT(40) DEF ClientInv
<1>5. /\ m.len \in U64 /\ m.ver \in Nat /\ got.len \in Nat /\ got.vers \subseteq Nat
      /\ req[Client].h \in ConditionalHeaders /\ LastModified(m.ver) \in Int
      /\ disk[Page].ver \in Nat
  BY ConnTypes, LastModifiedType, ClientAssumption, FilesAssumption, Zenon DEF TypeOK, File
<1>6. ASSUME HasBody(head) PROVE FromPage
  <2>1. ~HasBody(NoReply.head) /\ ~HasBody(Bodiless(404))
    BY DEF HasBody, Bodiless, NoReply, Reply
  <2>2. CASE pc[Client] = "acquire"
    <3>1. pc[Client] \notin {"stream", "done"}
      BY <2>2, Zenon
    <3>2. resp[Client] = NoReply
      BY <3>1, ClientAssumption, Zenon DEF Inv, ConnInv, QuietInv
    <3> QED
      BY <1>6, <2>1, <3>2, Zenon
  <2>3. CASE pc[Client] \in {"stream", "done"}
    BY <1>6, <2>1, <2>3, ZenonT(40) DEF ClientInv, AnsweredInv
  <2> QED
    BY <1>1, <2>2, <2>3, Zenon
<1>7. ASSUME FromPage
      PROVE  /\ HasBody(head) => head.last_modified = LastModified(m.ver)
             /\ head.status = 200 => head.end = m.len
             /\ head.status = 206 =>
                    head.end = m.len /\ LastModified(m.ver) <= copy.label
             /\ \A v \in got.vers : v <= disk[Page].ver
             /\ \A v \in got.vers : LastModified(m.ver) <= LastModified(v)
  <2>1. head = response_body(req[Client].h, m.len, LastModified(m.ver))
    BY <1>7, ZenonT(40) DEF FromPage
  <2>2. /\ HasBody(head) => head.last_modified = LastModified(m.ver)
        /\ head.status = 200 => head.end = m.len
    <3> HIDE DEF m, head
    <3> QED
      BY <1>5, <2>1, HeadMeans
  <2>3. pc[Client] # "idle"
    BY <1>1, Zenon
  <2>4. head.status = 206 => head.end = m.len /\ LastModified(m.ver) <= copy.label
    BY <1>7, <2>3, PartContinues, Zenon
  <2>5. \A v \in got.vers : m.ver <= v
    BY ClientAssumption, Zenon DEF Inv, ConnInv, OrderInv
  <2>6. \A v \in got.vers : LastModified(m.ver) <= LastModified(v)
    BY <1>5, <2>5, LastModifiedMonotone, Zenon
  <2> QED
    BY <1>7, <2>2, <2>4, <2>6, Zenon DEF FromPage
<1> HIDE DEF m, head, got
<1>8. CASE head.status = 200
  <2>1. HasBody(head)
    BY <1>8, Zenon DEF HasBody
  <2>2. copy' = [label |-> head.last_modified, total |-> head.end,
                 len |-> got.len, vers |-> got.vers]
    BY <1>1, <1>8 DEF Received, head, got
  <2>3. /\ copy'.label = LastModified(m.ver) /\ copy'.total = m.len
        /\ copy'.len = got.len /\ copy'.vers = got.vers
    BY <1>6, <1>7, <1>8, <2>1, <2>2, Zenon
  <2> QED
    BY <1>1, <1>2, <1>5, <1>6, <1>7, <2>1, <2>3, Relabelled, Zenon DEF m
<1>9. CASE head.status = 206
  <2>1. HasBody(head) /\ FromPage
    BY <1>6, <1>9 DEF HasBody
  <2>2. copy' = [label |-> head.last_modified, total |-> head.end,
                 len |-> copy.len + got.len, vers |-> copy.vers \cup got.vers]
    BY <1>1, <1>9 DEF Received, head, got
  <2>3. /\ copy'.label = LastModified(m.ver) /\ copy'.total = m.len
        /\ copy'.len = copy.len + got.len /\ copy'.vers = copy.vers \cup got.vers
    BY <1>7, <1>9, <2>1, <2>2, Zenon
  <2>4. /\ copy.len \in Nat /\ copy.vers \subseteq Nat /\ copy.label \in Int
        /\ \A v \in copy.vers : v <= disk[Page].ver
        /\ \A v \in copy.vers : copy.label <= LastModified(v)
    BY SMTT(40) DEF ClientInv, CopyType, Before, CopyNotOlder, Date, NoDate
  <2>5. copy'.len \in Nat /\ copy'.vers \subseteq Nat
    BY <1>5, <2>3, <2>4
  <2>6. \A v \in copy'.vers : v <= disk[Page].ver
    BY <1>7, <2>1, <2>3, <2>4, Zenon
  <2>7. ASSUME NEW v \in copy.vers PROVE LastModified(m.ver) <= LastModified(v)
    <3>1. /\ LastModified(m.ver) <= copy.label /\ copy.label <= LastModified(v)
          /\ LastModified(v) \in Int /\ LastModified(m.ver) \in Int /\ copy.label \in Int
      BY <1>5, <1>7, <1>9, <2>1, <2>4, LastModifiedType, SMTT(40)
    <3> QED
      BY <3>1, SMTT(40)
  <2>8. \A v \in copy'.vers : copy'.label <= LastModified(v)
    BY <1>7, <2>1, <2>3, <2>7, Zenon
  <2> QED
    BY <1>1, <1>2, <2>1, <2>3, <2>5, <2>6, <2>8, Relabelled, Zenon DEF m
<1>10. CASE head.status = 304
  <2>1. copy' = copy
    BY <1>1, <1>10 DEF Received, head
  <2> QED
    BY <1>1, <1>2, <2>1, Zenon DEF ClientInv, CopyType, Before, CopyNotOlder
<1>11. CASE head.status \notin {200, 206, 304}
  <2>1. copy' = NoCopy
    BY <1>1, <1>11 DEF Received, head
  <2>2. /\ copy'.label = NoDate /\ copy'.total = 0 /\ copy'.len = 0 /\ copy'.vers = {}
    BY <2>1, Zenon DEF NoCopy
  <2>3. CopyType'
    <3>1. NoDate \in Date /\ 0 \in U64 /\ 0 \in Nat /\ {} \subseteq Nat
      BY MaxU64Assumption DEF Date, U64
    <3> QED
      BY <1>1, <2>2, <3>1, Zenon DEF CopyType
  <2>4. Before(disk[Page])' /\ CopyNotOlder'
    BY <2>2, Zenon DEF Before, CopyNotOlder
  <2> QED
    BY <2>3, <2>4, Zenon
<1> QED
  BY <1>8, <1>9, <1>10, <1>11

----------------------------------------------------------------------------
\* The other connections, and the files.

\* What another connection does leaves the client's request and the disk alone.
LEMMA OtherStep ==
    ASSUME TypeOK, NEW c \in Conns \ {Client}, NEW h,
           Receive(c, Get(h)) \/ AcquirePermit(c) \/ Serve(c) \/ Abort(c)
    PROVE  /\ pc'[Client] = pc[Client] /\ req'[Client] = req[Client]
           /\ meta'[Client] = meta[Client] /\ resp'[Client] = resp[Client]
           /\ buf'[Client] = buf[Client] /\ disk' = disk
<1> USE ClientAssumption DEF envVars, bodyVars, taskVars
<1>1. /\ pc \in [Conns -> PCs] /\ req \in [Conns -> Request]
      /\ resp \in [Conns -> Response] /\ meta \in [Conns -> Meta]
      /\ buf \in [Conns -> Bytes]
  BY Zenon DEF TypeOK
<1>2. CASE Receive(c, Get(h)) \/ Miss(c) \/ AcquirePermit(c) \/ DropPermit(c)
  BY <1>1, <1>2, Zenon DEF Receive, Miss, AcquirePermit, DropPermit, Goto
<1>3. CASE Hit(c)
  BY <1>1, <1>3, Zenon DEF Hit, Goto
<1>4. CASE Stat(c)
  <2>1. CASE Answer(c, "stat", 404) \/ Answer(c, "stat", 204)
    BY <1>1, <2>1, ZenonT(40) DEF Answer, Goto
  <2>2. CASE ~(Answer(c, "stat", 404) \/ Answer(c, "stat", 204))
    <3>1. /\ pc' = [pc EXCEPT ![c] = "open"]
          /\ meta' = [meta EXCEPT ![c] = MetaOf(disk[Source(c)])]
          /\ UNCHANGED <<envVars, bodyVars, req, resp>>
      BY <1>4, <2>2, Zenon DEF Stat, Goto
    <3> QED
      BY <1>1, <3>1, Zenon
  <2> QED
    BY <2>1, <2>2, Zenon
<1>5. CASE Open(c)
  <2>1. CASE Answer(c, "open", 404)
    BY <1>1, <2>1, Zenon DEF Answer, Goto
  <2>2. CASE ~Answer(c, "open", 404)
    BY <1>1, <1>5, <2>2, Zenon DEF Open, Goto
  <2> QED
    BY <2>1, <2>2, Zenon
<1>6. CASE PollBuffered(c) \/ PollRead(c)
  BY <1>1, <1>6, Zenon DEF PollBuffered, PollRead, Deliver
<1>7. CASE PollEnd(c)
  BY <1>1, <1>7, Zenon DEF PollEnd, Goto
<1>8. CASE Finish(c) \/ Abort(c)
  BY <1>1, <1>8, Zenon DEF Finish, Abort, DropTask
<1> QED
  BY <1>2, <1>3, <1>4, <1>5, <1>6, <1>7, <1>8, Zenon DEF Serve, Step

\* Files change and entries are evicted: the page gets a later version or stays.
LEMMA EnvironmentStep ==
    ASSUME TypeOK, Inv, PageOnly, Environment
    PROVE  Later /\ PageOnly' /\ UNCHANGED <<taskVars, buf>>
<1> USE ClientAssumption, FilesAssumption
<1>1. Page \in Files /\ disk[Page].ver \in Nat /\ clock \in Nat /\ disk[Page].ver <= clock
  BY Zenon DEF TypeOK, File, Inv, DiskInv
<1>2. CASE \E p \in Paths : Evict(p)
  <2>1. PICK p \in Paths : store' = [store EXCEPT ![p] = NotCached]
    BY <1>2, Zenon DEF Evict
  <2>2. UNCHANGED <<envVars, bodyVars, taskVars>>
    BY <1>2, Zenon DEF Evict
  <2>3. store'[Page] = store[Page] \/ store'[Page] = NotCached
    BY <2>1, Zenon DEF TypeOK
  <2>4. PageOnly'
    BY <2>2, <2>3, Zenon DEF PageOnly, taskVars
  <2> QED
    BY <2>2, <2>4, Zenon DEF Later, envVars, bodyVars
<1>3. ASSUME NEW f \in Files, NEW len \in Lengths, Replace(f, len) \/ Overwrite(f, len)
      PROVE  Later /\ PageOnly' /\ UNCHANGED <<taskVars, buf>>
  <2> DEFINE new == [exists |-> TRUE, len |-> len, ver |-> clock + 1]
  <2>1. disk' = [disk EXCEPT ![f] = new] /\ UNCHANGED <<store, taskVars, buf>>
    BY <1>3, Zenon DEF Replace, Overwrite, cacheVars
  <2>2. new.ver = clock + 1
    OBVIOUS
  <2> HIDE DEF new
  <2>3. disk'[Page] = disk[Page] \/ disk'[Page] = new
    BY <1>1, <2>1, Zenon DEF TypeOK
  <2>4. Later
    BY <1>1, <2>2, <2>3 DEF Later
  <2>5. PageOnly'
    BY <2>1, Zenon DEF PageOnly, taskVars
  <2> QED
    BY <2>1, <2>4, <2>5, Zenon
<1>4. ASSUME NEW f \in Files, Remove(f)
      PROVE  Later /\ PageOnly' /\ UNCHANGED <<taskVars, buf>>
  <2>1. /\ disk' = [disk EXCEPT ![f] =
                    [exists |-> FALSE, len |-> disk[f].len, ver |-> disk[f].ver]]
        /\ UNCHANGED <<store, taskVars, buf>>
    BY <1>4, Zenon DEF Remove, cacheVars
  <2>2. disk'[Page].ver = disk[Page].ver /\ disk'[Page].len = disk[Page].len
    BY <1>1, <2>1, Zenon DEF TypeOK
  <2>3. PageOnly'
    BY <2>1, Zenon DEF PageOnly, taskVars
  <2> QED
    BY <2>1, <2>2, <2>3, Zenon DEF Later
<1> QED
  BY <1>2, <1>3, <1>4, Zenon DEF Environment

\* Every step keeps the client's invariant, along with the file server's.
LEMMA CopyStep ==
    ASSUME TypeOK, Inv, TypeOK', Inv', CopyInv, [CNext]_cvars
    PROVE  CopyInv'
<1> USE ClientAssumption
<1>1. PageOnly /\ ClientInv
  BY Zenon DEF CopyInv
<1>2. CASE Download \/ Resume \/ Revalidate
  <2>1. \E h : Receive(Client, Get(h))
    BY <1>2, Zenon DEF Download, Resume, Revalidate
  <2> QED
    BY <1>1, <1>2, <2>1, PageOnlyReceive, ClientAsks, Zenon DEF CopyInv
<1>3. CASE Take
  BY <1>1, <1>3, PageOnlyWork, ClientTake, Zenon DEF CopyInv, Take
<1>4. CASE Work
  <2>1. PageOnly'
    BY <1>1, <1>4, PageOnlyWork, Zenon DEF Work
  <2> QED
    BY <1>1, <1>4, <2>1, ClientWork, Zenon DEF CopyInv
<1>5. CASE Others
  <2>1. PICK c \in Conns \ {Client} :
            \/ Receive(c, Get(Unconditional)) \/ AcquirePermit(c) \/ Serve(c) \/ Abort(c)
    BY <1>5, Zenon DEF Others
  <2>2. PageOnly'
    BY <1>1, <2>1, PageOnlyReceive, PageOnlyWork, Zenon DEF Serve
  <2>3. /\ pc'[Client] = pc[Client] /\ req'[Client] = req[Client]
        /\ meta'[Client] = meta[Client] /\ resp'[Client] = resp[Client]
        /\ buf'[Client] = buf[Client] /\ disk' = disk
    BY <2>1, OtherStep, Zenon
  <2>4. Later
    BY <2>3, Zenon DEF Later
  <2>5. UNCHANGED <<copy, hit>>
    BY <1>5, Zenon DEF Others
  <2> QED
    BY <1>1, <2>2, <2>3, <2>4, <2>5, ClientAlone, Zenon DEF CopyInv
<1>6. CASE Environment /\ UNCHANGED <<copy, hit>>
  <2>1. Later /\ PageOnly' /\ UNCHANGED <<taskVars, buf>>
    BY <1>1, <1>6, EnvironmentStep, Zenon
  <2> QED
    BY <1>1, <1>6, <2>1, ClientAlone, Zenon DEF CopyInv, taskVars
<1>7. CASE UNCHANGED cvars
  <2>1. UNCHANGED <<disk, store, pc, req, src, meta, resp, buf, copy, hit>>
    BY <1>7, Zenon DEF cvars, vars, envVars, cacheVars, bodyVars, taskVars
  <2>2. Later /\ PageOnly'
    BY <1>1, <2>1, Zenon DEF Later, PageOnly
  <2> QED
    BY <1>1, <2>1, <2>2, ClientAlone, Zenon DEF CopyInv
<1> QED
  BY <1>2, <1>3, <1>4, <1>5, <1>6, <1>7, Zenon DEF CNext

(***************************************************************************)
(* The invariants of the file server and of the client hold in every       *)
(* reachable state of the composition.                                     *)
(***************************************************************************)
LEMMA CopyInvariance == CSpec => [](TypeOK /\ PermitInv /\ Inv /\ CopyInv)
<1>1. CInit => TypeOK /\ PermitInv /\ Inv /\ CopyInv
  <2> SUFFICES ASSUME CInit PROVE TypeOK /\ PermitInv /\ Inv /\ CopyInv
    OBVIOUS
  <2>1. Init /\ copy = NoCopy /\ hit = FALSE
    BY Zenon DEF CInit
  <2>2. TypeOK /\ PermitInv /\ Inv
    BY <2>1, InitType, InitInv, Zenon
  <2>3. PageOnly
    BY <2>1, ClientAssumption, Zenon DEF Init, PageOnly
  <2>4. copy.label = NoDate /\ copy.total = 0 /\ copy.len = 0 /\ copy.vers = {}
    BY <2>1, Zenon DEF NoCopy
  <2>5. CopyType
    <3>1. NoDate \in Date /\ 0 \in U64 /\ 0 \in Nat /\ {} \subseteq Nat
      BY MaxU64Assumption DEF Date, U64
    <3> QED
      BY <2>1, <2>4, <3>1, Zenon DEF CopyType
  <2>6. pc[Client] = "idle"
    BY <2>1, ClientAssumption, Zenon DEF Init
  <2>7. AskedInv /\ AnsweredInv
    BY <2>6, Zenon DEF AskedInv, AnsweredInv
  <2>8. Before(disk[Page]) /\ CopyNotOlder
    BY <2>4, Zenon DEF Before, CopyNotOlder
  <2> QED
    BY <2>2, <2>3, <2>5, <2>7, <2>8, Zenon DEF CopyInv, ClientInv
<1>2. /\ TypeOK /\ PermitInv /\ Inv /\ CopyInv
      /\ [CNext]_cvars
      => TypeOK' /\ PermitInv' /\ Inv' /\ CopyInv'
  <2> SUFFICES ASSUME TypeOK, PermitInv, Inv, CopyInv, [CNext]_cvars
               PROVE  TypeOK' /\ PermitInv' /\ Inv' /\ CopyInv'
    OBVIOUS
  <2>1. [AnyNext]_vars
    BY IsFileServerStep, Zenon DEF CopyInv, ClientInv
  <2>2. TypeOK' /\ PermitInv' /\ Inv'
    BY <2>1, TypeStep, InvStep, Zenon
  <2> QED
    BY <2>2, CopyStep, Zenon
<1> QED
  BY <1>1, <1>2, PTL DEF CSpec

----------------------------------------------------------------------------
(***************************************************************************)
(* No byte of the client's copy is older than the date the client will     *)
(* revalidate it with, however downloads, resumptions, fills of the cache  *)
(* and changes of the file interleave.                                     *)
(***************************************************************************)
THEOREM CopyNotOlderAlways == CSpec => []CopyNotOlder
<1>1. CopyInv => CopyNotOlder
  BY Zenon DEF CopyInv, ClientInv
<1> QED
  BY <1>1, CopyInvariance, PTL

(***************************************************************************)
(* What a 304 decided by the disk rests on: the copy is complete, it was   *)
(* labelled no earlier than the metadata the server saw, and it is from    *)
(* before that metadata was read.                                          *)
(***************************************************************************)
LEMMA ConfirmedMeans ==
    ASSUME TypeOK, ClientInv, Confirmed
    PROVE  /\ copy.len = copy.total /\ copy.label # NoDate
           /\ LastModified(meta[Client].ver) <= copy.label
           /\ LastModified(meta[Client].ver) # NoDate
           /\ Before(meta[Client])
<1> DEFINE h == req[Client].h
           len == meta[Client].len
           lm == LastModified(meta[Client].ver)
           head == resp[Client].head
<1>1. h \in ConditionalHeaders /\ len \in U64 /\ lm \in Int
  BY ConnTypes, LastModifiedType, ClientAssumption, Zenon
<1>2. pc[Client] = "done" /\ head.status = 304 /\ ~hit
  BY Zenon DEF Confirmed
<1>3. head # Bodiless(404) /\ pc[Client] \in {"stream", "done"} /\ pc[Client] # "idle"
  BY <1>2 DEF Bodiless
<1>4. head = response_body(h, len, lm) /\ Before(meta[Client])
  BY <1>2, <1>3, ZenonT(40) DEF ClientInv, AnsweredInv, FromPage
<1> HIDE DEF len, lm, head
<1>5. NotModified(h, lm)
  BY <1>1, <1>2, <1>4, HeadMeans
<1>6. h = RevalidateHeaders /\ copy.len = copy.total
  <2>1. Unconditional.if_modified_since = NoDate /\ ResumeHeaders.if_modified_since = NoDate
    BY Zenon DEF Unconditional, ResumeHeaders
  <2>2. h.if_modified_since # NoDate
    BY <1>5, Zenon DEF NotModified
  <2> QED
    BY <1>3, <2>1, <2>2, Zenon DEF ClientInv, AskedInv
<1>7. h.if_modified_since = copy.label
  BY <1>6, Zenon DEF RevalidateHeaders, Unconditional
<1>8. copy.label \in Int
  BY DEF ClientInv, CopyType, Date, NoDate
<1>9. lm <= copy.label /\ lm # NoDate /\ copy.label # NoDate
  BY <1>1, <1>5, <1>7, <1>8, SMTT(40) DEF NotModified, IsModified
<1> QED
  BY <1>4, <1>6, <1>9, Zenon DEF lm

\* A version up to that of the metadata, dated no earlier, has the same date.
LEMMA SameSecond ==
    ASSUME TypeOK, ClientInv, Confirmed, NEW v \in Nat, v <= meta[Client].ver,
           copy.label <= LastModified(v)
    PROVE  LastModified(v) = LastModified(meta[Client].ver)
<1>1. meta[Client].ver \in Nat
  BY ConnTypes, ClientAssumption, Zenon
<1>2. LastModified(v) \in Int /\ LastModified(meta[Client].ver) \in Int /\ copy.label \in Int
  BY <1>1, LastModifiedType DEF ClientInv, CopyType, Date, NoDate
<1>3. LastModified(v) <= LastModified(meta[Client].ver)
  BY <1>1, LastModifiedMonotone, Zenon
<1>4. LastModified(meta[Client].ver) <= copy.label
  BY ConfirmedMeans, Zenon
<1> QED
  BY <1>2, <1>3, <1>4

(***************************************************************************)
(* A copy confirmed by the disk only holds bytes of the second the server  *)
(* saw, whatever ranges and cache entries it was put together from.        *)
(***************************************************************************)
THEOREM ConfirmedToTheSecondAlways == CSpec => []ConfirmedToTheSecond
<1>1. TypeOK /\ CopyInv => ConfirmedToTheSecond
  <2> SUFFICES ASSUME TypeOK, CopyInv, Confirmed, NEW v \in copy.vers
               PROVE  LastModified(v) = LastModified(meta[Client].ver)
    BY Zenon DEF ConfirmedToTheSecond
  <2>1. ClientInv /\ Before(meta[Client])
    BY ConfirmedMeans, Zenon DEF CopyInv
  <2>2. v \in Nat /\ v <= meta[Client].ver /\ copy.label <= LastModified(v)
    BY <2>1, ZenonT(40) DEF Before, ClientInv, CopyType, CopyNotOlder
  <2> QED
    BY <2>1, <2>2, SameSecond, Zenon
<1> QED
  BY <1>1, CopyInvariance, PTL

(***************************************************************************)
(* If the server saw the first version of its second, a copy it confirms   *)
(* is exact: every byte is of that version, and none is missing.           *)
(***************************************************************************)
THEOREM ConfirmedCopyExactAlways == CSpec => []ConfirmedCopyExact
<1>1. TypeOK /\ CopyInv => ConfirmedCopyExact
  <2> DEFINE m == meta[Client]
  <2> SUFFICES ASSUME TypeOK, CopyInv, Confirmed, FirstOfSecond(m.ver)
               PROVE  copy.vers \subseteq {m.ver} /\ copy.len = m.len
    BY Zenon DEF ConfirmedCopyExact
  <2>1. /\ ClientInv /\ copy.len = copy.total /\ copy.label # NoDate
        /\ Before(m) /\ LastModified(m.ver) # NoDate
    BY ConfirmedMeans, ZenonT(40) DEF CopyInv
  <2>2. m.ver \in Nat /\ m.ver # 0
    BY <2>1, ConnTypes, ClientAssumption, Zenon DEF LastModified
  \* An earlier version has an earlier date.
  <2>3. ASSUME NEW v \in Nat, v <= m.ver, copy.label <= LastModified(v) PROVE v = m.ver
    <3> SUFFICES ASSUME v # m.ver PROVE FALSE
      OBVIOUS
    <3>1. m.ver - 1 \in Nat /\ v <= m.ver - 1 /\ m.ver - 1 <= m.ver
      BY <2>2, <2>3
    <3>2. /\ LastModified(v) <= LastModified(m.ver - 1)
          /\ LastModified(m.ver - 1) <= LastModified(m.ver)
      BY <2>2, <3>1, LastModifiedMonotone, Zenon
    <3>3. LastModified(v) = LastModified(m.ver)
      BY <2>1, <2>3, SameSecond, Zenon
    <3>4. LastModified(m.ver) \in Int /\ LastModified(m.ver - 1) \in Int
      BY <2>2, <3>1, LastModifiedType, Zenon
    <3>5. LastModified(m.ver - 1) # LastModified(m.ver)
      BY ZenonT(40) DEF FirstOfSecond
    <3> QED
      BY <3>2, <3>3, <3>4, <3>5, SMTT(40)
  <2>4. copy.vers \subseteq {m.ver}
    BY <2>1, <2>3, Zenon DEF Before, ClientInv, CopyType, CopyNotOlder
  <2>5. PICK w \in 0 .. m.ver :
          copy.label = LastModified(w) /\ (w = m.ver => copy.total = m.len)
    BY <2>1, Zenon DEF Before
  <2>6. w \in Nat /\ w <= m.ver /\ copy.label <= LastModified(w)
    BY <2>2, <2>5, LastModifiedType
  <2>7. w = m.ver
    BY <2>3, <2>6, Zenon
  <2> QED
    BY <2>1, <2>4, <2>5, <2>7, Zenon
<1> QED
  BY <1>1, CopyInvariance, PTL

=============================================================================
