------------------------------ MODULE ClientCopy ------------------------------
(***************************************************************************)
(* A client that keeps a copy of a file: it downloads it, resumes an       *)
(* interrupted download with Range and If-Range, and revalidates a         *)
(* complete copy with If-Modified-Since.  It composes FileServer with the  *)
(* HTTP client the conditional headers exist for.  The other connections   *)
(* ask for the same file and so fill and hit the cache the client meets.   *)
(***************************************************************************)
EXTENDS FileServer

CONSTANTS Client, Page     \* the client's connection and the file it copies

ASSUME ClientAssumption == Client \in Conns /\ Page \in Paths

VARIABLES
    copy,   \* label is its Last-Modified, total the length announced
    hit     \* is the response on its way from memory?

NoCopy == [label |-> NoDate, total |-> 0, len |-> 0, vers |-> {}]

cvars == <<vars, copy, hit>>

CInit == Init /\ copy = NoCopy /\ hit = FALSE

----------------------------------------------------------------------------
Get(h) == [path |-> Page, method |-> "GET", gzip |-> FALSE, h |-> h]

\* bytes=from-
From(from) ==
    [present |-> TRUE, specs |-> <<[start |-> Included(from), end |-> Unbounded]>>]

Download == Receive(Client, Get(Unconditional)) /\ UNCHANGED <<copy, hit>>

Resume ==
    /\ copy.label # NoDate
    /\ 0 < copy.len /\ copy.len < copy.total
    /\ Receive(Client, Get([Unconditional EXCEPT
                               !.range = From(copy.len),
                               !.if_range = IfRangeDate(copy.label)]))
    /\ UNCHANGED <<copy, hit>>

Revalidate ==
    /\ copy.label # NoDate
    /\ copy.len = copy.total
    /\ Receive(Client, Get([Unconditional EXCEPT !.if_modified_since = copy.label]))
    /\ UNCHANGED <<copy, hit>>

\* The copy after a response: replaced by a 200, extended by a 206.
Received ==
    LET head == resp[Client].head
        got == buf[Client]
    IN  CASE head.status = 200 ->
                [label |-> head.last_modified, total |-> head.end,
                 len |-> got.len, vers |-> got.vers]
          [] head.status = 206 ->
                [label |-> head.last_modified, total |-> head.end,
                 len |-> copy.len + got.len, vers |-> copy.vers \cup got.vers]
          [] head.status = 304 -> copy
          [] OTHER -> NoCopy

\* The response ends, or the connection breaks while the body arrives.
Take ==
    /\ Finish(Client) \/ Abort(Client)
    /\ copy' = Received
    /\ hit' = FALSE

Work == (Step(Client) \/ AcquirePermit(Client)) /\ hit' = (hit \/ Hit(Client)) /\ UNCHANGED copy

\* The other clients, who do not keep what they get.
Others ==
    /\ \E c \in Conns \ {Client} :
        \/ Receive(c, Get(Unconditional)) \/ AcquirePermit(c) \/ Serve(c) \/ Abort(c)
    /\ UNCHANGED <<copy, hit>>

CNext ==
    \/ Download
    \/ Resume
    \/ Revalidate
    \/ Take
    \/ Work
    \/ Others
    \/ Environment /\ UNCHANGED <<copy, hit>>

CSpec == CInit /\ [][CNext]_cvars

----------------------------------------------------------------------------
\* Properties.

\* A 304 that was decided by the file on disk.
Confirmed == pc[Client] = "done" /\ resp[Client].head.status = 304 /\ ~hit

(***************************************************************************)
(* A 304 about the first version of its second is exact: the copy it       *)
(* confirms is complete and every byte of it is of the version the server  *)
(* saw, even if it was put together from several ranges while the file     *)
(* changed (check, bytes_range and the order of stat and open together),   *)
(* some of them from a cache entry that was stale, or mixed, or filled     *)
(* late.  So files that change at most once a second are always confirmed  *)
(* truly by the disk.                                                      *)
(***************************************************************************)
FirstOfSecond(v) == LastModified(v - 1) # LastModified(v)

ConfirmedCopyExact ==
    Confirmed /\ FirstOfSecond(meta[Client].ver) =>
        copy.vers \subseteq {meta[Client].ver} /\ copy.len = meta[Client].len

(***************************************************************************)
(* With several changes within a second, a confirmed copy may mix versions *)
(* (HTTP dates cannot tell them apart) but only of that one second.        *)
(***************************************************************************)
ConfirmedToTheSecond ==
    Confirmed => \A v \in copy.vers : LastModified(v) = LastModified(meta[Client].ver)

(***************************************************************************)
(* No byte of a copy is older than the date the client will revalidate it  *)
(* with, though a slow fill may put an old version in the cache after a    *)
(* newer one was served, and If-Range then joins the two: the copy takes   *)
(* the older date.                                                         *)
(***************************************************************************)
CopyNotOlder == \A v \in copy.vers : copy.label <= LastModified(v)

=============================================================================
