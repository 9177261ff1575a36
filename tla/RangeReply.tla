------------------------------ MODULE RangeReply ------------------------------
(***************************************************************************)
(* One file, one request with conditional headers and a Range, one         *)
(* response head: check, bytes_range and response_body of FileResponse     *)
(* driven over every combination of the headers, and compared with what    *)
(* the headers ask for.                                                    *)
(***************************************************************************)
EXTENDS FileResponse

CONSTANTS
    Headers,    \* the conditional headers of requests
    MTimes      \* the modification times of files

ASSUME HeadersAssumption ==
    /\ Headers \subseteq ConditionalHeaders
    /\ MTimes \subseteq Nat

VARIABLES
    headers,    \* the headers of the request
    size,       \* the length of the file
    mtime,      \* its modification time
    reply       \* the response head, Bodiless(0) before there is one

rvars == <<headers, size, mtime, reply>>

RInit ==
    /\ headers \in Headers
    /\ size \in U64
    /\ mtime \in MTimes
    /\ reply = Bodiless(0)

Respond ==
    /\ reply.status = 0
    /\ reply' = response_body(headers, size, LastModified(mtime))
    /\ UNCHANGED <<headers, size, mtime>>

\* The client asks again with other headers.
AskAgain ==
    /\ reply.status # 0
    /\ reply' = Bodiless(0)
    /\ headers' \in Headers
    /\ UNCHANGED <<size, mtime>>

RNext == Respond \/ AskAgain

RSpec == RInit /\ [][RNext]_rvars

----------------------------------------------------------------------------
\* Properties.

\* The members of the Range header that are taken into account.
Honoured == headers.range.present /\ check(headers, LastModified(mtime)).range.present

\* The end of a range is not the largest u64, where end + 1 wraps to 0.
NoWrap(r) == r.end.bounded => r.end.at # MaxU64

First == Head(headers.range.specs)

(***************************************************************************)
(* A range that is honoured gives exactly the bytes it asks for, cut at    *)
(* the end of the file, and is refused with 416 only if it asks for none:  *)
(* the clamping, the suffix form and the special case b == max_len of      *)
(* bytes_range together, for every pair of bounds and every file length.   *)
(***************************************************************************)
RangeExact ==
    /\ reply.status \in {200, 206, 416}
    /\ Honoured
    /\ headers.range.specs # << >>
    /\ NoWrap(First)
    => Asked(First, size) = IF HasBody(reply) THEN Sent(reply) ELSE {}

(***************************************************************************)
(* A precondition is never bypassed: a body is sent only if the file is as *)
(* old as If-Unmodified-Since says and newer than If-Modified-Since, and   *)
(* only part of it only if If-Range still names this file; dates compare   *)
(* whole seconds and a file of unknown date satisfies no precondition.     *)
(***************************************************************************)
Second(t) == t \div TicksPerSecond

BodyAsConditioned ==
    HasBody(reply) =>
        /\ headers.if_unmodified_since # NoDate =>
            mtime # 0 /\ Second(mtime) <= headers.if_unmodified_since
        /\ headers.if_modified_since # NoDate =>
            mtime = 0 \/ Second(mtime) > headers.if_modified_since
        /\ reply.status = 206 /\ headers.if_range.kind # "absent" =>
            /\ headers.if_range.kind = "date"
            /\ mtime # 0
            /\ Second(mtime) <= headers.if_range.date

=============================================================================
