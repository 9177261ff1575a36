----------------------------- MODULE FileResponse -----------------------------
(***************************************************************************)
(* What a file answers to a request: the conditional headers               *)
(* (src/src/conditional_headers.rs) and the status, bounds and length of   *)
(* the response (src/src/response.rs, and its twin for cached files in     *)
(* src/src/mem_cache/cache.rs).                                            *)
(*                                                                         *)
(* Dates are HTTP dates, which count whole seconds.  A file's modification *)
(* time counts ticks, TicksPerSecond of them to the second.                *)
(***************************************************************************)
EXTENDS Integers, ByteRange

CONSTANT TicksPerSecond

ASSUME TicksPerSecondAssumption == TicksPerSecond \in Nat \ {0}

NoDate == -1        \* Option::None
Date == Nat \cup {NoDate}

\* If-Range holds nothing, a date, or an entity tag; the server has no tags.
NoIfRange == [kind |-> "absent", date |-> NoDate]
IfRangeDate(d) == [kind |-> "date", date |-> d]
IfRangeTag == [kind |-> "tag", date |-> NoDate]
IfRange == [kind : {"absent", "date", "tag"}, date : Date]

ConditionalHeaders ==
    [if_unmodified_since : Date, if_modified_since : Date,
     if_range : IfRange, range : RangeHeader]

\* The headers of a plain request.
Unconditional ==
    [if_unmodified_since |-> NoDate, if_modified_since |-> NoDate,
     if_range |-> NoIfRange, range |-> NoRange]

\* LastModified::from drops the sub-second part; the epoch counts as unknown.
LastModified(mtime) ==
    IF mtime = 0 THEN NoDate ELSE mtime \div TicksPerSecond

----------------------------------------------------------------------------
\* The comparisons of the headers crate.
PreconditionPasses(since, last_modified) == since >= last_modified
IsModified(since, last_modified) == since < last_modified
IfRangeIsModified(if_range, last_modified) ==
    \/ if_range.kind = "tag"
    \/ last_modified = NoDate
    \/ if_range.date < last_modified

NoBody(status) == [body |-> FALSE, status |-> status, range |-> NoRange]
WithBody(range) == [body |-> TRUE, status |-> 200, range |-> range]

\* Mutant: a file of unknown date passes If-Unmodified-Since.
UnknownDatePasses(h, last_modified) ==
    /\ h.if_unmodified_since # NoDate
    /\ ~PreconditionPasses(h.if_unmodified_since, last_modified)

PreconditionFailed(h, last_modified) ==
    /\ h.if_unmodified_since # NoDate
    /\ \/ last_modified = NoDate
       \/ ~PreconditionPasses(h.if_unmodified_since, last_modified)

\* Mutant: a copy one second too old still counts as not modified.
NotModifiedLoose(h, last_modified) ==
    /\ h.if_modified_since # NoDate
    /\ last_modified # NoDate
    /\ ~IsModified(h.if_modified_since + 1, last_modified)

NotModified(h, last_modified) ==
    /\ h.if_modified_since # NoDate
    /\ last_modified # NoDate
    /\ ~IsModified(h.if_modified_since, last_modified)

\* Mutant: If-Range is ignored.
RangeNeverVoid(h, last_modified) == FALSE

RangeVoid(h, last_modified) ==
    /\ h.if_range.kind # "absent"
    /\ IfRangeIsModified(h.if_range, last_modified)

\* ConditionalHeaders::check, in its order of precedence.
check(h, last_modified) ==
    IF PreconditionFailed(h, last_modified) THEN NoBody(412)
    ELSE IF NotModified(h, last_modified) THEN NoBody(304)
    ELSE IF RangeVoid(h, last_modified) THEN WithBody(NoRange)
    ELSE WithBody(h.range)

----------------------------------------------------------------------------
(***************************************************************************)
(* The response head.  start and end bound the body within the file;      *)
(* last_modified is the header sent, NoDate when there is none.            *)
(***************************************************************************)
Bodiless(status) ==
    [status |-> status, start |-> 0, end |-> 0, last_modified |-> NoDate]

HasBody(resp) == resp.status \in {200, 206}

BodyResponse(r, len, last_modified) ==
    [status |-> IF r.end - r.start # len THEN 206 ELSE 200,
     start |-> r.start, end |-> r.end, last_modified |-> last_modified]

\* response_body of response.rs for a file of length len.
response_body(h, len, last_modified) ==
    LET c == check(h, last_modified)
        r == bytes_range(c.range, len)
    IN  IF ~c.body THEN Bodiless(c.status)
        ELSE IF ~r.ok THEN Bodiless(416)
        ELSE BodyResponse(r, len, last_modified)

=============================================================================
