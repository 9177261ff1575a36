------------------------------ MODULE ByteRange ------------------------------
(***************************************************************************)
(* Byte ranges: bytes_range of src/src/response.rs, which turns the Range  *)
(* header of a request and the length of a file into the half-open         *)
(* interval of bytes to send.  Both the disk path (response_body) and the  *)
(* cache path (MemFile::response_body) call it.                            *)
(***************************************************************************)
EXTENDS Naturals, Sequences

CONSTANT MaxU64    \* the largest u64; 2^64 - 1 in the program

ASSUME MaxU64Assumption == MaxU64 \in Nat \ {0}

U64 == 0 .. MaxU64

(***************************************************************************)
(* The headers crate parses "bytes=a-b, c-d" into a list of pairs of       *)
(* bounds, dropping the members it cannot parse.  An absent header is      *)
(* NoRange; a header with no valid member has an empty list.               *)
(***************************************************************************)
Unbounded == [bounded |-> FALSE, at |-> 0]
Included(n) == [bounded |-> TRUE, at |-> n]
Bound == {Unbounded} \cup {Included(n) : n \in U64}
RangeSpec == [start : Bound, end : Bound]
RangeHeader == [present : BOOLEAN, specs : Seq(RangeSpec)]
NoRange == [present |-> FALSE, specs |-> << >>]

\* The result of bytes_range: Ok((start, end)) or Err(BadRangeError).
Ok(s, e) == [ok |-> TRUE, start |-> s, end |-> e]
BadRangeError == [ok |-> FALSE, start |-> 0, end |-> 0]

\* u64 addition in a release build, which wraps silently.
WrappingSucc(n) == IF n = MaxU64 THEN 0 ELSE n + 1

----------------------------------------------------------------------------
(***************************************************************************)
(* The first member of the list, as a half-open interval not yet checked   *)
(* against the file; an explicit range with a > b is an error at once.     *)
(***************************************************************************)
Reversed(r) == r.start.bounded /\ r.end.bounded /\ r.start.at > r.end.at

\* Mutant: the inclusive end of "a-b" taken for an exclusive one.
IntervalExclusive(r, max_len) ==
    [start |-> IF r.start.bounded THEN r.start.at
               ELSE IF ~r.end.bounded \/ r.end.at > max_len THEN 0
               ELSE max_len - r.end.at,
     end |-> IF r.start.bounded /\ r.end.bounded THEN r.end.at ELSE max_len]

Interval(r, max_len) ==
    IF r.start.bounded
    THEN [start |-> r.start.at,
          end |-> IF ~r.end.bounded \/ r.end.at = max_len
                  THEN max_len
                  ELSE WrappingSucc(r.end.at)]
    ELSE [start |-> IF ~r.end.bounded \/ r.end.at > max_len
                    THEN 0
                    ELSE max_len - r.end.at,
          end |-> max_len]

\* The clamping at the end of the closure: inside, cut at the end, or refused.
Clamp(i, max_len) ==
    IF i.start < i.end /\ i.end <= max_len
    THEN Ok(i.start, i.end)
    ELSE IF i.start < i.end /\ i.start <= max_len
         THEN Ok(i.start, max_len)
         ELSE BadRangeError

\* Only the first member is honoured; an empty list is a bad range.
bytes_range(range, max_len) ==
    IF ~range.present
    THEN Ok(0, max_len)
    ELSE IF range.specs = << >> \/ Reversed(Head(range.specs))
         THEN BadRangeError
         ELSE Clamp(Interval(Head(range.specs), max_len), max_len)

----------------------------------------------------------------------------
(***************************************************************************)
(* Reference: the positions of the file a member asks for.  A suffix       *)
(* "-n" asks for the last n bytes, "a-" for everything from a on, and      *)
(* "a-b" for positions a to b, both included.                              *)
(***************************************************************************)
Asked(r, max_len) ==
    {i \in 0 .. max_len :
        /\ i < max_len
        /\ r.start.bounded => i >= r.start.at
        /\ r.start.bounded /\ r.end.bounded => i <= r.end.at
        /\ ~r.start.bounded /\ r.end.bounded => i + r.end.at >= max_len}

Sent(r) == {i \in r.start .. r.end : i < r.end}

=============================================================================
