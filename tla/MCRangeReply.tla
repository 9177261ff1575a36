----------------------------- MODULE MCRangeReply -----------------------------
(* Small instances of RangeReply for TLC. *)
EXTENDS RangeReply

\* Every list of at most one member, and one list of two.
MCRanges ==
    {NoRange, [present |-> TRUE, specs |-> << >>]}
    \cup {[present |-> TRUE, specs |-> <<r>>] : r \in RangeSpec}
    \cup {[present |-> TRUE,
           specs |-> <<r, [start |-> Included(0), end |-> Unbounded]>>] :
            r \in {[start |-> Included(1), end |-> Included(2)]}}

\* Ranges alone.
MCHeadersRange == {[Unconditional EXCEPT !.range = r] : r \in MCRanges}

MCDates == {NoDate, 0, 1, 2}

MCPart == [present |-> TRUE, specs |-> <<[start |-> Included(0), end |-> Included(0)]>>]

\* Every combination of the conditional headers, with and without a range.
MCHeadersDates ==
    [if_unmodified_since : MCDates, if_modified_since : MCDates,
     if_range : {NoIfRange, IfRangeTag} \cup {IfRangeDate(d) : d \in {0, 1, 2}},
     range : {NoRange, MCPart}]

MCHeaders == MCHeadersRange \cup MCHeadersDates

=============================================================================
