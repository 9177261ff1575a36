----------------------------- MODULE MCFileServer -----------------------------
(* Small instances of FileServer for TLC. *)
EXTENDS FileServer, TLC

CONSTANTS c1, c2

MCConns == {c1, c2}
MCSymmetry == Permutations(MCConns)

MCPaths == {"page"}
MCFiles == {"page"}
MCVariant == [p \in MCPaths |-> p]

MCFilesGz == {"page", "page.gz"}
MCVariantGz == [p \in MCPaths |-> "page.gz"]

Plain(method) ==
    [path |-> "page", method |-> method, gzip |-> FALSE, h |-> Unconditional]

\* bytes=a-b
Ranged(a, b) ==
    [Plain("GET") EXCEPT !.h.range =
        [present |-> TRUE, specs |-> <<[start |-> Included(a), end |-> Included(b)]>>]]

Since(d) == [Plain("GET") EXCEPT !.h.if_modified_since = d]

MCRequests == {Plain("GET"), Ranged(1, 2), Ranged(0, 5)}

MCRequestsMethods == {Plain("GET"), Plain("HEAD"), Plain("OPTIONS")}

MCRequestsGz == {Plain("GET"), [Plain("GET") EXCEPT !.gzip = TRUE]}

\* One of each kind: the methods, a condition.
MCRequestsKinds == MCRequestsMethods \cup {Since(2)}

=============================================================================
