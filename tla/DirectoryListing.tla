-------------------------- MODULE DirectoryListing --------------------------
(***************************************************************************)
(* The page made of a directory that has no index file: auto_index,        *)
(* read_dir_entries, sort_file_entries and the two output formats of       *)
(* src/src/directory_listing.rs.                                           *)
(*                                                                         *)
(* Each system call of the listing is a step of its own: the directory is  *)
(* opened, and for every name it returns the entry is looked at again, and *)
(* a symbolic link is resolved and its target looked at.  The directory    *)
(* changes between any two of them.  A browser follows the links of the    *)
(* column headers of the page it got.                                      *)
(*                                                                         *)
(* A name is a sequence of characters.  A URI path is a sequence of        *)
(* percent-encoded segments, with or without a slash at the end.           *)
(***************************************************************************)
EXTENDS Integers, Sequences, FiniteSets, FiniteSetsExt

CONSTANTS
    Names,          \* the names an entry of the directory may have
    Targets,        \* the places symbolic links lead to, outside the directory
    Menu,           \* what may be at each of them: a set of nodes
    Disks,          \* what is there at first
    Unreserved,     \* the characters PERCENT_ENCODE_SET leaves as they are
    Lowercase,      \* the rank of each name once it is in lower case
    Options,        \* the option records
    Bases,          \* the request paths
    Queries,        \* the codes of ?sort=, and NoSort
    KIB,            \* 1024 in the code: the ratio of two units of size
    MaxChanges      \* bound on the changes of the directory

\* No query, or its first pair is not a sort with a value that parses as u8.
NoSort == -1

UNITS == <<"B", "KiB", "MiB", "GiB", "TiB", "PiB">>

\* What stat sees.  Only a regular file has a size, only a link a target.
Node(type, mtime, size, target) ==
    [type |-> type, mtime |-> mtime, size |-> size, target |-> target]
Absent == Node("none", 0, 0, << >>)
Nodes == [type : {"none", "file", "dir", "symlink", "special"}, mtime : Int, size : Nat,
          target : Targets \cup {<< >>}]

Places == Names \cup Targets
Disk == {d \in [Places -> Nodes] : \A x \in Places : d[x] \in Menu[x]}

Option == [order : Nat, format : {"Html", "Json"}, ignore_hidden_files : BOOLEAN,
           disable_symlinks : BOOLEAN]
Base == {base \in [segments : Seq(Seq(STRING)), slash : BOOLEAN] :
            base.slash \/ base.segments # << >>}

(***************************************************************************)
(* A link leads to a target that is no link itself.  std::fs::ReadDir      *)
(* leaves out the entry for the parent, and PERCENT_ENCODE_SET has the     *)
(* characters that mean something in a URI.                                *)
(***************************************************************************)
ASSUME ListingAssumption ==
    /\ Disks \subseteq Disk
    /\ \A x \in Places : \A node \in Menu[x] :
        /\ node \in Nodes
        /\ node.type = "symlink" => x \notin Targets /\ node.target \in Targets
    /\ Names \subseteq Seq(STRING) \ {<<".", ".">>}
    /\ Unreserved \cap {"%", "?"} = {}
    /\ Lowercase \in [Names -> Int]
    /\ Options \subseteq Option
    /\ Bases \subseteq Base
    /\ Queries \subseteq Nat \cup {NoSort}
    /\ KIB \in Nat /\ KIB > 1

VARIABLES
    disk,       \* what is in the directory and at the targets
    opts,       \* the options of the server
    req,        \* the request: base path and query
    pc,         \* the next system call
    reader,     \* the names the directory stream still returns
    current,    \* the entry at hand: its name, metadata and resolved path
    found,      \* file_entries, dirs_count and files_count
    page,       \* the last answer
    clicked,    \* the column whose header was followed to ask for it
    unchanged,  \* the places that are as they were when the stream was opened
    changes     \* the number of changes so far

vars == <<disk, opts, req, pc, reader, current, found, page, clicked, unchanged, changes>>

Nothing == [entries |-> << >>, dirs |-> 0, files |-> 0]
NoEntry == [name |-> << >>, meta |-> Absent, path |-> << >>]
NoPage == [status |-> 0]
NoClick == [column |-> "none", before |-> 0]

----------------------------------------------------------------------------
\* Links.

\* As in SequencesExt, of which the module needs no more.
Front(s) == SubSeq(s, 1, Len(s) - 1)
Last(s) == s[Len(s)]
Reverse(s) == [i \in 1 .. Len(s) |-> s[Len(s) + 1 - i]]

Encode(done, c) == done \o (IF c \in Unreserved THEN <<c>> ELSE <<"%", c>>)

percent_encode(name) ==
    LET encoded[k \in 0 .. Len(name)] ==
            IF k = 0 THEN << >> ELSE Encode(encoded[k - 1], name[k])
    IN  encoded[Len(name)]

\* Mutant: as is.
LinkUnencoded(base, name, is_dir) ==
    [segments |-> IF base.slash THEN <<name>> ELSE <<Last(base.segments), name>>,
     slash |-> is_dir]

\* Relative to the request path: with the last segment if no slash ends it.
Link(base, name, is_dir) ==
    [segments |-> IF base.slash THEN <<percent_encode(name)>>
                  ELSE <<Last(base.segments), percent_encode(name)>>,
     slash |-> is_dir]

ParentLink == [segments |-> << <<".", ".">> >>, slash |-> TRUE]

----------------------------------------------------------------------------
\* sort_file_entries.

Column(code) ==
    CASE code \in {0, 1} -> "name"
      [] code \in {2, 3} -> "last_modified"
      [] code \in {4, 5} -> "size"
      [] OTHER           -> "none"

Descending(code) == code \in {1, 3, 5}

\* The key of each attribute; a directory has no size and comes first.
SortKey(column, e) ==
    CASE column = "name"          -> Lowercase[e.name]
      [] column = "last_modified" -> e.mtime
      [] column = "size"          -> IF e.type = "dir" THEN -1 ELSE e.size

\* A stable sort: the k-th entry of the result is the one with k - 1 before it.
Before(column, s, i, j) ==
    \/ SortKey(column, s[i]) < SortKey(column, s[j])
    \/ SortKey(column, s[i]) = SortKey(column, s[j]) /\ i < j

Rank(column, s, j) == Cardinality({i \in DOMAIN s : Before(column, s, i, j)}) + 1

StableSort(column, s) ==
    [k \in DOMAIN s |-> s[CHOOSE j \in DOMAIN s : Rank(column, s, j) = k]]

sort_file_entries(s, code) ==
    IF Column(code) = "none" THEN s
    ELSE IF Descending(code) THEN Reverse(StableSort(Column(code), s))
    ELSE StableSort(Column(code), s)

\* Mutant: the header of the sorted column always leads to descending order.
SortingAttrStuck(code) ==
    [name          |-> IF Column(code) = "name" THEN 1 ELSE 0,
     last_modified |-> IF Column(code) = "last_modified" THEN 3 ELSE 2,
     size          |-> IF Column(code) = "size" THEN 5 ELSE 4]

\* The codes the headers lead to: the other direction of an ascending column.
SortingAttr(code) ==
    [name          |-> IF code = 0 THEN 1 ELSE 0,
     last_modified |-> IF code = 2 THEN 3 ELSE 2,
     size          |-> IF code = 4 THEN 5 ELSE 4]

----------------------------------------------------------------------------
\* format_file_size: the number as hundredths, and the index of the unit.

UnitSize[unit \in 0 .. 5] == IF unit = 0 THEN 1 ELSE KIB * UnitSize[unit - 1]

\* {:.2}: n / d to the nearest integer, from the middle to the even one.
Rounded(n, d) ==
    LET q == n \div d
        up == \/ 2 * (n % d) > d
              \/ 2 * (n % d) = d /\ q % 2 = 1
    IN  IF up THEN q + 1 ELSE q

\* Mutant: the size is compared with one unit.
ShiftsShort(size) ==
    Min({k \in 0 .. 4 : k = 4 \/ size \div UnitSize[k] < KIB})

\* How often the loop over the units divides the size.
Shifts(size) ==
    Min({k \in 0 .. 4 : k = 4 \/ size \div UnitSize[k] < KIB * KIB})

format_file_size(size) ==
    IF size < KIB THEN [hundredths |-> 100 * size, unit |-> 0]
    ELSE [hundredths |-> Rounded(100 * (size \div UnitSize[Shifts(size)]), KIB),
          unit |-> Shifts(size) + 1]

----------------------------------------------------------------------------
\* The listing.

is_hidden(name) == name[1] = "."

\* auto_index: the directory is opened, or is no longer there to be opened.
OpenDir ==
    /\ pc = "asked"
    /\ pc' = "reading"
    /\ reader' = {n \in Names : disk[n].type # "none"}
    /\ found' = Nothing
    /\ unchanged' = Places
    /\ UNCHANGED <<disk, opts, req, current, page, clicked, changes>>

Fail(status) ==
    /\ pc' = "answered"
    /\ page' = [status |-> status]
    /\ reader' = {} /\ found' = Nothing
    /\ UNCHANGED <<disk, opts, req, current, clicked, unchanged, changes>>

OpenFails ==
    /\ pc = "asked"
    /\ \/ Fail(404)      \* NotFound
       \/ Fail(403)      \* PermissionDenied
       \/ Fail(500)      \* anything else

\* The stream returns a name; what it stands for is looked at next.
ReadEntry ==
    /\ pc = "reading"
    /\ \E n \in reader :
        /\ current' = [NoEntry EXCEPT !.name = n]
        /\ reader' = reader \ {n}
    /\ pc' = "metadata"
    /\ UNCHANGED <<disk, opts, req, found, page, clicked, unchanged, changes>>

\* An error of the stream itself ends the listing, and is the answer.
ReadFails == pc = "reading" /\ Fail(500)

Skip ==
    /\ pc' = "reading"
    /\ current' = NoEntry
    /\ UNCHANGED found

Push(type, meta, size) ==
    /\ pc' = "reading"
    /\ found' = [entries |-> Append(found.entries,
                    [name |-> current.name, type |-> type, mtime |-> meta.mtime,
                     size |-> size, uri |-> Link(req.base, current.name, type = "dir")]),
                 dirs  |-> found.dirs + (IF type = "dir" THEN 1 ELSE 0),
                 files |-> found.files + (IF type = "file" THEN 1 ELSE 0)]
    /\ current' = NoEntry

\* DirEntry::metadata does not follow a link.
Metadata ==
    LET meta == disk[current.name]
    IN  /\ pc = "metadata"
        /\ \/ /\ \/ meta.type = "none"
                 \/ opts.ignore_hidden_files /\ is_hidden(current.name)
                 \/ meta.type = "special"
                 \/ meta.type = "symlink" /\ opts.disable_symlinks
              /\ Skip
           \/ /\ meta.type \in {"dir", "file"}
              /\ ~(opts.ignore_hidden_files /\ is_hidden(current.name))
              /\ Push(meta.type, meta, meta.size)
           \/ /\ meta.type = "symlink" /\ ~opts.disable_symlinks
              /\ ~(opts.ignore_hidden_files /\ is_hidden(current.name))
              /\ pc' = "canonicalize"
              /\ current' = [current EXCEPT !.meta = meta]
              /\ UNCHANGED found
        /\ UNCHANGED <<disk, opts, req, reader, page, clicked, unchanged, changes>>

\* The path is resolved anew: the link may be gone, or no link any more.
Canonicalize ==
    LET node == disk[current.name]
        path == IF node.type = "symlink" THEN node.target ELSE current.name
    IN  /\ pc = "canonicalize"
        /\ \/ /\ node.type = "none" \/ disk[path].type = "none"
              /\ Skip
           \/ /\ node.type # "none" /\ disk[path].type # "none"
              /\ pc' = "symlink_metadata"
              /\ current' = [current EXCEPT !.path = path]
              /\ UNCHANGED found
        /\ UNCHANGED <<disk, opts, req, reader, page, clicked, unchanged, changes>>

\* Mutant: without the entry when its target is a directory.
SymlinkMetadataFilesOnly ==
    LET target == disk[current.path]
    IN  /\ pc = "symlink_metadata"
        /\ IF target.type # "file" THEN Skip
           ELSE Push("file", current.meta, target.size)
        /\ UNCHANGED <<disk, opts, req, reader, page, clicked, unchanged, changes>>

\* Whatever is no directory counts as a file.  The entry keeps the link's mtime.
SymlinkMetadata ==
    LET target == disk[current.path]
    IN  /\ pc = "symlink_metadata"
        /\ CASE target.type = "none" -> Skip
             [] target.type = "dir"  -> Push("dir", current.meta, target.size)
             [] OTHER                -> Push("file", current.meta, target.size)
        /\ UNCHANGED <<disk, opts, req, reader, page, clicked, unchanged, changes>>

OrderCode == IF req.query = NoSort THEN opts.order ELSE req.query

\* json_auto_index or html_auto_index, once the stream has ended.
AutoIndex ==
    /\ pc = "reading"
    /\ reader = {}
    /\ pc' = "answered"
    /\ page' = [status |-> 200, format |-> opts.format,
                entries |-> sort_file_entries(found.entries, OrderCode),
                dirs |-> found.dirs, files |-> found.files,
                attrs |-> SortingAttr(OrderCode),
                parent |-> req.base # [segments |-> << >>, slash |-> TRUE]]
    /\ found' = Nothing
    /\ UNCHANGED <<disk, opts, req, reader, current, clicked, unchanged, changes>>

----------------------------------------------------------------------------
\* The client and the directory.

Ask(base, query, click) ==
    /\ pc = "answered"
    /\ pc' = "asked"
    /\ req' = [base |-> base, query |-> query]
    /\ clicked' = click
    /\ page' = NoPage
    /\ UNCHANGED <<disk, opts, reader, current, found, unchanged, changes>>

AskAnew(base, query) == Ask(base, query, NoClick)

\* The link of a column header changes nothing but the query.
Click(column) ==
    /\ page.status = 200 /\ page.format = "Html"
    /\ Ask(req.base, page.attrs[column], [column |-> column, before |-> OrderCode])

(***************************************************************************)
(* Something is created, removed or replaced.  A name created while the    *)
(* directory is read may be returned by the stream or not; one that is     *)
(* removed may still be.                                                   *)
(***************************************************************************)
Change(x, node) ==
    /\ changes < MaxChanges
    /\ disk[x] # node
    /\ disk' = [disk EXCEPT ![x] = node]
    /\ \/ UNCHANGED reader
       \/ x \in Names /\ disk[x].type = "none" /\ pc # "answered" /\ reader' = reader \cup {x}
       \/ x \in reader /\ node.type = "none" /\ reader' = reader \ {x}
    /\ unchanged' = unchanged \ {x}
    /\ changes' = changes + 1
    /\ UNCHANGED <<opts, req, pc, current, found, page, clicked>>

Init ==
    /\ disk \in Disks
    /\ opts \in Options
    /\ req \in [base : Bases, query : Queries]
    /\ pc = "asked"
    /\ reader = {}
    /\ current = NoEntry
    /\ found = Nothing
    /\ page = NoPage
    /\ clicked = NoClick
    /\ unchanged = {}
    /\ changes = 0

Next ==
    \/ OpenDir
    \/ OpenFails
    \/ ReadEntry
    \/ ReadFails
    \/ Metadata
    \/ Canonicalize
    \/ SymlinkMetadata
    \/ AutoIndex
    \/ \E base \in Bases, query \in Queries : AskAnew(base, query)
    \/ \E column \in {"name", "last_modified", "size"} : Click(column)
    \/ \E x \in Places : \E node \in Menu[x] : Change(x, node)

Spec == Init /\ [][Next]_vars

----------------------------------------------------------------------------
\* Properties.

Answered == pc = "answered" /\ page.status = 200

\* Where stat, following links, ends for an entry.
Followed(n) == IF disk[n].type = "symlink" THEN disk[n].target ELSE n

\* Nothing about the entry has changed since the directory was opened.
Settled(n) == {n, Followed(n)} \subseteq unchanged

Showable(n) ==
    /\ disk[Followed(n)].type \notin {"none"}
    /\ disk[n].type # "special"
    /\ ~(opts.disable_symlinks /\ disk[n].type = "symlink")
    /\ ~(opts.ignore_hidden_files /\ n[1] = ".")

Shows(e, n) ==
    /\ e.name = n
    /\ e.mtime = disk[n].mtime
    /\ (e.type = "dir") = (disk[Followed(n)].type = "dir")
    /\ e.type = "file" => e.size = disk[Followed(n)].size

(***************************************************************************)
(* A listing made while the directory changes is right about everything    *)
(* that did not change: such an entry is on the page exactly once, with    *)
(* the type and size of what it leads to and its own time, or, if it is    *)
(* hidden, a refused link, a broken link or no file, it is not there.  The *)
(* counts are those of the page.  An entry that vanishes between two       *)
(* system calls of read_dir_entries costs no other entry its place.        *)
(***************************************************************************)
ListingFaithful ==
    Answered =>
        /\ \A n \in Names :
            LET is == {i \in DOMAIN page.entries : page.entries[i].name = n}
            IN  Settled(n) =>
                    /\ Cardinality(is) = (IF Showable(n) THEN 1 ELSE 0)
                    /\ \A i \in is : Shows(page.entries[i], n)
        /\ page.dirs = Cardinality({i \in DOMAIN page.entries : page.entries[i].type = "dir"})
        /\ page.files = Len(page.entries) - page.dirs

Ascends(s, column) ==
    \A i, j \in DOMAIN s : i < j => SortKey(column, s[i]) <= SortKey(column, s[j])

(***************************************************************************)
(* Following the header of a column sorts the page by that column, and     *)
(* following it again turns the order round, whatever the configured order *)
(* is and whatever column was sorted by before.                            *)
(***************************************************************************)
HeadersSort ==
    Answered /\ clicked # NoClick =>
        LET sorted == IF clicked.before \in {0, 2, 4} /\ Column(clicked.before) = clicked.column
                      THEN Reverse(page.entries) ELSE page.entries
        IN  Ascends(sorted, clicked.column)

\* What the server reads from a segment: up to a query, with the escapes undone.
Start == [name |-> << >>, escape |-> FALSE, query |-> FALSE]

Read(r, c) ==
    CASE r.query                          -> r
      [] ~r.query /\ r.escape             -> [r EXCEPT !.name = Append(@, c), !.escape = FALSE]
      [] ~r.query /\ ~r.escape /\ c = "%" -> [r EXCEPT !.escape = TRUE]
      [] ~r.query /\ ~r.escape /\ c = "?" -> [r EXCEPT !.query = TRUE]
      [] OTHER                            -> [r EXCEPT !.name = Append(@, c)]

Decode(segment) ==
    LET read[k \in 0 .. Len(segment)] ==
            IF k = 0 THEN Start ELSE Read(read[k - 1], segment[k])
    IN  read[Len(segment)].name

\* How a browser resolves a relative link, and the names it then asks for.
Resolve(base, link) ==
    LET dir == IF base.slash THEN base.segments ELSE Front(base.segments)
        all == IF link = ParentLink THEN Front(dir) ELSE dir \o link.segments
    IN  [i \in DOMAIN all |-> Decode(all[i])]

(***************************************************************************)
(* Every link of the page leads to the entry it is shown for, with a slash *)
(* at the end if that is a directory, whether or not the request path ends *)
(* with one and whatever characters the name has.  The link to the parent  *)
(* directory leads there if the request path ends with a slash.            *)
(***************************************************************************)
LinksLead ==
    Answered =>
        LET here == [i \in DOMAIN req.base.segments |-> Decode(req.base.segments[i])]
        IN  /\ \A i \in DOMAIN page.entries :
                LET e == page.entries[i]
                IN  /\ Resolve(req.base, e.uri) = Append(here, e.name)
                    /\ e.uri.slash = (e.type = "dir")
            /\ page.parent /\ req.base.slash =>
                    Resolve(req.base, ParentLink) = Front(here)

(***************************************************************************)
(* The size shown is in the largest unit that fits, and off by no more     *)
(* than half a hundredth of it and what the shifts of format_file_size cut *)
(* off.                                                                    *)
(***************************************************************************)
SizeShown ==
    Answered =>
        \A i \in DOMAIN page.entries :
            LET size == page.entries[i].size
                shown == format_file_size(size)
                one == UnitSize[shown.unit]
            IN  page.entries[i].type = "file" =>
                    /\ shown.unit = 0 \/ one <= size
                    /\ shown.unit = 5 \/ size < one * KIB
                    /\ 2 * shown.hundredths * one <= 200 * size + one
                    /\ 200 * size < 2 * shown.hundredths * one + one + 200 * (one \div KIB)

=============================================================================
