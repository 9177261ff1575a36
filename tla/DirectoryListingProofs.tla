------------------------ MODULE DirectoryListingProofs ------------------------
(***************************************************************************)
(* The properties of DirectoryListing for every directory, configuration   *)
(* and request, and for any changes of the directory while it is read.     *)
(***************************************************************************)
EXTENDS DirectoryListing, NegotiationProofs, FiniteSetTheorems

----------------------------------------------------------------------------
\* The inductive invariant.

\* What read_dir_entries may have made of a name it was given.
Entries(base) ==
    {e \in [name : Names, type : {"dir", "file"}, mtime : Int, size : Nat,
            uri : {Link(base, x[1], x[2]) : x \in Names \X BOOLEAN}] :
        e.uri = Link(base, e.name, e.type = "dir")}

LookingAt(n) ==
    pc \in {"metadata", "canonicalize", "symlink_metadata"} /\ current.name = n

TypeOK ==
    /\ disk \in Disk /\ opts \in Option
    /\ req \in [base : Base, query : Nat \cup {NoSort}]
    /\ pc \in {"asked", "reading", "metadata", "canonicalize", "symlink_metadata", "answered"}
    /\ reader \in SUBSET Names
    /\ current \in [name : Names \cup {<< >>}, meta : Nodes, path : Places \cup {<< >>}]
    /\ pc \in {"metadata", "canonicalize", "symlink_metadata"} => current.name \in Names
    /\ pc = "symlink_metadata" => current.path \in Places
    /\ unchanged \in SUBSET Places

\* The places of s that show n, and those that show a directory.
At(s, n) == {i \in DOMAIN s : s[i].name = n}
Dirs(s) == {i \in DOMAIN s : s[i].type = "dir"}

\* The entries are well formed and counted.
Counted(s, dirs, files) ==
    /\ s \in Seq(Entries(req.base))
    /\ dirs = Cardinality(Dirs(s))
    /\ files = Len(s) - dirs

\* n is in s once, as it is, if it is to be shown at all.
Right(s, n) ==
    IF Showable(n) THEN \E i \in DOMAIN s : At(s, n) = {i} /\ Shows(s[i], n)
    ELSE At(s, n) = {}

(***************************************************************************)
(* While the directory is read: a name that has not changed since is still *)
(* to come, or at hand, or was treated as it should have been.             *)
(***************************************************************************)
ReadSoFar ==
    pc \in {"reading", "metadata", "canonicalize", "symlink_metadata"} =>
        /\ Counted(found.entries, found.dirs, found.files)
        /\ \A n \in Names \cap unchanged :
            /\ n \in reader => ~LookingAt(n)
            /\ n \in reader \/ LookingAt(n) => At(found.entries, n) = {}
            /\ n \notin reader /\ ~LookingAt(n) /\ Settled(n) => Right(found.entries, n)

\* A link that is looked into is the one that is there, and may be shown.
Followable ==
    LET n == current.name
    IN  pc \in {"canonicalize", "symlink_metadata"} /\ n \in unchanged =>
            /\ current.meta = disk[n]
            /\ disk[n].type = "symlink" /\ ~opts.disable_symlinks
            /\ ~(opts.ignore_hidden_files /\ is_hidden(n))
            /\ pc = "symlink_metadata" /\ Settled(n) => current.path = Followed(n)

\* The page was sorted as asked, and its headers were made for that order.
PageOK ==
    Answered =>
        /\ Counted(page.entries, page.dirs, page.files)
        /\ \A n \in Names : Settled(n) => Right(page.entries, n)
        /\ page.attrs = SortingAttr(OrderCode)
        /\ Column(OrderCode) # "none" =>
            Ascends(IF Descending(OrderCode) THEN Reverse(page.entries) ELSE page.entries,
                    Column(OrderCode))
        /\ page.parent => req.base.segments # << >> \/ ~req.base.slash

\* The request that a header leads to.
ClickOK ==
    clicked # NoClick =>
        /\ clicked.column \in {"name", "last_modified", "size"}
        /\ req.query = SortingAttr(clicked.before)[clicked.column]

IInv == TypeOK /\ ReadSoFar /\ Followable /\ PageOK /\ ClickOK

----------------------------------------------------------------------------
\* The steps of the listing.

Looking == pc \in {"metadata", "canonicalize", "symlink_metadata"}

\* What a look at an entry leaves alone.
Aside == <<disk, opts, req, reader, page, clicked, unchanged, changes>>

\* As long as nothing happens to the directory, what was right about a name still is.
LEMMA Still ==
    ASSUME UNCHANGED <<disk, opts, unchanged>>
    PROVE  \A s, n : /\ Right(s, n)' <=> Right(s, n)
                     /\ Settled(n)' <=> Settled(n)
                     /\ Followed(n)' = Followed(n)
<1> SUFFICES ASSUME NEW s, NEW n
             PROVE  /\ Right(s, n)' <=> Right(s, n)
                    /\ Settled(n)' <=> Settled(n)
                    /\ Followed(n)' = Followed(n)
  OBVIOUS
<1>1. Followed(n)' = Followed(n)
  BY Zenon DEF Followed
<1>2. Settled(n)' <=> Settled(n)
  BY <1>1, Zenon DEF Settled
<1>3. Showable(n)' <=> Showable(n)
  BY <1>1, Zenon DEF Showable
<1>4. \A e : Shows(e, n)' <=> Shows(e, n)
  BY <1>1, Zenon DEF Shows
<1>5. Right(s, n)' <=> Right(s, n)
  BY <1>3, <1>4, Zenon DEF Right
<1> QED
  BY <1>1, <1>2, <1>5, Zenon

\* The same for the counts, as long as the request is the same.
LEMMA StillCounted ==
    ASSUME UNCHANGED req
    PROVE  \A s, dirs, files : Counted(s, dirs, files)' <=> Counted(s, dirs, files)
BY Zenon DEF Counted

\* The types of what an entry is looked up in.
LEMMA NodeType ==
    ASSUME TypeOK, NEW x \in Places
    PROVE  /\ disk[x] \in Nodes /\ disk[x].mtime \in Int /\ disk[x].size \in Nat
           /\ disk[x].type \in {"none", "file", "dir", "symlink", "special"}
           /\ disk[x].type = "symlink" => disk[x].target \in Targets
<1>1. disk[x] \in Nodes /\ disk[x] \in Menu[x]
  BY DEF TypeOK, Disk
<1>2. disk[x].type = "symlink" => disk[x].target \in Targets
  BY <1>1, ListingAssumption, Zenon
<1> QED
  BY <1>1, <1>2 DEF Nodes

(***************************************************************************)
(* An entry that is skipped (continue in read_dir_entries) is one that is  *)
(* not to be shown, if it did not change.                                  *)
(***************************************************************************)
LEMMA Skipped ==
    ASSUME IInv, Looking, Skip, UNCHANGED Aside,
           Settled(current.name) => ~Showable(current.name)
    PROVE  IInv'
<1> DEFINE n == current.name
<1>1. UNCHANGED <<disk, opts, req, reader, page, clicked, unchanged, found>> /\ pc' = "reading"
  BY Zenon DEF Aside, Skip
<1>2. n \in Names
  BY Zenon DEF IInv, TypeOK, Looking
<1>3. TypeOK'
  <2>1. current' \in [name : Names \cup {<< >>}, meta : Nodes, path : Places \cup {<< >>}]
    BY DEF Skip, NoEntry, Absent, Node, Nodes
  <2>2. disk' \in Disk /\ reader' \in SUBSET Names /\ unchanged' \in SUBSET Places
    BY <1>1, Zenon DEF IInv, TypeOK
  <2>3. opts' \in Option /\ req' \in [base : Base, query : Nat \cup {NoSort}]
    BY <1>1, Zenon DEF IInv, TypeOK
  <2> QED
    BY <1>1, <2>1, <2>2, <2>3 DEF TypeOK
<1>4. ReadSoFar'
  <2>1. ReadSoFar /\ pc \in {"reading", "metadata", "canonicalize", "symlink_metadata"}
    BY DEF IInv, Looking
  <2>2. Counted(found.entries, found.dirs, found.files)'
    BY <1>1, <2>1, StillCounted, Zenon DEF ReadSoFar
  <2>3. \A m : ~LookingAt(m)'
    BY <1>1 DEF LookingAt
  <2>4. \A m : LookingAt(m) <=> m = n
    BY Zenon DEF LookingAt, Looking
  <2> SUFFICES ASSUME NEW m \in Names \cap unchanged
               PROVE  /\ m \in reader => At(found.entries, m) = {}
                      /\ m \notin reader /\ Settled(m) => Right(found.entries, m)
    BY <1>1, <2>2, <2>3, Still, Zenon DEF ReadSoFar
  <2>5. CASE m = n
    <3>1. At(found.entries, n) = {} /\ n \notin reader
      BY <2>1, <2>4, <2>5, Zenon DEF ReadSoFar
    <3> QED
      BY <2>5, <3>1, Zenon DEF Right
  <2>6. CASE m # n
    BY <2>1, <2>4, <2>6, Zenon DEF ReadSoFar
  <2> QED
    BY <2>5, <2>6
<1>5. Followable' /\ PageOK'
  BY <1>1 DEF Followable, PageOK, Answered
<1>6. ClickOK'
  BY <1>1, Zenon DEF IInv, ClickOK
<1> QED
  BY <1>3, <1>4, <1>5, <1>6, Zenon DEF IInv

\* What Append does, place by place.
Longer(t, s, c, S) ==
    /\ t \in Seq(S) /\ Len(t) = Len(s) + 1
    /\ t[Len(s) + 1] = c /\ \A k \in 1 .. Len(s) : t[k] = s[k]

\* Of Append: it is longer by what is appended, at the end.
LEMMA AppendIs ==
    ASSUME NEW S, NEW s \in Seq(S), NEW c \in S
    PROVE  Longer(Append(s, c), s, c, S)
<1>1. Append(s, c) \in Seq(S)
  OBVIOUS
<1>2. Len(Append(s, c)) = Len(s) + 1
  OBVIOUS
<1>3. Append(s, c)[Len(s) + 1] = c
  OBVIOUS
<1>4. \A k \in 1 .. Len(s) : Append(s, c)[k] = s[k]
  OBVIOUS
<1> QED
  BY <1>1, <1>2, <1>3, <1>4, Zenon DEF Longer

\* t has one entry more than s.
HasOneMore(t, s, e, S) ==
    /\ t \in Seq(S) /\ Len(t) = Len(s) + 1
    /\ \A m : m # e.name => At(t, m) = At(s, m)
    /\ \A i \in DOMAIN s : i \in DOMAIN t /\ t[i] = s[i]
    /\ At(s, e.name) = {} => \E i \in DOMAIN t : At(t, e.name) = {i} /\ t[i] = e
    /\ Cardinality(Dirs(s)) \in Nat
    /\ Cardinality(Dirs(t)) = Cardinality(Dirs(s)) + (IF e.type = "dir" THEN 1 ELSE 0)

\* file_entries.push(entry): one more place, for one name.
LEMMA OneMore ==
    ASSUME NEW S, NEW s \in Seq(S), NEW e \in S
    PROVE  HasOneMore(Append(s, e), s, e, S)
<1> DEFINE t == Append(s, e)
           n == Len(s)
<1>1. Longer(t, s, e, S)
  BY AppendIs, Zenon
<1>2. n \in Nat /\ DOMAIN s = 1 .. n
  OBVIOUS
<1> HIDE DEF t, n
<1>3. /\ t \in Seq(S) /\ Len(t) = n + 1
      /\ t[n + 1] = e /\ \A k \in 1 .. n : t[k] = s[k]
  BY <1>1, Zenon DEF Longer, n
<1>4. DOMAIN t = 1 .. n + 1
  BY <1>3
<1>5. \A k : k \in DOMAIN t <=> k \in DOMAIN s \/ k = n + 1
  BY <1>2, <1>4
<1>6. n + 1 \notin DOMAIN s
  BY <1>2
<1>7. \A k \in DOMAIN s : t[k] = s[k]
  BY <1>2, <1>3, Zenon
<1>8. ASSUME NEW m, m # e.name
      PROVE  At(t, m) = At(s, m)
  BY <1>3, <1>5, <1>7, <1>8, Zenon DEF At
<1>9. At(s, e.name) = {} => At(t, e.name) = {n + 1}
  BY <1>3, <1>5, <1>7, Zenon DEF At
<1>10. IsFiniteSet(Dirs(s)) /\ Cardinality(Dirs(s)) \in Nat
  <2>1. IsFiniteSet(1 .. n)
    <3>1. 1 \in Int /\ n \in Int
      BY <1>2
    <3> QED
      BY <3>1, FS_Interval
  <2>2. Dirs(s) \in SUBSET (1 .. n)
    BY <1>2, Zenon DEF Dirs
  <2> QED
    BY <2>1, <2>2, FS_Subset, FS_CardinalityType, Zenon
<1>11. Cardinality(Dirs(t)) = Cardinality(Dirs(s)) + (IF e.type = "dir" THEN 1 ELSE 0)
  <2>1. CASE e.type = "dir"
    <3>1. Dirs(t) = Dirs(s) \cup {n + 1} /\ n + 1 \notin Dirs(s)
      BY <1>3, <1>5, <1>6, <1>7, <2>1, Zenon DEF Dirs
    <3>2. Cardinality(Dirs(t)) = Cardinality(Dirs(s)) + 1
      BY <1>10, <3>1, FS_AddElement, Zenon
    <3> QED
      BY <2>1, <3>2, Zenon
  <2>2. CASE e.type # "dir"
    <3>1. Dirs(t) = Dirs(s)
      BY <1>3, <1>5, <1>7, <2>2, Zenon DEF Dirs
    <3> QED
      BY <1>10, <2>2, <3>1
  <2> QED
    BY <2>1, <2>2
<1>12. At(s, e.name) = {} => \E i \in DOMAIN t : At(t, e.name) = {i} /\ t[i] = e
  BY <1>3, <1>5, <1>9, Zenon
<1> QED
  BY <1>3, <1>5, <1>7, <1>8, <1>10, <1>11, <1>12, Zenon DEF HasOneMore, t, n

(***************************************************************************)
(* An entry that is pushed is shown once, and as it is, if it did not      *)
(* change.                                                                 *)
(***************************************************************************)
LEMMA Pushed ==
    ASSUME IInv, Looking, UNCHANGED Aside,
           NEW type \in {"dir", "file"}, NEW meta \in Nodes, NEW size \in Nat,
           Push(type, meta, size),
           LET n == current.name
           IN  Settled(n) =>
                /\ Showable(n) /\ meta.mtime = disk[n].mtime
                /\ (type = "dir") = (disk[Followed(n)].type = "dir")
                /\ type = "file" => size = disk[Followed(n)].size
    PROVE  IInv'
<1> DEFINE n == current.name
           s == found.entries
           e == [name |-> n, type |-> type, mtime |-> meta.mtime, size |-> size,
                 uri |-> Link(req.base, n, type = "dir")]
           t == Append(s, e)
           S == Entries(req.base)
<1>1. UNCHANGED <<disk, opts, req, reader, page, clicked, unchanged>> /\ pc' = "reading"
  BY Zenon DEF Aside, Push
<1>2. n \in Names
  BY Zenon DEF IInv, TypeOK, Looking
<1>3. /\ found'.entries = t /\ current' = NoEntry
      /\ found'.dirs = found.dirs + (IF type = "dir" THEN 1 ELSE 0)
      /\ found'.files = found.files + (IF type = "file" THEN 1 ELSE 0)
  BY DEF Push
<1>4. TypeOK'
  <2>1. current' \in [name : Names \cup {<< >>}, meta : Nodes, path : Places \cup {<< >>}]
    BY <1>3 DEF NoEntry, Absent, Node, Nodes
  <2>2. disk' \in Disk /\ reader' \in SUBSET Names /\ unchanged' \in SUBSET Places
    BY <1>1, Zenon DEF IInv, TypeOK
  <2>3. opts' \in Option /\ req' \in [base : Base, query : Nat \cup {NoSort}]
    BY <1>1, Zenon DEF IInv, TypeOK
  <2> QED
    BY <1>1, <2>1, <2>2, <2>3, SMTT(40) DEF TypeOK
<1>5. e \in S /\ e.name = n /\ e.type = type /\ e.mtime = meta.mtime /\ e.size = size
  <2>1. meta.mtime \in Int
    BY DEF Nodes
  <2>2. Link(req.base, n, type = "dir") \in {Link(req.base, x[1], x[2]) : x \in Names \X BOOLEAN}
    <3> DEFINE is_dir == (type = "dir")
               y == <<n, is_dir>>
    <3>1. is_dir \in BOOLEAN
      BY Zenon
    <3> HIDE DEF is_dir
    <3>2. y \in Names \X BOOLEAN /\ y[1] = n /\ y[2] = is_dir
      BY <1>2, <3>1
    <3> HIDE DEF y
    <3> QED
      BY <3>2, Zenon DEF is_dir
  <2> QED
    BY <1>2, <2>1, <2>2 DEF Entries
<1>6. ReadSoFar /\ pc \in {"reading", "metadata", "canonicalize", "symlink_metadata"}
  BY DEF IInv, Looking
<1>7. s \in Seq(S) /\ found.dirs = Cardinality(Dirs(s)) /\ found.files = Len(s) - found.dirs
  BY <1>6, Zenon DEF ReadSoFar, Counted
<1> HIDE DEF e, S
<1>8. /\ t \in Seq(S) /\ Len(t) = Len(s) + 1
      /\ \A m : m # n => At(t, m) = At(s, m)
      /\ \A i \in DOMAIN s : i \in DOMAIN t /\ t[i] = s[i]
      /\ At(s, n) = {} => \E i \in DOMAIN t : At(t, n) = {i} /\ t[i] = e
      /\ Cardinality(Dirs(s)) \in Nat
      /\ Cardinality(Dirs(t)) = Cardinality(Dirs(s)) + (IF type = "dir" THEN 1 ELSE 0)
  <2>1. HasOneMore(t, s, e, S)
    BY <1>5, <1>7, OneMore, Zenon
  <2> HIDE DEF t
  <2> QED
    BY <1>5, <2>1, Zenon DEF HasOneMore
<1> HIDE DEF t
<1>9. Counted(found.entries, found.dirs, found.files)'
  <2>1. found'.dirs = Cardinality(Dirs(t))
    BY <1>3, <1>7, <1>8, Zenon
  <2>2. found'.files = Len(t) - found'.dirs
    <3>1. Len(s) \in Nat
      BY <1>7
    <3> QED
      BY <1>3, <1>7, <1>8, <3>1
  <2>3. Counted(t, found'.dirs, found'.files)
    BY <1>8, <2>1, <2>2, Zenon DEF Counted, S
  <2> QED
    BY <1>1, <1>3, <2>3, StillCounted, Zenon
<1>10. ReadSoFar'
  <2>1. \A m : ~LookingAt(m)'
    BY <1>1 DEF LookingAt
  <2>2. \A m : LookingAt(m) <=> m = n
    BY Zenon DEF LookingAt, Looking
  <2> SUFFICES ASSUME NEW m \in Names \cap unchanged
               PROVE  /\ m \in reader => At(t, m) = {}
                      /\ m \notin reader /\ Settled(m) => Right(t, m)
    BY <1>1, <1>3, <1>9, <2>1, Still, Zenon DEF ReadSoFar
  <2>3. CASE m = n
    <3>1. At(s, n) = {} /\ n \notin reader
      BY <1>6, <2>2, <2>3, Zenon DEF ReadSoFar
    <3>2. PICK i \in DOMAIN t : At(t, n) = {i} /\ t[i] = e
      BY <1>8, <3>1, Zenon
    <3>3. Settled(n) => Showable(n) /\ Shows(e, n)
      BY <1>5, Zenon DEF Shows
    <3> QED
      BY <2>3, <3>1, <3>2, <3>3, Zenon DEF Right
  <2>4. CASE m # n
    <3>1. /\ m \in reader => At(s, m) = {}
          /\ m \notin reader /\ Settled(m) => Right(s, m)
      BY <1>6, <2>2, <2>4, Zenon DEF ReadSoFar
    <3>2. At(t, m) = At(s, m)
      BY <1>8, <2>4, Zenon
    <3>3. Right(s, m) => Right(t, m)
      BY <1>8, <3>2, Zenon DEF Right
    <3> QED
      BY <3>1, <3>2, <3>3, Zenon
  <2> QED
    BY <2>3, <2>4
<1>11. Followable' /\ PageOK'
  BY <1>1 DEF Followable, PageOK, Answered
<1>12. ClickOK'
  BY <1>1, Zenon DEF IInv, ClickOK
<1> QED
  BY <1>4, <1>10, <1>11, <1>12, Zenon DEF IInv

\* From one system call to the next about the same entry.
LEMMA LookedFurther ==
    ASSUME IInv, Looking, UNCHANGED Aside, UNCHANGED found,
           pc' \in {"canonicalize", "symlink_metadata"}, current'.name = current.name,
           TypeOK', Followable'
    PROVE  IInv'
<1>1. UNCHANGED <<disk, opts, req, reader, page, clicked, unchanged>>
  BY Zenon DEF Aside
<1>2. ReadSoFar'
  <2>1. ReadSoFar /\ pc \in {"reading", "metadata", "canonicalize", "symlink_metadata"}
    BY DEF IInv, Looking
  <2>2. Counted(found.entries, found.dirs, found.files)'
    BY <1>1, <2>1, StillCounted, Zenon DEF ReadSoFar
  <2>3. \A m : LookingAt(m)' <=> LookingAt(m)
    BY DEF LookingAt, Looking
  <2> QED
    BY <1>1, <2>1, <2>2, <2>3, Still, Zenon DEF ReadSoFar
<1>3. PageOK'
  BY DEF PageOK, Answered
<1>4. ClickOK'
  BY <1>1, Zenon DEF IInv, ClickOK
<1> QED
  BY <1>2, <1>3, <1>4, Zenon DEF IInv

\* The names of the properties' and the code's words for a hidden entry.
LEMMA ShowableIs ==
    ASSUME NEW n
    PROVE  Showable(n) <=>
                /\ disk[Followed(n)].type # "none" /\ disk[n].type # "special"
                /\ ~(opts.disable_symlinks /\ disk[n].type = "symlink")
                /\ ~(opts.ignore_hidden_files /\ is_hidden(n))
BY Zenon DEF Showable, is_hidden

\* DirEntry::metadata and what it decides.
LEMMA MetadataKeeps ==
    ASSUME IInv, Metadata
    PROVE  IInv'
<1> DEFINE n == current.name
           meta == disk[n]
           hidden == opts.ignore_hidden_files /\ is_hidden(n)
<1>1. Looking /\ pc = "metadata" /\ UNCHANGED Aside
  BY DEF Metadata, Looking, Aside
<1>2. TypeOK /\ n \in Names /\ n \in Places
  BY <1>1, Zenon DEF IInv, TypeOK, Looking, Places
<1>3. /\ meta \in Nodes /\ meta.size \in Nat
      /\ meta.type \in {"none", "file", "dir", "symlink", "special"}
  BY <1>2, NodeType, Zenon
<1>4. meta.type # "symlink" => Followed(n) = n
  BY Zenon DEF Followed
<1>5. CASE /\ \/ meta.type = "none"
              \/ hidden
              \/ meta.type = "special"
              \/ meta.type = "symlink" /\ opts.disable_symlinks
           /\ Skip
  <2>1. ~Showable(n)
    BY <1>4, <1>5, ShowableIs
  <2> QED
    BY <1>1, <1>5, <2>1, Skipped, Zenon
<1>6. CASE meta.type \in {"dir", "file"} /\ ~hidden /\ Push(meta.type, meta, meta.size)
  <2>1. Followed(n) = n /\ Showable(n)
    BY <1>4, <1>6, ShowableIs, SMTT(40)
  <2> QED
    BY <1>1, <1>3, <1>6, <2>1, Pushed, Zenon
<1>7. CASE /\ meta.type = "symlink" /\ ~opts.disable_symlinks /\ ~hidden
           /\ pc' = "canonicalize" /\ current' = [current EXCEPT !.meta = meta]
           /\ UNCHANGED found
  <2>1. UNCHANGED <<disk, opts, req, reader, page, clicked, unchanged>>
    BY <1>1, Zenon DEF Aside
  <2>2. /\ current'.name = n /\ current'.meta = meta
        /\ current' \in [name : Names \cup {<< >>}, meta : Nodes, path : Places \cup {<< >>}]
    BY <1>2, <1>3, <1>7 DEF TypeOK
  <2>3. TypeOK'
    BY <1>2, <1>7, <2>1, <2>2 DEF TypeOK
  <2>4. Followable'
    BY <1>7, <2>1, <2>2 DEF Followable
  <2> QED
    BY <1>1, <1>7, <2>2, <2>3, <2>4, LookedFurther
<1> QED
  BY <1>5, <1>6, <1>7, Zenon DEF Metadata

\* Path::canonicalize: a link that did not change leads where it did.
LEMMA CanonicalizeKeeps ==
    ASSUME IInv, Canonicalize
    PROVE  IInv'
<1> DEFINE n == current.name
           node == disk[n]
           path == IF node.type = "symlink" THEN node.target ELSE n
<1>1. Looking /\ pc = "canonicalize" /\ UNCHANGED Aside
  BY DEF Canonicalize, Looking, Aside
<1>2. TypeOK /\ Followable /\ n \in Names /\ n \in Places
  BY <1>1, Zenon DEF IInv, TypeOK, Looking, Places
<1>3. path \in Places
  BY <1>2, NodeType DEF Places
<1>4. path = Followed(n)
  BY Zenon DEF Followed
<1>5. CASE (node.type = "none" \/ disk[path].type = "none") /\ Skip
  <2>1. ~Showable(n)
    <3>1. CASE disk[path].type = "none"
      BY <1>4, <3>1, ShowableIs, Zenon
    <3>2. CASE node.type = "none"
      <4>1. path = n
        BY <3>2
      <4> QED
        BY <1>4, <3>2, <4>1, ShowableIs, Zenon
    <3> QED
      BY <1>5, <3>1, <3>2
  <2> QED
    BY <1>1, <1>5, <2>1, Skipped, Zenon
<1>6. CASE /\ node.type # "none" /\ disk[path].type # "none"
           /\ pc' = "symlink_metadata" /\ current' = [current EXCEPT !.path = path]
           /\ UNCHANGED found
  <2>1. UNCHANGED <<disk, opts, req, reader, page, clicked, unchanged>>
    BY <1>1, Zenon DEF Aside
  <2> HIDE DEF path
  <2>2. /\ current'.name = n /\ current'.meta = current.meta /\ current'.path = path
        /\ current' \in [name : Names \cup {<< >>}, meta : Nodes, path : Places \cup {<< >>}]
    BY <1>2, <1>3, <1>6 DEF TypeOK
  <2>3. TypeOK'
    BY <1>2, <1>3, <1>6, <2>1, <2>2 DEF TypeOK
  <2>4. Followable'
    <3>1. \A m : Followed(m)' = Followed(m)
      BY <2>1, Still, Zenon
    <3>2. n \in unchanged =>
            /\ current.meta = disk[n]
            /\ disk[n].type = "symlink" /\ ~opts.disable_symlinks
            /\ ~(opts.ignore_hidden_files /\ is_hidden(n))
      BY <1>1, <1>2 DEF Followable
    <3>3. current'.path = Followed(current.name)'
      BY <1>4, <2>2, <3>1, Zenon
    <3> QED
      BY <2>1, <2>2, <3>2, <3>3, Zenon DEF Followable
  <2> QED
    BY <1>1, <1>6, <2>2, <2>3, <2>4, LookedFurther
<1> QED
  BY <1>5, <1>6, Zenon DEF Canonicalize

\* fs::symlink_metadata of what the link led to.
LEMMA SymlinkMetadataKeeps ==
    ASSUME IInv, SymlinkMetadata
    PROVE  IInv'
<1> DEFINE n == current.name
           target == disk[current.path]
<1>1. Looking /\ pc = "symlink_metadata" /\ UNCHANGED Aside
  BY DEF SymlinkMetadata, Looking, Aside
<1>2. TypeOK /\ Followable /\ n \in Names /\ current.path \in Places /\ current.meta \in Nodes
  BY <1>1 DEF IInv, TypeOK, Looking
<1>3. target.size \in Nat
  BY <1>2, NodeType, Zenon
<1>4. ASSUME Settled(n)
      PROVE  /\ target = disk[Followed(n)] /\ current.meta.mtime = disk[n].mtime
             /\ Showable(n) <=> target.type # "none"
  <2>1. n \in unchanged
    BY <1>4, Zenon DEF Settled
  <2>2. /\ current.meta = disk[n] /\ disk[n].type = "symlink" /\ ~opts.disable_symlinks
        /\ ~(opts.ignore_hidden_files /\ is_hidden(n)) /\ current.path = Followed(n)
    BY <1>1, <1>2, <1>4, <2>1 DEF Followable
  <2>3. target = disk[Followed(n)] /\ current.meta.mtime = disk[n].mtime
    BY <2>2, Zenon
  <2>4. Showable(n) <=> target.type # "none"
    BY <2>2, <2>3, ShowableIs
  <2> QED
    BY <2>3, <2>4
<1>5. CASE target.type = "none" /\ Skip
  BY <1>1, <1>4, <1>5, Skipped, Zenon
<1>6. CASE target.type = "dir" /\ Push("dir", current.meta, target.size)
  <2>1. Settled(n) => Showable(n)
    BY <1>4, <1>6
  <2>2. Settled(n) => ("dir" = "dir") = (disk[Followed(n)].type = "dir")
    BY <1>4, <1>6, SMTT(40)
  <2> QED
    BY <1>1, <1>2, <1>3, <1>4, <1>6, <2>1, <2>2, Pushed, SMTT(40)
<1>7. CASE target.type \notin {"none", "dir"} /\ Push("file", current.meta, target.size)
  <2>1. Settled(n) => Showable(n)
    BY <1>4, <1>7
  <2>2. Settled(n) => ("file" = "dir") = (disk[Followed(n)].type = "dir")
    BY <1>4, <1>7
  <2> QED
    BY <1>1, <1>2, <1>3, <1>4, <1>7, <2>1, <2>2, Pushed, SMTT(40)
<1> QED
  BY <1>5, <1>6, <1>7 DEF SymlinkMetadata

\* fs::read_dir: nothing has been read, and everything is as it is.
LEMMA OpenDirKeeps ==
    ASSUME IInv, OpenDir
    PROVE  IInv'
<1>1. /\ UNCHANGED <<disk, opts, req, current, page, clicked>> /\ pc' = "reading"
      /\ reader' = {n \in Names : disk[n].type # "none"}
      /\ found' = Nothing /\ unchanged' = Places
  BY Zenon DEF OpenDir
<1>2. TypeOK'
  <2>1. reader' \in SUBSET Names /\ unchanged' \in SUBSET Places
    BY <1>1, Zenon
  <2> QED
    BY <1>1, <2>1 DEF IInv, TypeOK
<1>3. ReadSoFar'
  <2>1. found'.entries = << >> /\ found'.dirs = 0 /\ found'.files = 0
    BY <1>1 DEF Nothing
  <2>2. \A n : At(<< >>, n) = {} /\ Dirs(<< >>) = {}
    BY DEF At, Dirs
  <2>3. Counted(<< >>, 0, 0)'
    <3>1. << >> \in Seq(Entries(req'.base)) /\ Len(<< >>) - 0 = 0
      OBVIOUS
    <3>2. Cardinality({}) = 0
      BY FS_EmptySet, Zenon
    <3> QED
      BY <2>2, <3>1, <3>2, Zenon DEF Counted
  <2>4. \A n : ~LookingAt(n)'
    BY <1>1 DEF LookingAt
  <2>5. ASSUME NEW n \in Names, n \notin reader'
        PROVE  Right(<< >>, n)'
    <3>1. disk'[n].type = "none"
      BY <1>1, <2>5, Zenon
    <3>2. Followed(n)' = n
      BY <3>1 DEF Followed
    <3>3. ~Showable(n)'
      BY <3>1, <3>2 DEF Showable
    <3> QED
      BY <2>2, <3>3, Zenon DEF Right
  <2> QED
    BY <2>1, <2>2, <2>3, <2>4, <2>5, Zenon DEF ReadSoFar
<1>4. Followable' /\ PageOK'
  BY <1>1 DEF Followable, PageOK, Answered
<1>5. ClickOK'
  BY <1>1, Zenon DEF IInv, ClickOK
<1> QED
  BY <1>2, <1>3, <1>4, <1>5, Zenon DEF IInv

\* An answer that is no page says nothing.
LEMMA FailKeeps ==
    ASSUME IInv, NEW status, status # 200, Fail(status)
    PROVE  IInv'
<1>1. /\ UNCHANGED <<disk, opts, req, current, clicked, unchanged>> /\ pc' = "answered"
      /\ reader' = {} /\ page' = [status |-> status]
  BY Zenon DEF Fail
<1>2. TypeOK'
  BY <1>1 DEF IInv, TypeOK
<1>3. ReadSoFar' /\ Followable'
  BY <1>1 DEF ReadSoFar, Followable
<1>4. PageOK'
  BY <1>1 DEF PageOK, Answered
<1>5. ClickOK'
  BY <1>1, Zenon DEF IInv, ClickOK
<1> QED
  BY <1>2, <1>3, <1>4, <1>5, Zenon DEF IInv

\* The next name of the stream.
LEMMA ReadEntryKeeps ==
    ASSUME IInv, ReadEntry
    PROVE  IInv'
<1>1. PICK n \in reader : current' = [NoEntry EXCEPT !.name = n] /\ reader' = reader \ {n}
  BY Zenon DEF ReadEntry
<1>2. /\ UNCHANGED <<disk, opts, req, found, page, clicked, unchanged>>
      /\ pc = "reading" /\ pc' = "metadata"
  BY Zenon DEF ReadEntry
<1>3. n \in Names /\ reader \in SUBSET Names
  BY Zenon DEF IInv, TypeOK
<1>4. current'.name = n
  BY <1>1 DEF NoEntry
<1>5. TypeOK'
  <2>1. current' \in [name : Names \cup {<< >>}, meta : Nodes, path : Places \cup {<< >>}]
    BY <1>1, <1>3 DEF NoEntry, Absent, Node, Nodes
  <2>2. reader' \in SUBSET Names
    BY <1>1, <1>3, Zenon
  <2> QED
    BY <1>2, <1>3, <1>4, <2>1, <2>2 DEF IInv, TypeOK
<1>6. ReadSoFar'
  <2>1. ReadSoFar /\ pc \in {"reading", "metadata", "canonicalize", "symlink_metadata"}
    BY <1>2 DEF IInv
  <2>2. Counted(found.entries, found.dirs, found.files)'
    BY <1>2, <2>1, StillCounted, Zenon DEF ReadSoFar
  <2>3. \A m : ~LookingAt(m)
    BY <1>2 DEF LookingAt
  <2>4. \A m : LookingAt(m)' <=> m = n
    BY <1>2, <1>4 DEF LookingAt
  <2> SUFFICES ASSUME NEW m \in Names \cap unchanged
               PROVE  /\ m \in reader' => m # n
                      /\ m \in reader' \/ m = n => At(found.entries, m) = {}
                      /\ m \notin reader' /\ m # n /\ Settled(m) => Right(found.entries, m)
    BY <1>2, <2>2, <2>4, Still, Zenon DEF ReadSoFar
  <2>5. m \in reader' <=> m \in reader /\ m # n
    BY <1>1, Zenon
  <2> QED
    BY <2>1, <2>3, <2>5, Zenon DEF ReadSoFar
<1>7. Followable' /\ PageOK'
  BY <1>2 DEF Followable, PageOK, Answered
<1>8. ClickOK'
  BY <1>2, Zenon DEF IInv, ClickOK
<1> QED
  BY <1>5, <1>6, <1>7, <1>8, Zenon DEF IInv

\* A new request, typed in or by the link of a header.
LEMMA AskKeeps ==
    ASSUME IInv, NEW base \in Base, NEW query \in Nat \cup {NoSort}, NEW click,
           Ask(base, query, click),
           click # NoClick =>
                /\ click.column \in {"name", "last_modified", "size"}
                /\ query = SortingAttr(click.before)[click.column]
    PROVE  IInv'
<1>1. /\ UNCHANGED <<disk, opts, reader, current, unchanged>> /\ pc' = "asked"
      /\ req' = [base |-> base, query |-> query] /\ clicked' = click
  BY Zenon DEF Ask
<1>2. TypeOK'
  <2>1. req' \in [base : Base, query : Nat \cup {NoSort}]
    BY <1>1, SMTT(40)
  <2> QED
    BY <1>1, <2>1 DEF IInv, TypeOK
<1>3. ReadSoFar' /\ Followable' /\ PageOK'
  BY <1>1 DEF ReadSoFar, Followable, PageOK, Answered
<1>4. ClickOK'
  <2>1. req'.query = query
    BY <1>1
  <2> QED
    BY <1>1, <2>1, Zenon DEF ClickOK
<1> QED
  BY <1>2, <1>3, <1>4, Zenon DEF IInv

\* The query a header leads to is the one sort_file_entries left for it.
LEMMA ClickKeeps ==
    ASSUME IInv, NEW column \in {"name", "last_modified", "size"}, Click(column)
    PROVE  IInv'
<1> DEFINE click == [column |-> column, before |-> OrderCode]
<1>1. Ask(req.base, page.attrs[column], click) /\ Answered
  BY Zenon DEF Click, Ask, Answered
<1>2. page.attrs = SortingAttr(OrderCode)
  BY <1>1, Zenon DEF IInv, PageOK
<1>3. SortingAttr(OrderCode)[column] \in Nat
  BY DEF SortingAttr
<1>4. req.base \in Base
  BY DEF IInv, TypeOK
<1>5. click.column = column /\ click.before = OrderCode
  OBVIOUS
<1> HIDE DEF click
<1> QED
  BY <1>1, <1>2, <1>3, <1>4, <1>5, AskKeeps, Zenon

\* Whatever changes, what is right about the names that did not change still is.
LEMMA ChangeKeeps ==
    ASSUME IInv, NEW x \in Places, NEW node \in Menu[x], Change(x, node)
    PROVE  IInv'
<1>1. /\ disk' = [disk EXCEPT ![x] = node] /\ unchanged' = unchanged \ {x}
      /\ UNCHANGED <<opts, req, pc, current, found, page, clicked>>
  BY Zenon DEF Change
<1>2. /\ reader' \in SUBSET Names
      /\ \A n : n # x => (n \in reader' <=> n \in reader)
  BY Zenon DEF Change, IInv, TypeOK
<1>3. disk \in [Places -> Nodes] /\ \A y \in Places : disk[y] \in Menu[y]
  BY DEF IInv, TypeOK, Disk
<1>4. disk' \in Disk
  <2>1. node \in Nodes
    BY ListingAssumption, Zenon
  <2> QED
    BY <1>1, <1>3, <2>1 DEF Disk
<1>5. TypeOK'
  BY <1>1, <1>2, <1>4 DEF IInv, TypeOK
<1>6. \A n \in unchanged' : n \in unchanged /\ n # x /\ disk'[n] = disk[n]
  BY <1>1, <1>3 DEF IInv, TypeOK
<1>7. \A n \in unchanged' : Followed(n)' = Followed(n)
  BY <1>6, Zenon DEF Followed
<1>8. ASSUME NEW n, Settled(n)'
      PROVE  Settled(n) /\ \A s : Right(s, n)' <=> Right(s, n)
  <2>1. n \in unchanged' /\ Followed(n)' \in unchanged'
    BY <1>8, Zenon DEF Settled
  <2>2. /\ Followed(n)' = Followed(n)
        /\ disk'[n] = disk[n] /\ disk'[Followed(n)] = disk[Followed(n)]
    BY <1>6, <1>7, <2>1, Zenon
  <2>3. Settled(n)
    BY <1>6, <2>1, <2>2, Zenon DEF Settled
  <2>4. Showable(n)' <=> Showable(n)
    BY <1>1, <2>2, Zenon DEF Showable
  <2>5. \A e : Shows(e, n)' <=> Shows(e, n)
    BY <2>2, Zenon DEF Shows
  <2> QED
    BY <2>3, <2>4, <2>5, Zenon DEF Right
<1>9. \A n : LookingAt(n)' <=> LookingAt(n)
  BY <1>1, Zenon DEF LookingAt
<1>10. ReadSoFar'
  <2> SUFFICES ASSUME pc' \in {"reading", "metadata", "canonicalize", "symlink_metadata"}
               PROVE  /\ Counted(found.entries, found.dirs, found.files)'
                      /\ \A n \in Names \cap unchanged' :
                            /\ n \in reader' => ~LookingAt(n)'
                            /\ n \in reader' \/ LookingAt(n)' => At(found'.entries, n) = {}
                            /\ n \notin reader' /\ ~LookingAt(n)' /\ Settled(n)' =>
                                    Right(found.entries, n)'
    BY Zenon DEF ReadSoFar
  <2>1. ReadSoFar /\ pc \in {"reading", "metadata", "canonicalize", "symlink_metadata"}
    BY <1>1, Zenon DEF IInv
  <2>2. Counted(found.entries, found.dirs, found.files)'
    BY <1>1, <2>1, StillCounted, Zenon DEF ReadSoFar
  <2>3. ASSUME NEW n \in Names \cap unchanged'
        PROVE  /\ n \in reader' => ~LookingAt(n)'
               /\ n \in reader' \/ LookingAt(n)' => At(found'.entries, n) = {}
               /\ n \notin reader' /\ ~LookingAt(n)' /\ Settled(n)' =>
                        Right(found.entries, n)'
    <3>1. n \in Names \cap unchanged /\ n # x
      BY <1>6, <2>3, Zenon
    <3>2. /\ n \in reader => ~LookingAt(n)
          /\ n \in reader \/ LookingAt(n) => At(found.entries, n) = {}
          /\ n \notin reader /\ ~LookingAt(n) /\ Settled(n) => Right(found.entries, n)
      BY <2>1, <3>1, Zenon DEF ReadSoFar
    <3> QED
      BY <1>1, <1>2, <1>8, <1>9, <3>1, <3>2, Zenon
  <2> QED
    BY <2>2, <2>3, Zenon
<1>11. Followable'
  <2> PICK n : n = current.name
    OBVIOUS
  <2> SUFFICES ASSUME pc' \in {"canonicalize", "symlink_metadata"}, n \in unchanged'
               PROVE  /\ current.meta = disk'[n]
                      /\ disk'[n].type = "symlink" /\ ~opts.disable_symlinks
                      /\ ~(opts.ignore_hidden_files /\ is_hidden(n))
                      /\ pc = "symlink_metadata" /\ Settled(n)' => current.path = Followed(n)'
    BY <1>1, Zenon DEF Followable
  <2>1. n \in unchanged /\ disk'[n] = disk[n] /\ Followed(n)' = Followed(n)
    BY <1>6, <1>7, Zenon
  <2>2. /\ current.meta = disk[n]
        /\ disk[n].type = "symlink" /\ ~opts.disable_symlinks
        /\ ~(opts.ignore_hidden_files /\ is_hidden(n))
        /\ pc = "symlink_metadata" /\ Settled(n) => current.path = Followed(n)
    BY <1>1, <2>1, Zenon DEF IInv, Followable
  <2> QED
    BY <1>8, <2>1, <2>2, Zenon
<1>12. PageOK'
  <2>1. OrderCode' = OrderCode /\ (Answered' <=> Answered)
    BY <1>1, Zenon DEF OrderCode, Answered
  <2> SUFFICES ASSUME Answered PROVE PageOK'
    BY <2>1, Zenon DEF PageOK
  <2>2. /\ Counted(page.entries, page.dirs, page.files)
        /\ \A n \in Names : Settled(n) => Right(page.entries, n)
        /\ page.attrs = SortingAttr(OrderCode)
        /\ Column(OrderCode) # "none" =>
            Ascends(IF Descending(OrderCode) THEN Reverse(page.entries) ELSE page.entries,
                    Column(OrderCode))
        /\ page.parent => req.base.segments # << >> \/ ~req.base.slash
    BY Zenon DEF IInv, PageOK
  <2>3. Counted(page.entries, page.dirs, page.files)'
    BY <1>1, <2>2, StillCounted, Zenon
  <2>4. \A n \in Names : Settled(n)' => Right(page.entries, n)'
    BY <1>1, <1>8, <2>2, Zenon
  <2> QED
    BY <1>1, <2>1, <2>2, <2>3, <2>4, Zenon DEF PageOK
<1>13. ClickOK'
  BY <1>1, Zenon DEF IInv, ClickOK
<1> QED
  BY <1>5, <1>10, <1>11, <1>12, <1>13, Zenon DEF IInv

\* A request has come for a directory that nobody reads yet.
LEMMA InitIInv == Init => IInv
<1> SUFFICES ASSUME Init PROVE IInv
  OBVIOUS
<1>1. req.base \in Bases /\ req.query \in Queries /\ req \in [base : Bases, query : Queries]
  BY DEF Init
<1>2. TypeOK
  <2>1. req \in [base : Base, query : Nat \cup {NoSort}]
    BY <1>1, ListingAssumption, Zenon
  <2>2. disk \in Disk /\ opts \in Option
    BY ListingAssumption, Zenon DEF Init
  <2>3. current \in [name : Names \cup {<< >>}, meta : Nodes, path : Places \cup {<< >>}]
    BY SMTT(40) DEF Init, NoEntry, Absent, Node, Nodes
  <2> QED
    BY <2>1, <2>2, <2>3 DEF Init, TypeOK
<1>3. ReadSoFar /\ Followable /\ PageOK
  BY DEF Init, ReadSoFar, Followable, PageOK, Answered
<1>4. ClickOK
  BY Zenon DEF Init, ClickOK
<1> QED
  BY <1>2, <1>3, <1>4, Zenon DEF IInv

\* So does no step at all.
LEMMA StutterKeeps ==
    ASSUME IInv, UNCHANGED vars
    PROVE  IInv'
<1>1. UNCHANGED <<disk, opts, req, pc, reader, current, found, page, clicked, unchanged>>
  BY Zenon DEF vars
<1>2. TypeOK' /\ ClickOK'
  BY <1>1, Zenon DEF IInv, TypeOK, ClickOK
<1>3. /\ \A s, n : Right(s, n)' <=> Right(s, n)
      /\ \A n : (Settled(n)' <=> Settled(n)) /\ Followed(n)' = Followed(n)
      /\ \A s, dirs, files : Counted(s, dirs, files)' <=> Counted(s, dirs, files)
      /\ \A n : LookingAt(n)' <=> LookingAt(n)
  <2>1. \A n : LookingAt(n)' <=> LookingAt(n)
    BY <1>1, Zenon DEF LookingAt
  <2> QED
    BY <1>1, <2>1, Still, StillCounted, Zenon
<1>4. ReadSoFar'
  BY <1>1, <1>3, Zenon DEF IInv, ReadSoFar
<1>5. Followable'
  BY <1>1, Zenon DEF IInv, Followable, Settled, Followed
<1>6. PageOK'
  <2>1. OrderCode' = OrderCode /\ (Answered' <=> Answered)
    BY <1>1, Zenon DEF OrderCode, Answered
  <2> QED
    BY <1>1, <1>3, <2>1, Zenon DEF IInv, PageOK
<1> QED
  BY <1>2, <1>4, <1>5, <1>6, Zenon DEF IInv

----------------------------------------------------------------------------
\* Sorting.

\* R puts any two of the places 1 .. n in an order.
StrictOrder(R, n) ==
    /\ \A i \in 1 .. n : <<i, i>> \notin R
    /\ \A i, j \in 1 .. n : i # j => <<i, j>> \in R \/ <<j, i>> \in R
    /\ \A i, j, k \in 1 .. n : <<i, j>> \in R /\ <<j, k>> \in R => <<i, k>> \in R

Below(R, n, j) == {i \in 1 .. n : <<i, j>> \in R}
RankIn(R, n, j) == Cardinality(Below(R, n, j)) + 1

(***************************************************************************)
(* What a sort by rank rests on: every place 1 .. n of the result is taken *)
(* by one entry, and the one that comes before has the lower place.        *)
(***************************************************************************)
LEMMA RankMonotone ==
    ASSUME NEW n \in Nat, NEW R, StrictOrder(R, n)
    PROVE  /\ \A j \in 1 .. n : RankIn(R, n, j) \in 1 .. n
           /\ \A i, j \in 1 .. n : <<i, j>> \in R => RankIn(R, n, i) < RankIn(R, n, j)
<1>1. IsFiniteSet(1 .. n) /\ Cardinality(1 .. n) = n
  <2>1. 1 \in Int /\ n \in Int
    OBVIOUS
  <2>2. IsFiniteSet(1 .. n) /\ Cardinality(1 .. n) = IF 1 > n THEN 0 ELSE n - 1 + 1
    BY <2>1, FS_Interval
  <2> QED
    BY <2>2
<1>2. \A j \in 1 .. n : IsFiniteSet(Below(R, n, j)) /\ Cardinality(Below(R, n, j)) \in Nat
  <2>1. \A j \in 1 .. n : Below(R, n, j) \in SUBSET (1 .. n)
    BY Zenon DEF Below
  <2> QED
    BY <1>1, <2>1, FS_Subset, FS_CardinalityType, Zenon
<1>3. ASSUME NEW j \in 1 .. n PROVE RankIn(R, n, j) \in 1 .. n
  <2>1. Below(R, n, j) \in SUBSET ((1 .. n) \ {j})
    BY Zenon DEF Below, StrictOrder
  <2>2. IsFiniteSet((1 .. n) \ {j}) /\ Cardinality((1 .. n) \ {j}) = n - 1
    <3>1. /\ IsFiniteSet((1 .. n) \ {j})
          /\ Cardinality((1 .. n) \ {j}) = Cardinality(1 .. n) - 1
      BY <1>1, FS_RemoveElement, Zenon
    <3> QED
      BY <1>1, <3>1, Zenon
  <2>3. Cardinality(Below(R, n, j)) <= Cardinality((1 .. n) \ {j})
    BY <2>1, <2>2, FS_Subset, Zenon
  <2> QED
    BY <1>2, <2>2, <2>3 DEF RankIn
<1>4. ASSUME NEW i \in 1 .. n, NEW j \in 1 .. n, <<i, j>> \in R
      PROVE  RankIn(R, n, i) < RankIn(R, n, j)
  <2>1. Below(R, n, i) \cup {i} \in SUBSET Below(R, n, j)
    BY <1>4, Zenon DEF Below, StrictOrder
  <2>2. i \notin Below(R, n, i)
    BY Zenon DEF Below, StrictOrder
  <2>3. /\ IsFiniteSet(Below(R, n, i) \cup {i})
        /\ Cardinality(Below(R, n, i) \cup {i}) = Cardinality(Below(R, n, i)) + 1
    BY <1>2, <2>2, FS_AddElement, Zenon
  <2>4. Cardinality(Below(R, n, i) \cup {i}) <= Cardinality(Below(R, n, j))
    BY <1>2, <2>1, FS_Subset, Zenon
  <2> QED
    BY <1>2, <2>3, <2>4 DEF RankIn
<1> QED
  BY <1>3, <1>4

\* As many places as entries, so that none of them stays empty.
LEMMA RankTaken ==
    ASSUME NEW n \in Nat, NEW R, StrictOrder(R, n), NEW k \in 1 .. n
    PROVE  \E j \in 1 .. n : RankIn(R, n, j) = k
<1> DEFINE r == [j \in 1 .. n |-> RankIn(R, n, j)]
<1>1. IsFiniteSet(1 .. n)
  <2>1. 1 \in Int /\ n \in Int
    OBVIOUS
  <2> QED
    BY <2>1, FS_Interval
<1>2. r \in [1 .. n -> 1 .. n]
  BY RankMonotone, Zenon
<1>3. ASSUME NEW i \in 1 .. n, NEW j \in 1 .. n, i # j
      PROVE  r[i] # r[j]
  <2>1. <<i, j>> \in R \/ <<j, i>> \in R
    BY <1>3, Zenon DEF StrictOrder
  <2>2. RankIn(R, n, i) < RankIn(R, n, j) \/ RankIn(R, n, j) < RankIn(R, n, i)
    BY <2>1, RankMonotone, Zenon
  <2>3. RankIn(R, n, i) \in Int /\ RankIn(R, n, j) \in Int
    BY RankMonotone
  <2> QED
    BY <2>2, <2>3
<1>4. r \in Injection(1 .. n, 1 .. n)
  <2> HIDE DEF r
  <2> QED
    BY <1>2, <1>3, Zenon DEF Injection, IsInjective
<1>5. r \in Surjection(1 .. n, 1 .. n)
  BY <1>1, <1>4, FS_Injection, Zenon
<1> QED
  BY <1>5, Zenon DEF Surjection

\* t has the entries of s in some order.
Permuted(t, s) ==
    \E p \in Bijection(DOMAIN s, DOMAIN s) : t = [k \in DOMAIN s |-> s[p[k]]]

\* The keys are comparable: names in lower case, times, sizes.
LEMMA KeysCompare ==
    ASSUME NEW base, NEW e \in Entries(base), NEW column \in {"name", "last_modified", "size"}
    PROVE  SortKey(column, e) \in Int
<1>1. e.name \in Names /\ e.mtime \in Int /\ e.size \in Int
  BY DEF Entries
<1>2. Lowercase[e.name] \in Int
  BY <1>1, ListingAssumption, Zenon
<1>3. CASE column = "name"
  BY <1>2, <1>3 DEF SortKey
<1>4. CASE column = "last_modified"
  BY <1>1, <1>4, SMTT(40) DEF SortKey
<1>5. CASE column = "size"
  BY <1>1, <1>5 DEF SortKey
<1> QED
  BY <1>3, <1>4, <1>5

\* sort_by_key and sort_by_cached_key: the entries, in ascending order.
LEMMA StableSortSorts ==
    ASSUME NEW base, NEW s \in Seq(Entries(base)),
           NEW column \in {"name", "last_modified", "size"}
    PROVE  Permuted(StableSort(column, s), s) /\ Ascends(StableSort(column, s), column)
<1> DEFINE n == Len(s)
           R == {x \in (1 .. n) \X (1 .. n) : Before(column, s, x[1], x[2])}
           t == StableSort(column, s)
<1>1. n \in Nat /\ DOMAIN s = 1 .. n
  OBVIOUS
<1>2. \A i \in 1 .. n : SortKey(column, s[i]) \in Int
  <2>1. \A i \in 1 .. n : s[i] \in Entries(base)
    OBVIOUS
  <2> QED
    BY <2>1, KeysCompare, Zenon
<1>3. \A i, j \in 1 .. n : <<i, j>> \in R <=> Before(column, s, i, j)
  OBVIOUS
<1> HIDE DEF n, R
<1>4. StrictOrder(R, n)
  <2>1. \A i \in 1 .. n : i \in Int
    BY <1>1
  <2>2. \A i \in 1 .. n : <<i, i>> \notin R
    BY <1>2, <1>3, <2>1 DEF Before
  <2>3. \A i, j \in 1 .. n : i # j => <<i, j>> \in R \/ <<j, i>> \in R
    BY <1>2, <1>3, <2>1, SMTT(40) DEF Before
  <2>4. \A i, j, k \in 1 .. n : <<i, j>> \in R /\ <<j, k>> \in R => <<i, k>> \in R
    <3> SUFFICES ASSUME NEW i \in 1 .. n, NEW j \in 1 .. n, NEW k \in 1 .. n,
                        Before(column, s, i, j), Before(column, s, j, k)
                 PROVE  Before(column, s, i, k)
      BY <1>3, Zenon
    <3>1. /\ SortKey(column, s[i]) \in Int /\ SortKey(column, s[j]) \in Int
          /\ SortKey(column, s[k]) \in Int
      BY <1>2, Zenon
    <3> QED
      BY <2>1, <3>1 DEF Before
  <2> QED
    BY <2>2, <2>3, <2>4, Zenon DEF StrictOrder
<1>5. \A j \in 1 .. n : Rank(column, s, j) = RankIn(R, n, j)
  <2> SUFFICES ASSUME NEW j \in 1 .. n
               PROVE  Rank(column, s, j) = RankIn(R, n, j)
    OBVIOUS
  <2>1. {i \in DOMAIN s : Before(column, s, i, j)} = Below(R, n, j)
    BY <1>1, <1>3, Zenon DEF Below
  <2> QED
    BY <2>1, Zenon DEF Rank, RankIn
<1>6. \A k \in 1 .. n : \E j \in 1 .. n : Rank(column, s, j) = k
  <2>1. \A k \in 1 .. n : \E j \in 1 .. n : RankIn(R, n, j) = k
    BY <1>1, <1>4, RankTaken
  <2> QED
    BY <1>5, <2>1, Zenon
<1>7. \A i, j \in 1 .. n : <<i, j>> \in R => Rank(column, s, i) < Rank(column, s, j)
  BY <1>1, <1>4, <1>5, RankMonotone, ZenonT(40)
<1>8. \A j \in 1 .. n : Rank(column, s, j) \in 1 .. n
  BY <1>1, <1>4, <1>5, RankMonotone, Zenon
<1> DEFINE p == [k \in DOMAIN s |-> CHOOSE j \in DOMAIN s : Rank(column, s, j) = k]
<1>9. \A k \in 1 .. n : p[k] \in 1 .. n /\ Rank(column, s, p[k]) = k
  <2> SUFFICES ASSUME NEW k \in 1 .. n
               PROVE  p[k] \in 1 .. n /\ Rank(column, s, p[k]) = k
    BY Zenon
  <2>1. p[k] = CHOOSE j \in DOMAIN s : Rank(column, s, j) = k
    BY <1>1, Zenon
  <2> HIDE DEF p
  <2> QED
    BY <1>1, <1>6, <2>1, Zenon
<1>10. t = [k \in 1 .. n |-> s[p[k]]]
  <2>1. \A k \in DOMAIN s : p[k] = CHOOSE j \in DOMAIN s : Rank(column, s, j) = k
    BY Zenon
  <2>2. t = [k \in DOMAIN s |-> s[CHOOSE j \in DOMAIN s : Rank(column, s, j) = k]]
    BY Zenon DEF StableSort
  <2>3. /\ DOMAIN t = DOMAIN s /\ t = [k \in DOMAIN t |-> t[k]]
        /\ \A k \in DOMAIN s : t[k] = s[CHOOSE j \in DOMAIN s : Rank(column, s, j) = k]
    BY <2>2, Zenon
  <2> HIDE DEF p, t
  <2>4. \A k \in DOMAIN s : t[k] = s[p[k]]
    BY <2>1, <2>3, Zenon
  <2> QED
    BY <1>1, <2>3, <2>4
<1>11. p \in [1 .. n -> 1 .. n]
  <2>1. \A k \in DOMAIN s : (CHOOSE j \in DOMAIN s : Rank(column, s, j) = k) \in DOMAIN s
    BY <1>1, <1>6, Zenon
  <2>2. p \in [DOMAIN s -> DOMAIN s]
    BY <2>1, Zenon
  <2> HIDE DEF p
  <2> QED
    BY <1>1, <2>2, Zenon
<1> HIDE DEF p
<1>12. \A i, j \in 1 .. n : Rank(column, s, i) = Rank(column, s, j) => i = j
  <2> SUFFICES ASSUME NEW i \in 1 .. n, NEW j \in 1 .. n, i # j
               PROVE  Rank(column, s, i) # Rank(column, s, j)
    OBVIOUS
  <2>1. <<i, j>> \in R \/ <<j, i>> \in R
    BY <1>4, Zenon DEF StrictOrder
  <2>2. Rank(column, s, i) < Rank(column, s, j) \/ Rank(column, s, j) < Rank(column, s, i)
    BY <1>7, <2>1, Zenon
  <2>3. Rank(column, s, i) \in Int /\ Rank(column, s, j) \in Int
    BY <1>8
  <2> QED
    BY <2>2, <2>3
<1>13. p \in Bijection(1 .. n, 1 .. n)
  <2>0. DOMAIN p = 1 .. n
    BY <1>11, Zenon
  <2>1. IsInjective(p)
    BY <1>9, <2>0 DEF IsInjective
  <2>2. \A j \in 1 .. n : \E k \in 1 .. n : p[k] = j
    BY <1>8, <1>9, <1>12, Zenon
  <2> QED
    BY <1>11, <2>1, <2>2, Zenon DEF Bijection, Injection, Surjection
<1>14. Permuted(t, s)
  BY <1>1, <1>10, <1>13, Zenon DEF Permuted
<1>15. Ascends(t, column)
  <2> SUFFICES ASSUME NEW i \in 1 .. n, NEW j \in 1 .. n, i < j
               PROVE  SortKey(column, s[p[i]]) <= SortKey(column, s[p[j]])
    BY <1>10, Zenon DEF Ascends
  <2>1. p[i] \in 1 .. n /\ p[j] \in 1 .. n
    BY <1>9, Zenon
  <2>2. ~Before(column, s, p[j], p[i])
    <3>1. Rank(column, s, p[i]) = i /\ Rank(column, s, p[j]) = j
      BY <1>9, Zenon
    <3>2. ~(j < i)
      BY <1>1
    <3> QED
      BY <1>3, <1>7, <2>1, <3>1, <3>2, Zenon
  <2>3. SortKey(column, s[p[i]]) \in Int /\ SortKey(column, s[p[j]]) \in Int
    BY <1>2, <2>1, Zenon
  <2> QED
    BY <2>2, <2>3 DEF Before
<1> QED
  BY <1>14, <1>15

\* slice::reverse.
LEMMA ReversePermutes ==
    ASSUME NEW S, NEW s \in Seq(S)
    PROVE  /\ Permuted(Reverse(s), s)
           /\ Reverse(s) \in Seq(S) /\ Reverse(Reverse(s)) = s
<1> DEFINE n == Len(s)
           p == [k \in 1 .. n |-> n + 1 - k]
<1>1. n \in Nat /\ DOMAIN s = 1 .. n
  OBVIOUS
<1>2. \A k \in 1 .. n : p[k] \in 1 .. n /\ p[p[k]] = k
  OBVIOUS
<1>3. p \in [1 .. n -> 1 .. n]
  OBVIOUS
<1>4. Reverse(s) = [k \in 1 .. n |-> s[p[k]]]
  BY DEF Reverse
<1>5. Reverse(s) \in Seq(S) /\ Reverse(Reverse(s)) = s
  BY SMTT(40) DEF Reverse
<1> HIDE DEF n, p
<1>6. p \in Bijection(1 .. n, 1 .. n)
  <2>1. IsInjective(p)
    BY <1>2, <1>3 DEF IsInjective
  <2> QED
    BY <1>2, <1>3, <2>1, Zenon DEF Bijection, Injection, Surjection
<1> QED
  BY <1>1, <1>4, <1>5, <1>6, Zenon DEF Permuted

\* sort_file_entries sorts and then reverses: all entries are still there.
LEMMA PermutedTransitive ==
    ASSUME NEW s, NEW t, NEW u, Permuted(t, s), Permuted(u, t)
    PROVE  Permuted(u, s)
<1> DEFINE D == DOMAIN s
<1>1. PICK p \in Bijection(D, D) : t = [k \in D |-> s[p[k]]]
  BY Zenon DEF Permuted
<1>2. DOMAIN t = D
  BY <1>1, Zenon
<1>3. PICK q \in Bijection(D, D) : u = [k \in D |-> t[q[k]]]
  BY <1>2, Zenon DEF Permuted
<1> HIDE DEF D
<1>4. /\ p \in [D -> D] /\ IsInjective(p) /\ \A i \in D : \E k \in D : p[k] = i
      /\ q \in [D -> D] /\ IsInjective(q) /\ \A i \in D : \E k \in D : q[k] = i
  BY Zenon DEF Bijection, Injection, Surjection
<1> DEFINE r == [k \in D |-> p[q[k]]]
<1>5. r \in [D -> D]
  BY <1>4, Zenon
<1>6. \A k \in D : r[k] = p[q[k]]
  BY Zenon
<1>7. u = [k \in D |-> s[r[k]]]
  BY <1>1, <1>3, <1>4, <1>6, SMTT(40)
<1> HIDE DEF r
<1>8. IsInjective(r)
  BY <1>4, <1>5, <1>6 DEF IsInjective
<1>9. \A i \in D : \E k \in D : r[k] = i
  BY <1>4, <1>6, SMTT(40)
<1>10. r \in Bijection(D, D)
  BY <1>5, <1>8, <1>9, Zenon DEF Bijection, Injection, Surjection
<1> QED
  BY <1>7, <1>10, Zenon DEF Permuted, D

\* t shows what s shows.
ShowsSame(S, t, s) ==
    /\ t \in Seq(S) /\ Len(t) = Len(s)
    /\ \A n : At(s, n) = {} => At(t, n) = {}
    /\ \A n, i : i \in DOMAIN s /\ At(s, n) = {i} =>
        \E k \in DOMAIN t : At(t, n) = {k} /\ t[k] = s[i]
    /\ Cardinality(Dirs(t)) = Cardinality(Dirs(s))

(***************************************************************************)
(* Sorting shows every entry in its one place and no other: what the page  *)
(* says of a name, and how many directories it has, is what was found.     *)
(***************************************************************************)
LEMMA PermutedKeeps ==
    ASSUME NEW S, NEW s \in Seq(S), NEW t, Permuted(t, s)
    PROVE  ShowsSame(S, t, s)
<1> DEFINE D == DOMAIN s
<1>1. PICK p \in Bijection(D, D) : t = [k \in D |-> s[p[k]]]
  BY Zenon DEF Permuted
<1>2. D = 1 .. Len(s) /\ Len(s) \in Nat /\ \A i \in D : s[i] \in S
  OBVIOUS
<1>3. DOMAIN t = D /\ \A k \in D : t[k] = s[p[k]]
  BY <1>1, Zenon
<1> HIDE DEF D
<1>4. p \in [D -> D] /\ IsInjective(p) /\ \A i \in D : \E k \in D : p[k] = i
  BY Zenon DEF Bijection, Injection, Surjection
<1>5. t \in Seq(S) /\ Len(t) = Len(s)
  <2>1. t = [k \in 1 .. Len(s) |-> s[p[k]]]
    BY <1>1, <1>2, Zenon DEF D
  <2>2. \A k \in 1 .. Len(s) : s[p[k]] \in S
    BY <1>2, <1>4, Zenon
  <2> QED
    BY <1>2, <2>1, <2>2
<1>6. \A n : At(s, n) = {} => At(t, n) = {}
  <2> SUFFICES ASSUME NEW n, NEW k \in DOMAIN t, t[k].name = n
               PROVE  \E i \in DOMAIN s : s[i].name = n
    BY Zenon DEF At
  <2> QED
    BY <1>3, <1>4, Zenon DEF D
<1>7. ASSUME NEW n, NEW i, i \in DOMAIN s, At(s, n) = {i}
      PROVE  \E k \in DOMAIN t : At(t, n) = {k} /\ t[k] = s[i]
  <2>1. PICK k \in D : p[k] = i
    BY <1>4, <1>7, Zenon DEF D
  <2>2. \A j \in D : s[j].name = n <=> j = i
    BY <1>7, Zenon DEF At, D
  <2>3. \A j \in D : t[j].name = n <=> j = k
    <3> SUFFICES ASSUME NEW j \in D
                 PROVE  t[j].name = n <=> j = k
      OBVIOUS
    <3>1. p[j] \in D /\ (p[j] = p[k] => j = k)
      BY <1>4 DEF IsInjective
    <3> QED
      BY <1>3, <2>1, <2>2, <3>1, Zenon
  <2>4. At(t, n) = {k}
    BY <1>3, <2>3, Zenon DEF At
  <2> QED
    BY <1>3, <2>1, <2>4, Zenon
<1>8. Cardinality(Dirs(t)) = Cardinality(Dirs(s))
  <2> DEFINE q == [k \in Dirs(t) |-> p[k]]
  <2>1. \A k \in D : k \in Dirs(t) <=> p[k] \in Dirs(s)
    BY <1>3, <1>4, Zenon DEF Dirs, D
  <2>2. Dirs(t) \in SUBSET D /\ Dirs(s) \in SUBSET D
    BY <1>3, Zenon DEF Dirs, D
  <2>3. q \in [Dirs(t) -> Dirs(s)]
    BY <1>4, <2>1, <2>2, Zenon
  <2>4. \A k \in Dirs(t) : q[k] = p[k]
    BY Zenon
  <2> HIDE DEF q
  <2>5. IsInjective(q)
    BY <1>4, <2>2, <2>3, <2>4 DEF IsInjective
  <2>6. \A i \in Dirs(s) : \E k \in Dirs(t) : q[k] = i
    BY <1>4, <2>1, <2>2, <2>4, Zenon
  <2>7. q \in Bijection(Dirs(t), Dirs(s))
    BY <2>3, <2>5, <2>6, Zenon DEF Bijection, Injection, Surjection
  <2>8. IsFiniteSet(Dirs(t))
    <3>1. IsFiniteSet(1 .. Len(s))
      <4>1. 1 \in Int /\ Len(s) \in Int
        BY <1>2
      <4> QED
        BY <4>1, FS_Interval
    <3> QED
      BY <1>2, <2>2, <3>1, FS_Subset, Zenon
  <2> QED
    BY <2>7, <2>8, FS_Bijection, Zenon DEF ExistsBijection
<1> QED
  BY <1>5, <1>6, <1>7, <1>8, Zenon DEF ShowsSame

\* sort_file_entries: any code leaves all entries, and the six it knows sort them.
LEMMA SortFileEntries ==
    ASSUME NEW base, NEW s \in Seq(Entries(base)), NEW code
    PROVE  LET t == sort_file_entries(s, code)
           IN  /\ Permuted(t, s)
               /\ Column(code) # "none" =>
                    Ascends(IF Descending(code) THEN Reverse(t) ELSE t, Column(code))
<1> DEFINE t == sort_file_entries(s, code)
           sorted == StableSort(Column(code), s)
<1>1. CASE Column(code) = "none"
  <2>1. t = s
    BY <1>1, Zenon DEF sort_file_entries
  <2>2. Permuted(s, s)
    <3> DEFINE D == DOMAIN s
               p == [k \in D |-> k]
    <3>1. p \in [D -> D] /\ \A k \in D : p[k] = k
      BY Zenon
    <3>2. s = [k \in D |-> s[k]]
      OBVIOUS
    <3> HIDE DEF p, D
    <3>3. s = [k \in D |-> s[p[k]]]
      BY <3>1, <3>2
    <3>4. IsInjective(p)
      BY <3>1 DEF IsInjective
    <3>5. p \in Bijection(D, D)
      BY <3>1, <3>4, Zenon DEF Bijection, Injection, Surjection
    <3> QED
      BY <3>3, <3>5, Zenon DEF Permuted, D
  <2> QED
    BY <1>1, <2>1, <2>2, Zenon
<1>2. CASE Column(code) # "none"
  <2>1. Column(code) \in {"name", "last_modified", "size"}
    BY <1>2 DEF Column
  <2>2. Permuted(sorted, s) /\ Ascends(sorted, Column(code))
    BY <2>1, StableSortSorts, Zenon
  <2>3. sorted \in Seq(Entries(base))
    BY <2>2, PermutedKeeps, Zenon DEF ShowsSame
  <2>4. Permuted(Reverse(sorted), sorted) /\ Reverse(Reverse(sorted)) = sorted
    BY <2>3, ReversePermutes, Zenon
  <2>5. Permuted(Reverse(sorted), s)
    BY <2>2, <2>4, PermutedTransitive, Zenon
  <2>6. t = IF Descending(code) THEN Reverse(sorted) ELSE sorted
    BY <1>2, Zenon DEF sort_file_entries
  <2> HIDE DEF t, sorted
  <2>7. Permuted(t, s)
    BY <2>2, <2>5, <2>6, Zenon
  <2>8. Ascends(IF Descending(code) THEN Reverse(t) ELSE t, Column(code))
    BY <2>2, <2>4, <2>6, Zenon
  <2> QED
    BY <2>7, <2>8, Zenon DEF t
<1> QED
  BY <1>1, <1>2, Zenon

----------------------------------------------------------------------------
\* The page that is made in the end.

\* The page has what was found, in the order that was asked for.
LEMMA AutoIndexKeeps ==
    ASSUME IInv, AutoIndex
    PROVE  IInv'
<1> DEFINE s == found.entries
           t == sort_file_entries(s, OrderCode)
           S == Entries(req.base)
<1>1. /\ UNCHANGED <<disk, opts, req, reader, current, clicked, unchanged>>
      /\ pc = "reading" /\ pc' = "answered" /\ reader = {}
  BY Zenon DEF AutoIndex
<1>2. /\ page'.entries = t /\ page'.dirs = found.dirs /\ page'.files = found.files
      /\ page'.attrs = SortingAttr(OrderCode)
      /\ page'.parent = (req.base # [segments |-> << >>, slash |-> TRUE])
  BY DEF AutoIndex
<1>3. OrderCode' = OrderCode
  BY <1>1, Zenon DEF OrderCode
<1>4. ReadSoFar /\ pc \in {"reading", "metadata", "canonicalize", "symlink_metadata"}
  BY <1>1 DEF IInv
<1>5. s \in Seq(S) /\ found.dirs = Cardinality(Dirs(s)) /\ found.files = Len(s) - found.dirs
  BY <1>4, Zenon DEF ReadSoFar, Counted
<1>6. /\ Permuted(t, s)
      /\ Column(OrderCode) # "none" =>
            Ascends(IF Descending(OrderCode) THEN Reverse(t) ELSE t, Column(OrderCode))
  BY <1>5, SortFileEntries, Zenon
<1> HIDE DEF t, S
<1>7. /\ t \in Seq(S) /\ Len(t) = Len(s)
      /\ \A n : At(s, n) = {} => At(t, n) = {}
      /\ \A n, i : i \in DOMAIN s /\ At(s, n) = {i} =>
            \E k \in DOMAIN t : At(t, n) = {k} /\ t[k] = s[i]
      /\ Cardinality(Dirs(t)) = Cardinality(Dirs(s))
  <2>1. ShowsSame(S, t, s)
    BY <1>5, <1>6, PermutedKeeps, Zenon
  <2> QED
    BY <2>1, Zenon DEF ShowsSame
<1>8. Counted(page.entries, page.dirs, page.files)'
  <2>1. Counted(t, found.dirs, found.files)
    BY <1>5, <1>7, Zenon DEF Counted, S
  <2> QED
    BY <1>1, <1>2, <2>1, StillCounted, Zenon
<1>9. ASSUME NEW n \in Names, Settled(n)'
      PROVE  Right(page.entries, n)'
  <2>1. Settled(n) /\ n \in unchanged
    BY <1>1, <1>9, Still, Zenon DEF Settled
  <2>2. ~LookingAt(n) /\ n \notin reader
    BY <1>1 DEF LookingAt
  <2>3. Right(s, n)
    BY <1>4, <2>1, <2>2, Zenon DEF ReadSoFar
  <2>4. Right(t, n)
    <3>1. CASE Showable(n)
      <4>1. PICK i \in DOMAIN s : At(s, n) = {i} /\ Shows(s[i], n)
        BY <2>3, <3>1, Zenon DEF Right
      <4>2. \E k \in DOMAIN t : At(t, n) = {k} /\ t[k] = s[i]
        BY <1>7, <4>1, Zenon
      <4> QED
        BY <3>1, <4>1, <4>2, Zenon DEF Right
    <3>2. CASE ~Showable(n)
      BY <1>7, <2>3, <3>2, Zenon DEF Right
    <3> QED
      BY <3>1, <3>2
  <2> QED
    BY <1>1, <1>2, <2>4, Still, Zenon
<1>10. page'.parent => req'.base.segments # << >> \/ ~req'.base.slash
  <2>1. req.base \in [segments : Seq(Seq(STRING)), slash : BOOLEAN]
    BY DEF IInv, TypeOK, Base
  <2> QED
    BY <1>1, <1>2, <2>1, Zenon
<1>11. PageOK'
  BY <1>2, <1>3, <1>6, <1>8, <1>9, <1>10, Zenon DEF PageOK
<1>12. TypeOK'
  BY <1>1, SMTT(40) DEF IInv, TypeOK
<1>13. ReadSoFar' /\ Followable'
  BY <1>1 DEF ReadSoFar, Followable
<1>14. ClickOK'
  BY <1>1, Zenon DEF IInv, ClickOK
<1> QED
  BY <1>11, <1>12, <1>13, <1>14, Zenon DEF IInv

\* Every step keeps the invariant.
LEMMA NextKeeps ==
    ASSUME IInv, [Next]_vars
    PROVE  IInv'
<1>1. CASE OpenDir
  BY <1>1, OpenDirKeeps, Zenon
<1>2. CASE OpenFails
  <2>1. \E status : status # 200 /\ Fail(status)
    BY <1>2, SMTT(40) DEF OpenFails
  <2> QED
    BY <2>1, FailKeeps, Zenon
<1>3. CASE ReadEntry
  BY <1>3, ReadEntryKeeps, Zenon
<1>4. CASE ReadFails
  <2>1. \E status : status # 200 /\ Fail(status)
    BY <1>4, SMTT(40) DEF ReadFails
  <2> QED
    BY <2>1, FailKeeps, Zenon
<1>5. CASE Metadata
  BY <1>5, MetadataKeeps, Zenon
<1>6. CASE Canonicalize
  BY <1>6, CanonicalizeKeeps, Zenon
<1>7. CASE SymlinkMetadata
  BY <1>7, SymlinkMetadataKeeps, Zenon
<1>8. CASE AutoIndex
  BY <1>8, AutoIndexKeeps, Zenon
<1>9. ASSUME NEW base \in Bases, NEW query \in Queries, AskAnew(base, query)
      PROVE  IInv'
  <2>1. Ask(base, query, NoClick)
    BY <1>9, Zenon DEF AskAnew
  <2>2. base \in Base /\ query \in Nat \cup {NoSort}
    BY ListingAssumption, Zenon
  <2> QED
    BY <2>1, <2>2, AskKeeps, Zenon
<1>10. ASSUME NEW column \in {"name", "last_modified", "size"}, Click(column)
       PROVE  IInv'
  BY <1>10, ClickKeeps, Zenon
<1>11. ASSUME NEW x \in Places, NEW node \in Menu[x], Change(x, node)
       PROVE  IInv'
  BY <1>11, ChangeKeeps, Zenon
<1>12. CASE UNCHANGED vars
  BY <1>12, StutterKeeps, Zenon
<1> QED
  BY <1>1, <1>2, <1>3, <1>4, <1>5, <1>6, <1>7, <1>8, <1>9, <1>10, <1>11, <1>12, ZenonT(40) DEF Next

(***************************************************************************)
(* The invariant holds of every listing, whatever happens to the directory *)
(* between two system calls of read_dir_entries.                           *)
(***************************************************************************)
LEMMA IInvAlways == Spec => []IInv
<1>1. IInv /\ [Next]_vars => IInv'
  BY NextKeeps, Zenon
<1> QED
  BY <1>1, InitIInv, PTL DEF Spec

----------------------------------------------------------------------------
\* The properties.

(***************************************************************************)
(* read_dir_entries is right about every entry that nobody changes while   *)
(* it runs: it is on the page once and as it is, or is one to leave out,   *)
(* and the counts of directories and files are those of the page.          *)
(***************************************************************************)
THEOREM ListingFaithfulAlways == Spec => []ListingFaithful
<1>1. IInv => ListingFaithful
  <2> SUFFICES ASSUME IInv, Answered
               PROVE  ListingFaithful
    BY Zenon DEF ListingFaithful
  <2>1. /\ Counted(page.entries, page.dirs, page.files)
        /\ \A n \in Names : Settled(n) => Right(page.entries, n)
    BY Zenon DEF IInv, PageOK
  <2>2. ASSUME NEW n \in Names, Settled(n)
        PROVE  /\ Cardinality(At(page.entries, n)) = (IF Showable(n) THEN 1 ELSE 0)
               /\ \A i \in At(page.entries, n) : Shows(page.entries[i], n)
    <3>1. Right(page.entries, n)
      BY <2>1, <2>2, Zenon
    <3>2. CASE Showable(n)
      <4>1. PICK i : At(page.entries, n) = {i} /\ Shows(page.entries[i], n)
        BY <3>1, <3>2, Zenon DEF Right
      <4>2. Cardinality({i}) = 1
        BY FS_Singleton, Zenon
      <4> QED
        BY <3>2, <4>1, <4>2, Zenon
    <3>3. CASE ~Showable(n)
      <4>1. At(page.entries, n) = {}
        BY <3>1, <3>3, Zenon DEF Right
      <4>2. Cardinality({}) = 0
        BY FS_EmptySet, Zenon
      <4> QED
        BY <3>3, <4>1, <4>2, Zenon
    <3> QED
      BY <3>2, <3>3, Zenon
  <2>3. /\ page.dirs = Cardinality(Dirs(page.entries))
        /\ page.files = Len(page.entries) - page.dirs
    BY <2>1, Zenon DEF Counted
  <2> QED
    BY <2>2, <2>3, Zenon DEF ListingFaithful, At, Dirs
<1> QED
  BY <1>1, IInvAlways, PTL

(***************************************************************************)
(* The codes that sort_file_entries leaves for the headers sort by their   *)
(* column, in the other direction if it was sorted upwards.                *)
(***************************************************************************)
THEOREM HeadersSortAlways == Spec => []HeadersSort
<1>1. IInv => HeadersSort
  <2> SUFFICES ASSUME IInv, Answered, clicked # NoClick
               PROVE  HeadersSort
    BY Zenon DEF HeadersSort
  <2> DEFINE column == clicked.column
             before == clicked.before
             back == before \in {0, 2, 4} /\ Column(before) = column
  <2>1. /\ column \in {"name", "last_modified", "size"}
        /\ req.query = SortingAttr(before)[column]
    BY Zenon DEF IInv, ClickOK
  <2>2. Column(OrderCode) # "none" =>
            Ascends(IF Descending(OrderCode) THEN Reverse(page.entries) ELSE page.entries,
                    Column(OrderCode))
    BY Zenon DEF IInv, PageOK
  <2>3. req.query \in 0 .. 5 /\ OrderCode = req.query
    BY <2>1, SMTT(40) DEF SortingAttr, OrderCode, NoSort
  <2>4. Column(OrderCode) = column /\ (Descending(OrderCode) <=> back)
    <3>1. CASE column = "name"
      BY <2>1, <2>3, <3>1 DEF SortingAttr, Column, Descending
    <3>2. CASE column = "last_modified"
      BY <2>1, <2>3, <3>2 DEF SortingAttr, Column, Descending
    <3>3. CASE column = "size"
      BY <2>1, <2>3, <3>3, SMTT(40) DEF SortingAttr, Column, Descending
    <3> QED
      BY <2>1, <3>1, <3>2, <3>3
  <2>5. Column(OrderCode) # "none"
    BY <2>1, <2>4
  <2>6. Ascends(IF back THEN Reverse(page.entries) ELSE page.entries, column)
    BY <2>2, <2>4, <2>5, Zenon
  <2> QED
    BY <2>6, Zenon DEF HeadersSort
<1> QED
  BY <1>1, IInvAlways, PTL

----------------------------------------------------------------------------
\* format_file_size.

\* What \div and % leave of a number.
LEMMA Division ==
    ASSUME NEW n \in Nat, NEW d \in Nat, d > 0
    PROVE  /\ n \div d \in Nat /\ n % d \in Nat
           /\ n = d * (n \div d) + (n % d) /\ n % d < d
<1>1. n \div d \in Nat
  OBVIOUS
<1>2. n % d \in Nat
  OBVIOUS
<1>3. n % d < d
  OBVIOUS
<1>4. n = d * (n \div d) + (n % d)
  OBVIOUS
<1> QED
  BY <1>1, <1>2, <1>3, <1>4

\* The units grow by 1024, KIB here.
LEMMA Units ==
    /\ UnitSize[0] = 1
    /\ \A unit \in 0 .. 4 : UnitSize[unit + 1] = KIB * UnitSize[unit]
    /\ \A unit \in 0 .. 5 : UnitSize[unit] \in Nat /\ UnitSize[unit] > 0
<1> DEFINE K1 == KIB * 1
           K2 == KIB * K1
           K3 == KIB * K2
           K4 == KIB * K3
           K5 == KIB * K4
           units == <<1, K1, K2, K3, K4, K5>>
           Def(f) == f = [unit \in 0 .. 5 |-> IF unit = 0 THEN 1 ELSE KIB * f[unit - 1]]
<1>1. KIB \in Nat /\ KIB > 0
  BY ListingAssumption
<1>2. /\ K1 \in Nat /\ K2 \in Nat /\ K3 \in Nat /\ K4 \in Nat /\ K5 \in Nat
      /\ K1 > 0 /\ K2 > 0 /\ K3 > 0 /\ K4 > 0 /\ K5 > 0
  <2>1. \A n \in Nat : n > 0 => KIB * n \in Nat /\ KIB * n > 0
    BY <1>1
  <2>2. K1 \in Nat /\ K1 > 0
    BY <2>1
  <2> HIDE DEF K1
  <2>3. K2 \in Nat /\ K2 > 0
    BY <2>1, <2>2
  <2> HIDE DEF K2
  <2>4. K3 \in Nat /\ K3 > 0
    BY <2>1, <2>3, SMTT(40)
  <2> HIDE DEF K3
  <2>5. K4 \in Nat /\ K4 > 0
    BY <2>1, <2>4
  <2> HIDE DEF K4
  <2>6. K5 \in Nat /\ K5 > 0
    BY <2>1, <2>5
  <2> QED
    BY <2>2, <2>3, <2>4, <2>5, <2>6, SMTT(40)
<1>3. Def([unit \in 0 .. 5 |-> units[unit + 1]])
  OBVIOUS
<1>4. Def(UnitSize)
  <2>1. UnitSize = CHOOSE f : Def(f)
    BY Zenon DEF UnitSize
  <2> HIDE DEF Def
  <2> QED
    BY <1>3, <2>1, Zenon
<1>5. /\ UnitSize[0] = 1
      /\ \A unit \in 0 .. 4 : UnitSize[unit + 1] = KIB * UnitSize[unit]
  BY <1>4
<1>6. /\ UnitSize[0] = 1 /\ UnitSize[1] = K1 /\ UnitSize[2] = K2 /\ UnitSize[3] = K3
      /\ UnitSize[4] = K4 /\ UnitSize[5] = K5
  BY <1>5
<1> HIDE DEF K1, K2, K3, K4, K5
<1> QED
  BY <1>2, <1>5, <1>6

\* {:.2} is off by half of the last digit at most.
LEMMA RoundedNear ==
    ASSUME NEW n \in Nat, NEW d \in Nat, d > 0
    PROVE  LET h == Rounded(n, d)
           IN  h \in Nat /\ 2 * (d * h) <= 2 * n + d /\ 2 * n <= 2 * (d * h) + d
<1> DEFINE q == n \div d
           r == n % d
           h == Rounded(n, d)
<1>1. q \in Nat /\ r \in Nat /\ n = d * q + r /\ r < d
  BY Division
<1>2. \/ h = q /\ 2 * r <= d
      \/ h = q + 1 /\ 2 * r >= d
  BY <1>1 DEF Rounded
<1> HIDE DEF q, r, h
<1> DEFINE D == d * q
<1>3. d * (q + 1) = D + d
  BY <1>1
<1>5. D \in Nat /\ n = D + r /\ r \in Nat /\ r < d
  BY <1>1
<1> HIDE DEF D
<1>4. h \in Nat /\ 2 * (d * h) <= 2 * n + d /\ 2 * n <= 2 * (d * h) + d
  <2>1. CASE h = q /\ 2 * r <= d
    <3>1. d * h = D /\ h \in Nat
      BY <1>1, <2>1, Zenon DEF D
    <3>2. 2 * D <= 2 * n + d /\ 2 * n <= 2 * D + d
      BY <1>5, <2>1
    <3> QED
      BY <3>1, <3>2, Zenon
  <2>2. CASE h = q + 1 /\ 2 * r >= d
    <3>1. d * h = D + d
      BY <1>3, <2>2, Zenon
    <3>2. h \in Nat
      BY <1>1, <2>2
    <3>3. 2 * (D + d) <= 2 * n + d /\ 2 * n <= 2 * (D + d) + d
      BY <1>5, <2>2
    <3> QED
      BY <3>1, <3>2, <3>3, Zenon
  <2> QED
    BY <1>2, <2>1, <2>2
<1> QED
  BY <1>4, Zenon DEF h

\* The loop over the units stops at the first that fits, or after the last.
LEMMA ShiftsFirst ==
    ASSUME NEW size \in Nat
    PROVE  LET k == Shifts(size)
           IN  /\ k \in 0 .. 4
               /\ k = 4 \/ size \div UnitSize[k] < KIB * KIB
               /\ \A j \in 0 .. 4 : j < k => ~(size \div UnitSize[j] < KIB * KIB)
<1> DEFINE S == {k \in 0 .. 4 : k = 4 \/ size \div UnitSize[k] < KIB * KIB}
           k == Shifts(size)
<1>1. S \in SUBSET Nat /\ 4 \in S
  OBVIOUS
<1>2. \A j : j \in S <=> j \in 0 .. 4 /\ (j = 4 \/ size \div UnitSize[j] < KIB * KIB)
  BY Zenon
<1>3. k = CHOOSE x \in S : \A y \in S : x <= y
  BY Zenon DEF Shifts, Min
<1> HIDE DEF S, k
<1>4. \E x \in S : \A y \in S : x <= y
  BY <1>1, LeastPlace
<1>5. k \in S /\ \A y \in S : k <= y
  BY <1>3, <1>4, Zenon
<1>6. \A j \in 0 .. 4 : j < k => j \notin S
  BY <1>1, <1>5, SMTT(40)
<1> QED
  BY <1>2, <1>5, <1>6, Zenon DEF k

(***************************************************************************)
(* The size is in a unit that fits and as near as two digits and the       *)
(* shifts allow.                                                           *)
(***************************************************************************)
LEMMA FormatFileSize ==
    ASSUME NEW size \in Nat
    PROVE  LET shown == format_file_size(size)
               one == UnitSize[shown.unit]
           IN  /\ shown.unit = 0 \/ one <= size
               /\ shown.unit = 5 \/ size < one * KIB
               /\ 2 * shown.hundredths * one <= 200 * size + one
               /\ 200 * size < 2 * shown.hundredths * one + one + 200 * (one \div KIB)
<1> DEFINE shown == format_file_size(size)
           one == UnitSize[shown.unit]
           k == Shifts(size)
           U == UnitSize[k]
           q == size \div U
           h == Rounded(100 * q, KIB)
<1>1. KIB \in Nat /\ KIB > 1
  BY ListingAssumption, Zenon
<1>2. CASE size < KIB
  <2>1. shown.unit = 0 /\ shown.hundredths = 100 * size
    BY <1>2 DEF format_file_size
  <2>2. one = 1
    BY <2>1, Units, Zenon
  <2>3. one \div KIB \in Nat
    BY <1>1, <2>2
  <2> HIDE DEF shown, one
  <2> QED
    BY <1>1, <1>2, <2>1, <2>2, <2>3, SMTT(40) DEF shown, one
<1>3. CASE ~(size < KIB)
  <2>1. shown.unit = k + 1 /\ shown.hundredths = h
    BY <1>3 DEF format_file_size
  <2>2. /\ k \in 0 .. 4
        /\ k = 4 \/ q < KIB * KIB
        /\ \A j \in 0 .. 4 : j < k => ~(size \div UnitSize[j] < KIB * KIB)
    BY ShiftsFirst, Zenon
  <2> HIDE DEF k
  <2>3. one = KIB * U /\ U \in Nat /\ U > 0
    BY <2>1, <2>2, Units
  <2>4. q \in Nat /\ U * q <= size /\ size < U * q + U
    BY <2>3, Division
  <2> HIDE DEF U, q
  <2>5. h \in Nat /\ 2 * (KIB * h) <= 200 * q + KIB /\ 200 * q <= 2 * (KIB * h) + KIB
    BY <1>1, <2>4, RoundedNear
  <2> HIDE DEF h, shown, one
  <2>6. one <= size
    <3>1. CASE k = 0
      BY <1>1, <1>3, <2>3, <3>1, Units DEF U
    <3>2. CASE k # 0
      <4> DEFINE V == UnitSize[k - 1]
                 v == size \div V
      <4>1. k - 1 \in 0 .. 4 /\ k - 1 < k /\ k = (k - 1) + 1
        BY <2>2, <3>2
      <4>2. U = KIB * V /\ V \in Nat /\ V > 0
        BY <4>1, Units DEF U
      <4>3. ~(v < KIB * KIB)
        BY <2>2, <4>1, Zenon
      <4>4. v \in Nat /\ V * v <= size
        BY <4>2, Division
      <4> HIDE DEF v, V
      <4>5. V * (KIB * KIB) <= V * v
        BY <1>1, <4>2, <4>3, <4>4
      <4>6. one = V * (KIB * KIB)
        BY <1>1, <2>3, <4>2
      <4> QED
        BY <1>1, <2>3, <4>2, <4>4, <4>5, <4>6, SMTT(40)
    <3> QED
      BY <3>1, <3>2
  <2>7. k = 4 \/ size < one * KIB
    <3> SUFFICES ASSUME q + 1 <= KIB * KIB
                 PROVE  size < one * KIB
      BY <1>1, <2>2, <2>4
    <3>1. U * (q + 1) <= U * (KIB * KIB)
      BY <1>1, <2>3, <2>4
    <3>2. U * (q + 1) = U * q + U /\ U * (KIB * KIB) = one * KIB
      BY <1>1, <2>3, <2>4
    <3> QED
      BY <1>1, <2>3, <2>4, <3>1, <3>2
  <2>8. one \div KIB = U
    BY <1>1, <2>3
  <2>9. /\ 2 * h * one <= 200 * size + one
        /\ 200 * size < 2 * h * one + one + 200 * U
    <3> DEFINE a == KIB * h
               b == U * a
               c == U * q
    <3>1. a \in Nat
      BY <1>1, <2>5
    <3>2. 2 * h * one = 2 * b /\ one = U * KIB
      BY <1>1, <2>3, <2>5
    <3>3. U * (2 * a) <= U * (200 * q + KIB) /\ U * (200 * q) <= U * (2 * a + KIB)
      <4> HIDE DEF a, b, c
      <4>1. 2 * a <= 200 * q + KIB /\ 200 * q <= 2 * a + KIB
        BY <2>5 DEF a
      <4> DEFINE w == 2 * a
                 x == 200 * q + KIB
                 y == 200 * q
                 z == 2 * a + KIB
      <4>2. w \in Nat /\ x \in Nat /\ y \in Nat /\ z \in Nat /\ w <= x /\ y <= z
        BY <1>1, <2>4, <3>1, <4>1
      <4> HIDE DEF w, x, y, z
      <4>3. U * w <= U * x /\ U * y <= U * z
        BY <2>3, <4>2
      <4> QED
        BY <4>3 DEF w, x, y, z
    <3> HIDE DEF a
    <3>4. /\ U * (2 * a) = 2 * b /\ U * (200 * q + KIB) = 200 * c + U * KIB
          /\ U * (200 * q) = 200 * c /\ U * (2 * a + KIB) = 2 * b + U * KIB
      BY <1>1, <2>3, <2>4, <3>1, SMTT(40)
    <3>5. b \in Nat /\ c \in Nat /\ c <= size /\ size < c + U /\ one \in Nat
      BY <1>1, <2>3, <2>4, <3>1, SMTT(40)
    <3> HIDE DEF b, c
    <3>6. 2 * b <= 200 * c + one /\ 200 * c <= 2 * b + one
      BY <3>2, <3>3, <3>4
    <3>7. /\ 2 * b <= 200 * size + one
          /\ 200 * size < 2 * b + one + 200 * U
      BY <2>3, <3>5, <3>6
    <3> QED
      BY <3>2, <3>7, Zenon
  <2>10. shown.unit = 5 \/ size < one * KIB
    BY <2>1, <2>2, <2>7, SMTT(40)
  <2> QED
    BY <2>1, <2>6, <2>8, <2>9, <2>10, Zenon DEF shown, one
<1> QED
  BY <1>2, <1>3

(***************************************************************************)
(* What format_file_size writes for a file of any size is in the right     *)
(* unit, and as near as two decimals and its shifts allow.                 *)
(***************************************************************************)
THEOREM SizeShownAlways == Spec => []SizeShown
<1>1. IInv => SizeShown
  <2> SUFFICES ASSUME IInv, Answered
               PROVE  SizeShown
    BY Zenon DEF SizeShown
  <2>1. page.entries \in Seq(Entries(req.base))
    BY Zenon DEF IInv, PageOK, Counted
  <2>2. \A i \in DOMAIN page.entries : page.entries[i].size \in Nat
    BY <2>1 DEF Entries
  <2> QED
    BY <2>2, FormatFileSize, ZenonT(40) DEF SizeShown
<1> QED
  BY <1>1, IInvAlways, PTL

----------------------------------------------------------------------------
\* What is computed along a sequence.

\* Induction up to N, over a set in place of a predicate.
LEMMA UpTo ==
    ASSUME NEW N \in Nat, NEW P, 0 \in P,
           \A k \in Nat : k < N /\ k \in P => k + 1 \in P
    PROVE  \A k \in 0 .. N : k \in P
<1> DEFINE S == {k \in 0 .. N : k \notin P}
<1> SUFFICES ASSUME S # {} PROVE FALSE
  OBVIOUS
<1>1. S \in SUBSET Nat
  OBVIOUS
<1>2. \A k : k \in S <=> k \in 0 .. N /\ k \notin P
  BY Zenon
<1> HIDE DEF S
<1>3. PICK x \in S : \A y \in S : x <= y
  BY <1>1, LeastPlace
<1>4. x \in 0 .. N /\ x # 0 /\ x \notin P
  BY <1>2, <1>3, Zenon
<1>5. x - 1 \in Nat /\ x - 1 < N /\ x - 1 \in 0 .. N /\ ~(x <= x - 1) /\ (x - 1) + 1 = x
  BY <1>4
<1>6. x - 1 \in P
  BY <1>2, <1>3, <1>5, Zenon
<1> QED
  BY <1>4, <1>5, <1>6

\* A loop of N steps over values of V, and the values it goes through.
Loop(N, V, start, step) == N \in Nat /\ start \in V /\ step \in [(1 .. N) \X V -> V]
HasRun(N, V, start, step) ==
    \E f \in [0 .. N -> V] :
        f[0] = start /\ \A k \in 1 .. N : f[k] = step[<<k, f[k - 1]>>]

\* A recursive function over a sequence does what its definition says.
LEMMA RunExists ==
    ASSUME NEW N, NEW V, NEW start, NEW step, Loop(N, V, start, step)
    PROVE  HasRun(N, V, start, step)
<1> USE DEF Loop
<1> DEFINE Run(f, m) == /\ f \in [0 .. m -> V] /\ f[0] = start
                        /\ \A k \in 1 .. m : f[k] = step[<<k, f[k - 1]>>]
           P == {m \in 0 .. N : \E f : Run(f, m)}
<1>1. 0 \in P
  <2>1. Run([k \in 0 .. 0 |-> start], 0)
    OBVIOUS
  <2> HIDE DEF Run
  <2> QED
    BY <2>1
<1>2. ASSUME NEW m \in Nat, m < N, m \in P
      PROVE  m + 1 \in P
  <2>1. PICK f : Run(f, m)
    BY <1>2, Zenon
  <2> DEFINE v == step[<<m + 1, f[m]>>]
             g == [k \in 0 .. m + 1 |-> IF k = m + 1 THEN v ELSE f[k]]
  <2>2. f \in [0 .. m -> V] /\ f[0] = start
    BY <2>1, Zenon
  <2>3. v \in V
    <3>1. m + 1 \in 1 .. N /\ m \in 0 .. m
      BY <1>2
    <3>2. f[m] \in V
      BY <2>2, <3>1, Zenon
    <3> QED
      BY <3>1, <3>2
  <2>4. g[m + 1] = v /\ \A k \in 0 .. m : g[k] = f[k]
    OBVIOUS
  <2>5. g \in [0 .. m + 1 -> V]
    BY <2>2, <2>3
  <2>6. g[0] = start
    BY <2>2, <2>4
  <2>7. \A k \in 1 .. m + 1 : g[k] = step[<<k, g[k - 1]>>]
    <3> HIDE DEF g, Run
    <3> SUFFICES ASSUME NEW k \in 1 .. m + 1
                 PROVE  g[k] = step[<<k, g[k - 1]>>]
      OBVIOUS
    <3>1. CASE k = m + 1
      <4>1. k - 1 = m /\ m \in 0 .. m
        BY <3>1
      <4> QED
        BY <2>4, <3>1, <4>1, Zenon
    <3>2. CASE k # m + 1
      <4>1. k \in 1 .. m /\ k \in 0 .. m /\ k - 1 \in 0 .. m
        BY <3>2
      <4>2. f[k] = step[<<k, f[k - 1]>>]
        BY <2>1, <4>1, Zenon DEF Run
      <4> QED
        BY <2>4, <4>1, <4>2, Zenon
    <3> QED
      BY <3>1, <3>2
  <2>8. Run(g, m + 1)
    <3> HIDE DEF g
    <3> QED
      BY <2>5, <2>6, <2>7, Zenon
  <2> HIDE DEF Run, g
  <2> QED
    BY <1>2, <2>8
<1>3. N \in P
  <2> HIDE DEF P
  <2>1. \A k \in 0 .. N : k \in P
    BY <1>1, <1>2, UpTo
  <2> QED
    BY <2>1
<1> QED
  BY <1>3, Zenon DEF HasRun

\* What SubSeq and \o do, place by place.
Shorter(t, s, S) ==
    t \in Seq(S) /\ Len(t) = Len(s) - 1 /\ \A k \in 1 .. Len(s) - 1 : t[k] = s[k]

Joined(u, s, t, S) ==
    /\ u \in Seq(S) /\ Len(u) = Len(s) + Len(t)
    /\ \A k \in 1 .. Len(s) : u[k] = s[k]
    /\ \A k \in 1 .. Len(t) : u[Len(s) + k] = t[k]

\* Of Front: the rest in the same places.
LEMMA FrontIs ==
    ASSUME NEW S, NEW s \in Seq(S), s # << >>
    PROVE  Shorter(Front(s), s, S)
<1> DEFINE m == Len(s) - 1
<1>1. m \in 0 .. Len(s)
  OBVIOUS
<1>2. Front(s) = SubSeq(s, 1, m)
  BY Zenon DEF Front
<1> HIDE DEF m
<1>3. SubSeq(s, 1, m) \in Seq(S)
  BY <1>1
<1>4. Len(SubSeq(s, 1, m)) = m
  BY <1>1
<1>5. \A k \in 1 .. m : SubSeq(s, 1, m)[k] = s[k]
  BY <1>1
<1> QED
  BY <1>2, <1>3, <1>4, <1>5, Zenon DEF Shorter, m

\* Of \o: the one after the other.
LEMMA ConcatIs ==
    ASSUME NEW S, NEW s \in Seq(S), NEW t \in Seq(S)
    PROVE  Joined(s \o t, s, t, S)
<1>1. s \o t \in Seq(S)
  OBVIOUS
<1>2. Len(s \o t) = Len(s) + Len(t)
  OBVIOUS
<1>3. \A k \in 1 .. Len(s) : (s \o t)[k] = s[k]
  OBVIOUS
<1>4. \A k \in 1 .. Len(t) : (s \o t)[Len(s) + k] = t[k]
  OBVIOUS
<1> QED
  BY <1>1, <1>2, <1>3, <1>4, Zenon DEF Joined

----------------------------------------------------------------------------
\* Links.

\* Strings, two of them by name: no prover knows that these are strings.
Char == STRING \cup {"%", "."}

\* The characters of names and of the escapes percent_encode writes.
LEMMA Chars ==
    "%" \in Char /\ "." \in Char /\ \A n \in Names : n \in Seq(Char)
<1>1. "%" \in Char /\ "." \in Char /\ STRING \in SUBSET Char
  BY Zenon DEF Char
<1>2. \A n \in Names : n \in Seq(STRING)
  BY ListingAssumption, Zenon
<1>3. \A S, T : S \in SUBSET T => \A s \in Seq(S) : s \in Seq(T)
  OBVIOUS
<1> QED
  BY <1>1, <1>2, <1>3, Zenon

ReadState == [name : Seq(Char), escape : BOOLEAN, query : BOOLEAN]

IsRead(f, s) ==
    f = [k \in 0 .. Len(s) |-> IF k = 0 THEN Start ELSE Read(f[k - 1], s[k])]

\* What is read when s has been read to its end.
AtEnd(s) == (CHOOSE f : IsRead(f, s))[Len(s)]

\* One character after the other is read.
LEMMA ReadType ==
    /\ Start \in ReadState
    /\ \A r \in ReadState, c \in Char : Read(r, c) \in ReadState
<1>1. Start \in ReadState
  BY DEF Start, ReadState
<1>2. ASSUME NEW r \in ReadState, NEW c \in Char
      PROVE  Read(r, c) \in ReadState
  <2>1. r.name \in Seq(Char) /\ Append(r.name, c) \in Seq(Char)
    BY DEF ReadState
  <2> QED
    BY <2>1, Zenon DEF ReadState, Read
<1> QED
  BY <1>1, <1>2, Zenon

Plain(name) == [name |-> name, escape |-> FALSE, query |-> FALSE]
Escaping(name) == [name |-> name, escape |-> TRUE, query |-> FALSE]

\* A character stands for itself after a percent sign, or if it is no special one.
LEMMA ReadPlain ==
    ASSUME NEW name, NEW c
    PROVE  /\ c # "%" /\ c # "?" => Read(Plain(name), c) = Plain(Append(name, c))
           /\ Read(Plain(name), "%") = Escaping(name)
           /\ Read(Escaping(name), c) = Plain(Append(name, c))
<1>1. c # "%" /\ c # "?" => Read(Plain(name), c) = Plain(Append(name, c))
  BY Zenon DEF Read, Plain
<1>2. Read(Plain(name), "%") = Escaping(name)
  BY Zenon DEF Read, Plain, Escaping
<1>3. Read(Escaping(name), c) = Plain(Append(name, c))
  BY Zenon DEF Read, Plain, Escaping
<1> QED
  BY <1>1, <1>2, <1>3, Zenon

\* A segment is read character by character, from the start.
LEMMA ReadRun ==
    ASSUME NEW s \in Seq(Char)
    PROVE  \E f \in [0 .. Len(s) -> ReadState] :
                /\ f[0] = Start /\ \A k \in 1 .. Len(s) : f[k] = Read(f[k - 1], s[k])
                /\ AtEnd(s) = f[Len(s)]
<1> DEFINE N == Len(s)
           step == [x \in (1 .. N) \X ReadState |-> Read(x[2], s[x[1]])]
           f == CHOOSE g : IsRead(g, s)
<1>1. N \in Nat /\ \A k \in 1 .. N : s[k] \in Char
  OBVIOUS
<1>2. step \in [(1 .. N) \X ReadState -> ReadState]
  BY <1>1, ReadType
<1>3. \A k \in 1 .. N, r \in ReadState : step[<<k, r>>] = Read(r, s[k])
  OBVIOUS
<1> HIDE DEF step
<1>4. PICK g \in [0 .. N -> ReadState] :
            g[0] = Start /\ \A k \in 1 .. N : g[k] = step[<<k, g[k - 1]>>]
  <2> HIDE DEF N
  <2>1. HasRun(N, ReadState, Start, step)
    BY <1>1, <1>2, ReadType, RunExists, Zenon DEF Loop
  <2> QED
    BY <2>1, Zenon DEF HasRun
<1>5. \A k \in 1 .. N : k - 1 \in 0 .. N
  OBVIOUS
<1>6. \A k \in 1 .. N : g[k] = Read(g[k - 1], s[k])
  BY <1>3, <1>4, <1>5, Zenon
<1>7. \A k \in 0 .. N : g[k] = IF k = 0 THEN Start ELSE Read(g[k - 1], s[k])
  <2>1. \A k \in 0 .. N : k = 0 \/ k \in 1 .. N
    OBVIOUS
  <2> QED
    BY <1>4, <1>6, <2>1, Zenon
<1>8. IsRead(g, s)
  BY <1>7 DEF IsRead
<1>9. IsRead(f, s)
  BY <1>8, Zenon
<1> HIDE DEF f
<1>10. /\ f[0] = Start /\ \A k \in 1 .. N : f[k] = Read(f[k - 1], s[k])
       /\ f = [k \in 0 .. N |-> f[k]]
  BY <1>1, <1>9 DEF IsRead
<1>11. \A k \in 0 .. N : f[k] \in ReadState
  <2> DEFINE P == {k \in 0 .. N : f[k] \in ReadState}
  <2>1. 0 \in P
    BY <1>1, <1>10, ReadType
  <2>2. ASSUME NEW k \in Nat, k < N, k \in P
        PROVE  k + 1 \in P
    <3>1. k + 1 \in 1 .. N /\ k + 1 \in 0 .. N /\ (k + 1) - 1 = k
      BY <1>1, <2>2
    <3>2. f[k + 1] = Read(f[k], s[k + 1])
      BY <1>10, <3>1, Zenon
    <3>3. f[k] \in ReadState /\ s[k + 1] \in Char
      BY <1>1, <2>2, <3>1, Zenon
    <3> QED
      BY <3>1, <3>2, <3>3, ReadType, Zenon
  <2> HIDE DEF P
  <2>3. \A k \in 0 .. N : k \in P
    <3> HIDE DEF N
    <3> QED
      BY <1>1, <2>1, <2>2, UpTo, Zenon
  <2> QED
    BY <2>3, Zenon DEF P
<1>12. AtEnd(s) = f[N]
  BY Zenon DEF AtEnd, f
<1> QED
  BY <1>10, <1>11, <1>12, Zenon

\* Reading one character more is one more step.
LEMMA ReadAppend ==
    ASSUME NEW s \in Seq(Char), NEW c \in Char
    PROVE  /\ AtEnd(s) \in ReadState
           /\ AtEnd(Append(s, c)) = Read(AtEnd(s), c)
<1> DEFINE N == Len(s)
           t == Append(s, c)
<1>1. /\ N \in Nat /\ t \in Seq(Char) /\ Len(t) = N + 1
      /\ t[N + 1] = c /\ \A k \in 1 .. N : t[k] = s[k]
  <2>1. N \in Nat
    OBVIOUS
  <2>2. Longer(t, s, c, Char)
    BY AppendIs, Zenon
  <2> HIDE DEF t
  <2> QED
    BY <2>1, <2>2, Zenon DEF Longer
<1>2. PICK f \in [0 .. N -> ReadState] :
            /\ f[0] = Start /\ \A k \in 1 .. N : f[k] = Read(f[k - 1], s[k])
            /\ AtEnd(s) = f[N]
  BY ReadRun, Zenon
<1> HIDE DEF t, N
<1>3. PICK g \in [0 .. N + 1 -> ReadState] :
            /\ g[0] = Start /\ \A k \in 1 .. N + 1 : g[k] = Read(g[k - 1], t[k])
            /\ AtEnd(t) = g[N + 1]
  <2>1. \E g \in [0 .. Len(t) -> ReadState] :
            /\ g[0] = Start /\ \A k \in 1 .. Len(t) : g[k] = Read(g[k - 1], t[k])
            /\ AtEnd(t) = g[Len(t)]
    BY <1>1, ReadRun, Zenon
  <2> QED
    BY <1>1, <2>1, Zenon
<1> DEFINE P == {k \in 0 .. N : g[k] = f[k]}
<1>4. 0 \in P
  BY <1>1, <1>2, <1>3
<1>5. ASSUME NEW k \in Nat, k < N, k \in P
      PROVE  k + 1 \in P
  <2>1. k + 1 \in 1 .. N /\ k + 1 \in 1 .. N + 1 /\ k + 1 \in 0 .. N /\ (k + 1) - 1 = k
    BY <1>1, <1>5
  <2>2. g[k + 1] = Read(g[k], t[k + 1]) /\ f[k + 1] = Read(f[k], s[k + 1])
    BY <1>2, <1>3, <2>1, Zenon
  <2>3. t[k + 1] = s[k + 1] /\ g[k] = f[k]
    BY <1>1, <1>5, <2>1, Zenon
  <2> QED
    BY <2>1, <2>2, <2>3, Zenon
<1> HIDE DEF P
<1>6. N \in P
  <2>1. \A k \in 0 .. N : k \in P
    BY <1>1, <1>4, <1>5, UpTo, Zenon
  <2> QED
    BY <1>1, <2>1
<1>7. g[N] = f[N]
  BY <1>6, Zenon DEF P
<1>8. N + 1 \in 1 .. N + 1 /\ (N + 1) - 1 = N /\ N \in 0 .. N
  BY <1>1
<1>9. g[N + 1] = Read(g[N], t[N + 1])
  BY <1>3, <1>8, Zenon
<1>10. AtEnd(t) = Read(AtEnd(s), c)
  BY <1>1, <1>2, <1>3, <1>7, <1>9, Zenon
<1>11. AtEnd(s) \in ReadState
  BY <1>2, <1>8, Zenon
<1> QED
  BY <1>10, <1>11, Zenon DEF t

\* Nothing has been read of nothing; a segment stands for what was read at its end.
LEMMA DecodeAtEnd ==
    /\ AtEnd(<< >>) = Start
    /\ \A s : Decode(s) = AtEnd(s).name
<1>1. \A s : Decode(s) = AtEnd(s).name
  BY Zenon DEF Decode, AtEnd, IsRead
<1>2. << >> \in Seq(Char) /\ Len(<< >>) = 0
  OBVIOUS
<1>3. \E f \in [0 .. Len(<< >>) -> ReadState] :
                /\ f[0] = Start /\ \A k \in 1 .. Len(<< >>) : f[k] = Read(f[k - 1], << >>[k])
                /\ AtEnd(<< >>) = f[Len(<< >>)]
  BY <1>2, ReadRun, Zenon
<1> QED
  BY <1>1, <1>2, <1>3, Zenon

IsEncoded(f, s) ==
    f = [k \in 0 .. Len(s) |-> IF k = 0 THEN << >> ELSE Encode(f[k - 1], s[k])]

\* percent_encode goes through the name byte by byte.
LEMMA EncodeRun ==
    ASSUME NEW s \in Seq(Char)
    PROVE  \E f \in [0 .. Len(s) -> Seq(Char)] :
                /\ f[0] = << >> /\ \A k \in 1 .. Len(s) : f[k] = Encode(f[k - 1], s[k])
                /\ percent_encode(s) = f[Len(s)]
<1> DEFINE N == Len(s)
           V == Seq(Char)
           step == [x \in (1 .. N) \X V |-> Encode(x[2], s[x[1]])]
           f == CHOOSE g : IsEncoded(g, s)
<1>1. N \in Nat /\ << >> \in V /\ \A k \in 1 .. N : s[k] \in Char
  OBVIOUS
<1>2. \A a \in V, c \in Char : Encode(a, c) \in V
  <2> SUFFICES ASSUME NEW a \in V, NEW c \in Char
               PROVE  Encode(a, c) \in V
    OBVIOUS
  <2>1. CASE c \in Unreserved
    BY <2>1 DEF Encode
  <2>2. CASE c \notin Unreserved
    BY <2>2, Chars DEF Encode
  <2> QED
    BY <2>1, <2>2
<1> HIDE DEF V
<1>3. step \in [(1 .. N) \X V -> V]
  BY <1>1, <1>2
<1>4. \A k \in 1 .. N, r \in V : step[<<k, r>>] = Encode(r, s[k])
  OBVIOUS
<1> HIDE DEF step
<1>5. PICK g \in [0 .. N -> V] :
            g[0] = << >> /\ \A k \in 1 .. N : g[k] = step[<<k, g[k - 1]>>]
  <2> HIDE DEF N
  <2>1. HasRun(N, V, << >>, step)
    BY <1>1, <1>3, RunExists, Zenon DEF Loop
  <2> QED
    BY <2>1, Zenon DEF HasRun
<1>6. \A k \in 1 .. N : k - 1 \in 0 .. N
  OBVIOUS
<1>7. \A k \in 1 .. N : g[k] = Encode(g[k - 1], s[k])
  BY <1>4, <1>5, <1>6, Zenon
<1>8. \A k \in 0 .. N : g[k] = IF k = 0 THEN << >> ELSE Encode(g[k - 1], s[k])
  <2>1. \A k \in 0 .. N : k = 0 \/ k \in 1 .. N
    OBVIOUS
  <2> QED
    BY <1>5, <1>7, <2>1, Zenon
<1>9. IsEncoded(g, s)
  BY <1>8 DEF IsEncoded
<1>10. IsEncoded(f, s)
  BY <1>9, Zenon
<1> HIDE DEF f
<1>11. /\ f[0] = << >> /\ \A k \in 1 .. N : f[k] = Encode(f[k - 1], s[k])
       /\ f = [k \in 0 .. N |-> f[k]]
  BY <1>1, <1>10 DEF IsEncoded
<1>12. \A k \in 0 .. N : f[k] \in V
  <2> DEFINE P == {k \in 0 .. N : f[k] \in V}
  <2>1. 0 \in P
    BY <1>1, <1>11
  <2>2. ASSUME NEW k \in Nat, k < N, k \in P
        PROVE  k + 1 \in P
    <3>1. k + 1 \in 1 .. N /\ k + 1 \in 0 .. N /\ (k + 1) - 1 = k
      BY <1>1, <2>2
    <3>2. f[k + 1] = Encode(f[k], s[k + 1])
      BY <1>11, <3>1, Zenon
    <3> QED
      BY <1>1, <1>2, <2>2, <3>1, <3>2, Zenon
  <2> HIDE DEF P
  <2>3. \A k \in 0 .. N : k \in P
    <3> HIDE DEF N
    <3> QED
      BY <1>1, <2>1, <2>2, UpTo, Zenon
  <2> QED
    BY <2>3, Zenon DEF P
<1>13. percent_encode(s) = f[N]
  BY Zenon DEF percent_encode, IsEncoded, f
<1> QED
  BY <1>11, <1>12, <1>13, Zenon DEF V

(***************************************************************************)
(* Undoing the escapes of a name that percent_encode made safe gives the   *)
(* name back, whatever its characters are.                                 *)
(***************************************************************************)
LEMMA DecodeEncode ==
    ASSUME NEW s \in Seq(Char)
    PROVE  percent_encode(s) \in Seq(Char) /\ Decode(percent_encode(s)) = s
<1> DEFINE N == Len(s)
<1>1. N \in Nat /\ \A k \in 1 .. N : s[k] \in Char
  OBVIOUS
<1>2. PICK f \in [0 .. N -> Seq(Char)] :
            /\ f[0] = << >> /\ \A k \in 1 .. N : f[k] = Encode(f[k - 1], s[k])
            /\ percent_encode(s) = f[N]
  BY EncodeRun, Zenon
<1>3. SubSeq(s, 1, 0) = << >> /\ SubSeq(s, 1, N) = s
  OBVIOUS
<1>4. \A k \in Nat : k < N => SubSeq(s, 1, k + 1) = Append(SubSeq(s, 1, k), s[k + 1])
  OBVIOUS
<1> DEFINE P == {k \in 0 .. N : AtEnd(f[k]) = Plain(SubSeq(s, 1, k))}
<1>5. 0 \in P
  <2>1. AtEnd(f[0]) = Plain(SubSeq(s, 1, 0))
    BY <1>2, <1>3, DecodeAtEnd, Zenon DEF Start, Plain
  <2>2. 0 \in 0 .. N
    BY <1>1
  <2> QED
    BY <2>1, <2>2, Zenon
<1>6. ASSUME NEW k \in Nat, k < N, k \in P
      PROVE  k + 1 \in P
  <2> DEFINE c == s[k + 1]
             a == f[k]
             r == AtEnd(a)
  <2>1. k + 1 \in 1 .. N /\ k + 1 \in 0 .. N /\ k \in 0 .. N /\ (k + 1) - 1 = k
    BY <1>1, <1>6
  <2>2. f[k + 1] = Encode(a, c)
    BY <1>2, <2>1, Zenon
  <2>3. a \in Seq(Char) /\ c \in Char /\ "%" \in Char
    BY <1>1, <1>2, <2>1, Chars, Zenon
  <2>4. r = Plain(SubSeq(s, 1, k))
    BY <1>6, Zenon
  <2> HIDE DEF c, a, r
  <2>5. AtEnd(f[k + 1]) = Plain(Append(SubSeq(s, 1, k), c))
    <3>1. CASE c \in Unreserved
      <4>1. f[k + 1] = Append(a, c)
        BY <2>2, <2>3, <3>1 DEF Encode
      <4>2. AtEnd(f[k + 1]) = Read(r, c)
        BY <2>3, <4>1, ReadAppend, Zenon DEF r
      <4>3. c # "%" /\ c # "?"
        BY <3>1, ListingAssumption
      <4> QED
        BY <2>4, <4>2, <4>3, ReadPlain, Zenon
    <3>2. CASE c \notin Unreserved
      <4> DEFINE b == Append(a, "%")
      <4>1. f[k + 1] = Append(b, c) /\ b \in Seq(Char)
        BY <2>2, <2>3, <3>2 DEF Encode
      <4>2. AtEnd(b) = Read(r, "%")
        BY <2>3, ReadAppend, Zenon DEF r
      <4> HIDE DEF b
      <4>3. AtEnd(f[k + 1]) = Read(AtEnd(b), c)
        BY <2>3, <4>1, ReadAppend, Zenon
      <4> QED
        BY <2>4, <4>2, <4>3, ReadPlain, Zenon
    <3> QED
      BY <3>1, <3>2
  <2>6. SubSeq(s, 1, k + 1) = Append(SubSeq(s, 1, k), c)
    BY <1>4, <1>6, Zenon DEF c
  <2>7. AtEnd(f[k + 1]) = Plain(SubSeq(s, 1, k + 1))
    BY <2>5, <2>6, Zenon
  <2> QED
    BY <2>1, <2>7, Zenon
<1> HIDE DEF P
<1>7. N \in P
  <2> HIDE DEF N
  <2>1. \A k \in 0 .. N : k \in P
    BY <1>1, <1>5, <1>6, UpTo, Zenon
  <2> QED
    BY <1>1, <2>1
<1>8. AtEnd(f[N]).name = s
  BY <1>3, <1>7 DEF P, Plain
<1>9. N \in 0 .. N
  BY <1>1
<1> QED
  BY <1>2, <1>8, <1>9, DecodeAtEnd, Zenon

\* The link to the parent directory is no entry's link.
LEMMA EncodedIsNotParent ==
    ASSUME NEW n \in Names
    PROVE  percent_encode(n) # <<".", ".">>
<1>1. n \in Seq(Char) /\ n # <<".", ".">>
  BY Chars, ListingAssumption, Zenon
<1>2. AtEnd(Append(<< >>, ".")) = Read(Start, ".")
  <2>1. << >> \in Seq(Char) /\ "." \in Char
    BY Chars
  <2> QED
    BY <2>1, ReadAppend, DecodeAtEnd, Zenon
<1>3. AtEnd(Append(Append(<< >>, "."), ".")) = Read(Read(Start, "."), ".")
  <2>1. Append(<< >>, ".") \in Seq(Char) /\ "." \in Char
    BY Chars
  <2> QED
    BY <1>2, <2>1, ReadAppend, Zenon
<1>4. Read(Read(Start, "."), ".") = Plain(Append(Append(<< >>, "."), "."))
  <2>1. Start = Plain(<< >>) /\ "." # "%" /\ "." # "?"
    BY DEF Start, Plain
  <2> QED
    BY <2>1, ReadPlain, Zenon
<1>5. Append(Append(<< >>, "."), ".") = <<".", ".">>
  <2> SUFFICES ASSUME NEW c \in Char
               PROVE  Append(Append(<< >>, c), c) = <<c, c>>
    BY Chars, Zenon
  <2> DEFINE a == Append(<< >>, c)
             s == Append(a, c)
  <2>1. a \in Seq(Char) /\ Len(a) = 1 /\ a[1] = c
    OBVIOUS
  <2> HIDE DEF a
  <2>2. s \in Seq(Char) /\ Len(s) = 2 /\ s[1] = c /\ s[2] = c
    <3>1. Longer(s, a, c, Char)
      BY <2>1, AppendIs, Zenon
    <3> HIDE DEF s
    <3> QED
      BY <2>1, <3>1 DEF Longer
  <2> HIDE DEF s
  <2>3. s = <<c, c>>
    BY <2>2
  <2> QED
    BY <2>3, Zenon DEF s, a
<1>6. Decode(<<".", ".">>) = <<".", ".">>
  <2>1. AtEnd(<<".", ".">>) = Plain(<<".", ".">>)
    BY <1>3, <1>4, <1>5, Zenon
  <2>2. \A name : Plain(name).name = name
    BY DEF Plain
  <2> QED
    BY <2>1, <2>2, DecodeAtEnd, Zenon
<1> QED
  BY <1>1, <1>6, DecodeEncode, Zenon

\* What a browser asks for, segment by segment.
Path(segments) == [i \in DOMAIN segments |-> Decode(segments[i])]

\* The last segment of the request path is repeated in a relative link.
LEMMA FrontLast ==
    ASSUME NEW S, NEW s \in Seq(S), s # << >>, NEW c
    PROVE  Front(s) \o <<Last(s), c>> = Append(s, c)
<1> DEFINE n == Len(s)
           T == S \cup {c}
           front == Front(s)
           tail == <<Last(s), c>>
           all == front \o tail
           ext == Append(s, c)
<1>1. n \in Nat /\ n > 0 /\ \A i \in 1 .. n : s[i] \in T
  OBVIOUS
<1>2. s \in Seq(T) /\ c \in T
  OBVIOUS
<1> HIDE DEF T
<1>3. Shorter(front, s, T)
  BY <1>2, FrontIs, Zenon
<1>4. tail \in Seq(T) /\ Len(tail) = 2 /\ tail[1] = s[n] /\ tail[2] = c
  BY <1>1, <1>2 DEF Last
<1>5. Longer(ext, s, c, T)
  BY <1>2, AppendIs, Zenon
<1> HIDE DEF front, tail, ext
<1>6. Joined(all, front, tail, T)
  BY <1>3, <1>4, ConcatIs, Zenon DEF Shorter
<1> HIDE DEF all
<1>7. /\ ext \in Seq(T) /\ Len(ext) = n + 1
      /\ ext[n + 1] = c /\ \A i \in 1 .. n : ext[i] = s[i]
  BY <1>5, Zenon DEF Longer
<1>8. all \in Seq(T) /\ Len(all) = n + 1
  BY <1>1, <1>3, <1>4, <1>6 DEF Joined, Shorter
<1> HIDE DEF n
<1>9. \A i \in 1 .. n - 1 : all[i] = s[i]
  BY <1>3, <1>6, Zenon DEF Joined, Shorter, n
<1>10. all[n] = s[n] /\ all[n + 1] = c
  <2>1. Len(front) + 1 = n /\ Len(front) + 2 = n + 1
    BY <1>1, <1>3 DEF Shorter, n
  <2>2. 1 \in 1 .. Len(tail) /\ 2 \in 1 .. Len(tail)
    BY <1>4
  <2>3. all[Len(front) + 1] = tail[1] /\ all[Len(front) + 2] = tail[2]
    BY <1>6, <2>2, Zenon DEF Joined
  <2> QED
    BY <1>4, <2>1, <2>3, Zenon
<1>11. \A i \in 1 .. n + 1 : all[i] = ext[i]
  <2>1. \A i \in 1 .. n + 1 : i \in 1 .. n - 1 \/ i = n \/ i = n + 1
    BY <1>1
  <2>2. n \in 1 .. n /\ \A i \in 1 .. n - 1 : i \in 1 .. n
    BY <1>1
  <2> QED
    BY <1>7, <1>9, <1>10, <2>1, <2>2, Zenon
<1>12. all = ext
  <2>1. Len(all) = Len(ext) /\ \A i \in 1 .. Len(all) : all[i] = ext[i]
    BY <1>7, <1>8, <1>11, Zenon
  <2> QED
    BY <1>7, <1>8, <2>1
<1> QED
  BY <1>12, Zenon DEF all, ext, front, tail

(***************************************************************************)
(* The link read_dir_entries makes for an entry leads to it from a request *)
(* path with or without a slash at the end.                                *)
(***************************************************************************)
LEMMA LinkLeads ==
    ASSUME NEW base \in Base, NEW n \in Names, NEW is_dir
    PROVE  Resolve(base, Link(base, n, is_dir)) = Append(Path(base.segments), n)
<1> DEFINE segs == base.segments
           code == percent_encode(n)
           link == Link(base, n, is_dir)
           dir == IF base.slash THEN segs ELSE Front(segs)
           all == dir \o link.segments
<1>1. /\ segs \in Seq(Seq(STRING)) /\ base.slash \in BOOLEAN
      /\ base.slash \/ segs # << >>
  BY DEF Base
<1>2. Decode(code) = n
  BY Chars, DecodeEncode, Zenon
<1>3. code # <<".", ".">>
  BY EncodedIsNotParent, Zenon
<1> HIDE DEF code, segs
<1>4. link.segments = IF base.slash THEN <<code>> ELSE <<Last(segs), code>>
  BY SMTT(40) DEF Link, code, segs
<1>5. link.segments # << <<".", ".">> >>
  BY <1>3, <1>4
<1>6. link # ParentLink
  <2>1. ParentLink.segments = << <<".", ".">> >>
    BY DEF ParentLink
  <2> QED
    BY <1>5, <2>1, Zenon
<1>7. Resolve(base, link) = [i \in DOMAIN all |-> Decode(all[i])]
  BY <1>6, Zenon DEF Resolve, segs
<1>8. all = Append(segs, code)
  <2>1. CASE base.slash
    BY <1>1, <1>4, <2>1
  <2>2. CASE ~base.slash
    <3>1. dir = Front(segs) /\ link.segments = <<Last(segs), code>>
      BY <1>4, <2>2, Zenon
    <3> HIDE DEF dir, link
    <3> QED
      BY <1>1, <2>2, <3>1, FrontLast, Zenon
  <2> QED
    BY <2>1, <2>2, Zenon
<1> HIDE DEF all, link
<1>9. [i \in DOMAIN all |-> Decode(all[i])] = Append(Path(segs), Decode(code))
  BY <1>1, <1>8 DEF Path
<1> QED
  BY <1>2, <1>7, <1>9, Zenon DEF link, segs

\* The link ../ leads to the parent of a request path with a slash at the end.
LEMMA ParentLeads ==
    ASSUME NEW base \in Base, base.slash, base.segments # << >>
    PROVE  Resolve(base, ParentLink) = Front(Path(base.segments))
<1> DEFINE segs == base.segments
<1>1. segs \in Seq(Seq(STRING)) /\ segs # << >>
  BY DEF Base
<1>2. Resolve(base, ParentLink) = [i \in DOMAIN Front(segs) |-> Decode(Front(segs)[i])]
  BY Zenon DEF Resolve
<1> HIDE DEF segs
<1>3. [i \in DOMAIN Front(segs) |-> Decode(Front(segs)[i])] = Front(Path(segs))
  BY <1>1, SMTT(40) DEF Front, Path
<1> QED
  BY <1>2, <1>3, Zenon DEF segs

(***************************************************************************)
(* The links that read_dir_entries and html_auto_index write are relative  *)
(* to the request path and percent-encoded, and lead where they should for *)
(* any path and any name.                                                  *)
(***************************************************************************)
THEOREM LinksLeadAlways == Spec => []LinksLead
<1>1. IInv => LinksLead
  <2> SUFFICES ASSUME IInv, Answered
               PROVE  LinksLead
    BY Zenon DEF LinksLead
  <2> DEFINE base == req.base
  <2>1. base \in Base
    BY DEF IInv, TypeOK
  <2>2. /\ page.entries \in Seq(Entries(base))
        /\ page.parent => base.segments # << >> \/ ~base.slash
    BY Zenon DEF IInv, PageOK, Counted
  <2>3. ASSUME NEW i \in DOMAIN page.entries
        PROVE  /\ Resolve(base, page.entries[i].uri) =
                        Append(Path(base.segments), page.entries[i].name)
               /\ page.entries[i].uri.slash = (page.entries[i].type = "dir")
    <3> DEFINE e == page.entries[i]
    <3>1. e \in Entries(base)
      BY <2>2, <2>3, SMTT(40)
    <3>2. e.name \in Names /\ e.uri = Link(base, e.name, e.type = "dir")
      BY <3>1, SMTT(40) DEF Entries
    <3> HIDE DEF e
    <3>3. e.uri.slash = (e.type = "dir")
      BY <3>2 DEF Link
    <3>4. Resolve(base, e.uri) = Append(Path(base.segments), e.name)
      <4>1. PICK is_dir : is_dir = (e.type = "dir")
        OBVIOUS
      <4>2. e.uri = Link(base, e.name, is_dir)
        BY <3>2, <4>1
      <4>3. Resolve(base, Link(base, e.name, is_dir)) = Append(Path(base.segments), e.name)
        BY <2>1, <3>2, LinkLeads, Zenon
      <4> QED
        BY <4>2, <4>3, Zenon
    <3> QED
      BY <3>3, <3>4, Zenon DEF e
  <2>4. page.parent /\ base.slash => Resolve(base, ParentLink) = Front(Path(base.segments))
    BY <2>1, <2>2, ParentLeads, Zenon
  <2> QED
    BY <2>3, <2>4, Zenon DEF LinksLead, Path
<1> QED
  BY <1>1, IInvAlways, PTL

=============================================================================
