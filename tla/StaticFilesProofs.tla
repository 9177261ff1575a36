-------------------------- MODULE StaticFilesProofs --------------------------
(***************************************************************************)
(* Which file answers a request, for every file system, configuration and  *)
(* request: the properties of StaticFiles.                                 *)
(*                                                                         *)
(* A reply is a function of the disk, the options and the request.  The    *)
(* invariant says which tests of handle it passed; what the tests say of   *)
(* the reply follows from the cases of get_composed_file_metadata and from *)
(* what the path helpers do to a path.                                     *)
(***************************************************************************)
EXTENDS StaticFiles, NegotiationProofs, FiniteSetTheorems

----------------------------------------------------------------------------
\* What the provers need of sequences, over a set C that is itself one of sequences.

\* The places of a list that a loop stops at can be counted.
LEMMA PlacesCounted ==
    ASSUME NEW n \in Nat, NEW is \in SUBSET (1 .. n)
    PROVE  Cardinality(is) \in Nat
<1>1. IsFiniteSet(1 .. n)
  BY FS_Interval, 1 \in Int, n \in Int, Zenon
<1>2. IsFiniteSet(is)
  BY <1>1, FS_Subset, Zenon
<1> QED
  BY <1>2, FS_CardinalityType, Zenon

\* The items of a sequence, of which one that is not empty has a first.
LEMMA SeqItems ==
    ASSUME NEW C, NEW s \in Seq(C)
    PROVE  /\ Len(s) \in Nat /\ (s # << >> => Len(s) >= 1)
           /\ \A i \in 1 .. Len(s) : s[i] \in C
OBVIOUS

\* Two sequences with the same items are the same.
LEMMA SeqSame ==
    ASSUME NEW C, NEW s \in Seq(C), NEW t \in Seq(C), Len(s) = Len(t),
           \A i \in 1 .. Len(s) : s[i] = t[i]
    PROVE  s = t
OBVIOUS

\* PathBuf::push of a whole path.
LEMMA SeqJoined ==
    ASSUME NEW C, NEW s \in Seq(C), NEW t \in Seq(C)
    PROVE  /\ s \o t \in Seq(C) /\ Len(s \o t) = Len(s) + Len(t)
           /\ \A i \in 1 .. Len(s) + Len(t) :
                (s \o t)[i] = IF i <= Len(s) THEN s[i] ELSE t[i - Len(s)]
OBVIOUS

\* PathBuf::push of one component.
LEMMA SeqPushed ==
    ASSUME NEW C, NEW s \in Seq(C), NEW e \in C
    PROVE  /\ Append(s, e) \in Seq(C) /\ Len(Append(s, e)) = Len(s) + 1
           /\ Append(s, e) # << >> /\ Append(s, e)[Len(s) + 1] = e
           /\ \A i \in 1 .. Len(s) : Append(s, e)[i] = s[i]
OBVIOUS

\* One item is replaced.
LEMMA SeqReplaced ==
    ASSUME NEW C, NEW s \in Seq(C), NEW n \in 1 .. Len(s), NEW e \in C
    PROVE  LET t == [s EXCEPT ![n] = e] IN
           /\ t \in Seq(C) /\ Len(t) = Len(s)
           /\ \A i \in 1 .. Len(s) : t[i] = IF i = n THEN e ELSE s[i]
OBVIOUS

\* The first n items.
LEMMA SeqPrefix ==
    ASSUME NEW C, NEW s \in Seq(C), NEW n \in 0 .. Len(s)
    PROVE  LET t == SubSeq(s, 1, n) IN
           t \in Seq(C) /\ Len(t) = n /\ \A i \in 1 .. n : t[i] = s[i]
OBVIOUS

----------------------------------------------------------------------------

\* p is a path of components over the names S, none of them empty.
IsPath(p, S) ==
    /\ p \in Seq(Seq(S))
    /\ p # << >>
    /\ \A i \in DOMAIN p : p[i] # << >>

\* The names a path may be made of.
Alphabet(S) == Names \cup Extensions \subseteq S

(***************************************************************************)
(* sanitize_path drops what is not a name, and the rest goes below the     *)
(* root directory.                                                         *)
(***************************************************************************)
LEMMA SanitizedPath ==
    ASSUME NEW segments \in Seq(Names)
    PROVE  \E S : /\ Alphabet(S) /\ IsPath(sanitize_path(segments), S)
                  /\ sanitize_path(segments)[1] = <<"www">>
<1> DEFINE c == Components(segments)
           n == Cardinality(Normal(segments))
           S == Names \cup Extensions \cup {"www"} \cup {c[k][1] : k \in 1 .. n}
<1>1. n \in Nat
  <2>1. Normal(segments) \in SUBSET (1 .. Len(segments)) /\ Len(segments) \in Nat
    BY DEF Normal
  <2> QED
    BY <2>1, PlacesCounted, Zenon
<1>2. \E f : c = [k \in 1 .. n |-> <<f[k]>>]
  <2> DEFINE names == Normal(segments)
             nth(k) == CHOOSE i \in names : Cardinality({j \in names : j < i}) = k - 1
             f == [k \in 1 .. n |-> segments[nth(k)]]
  <2>1. c = [k \in 1 .. n |-> <<segments[nth(k)]>>]
    BY Zenon DEF Components
  <2>2. \A k \in 1 .. n : f[k] = segments[nth(k)]
    OBVIOUS
  <2> HIDE DEF f, nth, n, c
  <2>3. c = [k \in 1 .. n |-> <<f[k]>>]
    BY <2>1, <2>2, Zenon
  <2> QED
    BY <2>3, Zenon
<1>3. PICK f : c = [k \in 1 .. n |-> <<f[k]>>]
  BY <1>2, Zenon
<1> HIDE DEF c, n
<1>4. \A k \in 1 .. n : c[k] = <<f[k]>> /\ c[k][1] = f[k]
  BY <1>3, Zenon
<1>5. \A k \in 1 .. n : c[k] \in Seq(S) /\ c[k] # << >>
  <2>1. \A k \in 1 .. n : f[k] \in S
    BY <1>4, Zenon
  <2> HIDE DEF S
  <2>2. \A x \in S : <<x>> \in Seq(S) /\ <<x>> # << >>
    OBVIOUS
  <2> QED
    BY <1>4, <2>1, <2>2, Zenon
<1>6. "www" \in S /\ Alphabet(S)
  BY Zenon DEF Alphabet
<1> HIDE DEF S
<1>7. c \in Seq(Seq(S)) /\ Len(c) = n /\ DOMAIN c = 1 .. n
  <2>1. c = [k \in 1 .. n |-> c[k]]
    BY <1>3, <1>4, Zenon
  <2> QED
    BY <1>1, <1>5, <2>1, SMTT(40)
<1>8. base_path \in Seq(Seq(S)) /\ Len(base_path) = 1 /\ base_path[1] = <<"www">>
  BY <1>6 DEF base_path
<1> DEFINE C == Seq(S)
           p == base_path \o c
<1>9. /\ p \in Seq(C) /\ Len(p) = n + 1 /\ p[1] = <<"www">>
      /\ \A i \in 2 .. n + 1 : p[i] = c[i - 1]
  <2> HIDE DEF C
  <2>1. base_path \in Seq(C) /\ c \in Seq(C)
    BY <1>7, <1>8, Zenon DEF C
  <2>2. /\ p \in Seq(C) /\ Len(p) = 1 + n
        /\ \A i \in 1 .. 1 + n : p[i] = IF i <= 1 THEN base_path[i] ELSE c[i - 1]
    <3>1. /\ p \in Seq(C) /\ Len(p) = Len(base_path) + Len(c)
          /\ \A i \in 1 .. Len(base_path) + Len(c) :
                p[i] = IF i <= Len(base_path) THEN base_path[i] ELSE c[i - Len(base_path)]
      BY <2>1, SeqJoined, Zenon
    <3> HIDE DEF p
    <3> QED
      BY <1>7, <1>8, <3>1, Zenon
  <2> HIDE DEF p
  <2> QED
    BY <1>1, <1>8, <2>2
<1> HIDE DEF p
<1>10. \A i \in DOMAIN p : p[i] # << >>
  <2>1. ASSUME NEW i \in 1 .. n + 1 PROVE p[i] # << >>
    <3>1. CASE i = 1
      <4>1. <<"www">> # << >>
        OBVIOUS
      <4> QED
        BY <1>9, <3>1, <4>1, Zenon
    <3>2. CASE i # 1
      <4>1. i \in 2 .. n + 1 /\ i - 1 \in 1 .. n
        BY <1>1, <3>2
      <4> QED
        BY <1>5, <1>9, <4>1, SMTT(40)
    <3> QED
      BY <3>1, <3>2, Zenon
  <2> QED
    BY <1>9, <2>1
<1>11. p # << >>
  BY <1>1, <1>9
<1>12. IsPath(p, S)
  BY <1>9, <1>10, <1>11, Zenon DEF IsPath
<1> QED
  BY <1>6, <1>9, <1>12, Zenon DEF sanitize_path, p, c

(***************************************************************************)
(* A suffix changes the last component only, and not the name it starts    *)
(* with; taking it off again gives the path back.                          *)
(***************************************************************************)
LEMMA Suffixed ==
    ASSUME NEW S, NEW p, IsPath(p, S), NEW ext \in S
    PROVE  LET q == WithExtension(p, ext) IN
           /\ IsPath(q, S) /\ Len(q) = Len(p)
           /\ \A i \in 1 .. Len(p) - 1 : q[i] = p[i]
           /\ \A i \in DOMAIN p : q[i][1] = p[i][1]
           /\ q[Len(p)] = Append(p[Len(p)], ext)
           /\ [q EXCEPT ![Len(q)] = SubSeq(@, 1, Len(@) - 1)] = p
<1> DEFINE q == WithExtension(p, ext)
           n == Len(p)
           c == p[n]
<1>1. p \in Seq(Seq(S)) /\ n \in Nat /\ n >= 1 /\ DOMAIN p = 1 .. n /\ n \in DOMAIN p
  BY DEF IsPath
<1>2. c \in Seq(S) /\ c # << >> /\ Len(c) \in Nat /\ Len(c) >= 1
  <2> DEFINE C == Seq(S)
  <2>1. c \in C
    <3> HIDE DEF C
    <3>1. p \in Seq(C)
      BY Zenon DEF IsPath, C
    <3> QED
      BY <1>1, <3>1, SeqItems, Zenon
  <2>2. c # << >>
    BY <1>1, Zenon DEF IsPath
  <2> HIDE DEF c
  <2> QED
    BY <2>1, <2>2, SeqItems
<1>3. q = [p EXCEPT ![n] = Append(c, ext)]
  BY Zenon DEF WithExtension
<1> HIDE DEF q, n, c
<1>4. /\ Append(c, ext) \in Seq(S) /\ Append(c, ext) # << >>
      /\ Append(c, ext)[1] = c[1] /\ Len(Append(c, ext)) = Len(c) + 1
      /\ SubSeq(Append(c, ext), 1, Len(c)) = c
  BY <1>2
<1>5. /\ q \in Seq(Seq(S)) /\ Len(q) = n /\ DOMAIN q = 1 .. n
      /\ q[n] = Append(c, ext) /\ \A i \in 1 .. n - 1 : q[i] = p[i]
  BY <1>1, <1>3, <1>4
<1>6. \A i \in DOMAIN p : q[i][1] = p[i][1] /\ q[i] # << >>
  <2>1. ASSUME NEW i \in DOMAIN p PROVE q[i][1] = p[i][1] /\ q[i] # << >>
    <3>1. CASE i = n
      BY <1>4, <1>5, <3>1, SMTT(40) DEF c
    <3>2. CASE i # n
      <4>1. i \in 1 .. n - 1
        BY <1>1, <3>2
      <4> QED
        BY <1>1, <1>5, <4>1, Zenon DEF IsPath
    <3> QED
      BY <3>1, <3>2, Zenon
  <2> QED
    BY <2>1, Zenon
<1>7. IsPath(q, S)
  BY <1>1, <1>5, <1>6 DEF IsPath
<1>8. [q EXCEPT ![Len(q)] = SubSeq(@, 1, Len(@) - 1)] = p
  <2>1. SubSeq(q[n], 1, Len(q[n]) - 1) = c
    BY <1>2, <1>4, <1>5
  <2>2. [q EXCEPT ![n] = SubSeq(q[n], 1, Len(q[n]) - 1)] = [q EXCEPT ![n] = c]
    BY <2>1, Zenon
  <2>3. [q EXCEPT ![n] = c] = p
    <3> DEFINE C == Seq(S)
               t == [q EXCEPT ![n] = c]
    <3>1. q \in Seq(C) /\ p \in Seq(C) /\ c \in C /\ n \in 1 .. Len(q)
      BY <1>1, <1>2, <1>5, Zenon
    <3> HIDE DEF C
    <3>2. t \in Seq(C) /\ Len(t) = n /\ \A j \in 1 .. n : t[j] = IF j = n THEN c ELSE q[j]
      BY <1>5, <3>1, SeqReplaced
    <3> HIDE DEF t
    <3>3. \A j \in 1 .. n : j # n => q[j] = p[j]
      BY <1>1, <1>5
    <3>4. \A j \in 1 .. n : t[j] = p[j]
      BY <3>2, <3>3, Zenon DEF c
    <3>5. Len(p) = n
      BY Zenon DEF n
    <3> QED
      BY <3>1, <3>2, <3>4, <3>5, SeqSame, Zenon DEF t
  <2> QED
    BY <1>5, <2>2, <2>3, Zenon
<1> QED
  BY <1>5, <1>6, <1>7, <1>8 DEF q, n, c

(***************************************************************************)
(* A file in a directory has the path of the directory, and its name.      *)
(***************************************************************************)
LEMMA Pushed ==
    ASSUME NEW S, NEW p, IsPath(p, S), NEW name \in S
    PROVE  LET q == Push(p, <<name>>) IN
           /\ IsPath(q, S) /\ Len(q) = Len(p) + 1
           /\ \A i \in 1 .. Len(p) : q[i] = p[i]
           /\ SubSeq(q, 1, Len(q) - 1) = p
<1> DEFINE C == Seq(S)
           c == <<name>>
           q == Append(p, c)
           n == Len(p)
<1>1. c \in C /\ c # << >>
  OBVIOUS
<1>2. p \in Seq(C)
  BY Zenon DEF IsPath
<1> HIDE DEF C, c
<1>3. n \in Nat /\ DOMAIN p = 1 .. n
  BY <1>2
<1>4. /\ q \in Seq(C) /\ q # << >> /\ Len(q) = n + 1
      /\ \A i \in 1 .. n : q[i] = p[i]
      /\ q[n + 1] = c
  BY <1>1, <1>2, SeqPushed
<1>5. SubSeq(q, 1, n) = p
  <2> DEFINE t == SubSeq(q, 1, n)
  <2>1. t \in Seq(C) /\ Len(t) = n /\ \A i \in 1 .. n : t[i] = q[i]
    <3>1. n \in 0 .. Len(q)
      BY <1>3, <1>4
    <3> HIDE DEF q
    <3> QED
      BY <1>4, <3>1, SeqPrefix
  <2> HIDE DEF t, q
  <2>2. \A i \in 1 .. n : t[i] = p[i]
    BY <1>4, <2>1, Zenon
  <2> QED
    BY <1>2, <2>1, <2>2, SeqSame, Zenon DEF t
<1>6. IsPath(q, S)
  <2>1. q \in Seq(Seq(S))
    BY <1>4, Zenon DEF C
  <2>2. DOMAIN q = 1 .. n + 1
    BY <1>3, <1>4
  <2> HIDE DEF q
  <2>3. ASSUME NEW i \in 1 .. n + 1 PROVE q[i] # << >>
    <3>1. CASE i = n + 1
      BY <1>1, <1>4, <3>1, Zenon
    <3>2. CASE i \in 1 .. n
      <4>1. p[i] # << >>
        BY <1>3, <3>2, Zenon DEF IsPath
      <4> QED
        BY <1>4, <3>2, <4>1, Zenon
    <3> QED
      BY <1>3, <3>1, <3>2
  <2> QED
    BY <1>4, <2>1, <2>2, <2>3, ZenonT(40) DEF IsPath
<1>7. Len(q) - 1 = n
  BY <1>3, <1>4
<1>8. Push(p, <<name>>) = q
  BY Zenon DEF Push, c
<1> HIDE DEF q
<1> QED
  BY <1>4, <1>5, <1>6, <1>7, <1>8, Zenon DEF n

(***************************************************************************)
(* Neither a suffix nor a name below makes a hidden path visible, and a    *)
(* suffix does not hide one.                                               *)
(***************************************************************************)
LEMMA HiddenPaths ==
    ASSUME NEW S, NEW p, IsPath(p, S), NEW ext \in S
    PROVE  /\ is_hidden(WithExtension(p, ext)) <=> is_hidden(p)
           /\ is_hidden(p) => is_hidden(Push(p, <<ext>>))
<1>1. DOMAIN p = 1 .. Len(p) /\ Len(p) \in Nat
  BY DEF IsPath
<1>2. is_hidden(WithExtension(p, ext)) <=> is_hidden(p)
  <2> DEFINE q == WithExtension(p, ext)
  <2>1. IsPath(q, S) /\ Len(q) = Len(p) /\ \A i \in DOMAIN p : q[i][1] = p[i][1]
    BY Suffixed
  <2> HIDE DEF q
  <2>2. DOMAIN q = DOMAIN p
    BY <1>1, <2>1 DEF IsPath
  <2>3. is_hidden(q) <=> is_hidden(p)
    BY <2>1, <2>2, Zenon DEF is_hidden
  <2> QED
    BY <2>3, Zenon DEF q
<1>3. is_hidden(p) => is_hidden(Push(p, <<ext>>))
  <2> DEFINE q == Push(p, <<ext>>)
  <2>1. IsPath(q, S) /\ Len(q) = Len(p) + 1 /\ \A i \in 1 .. Len(p) : q[i] = p[i]
    BY Pushed, Zenon
  <2> HIDE DEF q
  <2>2. DOMAIN p \subseteq DOMAIN q
    BY <1>1, <2>1 DEF IsPath
  <2>3. is_hidden(p) => is_hidden(q)
    BY <1>1, <2>1, <2>2, ZenonT(40) DEF is_hidden
  <2> QED
    BY <2>3, Zenon DEF q
<1> QED
  BY <1>2, <1>3, Zenon

----------------------------------------------------------------------------
TypeInv == disk \in Disks /\ opts \in Options /\ req \in Requests

(***************************************************************************)
(* precompressed_variant finds a file, under a coding that the client      *)
(* listed and to which it prefers no other that has one.                   *)
(***************************************************************************)
LEMMA VariantFound ==
    ASSUME TypeInv, NEW p, HasVariant(p)
    PROVE  LET best == PreferredVariant(p) IN
           /\ best \in AVAILABLE_ENCODINGS /\ Accepts(req.accept, best)
           /\ FileType(WithExtension(p, CompExt(best))) = "file"
           /\ \A coding \in AVAILABLE_ENCODINGS :
                /\ Accepts(req.accept, coding)
                /\ FileType(WithExtension(p, CompExt(coding))) = "file"
                => QualityOf(req.accept, coding) <= QualityOf(req.accept, best)
<1> DEFINE a == req.accept
           is == Variants(p)
           best == Foremost(a, is)
<1>1. a \in AcceptEncoding
  BY FilesAssumption, Zenon DEF TypeInv, Request
<1>2. is # {}
  BY Zenon DEF HasVariant
<1>3. is \in SUBSET get_encodings(a)
  BY Zenon DEF Variants
<1>4. is \in SUBSET DOMAIN a
  BY <1>3, Zenon DEF get_encodings
<1>5. \A i \in is : FileType(WithExtension(p, CompExt(a[i].coding))) = "file"
  BY Zenon DEF Variants
<1>6. \A i \in get_encodings(a) :
        FileType(WithExtension(p, CompExt(a[i].coding))) = "file" => i \in is
  BY Zenon DEF Variants
<1>7. PreferredVariant(p) = best
  BY Zenon DEF PreferredVariant
<1> HIDE DEF a, is
<1>8. best \in AVAILABLE_ENCODINGS /\ Accepts(a, best)
  BY <1>1, <1>2, <1>3, ForemostListed, Zenon
<1>9. PICK i \in is : best = a[i].coding /\ \A j \in is : a[j].quality <= a[i].quality
  BY <1>1, <1>2, <1>4, ForemostBest, Zenon
<1> HIDE DEF best
<1>10. FileType(WithExtension(p, CompExt(best))) = "file"
  BY <1>5, <1>9, Zenon
<1>11. \A j \in DOMAIN a : a[j].quality \in Nat
  BY <1>1, HeaderType
<1>12. ASSUME NEW coding \in AVAILABLE_ENCODINGS, Accepts(a, coding),
              FileType(WithExtension(p, CompExt(coding))) = "file"
       PROVE  QualityOf(a, coding) <= QualityOf(a, best)
  <2>1. PICK j \in DOMAIN a : a[j].coding = coding /\ QualityOf(a, coding) = a[j].quality
    BY <1>1, <1>12, QualityOfListed, ZenonT(40)
  <2>2. j \in is
    BY <1>6, <1>12, <2>1, Zenon DEF get_encodings
  <2>3. a[j].quality <= a[i].quality
    BY <1>9, <2>2, Zenon
  <2>4. i \in DOMAIN a /\ a[i].quality <= QualityOf(a, best)
    BY <1>1, <1>4, <1>8, <1>9, QualityOfListed, ZenonT(40)
  <2>5. QualityOf(a, best) \in Nat
    <3>1. PICK k \in DOMAIN a : QualityOf(a, best) = a[k].quality
      BY <1>1, <1>8, QualityOfListed, ZenonT(40)
    <3> QED
      BY <1>11, <3>1, Zenon
  <2>6. a[j].quality \in Nat /\ a[i].quality \in Nat
    BY <1>11, <2>1, <2>4, Zenon
  <2> QED
    BY <2>1, <2>3, <2>4, <2>5, <2>6
<1> QED
  BY <1>7, <1>8, <1>10, <1>12, ZenonT(40) DEF a

\* The metadata of a pre-compressed variant name a coding.
LEMMA VariantEncoded ==
    ASSUME TypeInv
    PROVE  \A p : HasVariant(p) => Precompressed(p).encoding # IDENTITY
<1>1. \A p : Precompressed(p).encoding = PreferredVariant(p)
  BY Zenon DEF Precompressed, FileMetadata
<1>2. IDENTITY \notin AVAILABLE_ENCODINGS
  BY Zenon DEF IDENTITY, AVAILABLE_ENCODINGS
<1> QED
  BY <1>1, <1>2, VariantFound, Zenon

(***************************************************************************)
(* The cases of get_composed_file_metadata: in a directory an index file,  *)
(* a variant of one, or the directory with the suffix .html, and failing   *)
(* all of them the last index file; elsewhere the file, a variant of it,   *)
(* or the path with the suffix.                                            *)
(***************************************************************************)
BareDir(p, m) ==
    /\ FileType(p) = "dir" /\ \A i \in DOMAIN IndexFiles : ~Found(p, i)
    /\ m = Plain(IndexPath(p, Len(IndexFiles)), TRUE)

IndexVariant(p, m, i) ==
    /\ FileType(p) = "dir" /\ HasVariant(IndexPath(p, i))
    /\ m = Precompressed(IndexPath(p, i))

IndexFound(p, m, i) ==
    /\ FileType(p) = "dir" /\ Exists(IndexPath(p, i))
    /\ m = Plain(IndexPath(p, i), TRUE)

DirPage(p, m) ==
    FileType(p) = "dir" /\ Exists(HtmlSuffixed(p)) /\ m = Plain(HtmlSuffixed(p), TRUE)

FileVariant(p, m) == FileType(p) # "dir" /\ HasVariant(p) /\ m = Precompressed(p)

FileFound(p, m) == FileType(p) = "file" /\ m = Plain(p, FALSE)

FilePage(p, m) ==
    /\ FileType(p) \notin {"dir", "file"} /\ ~HasVariant(p)
    /\ m = Plain(HtmlSuffixed(p), FALSE)

(***************************************************************************)
(* get_composed_file_metadata has no other outcome.                        *)
(***************************************************************************)
LEMMA MetadataCases ==
    ASSUME NEW p
    PROVE  LET m == get_composed_file_metadata(p) IN
           \/ BareDir(p, m)
           \/ \E i \in DOMAIN IndexFiles : IndexVariant(p, m, i) \/ IndexFound(p, m, i)
           \/ DirPage(p, m) \/ FileVariant(p, m) \/ FileFound(p, m) \/ FilePage(p, m)
<1> DEFINE m == get_composed_file_metadata(p)
<1>1. CASE FileType(p) = "dir"
  <2> DEFINE is == {i \in DOMAIN IndexFiles : Found(p, i)}
  <2>1. m = DirMetadata(p)
    BY <1>1, Zenon DEF get_composed_file_metadata
  <2>2. CASE is = {}
    <3>1. m = Plain(IndexPath(p, Len(IndexFiles)), TRUE)
      BY <2>1, <2>2, Zenon DEF DirMetadata
    <3> QED
      BY <1>1, <2>2, <3>1, Zenon DEF BareDir
  <2>3. CASE is # {}
    <3>1. m = IndexMetadata(p, First(is))
      BY <2>1, <2>3, Zenon DEF DirMetadata
    <3>2. is \in SUBSET Nat
      BY FilesAssumption
    <3>3. First(is) \in is
      <4> HIDE DEF is
      <4>1. \E i \in is : \A j \in is : i <= j
        BY <2>3, <3>2, LeastPlace, Zenon
      <4> QED
        BY <4>1, Zenon DEF First
    <3>4. PICK i \in DOMAIN IndexFiles : Found(p, i) /\ m = IndexMetadata(p, i)
      BY <3>1, <3>3, Zenon
    <3> HIDE DEF m
    <3>5. IndexVariant(p, m, i) \/ IndexFound(p, m, i) \/ DirPage(p, m)
      BY <1>1, <3>4, Zenon DEF IndexMetadata, Found, IndexVariant, IndexFound, DirPage
    <3> QED
      BY <3>5, Zenon DEF m
  <2> QED
    BY <2>2, <2>3, Zenon
<1>2. CASE FileType(p) # "dir"
  <2>1. m = IF HasVariant(p) THEN Precompressed(p)
            ELSE IF FileType(p) = "file" THEN Plain(p, FALSE)
            ELSE Plain(HtmlSuffixed(p), FALSE)
    BY <1>2, Zenon DEF get_composed_file_metadata
  <2> HIDE DEF m
  <2>2. FileVariant(p, m) \/ FileFound(p, m) \/ FilePage(p, m)
    BY <1>2, <2>1, Zenon DEF FileVariant, FileFound, FilePage
  <2> QED
    BY <2>2, Zenon DEF m
<1> QED
  BY <1>1, <1>2, Zenon

----------------------------------------------------------------------------
(***************************************************************************)
(* The inductive invariant: which tests of handle a reply has passed, and  *)
(* what it is made of.                                                     *)
(***************************************************************************)
Refused ==
    /\ reply.kind = "error" /\ reply.encoding = IDENTITY
    /\ reply.status = 404 =>
        \/ NotFound(path_of(req)) \/ ~Visible(md)
        \/ Resolved /\ ~Exists(FileToSend)

Bodiless ==
    /\ reply.kind \in {"redirect", "options"} /\ reply.encoding = IDENTITY
    /\ reply.path = << >> /\ Resolved

Listed ==
    /\ reply.kind = "listing" /\ reply.encoding = IDENTITY
    /\ reply.path = SubSeq(md.file_path, 1, Len(md.file_path) - 1)
    /\ Resolved /\ ~NeedsSlash /\ Lists

Sent ==
    /\ reply.kind = "file" /\ reply.encoding = md.encoding
    /\ reply.path = FileToSend
    /\ Resolved /\ ~NeedsSlash

ReplyInv ==
    \/ reply.kind = "pending" /\ reply.encoding = IDENTITY
    \/ Refused \/ Bodiless \/ Listed \/ Sent

(***************************************************************************)
(* What handle decides does not change while neither the files, nor the    *)
(* options, nor the request do.                                            *)
(***************************************************************************)
LEMMA Unchanged ==
    ASSUME UNCHANGED <<disk, opts, req>>
    PROVE  /\ md' = md /\ FileToSend' = FileToSend
           /\ Resolved' <=> Resolved
           /\ NeedsSlash' <=> NeedsSlash
           /\ Lists' <=> Lists
           /\ NotFound(path_of(req))' <=> NotFound(path_of(req))
           /\ Visible(md)' <=> Visible(md)
           /\ Exists(FileToSend)' <=> Exists(FileToSend)
<1>1. disk' = disk /\ opts' = opts /\ req' = req
  OBVIOUS
<1>2. \A p : FileType(p)' = FileType(p)
  BY <1>1, Zenon DEF FileType
<1>3. \A p : Exists(p)' = Exists(p)
  BY <1>2, Zenon DEF Exists
<1>4. \A p : Variants(p)' = Variants(p)
  BY <1>1, <1>2, Zenon DEF Variants
<1>5. \A p : HasVariant(p)' = HasVariant(p)
  BY <1>1, <1>4, Zenon DEF HasVariant
<1>6. \A p : PreferredVariant(p)' = PreferredVariant(p)
  BY <1>1, <1>4, ZenonT(40) DEF PreferredVariant
<1>7. \A p : Precompressed(p)' = Precompressed(p)
  BY <1>6, Zenon DEF Precompressed
<1>8. \A p : \A i : Found(p, i)' = Found(p, i) /\ IndexMetadata(p, i)' = IndexMetadata(p, i)
  BY <1>3, <1>5, <1>7, ZenonT(40) DEF Found, IndexMetadata
<1>9. \A p : DirMetadata(p)' = DirMetadata(p)
  BY <1>8, Zenon DEF DirMetadata
<1>10. \A p : get_composed_file_metadata(p)' = get_composed_file_metadata(p)
  BY <1>2, <1>5, <1>7, <1>9, ZenonT(40) DEF get_composed_file_metadata
<1>11. md' = md
  BY <1>1, <1>10, Zenon DEF md
<1>12. FileToSend' = FileToSend
  BY <1>11, Zenon DEF FileToSend
<1>13. NotFound(path_of(req))' <=> NotFound(path_of(req))
  BY <1>1, <1>3, <1>5, Zenon DEF NotFound
<1>14. Visible(md)' <=> Visible(md)
  BY <1>1, <1>11, Zenon DEF Visible
<1>15. Exists(FileToSend)' <=> Exists(FileToSend)
  BY <1>3, <1>12, Zenon
<1>16. Forbidden(path_of(req))' <=> Forbidden(path_of(req))
  BY <1>1, Zenon DEF Forbidden
<1>17. Resolved' <=> Resolved
  BY <1>13, <1>14, <1>16, Zenon DEF Resolved
<1>18. NeedsSlash' <=> NeedsSlash
  BY <1>1, <1>11, Zenon DEF NeedsSlash
<1>19. Lists' <=> Lists
  BY <1>1, <1>3, <1>11, Zenon DEF Lists
<1> QED
  BY <1>11, <1>12, <1>13, <1>14, <1>15, <1>17, <1>18, <1>19, ZenonT(40)

\* What Resolved and the rest say after a reply, they said before it.
LEMMA RespondKeeps ==
    ASSUME TypeInv, NEW r, Respond(r)
    PROVE  TypeInv' /\ reply' = r
BY Zenon DEF TypeInv, Respond

(***************************************************************************)
(* Every reply of handle is one of those the invariant describes, and the  *)
(* next request starts anew.                                               *)
(***************************************************************************)
LEMMA ReplyStep ==
    ASSUME TypeInv, ReplyInv, [Next]_vars
    PROVE  TypeInv' /\ ReplyInv'
<1>1. CASE Refuse
  <2>1. PICK status \in {403, 404} :
          /\ Respond(Error(status))
          /\ status = 404 => NotFound(path_of(req)) \/ ~Visible(md)
    BY <1>1 DEF Refuse
  <2>2. UNCHANGED <<disk, opts, req>>
    BY <2>1 DEF Respond
  <2>3. TypeInv' /\ reply' = Error(status)
    BY <2>1, RespondKeeps
  <2>4. /\ reply.kind' = "error" /\ reply.encoding' = IDENTITY
        /\ reply.status' = status
    BY <2>3 DEF Error, Reply
  <2>5. Refused'
    BY <2>1, <2>2, <2>4, Unchanged, ZenonT(40) DEF Refused
  <2> QED
    BY <2>3, <2>5 DEF ReplyInv
<1>2. CASE RedirectToSlash \/ AnswerOptions
  <2>1. PICK kind \in {"redirect", "options"}, status \in {308, 204} :
          Resolved /\ Respond(Reply(kind, status, << >>, IDENTITY))
    BY <1>2 DEF RedirectToSlash, AnswerOptions
  <2>2. UNCHANGED <<disk, opts, req>>
    BY <2>1, Zenon DEF Respond
  <2>3. TypeInv' /\ reply' = Reply(kind, status, << >>, IDENTITY)
    BY <2>1, RespondKeeps, ZenonT(40)
  <2>4. reply.kind' = kind /\ reply.encoding' = IDENTITY /\ reply.path' = << >>
    BY <2>3, ZenonT(40) DEF Reply
  <2>5. Bodiless'
    BY <2>1, <2>2, <2>4, Unchanged, ZenonT(40) DEF Bodiless
  <2> QED
    BY <2>3, <2>5, ZenonT(40) DEF ReplyInv
<1>3. CASE ListDirectory
  <2> DEFINE dir == SubSeq(md.file_path, 1, Len(md.file_path) - 1)
  <2>1. Resolved /\ ~NeedsSlash /\ Lists /\ Respond(Reply("listing", 200, dir, IDENTITY))
    BY <1>3, Zenon DEF ListDirectory
  <2>2. UNCHANGED <<disk, opts, req>>
    BY <2>1, Zenon DEF Respond
  <2>3. TypeInv' /\ reply' = Reply("listing", 200, dir, IDENTITY)
    BY <2>1, RespondKeeps, Zenon
  <2>4. reply.kind' = "listing" /\ reply.encoding' = IDENTITY /\ reply.path' = dir
    BY <2>3, Zenon DEF Reply
  <2>5. dir' = dir
    BY <2>2, Unchanged, Zenon
  <2>6. Listed'
    BY <2>1, <2>2, <2>4, <2>5, Unchanged, ZenonT(40) DEF Listed
  <2> QED
    BY <2>3, <2>6, Zenon DEF ReplyInv
<1>4. CASE ServeFile
  <2>1. /\ Resolved /\ ~NeedsSlash
        /\ Respond(IF Exists(FileToSend) THEN Reply("file", 200, FileToSend, md.encoding)
                   ELSE Error(404))
    BY <1>4, Zenon DEF ServeFile
  <2>2. UNCHANGED <<disk, opts, req>>
    BY <2>1, Zenon DEF Respond
  <2>3. TypeInv' /\ reply' = IF Exists(FileToSend)
                             THEN Reply("file", 200, FileToSend, md.encoding)
                             ELSE Error(404)
    BY <2>1, RespondKeeps
  <2>4. CASE Exists(FileToSend)
    <3>1. /\ reply.kind' = "file" /\ reply.encoding' = md.encoding
          /\ reply.path' = FileToSend
      BY <2>3, <2>4 DEF Reply
    <3>2. Sent'
      BY <2>1, <2>2, <3>1, Unchanged, ZenonT(40) DEF Sent
    <3> QED
      BY <2>3, <3>2, Zenon DEF ReplyInv
  <2>5. CASE ~Exists(FileToSend)
    <3>1. reply.kind' = "error" /\ reply.encoding' = IDENTITY
      BY <2>3, <2>5, Zenon DEF Error, Reply
    <3>2. Refused'
      BY <2>1, <2>2, <2>5, <3>1, Unchanged, ZenonT(40) DEF Refused
    <3> QED
      BY <2>3, <3>2, Zenon DEF ReplyInv
  <2> QED
    BY <2>4, <2>5, Zenon
<1>5. CASE \E r \in Requests : AskAgain(r)
  <2>1. TypeInv' /\ reply' = Pending
    BY <1>5, ZenonT(40) DEF AskAgain, TypeInv
  <2>2. reply.kind' = "pending" /\ reply.encoding' = IDENTITY
    BY <2>1, Zenon DEF Pending
  <2> QED
    BY <2>1, <2>2, Zenon DEF ReplyInv
<1>6. CASE UNCHANGED vars
  <2>1. UNCHANGED <<disk, opts, req>> /\ reply' = reply
    BY <1>6, Zenon DEF vars
  <2>2. TypeInv'
    BY <2>1, Zenon DEF TypeInv
  <2>3. Refused => Refused'
    BY <2>1, Unchanged, Zenon DEF Refused
  <2>4. Bodiless => Bodiless'
    BY <2>1, Unchanged, Zenon DEF Bodiless
  <2>5. Listed => Listed'
    BY <2>1, Unchanged, Zenon DEF Listed
  <2>6. Sent => Sent'
    BY <2>1, Unchanged, Zenon DEF Sent
  <2> QED
    BY <2>1, <2>2, <2>3, <2>4, <2>5, <2>6, SMTT(40) DEF ReplyInv
<1> QED
  BY <1>1, <1>2, <1>3, <1>4, <1>5, <1>6, SMTT(40) DEF Next

(***************************************************************************)
(* The invariant holds of the server that handle runs in.                  *)
(***************************************************************************)
LEMMA ReplyAlways == Spec => [](TypeInv /\ ReplyInv)
<1>1. Init => TypeInv /\ ReplyInv
  BY DEF Init, TypeInv, ReplyInv, Pending
<1>2. TypeInv /\ ReplyInv /\ [Next]_vars => TypeInv' /\ ReplyInv'
  BY ReplyStep, Zenon
<1> QED
  BY <1>1, <1>2, PTL DEF Spec

----------------------------------------------------------------------------
(***************************************************************************)
(* A path that starts with the root directory is it, or lies in it.        *)
(***************************************************************************)
LEMMA RootPaths ==
    ASSUME NEW S, NEW q, IsPath(q, S), q[1] = <<"www">>
    PROVE  /\ Len(q) \in Nat /\ Len(q) >= 1
           /\ Len(q) = 1 => q = base_path
           /\ Len(q) > 1 => Within(base_path, q)
<1> DEFINE C == Seq(S)
           n == Len(q)
           t == SubSeq(q, 1, 1)
<1>1. q \in Seq(C) /\ q # << >>
  BY Zenon DEF IsPath
<1> HIDE DEF C
<1>2. n \in Nat /\ n >= 1
  BY <1>1, SeqItems
<1>3. q[1] \in C
  BY <1>1, <1>2, SeqItems
<1>4. base_path = <<q[1]>>
  BY Zenon DEF base_path
<1>5. base_path \in Seq(C) /\ Len(base_path) = 1 /\ base_path[1] = q[1]
  BY <1>3, <1>4
<1>6. n = 1 => q = base_path
  <2>1. ASSUME n = 1 PROVE q = base_path
    <3>1. \A i \in 1 .. Len(q) : q[i] = base_path[i]
      BY <1>5, <2>1
    <3> QED
      BY <1>1, <1>5, <2>1, <3>1, SeqSame, SMTT(40)
  <2> QED
    BY <2>1, Zenon
<1>7. t = base_path
  <2>1. t \in Seq(C) /\ Len(t) = 1 /\ t[1] = q[1]
    BY <1>1, <1>2, SeqPrefix
  <2> HIDE DEF t
  <2>2. \A i \in 1 .. Len(t) : t[i] = base_path[i]
    BY <1>5, <2>1
  <2> QED
    BY <1>5, <2>1, <2>2, SeqSame, ZenonT(40) DEF t
<1>8. n > 1 => Within(base_path, q)
  BY <1>5, <1>7, Zenon DEF Within
<1> QED
  BY <1>2, <1>6, <1>8, Zenon

\* q is reached from the request path p: below the root directory, and hidden if p is.
Reached(p, q, S) ==
    /\ IsPath(q, S) /\ q[1] = <<"www">>
    /\ is_hidden(p) => is_hidden(q)
    /\ q = base_path \/ Within(base_path, q)

(***************************************************************************)
(* The paths that handle derives from one below the root directory lie     *)
(* there too, but for the sibling of the root directory.                   *)
(***************************************************************************)
LEMMA PathsReached ==
    ASSUME NEW S, NEW p, IsPath(p, S), p[1] = <<"www">>, NEW ext \in S
    PROVE  /\ Reached(p, p, S)
           /\ Reached(p, Push(p, <<ext>>), S)
           /\ Within(base_path, Push(p, <<ext>>))
           /\ p # base_path => /\ Within(base_path, p)
                               /\ Reached(p, WithExtension(p, ext), S)
                               /\ Within(base_path, WithExtension(p, ext))
<1>1. /\ Len(p) \in Nat /\ Len(p) >= 1
      /\ Len(p) = 1 => p = base_path
      /\ Len(p) > 1 => Within(base_path, p)
  BY RootPaths, Zenon
<1>2. p = base_path \/ Within(base_path, p)
  <2>1. Len(p) = 1 \/ Len(p) > 1
    BY <1>1
  <2> QED
    BY <1>1, <2>1, Zenon
<1>3. Reached(p, p, S)
  BY <1>2, Zenon DEF Reached
<1>4. Reached(p, Push(p, <<ext>>), S) /\ Within(base_path, Push(p, <<ext>>))
  <2> DEFINE q == Push(p, <<ext>>)
  <2>1. IsPath(q, S) /\ Len(q) = Len(p) + 1 /\ \A i \in 1 .. Len(p) : q[i] = p[i]
    BY Pushed, ZenonT(40)
  <2>2. is_hidden(p) => is_hidden(q)
    BY HiddenPaths, Zenon
  <2> HIDE DEF q
  <2>3. q[1] = <<"www">> /\ Len(q) > 1
    BY <1>1, <2>1
  <2>4. Within(base_path, q)
    BY <2>1, <2>3, RootPaths, Zenon
  <2>5. Reached(p, q, S)
    BY <2>1, <2>2, <2>3, <2>4, Zenon DEF Reached
  <2> QED
    BY <2>4, <2>5, Zenon DEF q
<1>5. ASSUME p # base_path
      PROVE  /\ Reached(p, WithExtension(p, ext), S)
             /\ Within(base_path, WithExtension(p, ext))
  <2> DEFINE q == WithExtension(p, ext)
  <2>1. IsPath(q, S) /\ Len(q) = Len(p) /\ \A i \in 1 .. Len(p) - 1 : q[i] = p[i]
    BY Suffixed
  <2>2. is_hidden(p) => is_hidden(q)
    BY HiddenPaths, Zenon
  <2> HIDE DEF q
  <2>3. q[1] = <<"www">> /\ Len(q) > 1
    BY <1>1, <1>5, <2>1
  <2>4. Within(base_path, q)
    BY <2>1, <2>3, RootPaths, Zenon
  <2>5. Reached(p, q, S)
    BY <2>1, <2>2, <2>3, <2>4, ZenonT(40) DEF Reached
  <2> QED
    BY <2>4, <2>5, Zenon DEF q
<1> QED
  BY <1>2, <1>3, <1>4, <1>5, Zenon

(***************************************************************************)
(* The file of which get_composed_file_metadata returns the metadata is    *)
(* reached from the request path, the sibling of the root directory apart; *)
(* if it is to be sent pre-compressed, it is never the root directory.     *)
(***************************************************************************)
LEMMA MetadataPath ==
    ASSUME TypeInv
    PROVE  LET p == path_of(req)
               q == md.file_path
           IN  \E S : /\ Alphabet(S) /\ IsPath(p, S) /\ Reached(p, p, S)
                      /\ IsPath(q, S) /\ (is_hidden(p) => is_hidden(q))
                      /\ \/ Reached(p, q, S)
                         \/ p = base_path /\ md = Plain(HtmlSuffixed(base_path), TRUE)
                      /\ \/ md.encoding = IDENTITY
                         \/ /\ HasVariant(q) /\ md = Precompressed(q)
                            /\ Reached(p, q, S) /\ Within(base_path, q)
<1> DEFINE p == path_of(req)
           m == get_composed_file_metadata(p)
<1>1. req.segments \in Seq(Names)
  BY FilesAssumption, Zenon DEF TypeInv, Request
<1>2. PICK S : Alphabet(S) /\ IsPath(p, S) /\ p[1] = <<"www">>
  BY <1>1, SanitizedPath, Zenon DEF path_of
<1>3. FileType(base_path) = "dir"
  BY FilesAssumption, Zenon DEF TypeInv, FileType
<1>4. "html" \in S /\ \A i \in DOMAIN IndexFiles : IndexFiles[i] \in S
  BY <1>2, FilesAssumption DEF Alphabet, Extensions
<1>5. /\ \/ BareDir(p, m)
         \/ \E i \in DOMAIN IndexFiles : IndexVariant(p, m, i) \/ IndexFound(p, m, i)
         \/ DirPage(p, m) \/ FileVariant(p, m) \/ FileFound(p, m) \/ FilePage(p, m)
  BY MetadataCases, Zenon
<1>6. md = m
  BY Zenon DEF md
<1>7. Len(IndexFiles) \in DOMAIN IndexFiles
  BY FilesAssumption
<1> DEFINE q == m.file_path
           Goal == /\ IsPath(q, S) /\ (is_hidden(p) => is_hidden(q))
                   /\ \/ Reached(p, q, S)
                      \/ p = base_path /\ m = Plain(HtmlSuffixed(base_path), TRUE)
                   /\ \/ m.encoding = IDENTITY
                      \/ /\ HasVariant(q) /\ m = Precompressed(q)
                         /\ Reached(p, q, S) /\ Within(base_path, q)
<1> HIDE DEF p, m
<1>8. \A x : \A d \in BOOLEAN :
        Plain(x, d).file_path = x /\ Plain(x, d).encoding = IDENTITY
  BY Zenon DEF Plain, FileMetadata
<1>9. \A x : Precompressed(x).file_path = x
  BY Zenon DEF Precompressed, FileMetadata
<1>10. \A i \in DOMAIN IndexFiles :
         Reached(p, IndexPath(p, i), S) /\ Within(base_path, IndexPath(p, i))
  BY <1>2, <1>4, PathsReached, Zenon DEF IndexPath
<1>11. Reached(p, p, S) /\ (p # base_path => Within(base_path, p))
  BY <1>2, <1>4, PathsReached, Zenon
<1>12. p # base_path => Reached(p, HtmlSuffixed(p), S)
  BY <1>2, <1>4, PathsReached, ZenonT(40) DEF HtmlSuffixed
<1>13. IsPath(HtmlSuffixed(p), S) /\ (is_hidden(p) => is_hidden(HtmlSuffixed(p)))
  BY <1>2, <1>4, Suffixed, HiddenPaths, Zenon DEF HtmlSuffixed
<1>14. Reached(p, q, S) /\ m.encoding = IDENTITY => Goal
  BY Zenon DEF Reached
<1>15. Reached(p, q, S) /\ Within(base_path, q) /\ HasVariant(q) /\ m = Precompressed(q)
         => Goal
  BY Zenon DEF Reached
<1>16. p = base_path /\ DirPage(p, m) => Goal
  <2>1. DirPage(p, m) =>
          m = Plain(HtmlSuffixed(p), TRUE) /\ q = HtmlSuffixed(p) /\ m.encoding = IDENTITY
    BY <1>8, Zenon DEF DirPage
  <2> QED
    BY <1>13, <2>1, Zenon
<1> HIDE DEF Goal
<1>17. BareDir(p, m) => Goal
  BY <1>7, <1>8, <1>10, <1>14, Zenon DEF BareDir
<1>18. ASSUME NEW i \in DOMAIN IndexFiles, IndexFound(p, m, i) PROVE Goal
  BY <1>8, <1>10, <1>14, <1>18, ZenonT(40) DEF IndexFound
<1>19. ASSUME NEW i \in DOMAIN IndexFiles, IndexVariant(p, m, i) PROVE Goal
  BY <1>9, <1>10, <1>15, <1>19, ZenonT(40) DEF IndexVariant
<1>20. FileVariant(p, m) => Goal
  BY <1>3, <1>9, <1>11, <1>15, ZenonT(40) DEF FileVariant
<1>21. FileFound(p, m) => Goal
  BY <1>8, <1>11, <1>14, Zenon DEF FileFound
<1>22. FilePage(p, m) => Goal
  BY <1>3, <1>8, <1>12, <1>14, ZenonT(40) DEF FilePage
<1>23. DirPage(p, m) => Goal
  BY <1>8, <1>12, <1>14, <1>16, Zenon DEF DirPage
<1>24. Goal
  BY <1>5, <1>17, <1>18, <1>19, <1>20, <1>21, <1>22, <1>23, ZenonT(40)
<1> QED
  BY <1>2, <1>6, <1>11, <1>24, ZenonT(40) DEF p, Goal

(***************************************************************************)
(* The variant that file_reply opens is a file, below the root directory,  *)
(* from whose path taking the suffix off gives back that of the original.  *)
(***************************************************************************)
LEMMA VariantSent ==
    ASSUME TypeInv, md.encoding # IDENTITY
    PROVE  LET p == path_of(req) IN
           /\ HasVariant(md.file_path)
           /\ md.encoding = PreferredVariant(md.file_path)
           /\ FileType(FileToSend) = "file"
           /\ Within(base_path, FileToSend)
           /\ is_hidden(FileToSend) <=> is_hidden(md.file_path)
           /\ [FileToSend EXCEPT ![Len(FileToSend)] = SubSeq(@, 1, Len(@) - 1)]
                = md.file_path
<1> DEFINE p == path_of(req)
           q == md.file_path
           ext == CompExt(md.encoding)
<1>1. PICK S : /\ Alphabet(S) /\ IsPath(q, S) /\ Reached(p, q, S) /\ Within(base_path, q)
               /\ HasVariant(q) /\ md = Precompressed(q)
  BY MetadataPath, Zenon
<1>2. md.encoding = PreferredVariant(q)
  <2>1. \A x : Precompressed(x).encoding = PreferredVariant(x)
    BY Zenon DEF Precompressed, FileMetadata
  <2> QED
    BY <1>1, <2>1, Zenon
<1>3. md.encoding \in AVAILABLE_ENCODINGS /\ FileType(WithExtension(q, ext)) = "file"
  BY <1>1, <1>2, VariantFound, Zenon
<1>4. ext \in S
  <2>1. ext \in Extensions
    BY <1>3, Zenon DEF AVAILABLE_ENCODINGS, CompExt, Extensions
  <2> QED
    BY <1>1, <2>1 DEF Alphabet
<1>5. FileToSend = WithExtension(q, ext)
  BY Zenon DEF FileToSend
<1> HIDE DEF q, ext, p
<1>6. q[1] = <<"www">> /\ q # base_path
  <2>1. ~Within(base_path, base_path)
    BY DEF Within, base_path
  <2> QED
    BY <1>1, <2>1, Zenon DEF Reached
<1>7. Within(base_path, WithExtension(q, ext))
  BY <1>1, <1>4, <1>6, PathsReached, ZenonT(40)
<1>8. is_hidden(WithExtension(q, ext)) <=> is_hidden(q)
  BY <1>1, <1>4, HiddenPaths, Zenon
<1> DEFINE t == WithExtension(q, ext)
<1>9. [t EXCEPT ![Len(t)] = SubSeq(@, 1, Len(@) - 1)] = q
  BY <1>1, <1>4, Suffixed
<1> QED
  BY <1>1, <1>2, <1>3, <1>5, <1>7, <1>8, <1>9, SMTT(40) DEF q

----------------------------------------------------------------------------
\* The listed file of a bare directory stands for the directory.
LEMMA ListedDir ==
    ASSUME TypeInv, Lists
    PROVE  /\ SubSeq(md.file_path, 1, Len(md.file_path) - 1) = path_of(req)
           /\ FileType(path_of(req)) = "dir"
           /\ \A i \in DOMAIN IndexFiles : ~Exists(IndexPath(path_of(req), i))
<1> DEFINE p == path_of(req)
           m == get_composed_file_metadata(p)
<1>1. m = md
  BY Zenon DEF md
<1>2. m.is_dir /\ ~Exists(m.file_path)
  BY Zenon DEF Lists, md
<1>3. \/ BareDir(p, m)
      \/ \E i \in DOMAIN IndexFiles : IndexVariant(p, m, i) \/ IndexFound(p, m, i)
      \/ DirPage(p, m) \/ FileVariant(p, m) \/ FileFound(p, m) \/ FilePage(p, m)
  BY MetadataCases, Zenon
<1>4. \A x : \A d \in BOOLEAN : Plain(x, d).file_path = x /\ Plain(x, d).is_dir = d
  BY Zenon DEF Plain, FileMetadata
<1>5. \A x : Precompressed(x).is_dir = FALSE
  BY Zenon DEF Precompressed, FileMetadata
<1> HIDE DEF m
<1>6. BareDir(p, m)
  BY <1>2, <1>3, <1>4, <1>5, ZenonT(40)
     DEF IndexVariant, IndexFound, DirPage, FileVariant, FileFound, FilePage
<1>7. FileType(p) = "dir" /\ \A i \in DOMAIN IndexFiles : ~Exists(IndexPath(p, i))
  BY <1>6, Zenon DEF BareDir, Found
<1>8. PICK S : Alphabet(S) /\ IsPath(p, S)
  BY MetadataPath, Zenon
<1>9. IndexFiles[Len(IndexFiles)] \in S
  BY <1>8, FilesAssumption DEF Alphabet
<1>10. m.file_path = Push(p, <<IndexFiles[Len(IndexFiles)]>>)
  BY <1>4, <1>6, Zenon DEF BareDir, IndexPath
<1>11. SubSeq(m.file_path, 1, Len(m.file_path) - 1) = p
  BY <1>8, <1>9, <1>10, Pushed, Zenon
<1> QED
  BY <1>1, <1>7, <1>11, Zenon

(***************************************************************************)
(* A pre-compressed variant is sent only under a coding the client listed, *)
(* and only if it prefers no other coding that has a variant.              *)
(***************************************************************************)
THEOREM BestVariantAlways == Spec => []BestVariant
<1>1. TypeInv /\ ReplyInv => BestVariant
  <2> SUFFICES ASSUME TypeInv, ReplyInv, reply.encoding # IDENTITY PROVE BestVariant
    BY Zenon DEF BestVariant
  <2> DEFINE q == md.file_path
  <2>1. Sent
    BY Zenon DEF ReplyInv, Refused, Bodiless, Listed
  <2>2. reply.encoding = md.encoding /\ reply.path = FileToSend /\ md.encoding # IDENTITY
    BY <2>1, Zenon DEF Sent
  <2>3. Original = [FileToSend EXCEPT ![Len(FileToSend)] = SubSeq(@, 1, Len(@) - 1)]
    BY <2>2, Zenon DEF Original
  <2>4. Original = q
    BY <2>2, <2>3, VariantSent, Zenon
  <2>5. HasVariant(q) /\ reply.encoding = PreferredVariant(q)
    BY <2>2, VariantSent, Zenon
  <2>6. /\ Accepts(req.accept, reply.encoding)
        /\ \A coding \in AVAILABLE_ENCODINGS :
             /\ Accepts(req.accept, coding)
             /\ FileType(WithExtension(q, CompExt(coding))) = "file"
             => QualityOf(req.accept, coding) <= QualityOf(req.accept, reply.encoding)
    BY <2>5, VariantFound, ZenonT(40)
  <2> HIDE DEF q
  <2> QED
    BY <2>4, <2>6, Zenon DEF BestVariant
<1> QED
  BY <1>1, ReplyAlways, PTL

(***************************************************************************)
(* A listing is of the directory asked for, which has no index file.       *)
(***************************************************************************)
THEOREM ListsOnlyWithoutIndexAlways == Spec => []ListsOnlyWithoutIndex
<1>1. TypeInv /\ ReplyInv => ListsOnlyWithoutIndex
  <2> SUFFICES ASSUME TypeInv, ReplyInv, reply.kind = "listing"
               PROVE  ListsOnlyWithoutIndex
    BY Zenon DEF ListsOnlyWithoutIndex
  <2>1. Listed
    BY Zenon DEF ReplyInv, Refused, Bodiless, Sent
  <2> QED
    BY <2>1, ListedDir, Zenon DEF Listed, ListsOnlyWithoutIndex, path
<1> QED
  BY <1>1, ReplyAlways, PTL

(***************************************************************************)
(* An index file or a listing, which hold relative links, is sent without  *)
(* a redirect only under a URI that ends with a slash.                     *)
(***************************************************************************)
THEOREM RelativeLinksResolveAlways == Spec => []RelativeLinksResolve
<1>1. TypeInv /\ ReplyInv => RelativeLinksResolve
  <2> SUFFICES ASSUME TypeInv, ReplyInv, opts.redirect_trailing_slash, Sends,
                      reply.encoding = IDENTITY, FileType(path_of(req)) = "dir"
               PROVE  req.slash
    BY Zenon DEF RelativeLinksResolve, path
  <2> DEFINE p == path_of(req)
             m == get_composed_file_metadata(p)
  <2>1. Listed \/ Sent
    BY Zenon DEF ReplyInv, Refused, Bodiless, Sends
  <2>2. ~NeedsSlash
    BY <2>1, Zenon DEF Listed, Sent
  <2>3. md.is_dir => req.slash
    BY <2>2, Zenon DEF NeedsSlash
  <2>4. CASE Listed
    BY <2>3, <2>4, Zenon DEF Listed, Lists
  <2>5. CASE Sent
    <3>1. m = md /\ md.encoding = IDENTITY
      BY <2>5, Zenon DEF Sent, md
    <3>2. \/ BareDir(p, m)
          \/ \E i \in DOMAIN IndexFiles : IndexVariant(p, m, i) \/ IndexFound(p, m, i)
          \/ DirPage(p, m) \/ FileVariant(p, m) \/ FileFound(p, m) \/ FilePage(p, m)
      BY MetadataCases, Zenon
    <3>3. \A x : Plain(x, TRUE).is_dir = TRUE
      BY Zenon DEF Plain, FileMetadata
    <3>4. \A x : HasVariant(x) => Precompressed(x).encoding # IDENTITY
      BY VariantEncoded, Zenon
    <3> HIDE DEF m
    <3>5. m.is_dir
      BY <3>1, <3>2, <3>3, <3>4, ZenonT(40)
         DEF BareDir, IndexVariant, IndexFound, DirPage, FileVariant, FileFound, FilePage
    <3> QED
      BY <2>3, <3>1, <3>5
  <2> QED
    BY <2>1, <2>4, <2>5
<1> QED
  BY <1>1, ReplyAlways, PTL

(***************************************************************************)
(* With ignore_hidden_files, nothing is sent, redirected or answered for a *)
(* path with a hidden component.                                           *)
(***************************************************************************)
THEOREM HiddenStaysHiddenAlways == Spec => []HiddenStaysHidden
<1>1. TypeInv /\ ReplyInv => HiddenStaysHidden
  <2> SUFFICES ASSUME TypeInv, ReplyInv, opts.ignore_hidden_files,
                      reply.kind \notin {"pending", "error"}
               PROVE  ~is_hidden(path_of(req)) /\ ~is_hidden(reply.path)
    BY Zenon DEF HiddenStaysHidden, path
  <2>1. Bodiless \/ Listed \/ Sent
    BY Zenon DEF ReplyInv, Refused
  <2>2. ~is_hidden(md.file_path)
    BY <2>1, Zenon DEF Bodiless, Listed, Sent, Resolved, Visible
  <2>3. ~is_hidden(path_of(req))
    BY <2>2, MetadataPath, ZenonT(40)
  <2>4. CASE Bodiless
    <3>1. ~is_hidden(<< >>)
      BY DEF is_hidden
    <3> QED
      BY <2>3, <2>4, <3>1 DEF Bodiless
  <2>5. CASE Listed
    BY <2>3, <2>5, ListedDir, Zenon DEF Listed
  <2>6. CASE Sent
    <3>1. CASE md.encoding = IDENTITY
      BY <2>2, <2>3, <2>6, <3>1 DEF Sent, FileToSend
    <3>2. CASE md.encoding # IDENTITY
      BY <2>2, <2>3, <2>6, <3>2, VariantSent, ZenonT(40) DEF Sent
    <3> QED
      BY <3>1, <3>2
  <2> QED
    BY <2>1, <2>4, <2>5, <2>6
<1> QED
  BY <1>1, ReplyAlways, PTL

(***************************************************************************)
(* If the file that a resolved request leads to cannot be opened, it is    *)
(* for a directory without index file or page.                             *)
(***************************************************************************)
LEMMA NothingFound ==
    ASSUME TypeInv, Resolved, ~Exists(FileToSend)
    PROVE  LET p == path_of(req) IN
           /\ FileType(p) # "file"
           /\ ~Exists(HtmlSuffixed(p))
           /\ \A i \in DOMAIN IndexFiles : ~Exists(IndexPath(p, i))
<1> DEFINE p == path_of(req)
           m == get_composed_file_metadata(p)
<1>1. md.encoding = IDENTITY
  <2>1. md.encoding # IDENTITY => Exists(FileToSend)
    BY VariantSent, Zenon DEF Exists
  <2> QED
    BY <2>1
<1>2. ~Exists(m.file_path)
  BY <1>1 DEF FileToSend, md
<1>3. m.encoding = IDENTITY
  BY <1>1, Zenon DEF md
<1>4. ~NotFound(p)
  BY Zenon DEF Resolved
<1>5. \/ BareDir(p, m)
      \/ \E i \in DOMAIN IndexFiles : IndexVariant(p, m, i) \/ IndexFound(p, m, i)
      \/ DirPage(p, m) \/ FileVariant(p, m) \/ FileFound(p, m) \/ FilePage(p, m)
  BY MetadataCases, Zenon
<1>6. \A x : \A d \in BOOLEAN : Plain(x, d).file_path = x
  BY Zenon DEF Plain, FileMetadata
<1>7. \A x : HasVariant(x) => Precompressed(x).encoding # IDENTITY
  BY VariantEncoded
<1>8. FileType(p) \in FileTypes
  BY FilesAssumption DEF TypeInv, FileType, FileTypes
<1> HIDE DEF m
<1>9. ~FilePage(p, m)
  <2>1. FilePage(p, m) => Exists(HtmlSuffixed(p))
    BY <1>4, <1>8 DEF FilePage, NotFound, Exists, FileTypes
  <2> QED
    BY <1>2, <1>6, <2>1, Zenon DEF FilePage
<1>10. ~FileFound(p, m)
  <2>1. FileFound(p, m) => Exists(p)
    BY Zenon DEF FileFound, Exists
  <2> QED
    BY <1>2, <1>6, <2>1, Zenon DEF FileFound
<1>11. BareDir(p, m)
  BY <1>2, <1>3, <1>5, <1>6, <1>7, <1>9, <1>10, ZenonT(40)
     DEF IndexVariant, IndexFound, DirPage, FileVariant
<1>12. \A i \in DOMAIN IndexFiles : ~Exists(IndexPath(p, i)) /\ ~Exists(HtmlSuffixed(p))
  BY <1>11, Zenon DEF BareDir, Found
<1>13. Len(IndexFiles) \in DOMAIN IndexFiles
  BY FilesAssumption
<1>14. FileType(p) = "dir"
  BY <1>11, SMTT(40) DEF BareDir
<1> QED
  BY <1>12, <1>13, <1>14

(***************************************************************************)
(* 404 is said only where there is no file, no index file and no file with *)
(* the suffix .html, or a hidden one.                                      *)
(***************************************************************************)
THEOREM NotFoundTruthfulAlways == Spec => []NotFoundTruthful
<1>1. TypeInv /\ ReplyInv => NotFoundTruthful
  <2> DEFINE p == path_of(req)
             Nothing == /\ FileType(p) # "file"
                        /\ ~Exists(HtmlSuffixed(p))
                        /\ FileType(p) = "dir" =>
                             \A i \in DOMAIN IndexFiles : ~Exists(IndexPath(p, i))
  <2> SUFFICES ASSUME TypeInv, ReplyInv, reply.kind = "error", reply.status = 404
               PROVE  (opts.ignore_hidden_files /\ is_hidden(md.file_path)) \/ Nothing
    BY Zenon DEF NotFoundTruthful, path
  <2>1. Refused
    BY Zenon DEF ReplyInv, Bodiless, Listed, Sent
  <2>2. NotFound(p) \/ ~Visible(md) \/ (Resolved /\ ~Exists(FileToSend))
    BY <2>1, Zenon DEF Refused
  <2>3. CASE NotFound(p)
    BY <2>3 DEF NotFound, Exists
  <2>4. CASE ~Visible(md)
    BY <2>4 DEF Visible
  <2>5. CASE Resolved /\ ~Exists(FileToSend)
    BY <2>5, NothingFound, ZenonT(40)
  <2> QED
    BY <2>2, <2>3, <2>4, <2>5
<1> QED
  BY <1>1, ReplyAlways, PTL

(***************************************************************************)
(* What is sent lies in the root directory, or is its sibling with the     *)
(* suffix .html, whatever the segments of the URI are.                     *)
(***************************************************************************)
THEOREM ServedFromRootAlways == Spec => []ServedFromRoot
<1>1. TypeInv /\ ReplyInv => ServedFromRoot
  <2> DEFINE p == path_of(req)
             InRoot(q) == q = base_path \/ Within(base_path, q)
  <2> SUFFICES ASSUME TypeInv, ReplyInv, Sends
               PROVE  \/ InRoot(reply.path)
                      \/ p = base_path /\ reply.path = HtmlSuffixed(base_path)
    BY Zenon DEF ServedFromRoot, path
  <2>1. Listed \/ Sent
    BY Zenon DEF ReplyInv, Refused, Bodiless, Sends
  <2>2. /\ InRoot(p)
        /\ \/ InRoot(md.file_path)
           \/ p = base_path /\ md = Plain(HtmlSuffixed(base_path), TRUE)
    BY MetadataPath, Zenon DEF Reached
  <2>3. CASE Listed
    BY <2>2, <2>3, ListedDir, ZenonT(40) DEF Listed
  <2>4. CASE Sent /\ md.encoding # IDENTITY
    BY <2>4, VariantSent, ZenonT(40) DEF Sent
  <2>5. CASE Sent /\ md.encoding = IDENTITY
    <3>1. reply.path = md.file_path
      BY <2>5, ZenonT(40) DEF Sent, FileToSend
    <3>2. \A x : Plain(x, TRUE).file_path = x
      BY Zenon DEF Plain, FileMetadata
    <3> QED
      BY <2>2, <3>1, <3>2, ZenonT(40)
  <2> QED
    BY <2>1, <2>3, <2>4, <2>5, SMTT(40)
<1> QED
  BY <1>1, ReplyAlways, PTL

=============================================================================
