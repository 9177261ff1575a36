----------------------------- MODULE Negotiation -----------------------------
(***************************************************************************)
(* The choice of a content coding from an Accept-Encoding header           *)
(* (src/src/headers_ext/, src/src/compression.rs).                         *)
(*                                                                         *)
(* A header is the sequence of its members, each a token and its quality   *)
(* in thousandths (1000 when there is none or it does not parse), a u16.   *)
(***************************************************************************)
EXTENDS Naturals, Sequences

\* ContentCoding: the codings built in, and what every other token becomes.
AVAILABLE_ENCODINGS == {"deflate", "gzip", "br", "zstd"}
IDENTITY == "identity"
ContentCoding == AVAILABLE_ENCODINGS \cup {IDENTITY}

MaxQuality == 65535     \* a u16
Quality == 0 .. MaxQuality
AcceptEncoding == Seq([coding : ContentCoding, quality : Quality])
NoHeader == << >>

(***************************************************************************)
(* QualityValue::iter: a stable sort by descending quality.  Ahead(a, i)   *)
(* are the members that come out before member i.                          *)
(***************************************************************************)
Ahead(a, i) ==
    {j \in DOMAIN a :
        \/ a[j].quality > a[i].quality
        \/ a[j].quality = a[i].quality /\ j < i}

\* Where a loop over the sorted codings stops, if it does at the members is.
Foremost(a, is) == a[CHOOSE i \in is : \A j \in is \ {i} : i \in Ahead(a, j)].coding

\* get_encodings: the members with a coding of the build (best first, by Ahead).
get_encodings(a) == {i \in DOMAIN a : a[i].coding \in AVAILABLE_ENCODINGS}

\* get_preferred_encoding: the first of them, or IDENTITY for None.
get_preferred_encoding(a) ==
    IF get_encodings(a) = {} THEN IDENTITY ELSE Foremost(a, get_encodings(a))

\* The best quality a header gives a coding.
QualityOf(a, coding) ==
    LET given == {a[i].quality : i \in {j \in DOMAIN a : a[j].coding = coding}}
    IN  CHOOSE q \in given : \A p \in given : p <= q

Accepts(a, coding) == \E i \in DOMAIN a : a[i].coding = coding

=============================================================================
