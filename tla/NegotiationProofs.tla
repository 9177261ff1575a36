-------------------------- MODULE NegotiationProofs --------------------------
(***************************************************************************)
(* What the choices of the server find, for lists of any length: the first *)
(* of several places in a list, and the coding a client prefers.           *)
(***************************************************************************)
EXTENDS Negotiation, TLAPS, WellFoundedInduction

(***************************************************************************)
(* A loop over a list that stops at some of its places stops at one of     *)
(* them, before the others.                                                *)
(***************************************************************************)
LEMMA LeastPlace ==
    ASSUME NEW S \in SUBSET Nat, S # {}
    PROVE  \E x \in S : \A y \in S : x <= y
<1> DEFINE R == OpToRel(<, Nat)
<1>1. IsWellFoundedOn(R, Nat)
  BY NatLessThanWellFounded, Zenon
<1>2. \A x, y \in Nat : y < x => <<y, x>> \in R
  BY DEF OpToRel
<1> HIDE DEF R
<1>3. \E x \in S : \A y \in S : ~ (<<y, x>> \in R)
  BY <1>1, WFMin, S \subseteq Nat, Zenon
<1>4. PICK x \in S : \A y \in S : ~ (<<y, x>> \in R)
  BY <1>3
<1>5. \A y \in S : ~ (y < x)
  BY <1>2, <1>4, S \subseteq Nat, Zenon
<1> QED
  BY <1>5

(***************************************************************************)
(* Numbers that are bounded have a largest one among them.                 *)
(***************************************************************************)
LEMMA GreatestBounded ==
    ASSUME NEW n \in Nat, NEW S \in SUBSET (0 .. n), S # {}
    PROVE  \E x \in S : \A y \in S : y <= x
<1> DEFINE T == {k \in Nat : n - k \in S}
<1>1. T # {}
  <2>1. PICK y \in S : TRUE
    OBVIOUS
  <2>2. n - y \in Nat /\ n - (n - y) = y
    OBVIOUS
  <2> QED
    BY <2>1, <2>2, Zenon
<1>2. T \in SUBSET Nat
  OBVIOUS
<1> HIDE DEF T
<1>3. PICK k \in T : \A j \in T : k <= j
  BY <1>1, <1>2, LeastPlace
<1> USE DEF T
<1>4. n - k \in S /\ k \in Nat
  OBVIOUS
<1>5. ASSUME NEW y \in S PROVE y <= n - k
  <2>1. n - y \in T
    <3>1. n - y \in Nat /\ n - (n - y) = y
      OBVIOUS
    <3> QED
      BY <3>1
  <2>2. k <= n - y
    BY <1>3, <2>1
  <2> QED
    BY <1>4, <2>2
<1> QED
  BY <1>4, <1>5

(***************************************************************************)
(* A header is a list of codings, each with a u16 for its quality.         *)
(***************************************************************************)
LEMMA HeaderType ==
    ASSUME NEW a \in AcceptEncoding
    PROVE  /\ DOMAIN a \in SUBSET Nat
           /\ \A i \in DOMAIN a :
                a[i].coding \in ContentCoding /\ a[i].quality \in 0 .. MaxQuality
           /\ MaxQuality \in Nat
<1> DEFINE Member == [coding : ContentCoding, quality : Quality]
<1>1. MaxQuality \in Nat
  BY DEF MaxQuality
<1>2. \A m \in Member : m.coding \in ContentCoding /\ m.quality \in 0 .. MaxQuality
  BY DEF Quality
<1>3. a \in Seq(Member)
  BY DEF AcceptEncoding
<1> HIDE DEF Member
<1>4. DOMAIN a \in SUBSET Nat /\ \A i \in DOMAIN a : a[i] \in Member
  BY <1>3
<1> QED
  BY <1>1, <1>2, <1>4, Zenon

(***************************************************************************)
(* The stable sort of QualityValue::iter puts one of any members of a      *)
(* header first: of those with the highest quality, the one named first.   *)
(***************************************************************************)
LEMMA ForemostExists ==
    ASSUME NEW a \in AcceptEncoding, NEW is \in SUBSET DOMAIN a, is # {}
    PROVE  \E i \in is : \A j \in is \ {i} : i \in Ahead(a, j)
<1>1. /\ is \in SUBSET Nat
      /\ \A i \in is : a[i].quality \in 0 .. MaxQuality
  BY HeaderType
<1> DEFINE Q == {a[i].quality : i \in is}
<1>2. Q \in SUBSET (0 .. MaxQuality) /\ Q # {} /\ MaxQuality \in Nat
  BY <1>1, HeaderType
<1>3. \E q \in Q : \A p \in Q : p <= q
  <2> HIDE DEF Q
  <2> QED
    BY <1>2, GreatestBounded, Zenon
<1>4. PICK q \in Q : \A p \in Q : p <= q
  BY <1>3
<1> DEFINE best == {i \in is : a[i].quality = q}
<1>5. best \in SUBSET Nat /\ best # {}
  BY <1>1
<1>6. \E i \in best : \A j \in best : i <= j
  <2> HIDE DEF best
  <2> QED
    BY <1>5, LeastPlace
<1>7. PICK i \in best : \A j \in best : i <= j
  BY <1>6
<1>8. ASSUME NEW j \in is, j # i PROVE i \in Ahead(a, j)
  <2>1. a[j].quality <= q /\ a[i].quality = q /\ i \in is
    BY <1>4
  <2>2. i \in Nat /\ j \in Nat /\ q \in Nat /\ a[j].quality \in Nat
    BY <1>1, <1>2
  <2>3. CASE a[j].quality = q
    BY <1>5, <1>7, <1>8, <2>1, <2>2, <2>3 DEF Ahead
  <2>4. CASE a[j].quality # q
    BY <2>1, <2>2, <2>4 DEF Ahead
  <2> QED
    BY <2>3, <2>4
<1> QED
  BY <1>7, <1>8

(***************************************************************************)
(* The coding that a loop over the sorted codings stops at is that of one  *)
(* of the members it may stop at, and none of those has a higher quality.  *)
(***************************************************************************)
LEMMA ForemostBest ==
    ASSUME NEW a \in AcceptEncoding, NEW is \in SUBSET DOMAIN a, is # {}
    PROVE  \E i \in is : /\ Foremost(a, is) = a[i].coding
                         /\ \A j \in is : a[j].quality <= a[i].quality
<1> DEFINE i == CHOOSE i \in is : \A j \in is \ {i} : i \in Ahead(a, j)
<1>1. i \in is /\ \A j \in is \ {i} : i \in Ahead(a, j)
  BY ForemostExists, Zenon
<1>2. Foremost(a, is) = a[i].coding
  BY DEF Foremost
<1> HIDE DEF i
<1>3. \A j \in is : a[j].quality \in Nat
  BY HeaderType
<1>4. \A j \in is : a[j].quality <= a[i].quality
  BY <1>1, <1>3 DEF Ahead
<1> QED
  BY <1>1, <1>2, <1>4

(***************************************************************************)
(* get_preferred_encoding and precompressed_variant only choose codings    *)
(* that the build has and the client listed.                               *)
(***************************************************************************)
LEMMA ForemostListed ==
    ASSUME NEW a \in AcceptEncoding, NEW is \in SUBSET get_encodings(a), is # {}
    PROVE  /\ Foremost(a, is) \in AVAILABLE_ENCODINGS
           /\ Accepts(a, Foremost(a, is))
<1>1. is \in SUBSET DOMAIN a /\ \A i \in is : a[i].coding \in AVAILABLE_ENCODINGS
  BY DEF get_encodings
<1>2. PICK i \in is : Foremost(a, is) = a[i].coding
  BY <1>1, ForemostBest
<1> QED
  BY <1>1, <1>2 DEF Accepts

(***************************************************************************)
(* A coding that a header lists has a best quality, that of one of the     *)
(* members that name it.                                                   *)
(***************************************************************************)
LEMMA QualityOfListed ==
    ASSUME NEW a \in AcceptEncoding, NEW coding, Accepts(a, coding)
    PROVE  /\ \E i \in DOMAIN a : a[i].coding = coding /\ QualityOf(a, coding) = a[i].quality
           /\ \A i \in DOMAIN a : a[i].coding = coding => a[i].quality <= QualityOf(a, coding)
<1> DEFINE given == {a[i].quality : i \in {j \in DOMAIN a : a[j].coding = coding}}
<1>1. given \in SUBSET (0 .. MaxQuality) /\ given # {} /\ MaxQuality \in Nat
  BY HeaderType DEF Accepts
<1>2. QualityOf(a, coding) = CHOOSE q \in given : \A p \in given : p <= q
  BY DEF QualityOf
<1>3. QualityOf(a, coding) \in given /\ \A p \in given : p <= QualityOf(a, coding)
  <2> HIDE DEF given
  <2>1. \E q \in given : \A p \in given : p <= q
    BY <1>1, GreatestBounded, Zenon
  <2> QED
    BY <1>2, <2>1, Zenon
<1> QED
  BY <1>3

=============================================================================
