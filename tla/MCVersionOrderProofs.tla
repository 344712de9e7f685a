------------------------ MODULE MCVersionOrderProofs ------------------------
(* The comparison operators of class Version agree with the order of the     *)
(* numbers written in the strings, for every value of MaxInt.                *)
EXTENDS MCVersionOrder, VersionOrderProofs

(* The product with a base is monotone: what makes the left digit of a      *)
(* positional number the one that decides (used for Rank, updater.cc:649).  *)
LEMMA ProductMonotone ==
  ASSUME NEW p \in Nat, NEW q \in Nat, NEW B \in Nat, p < q
  PROVE  p * B + B <= q * B
<1>1. PICK d \in Nat : q = p + 1 + d
  <2>1. q - p - 1 \in Nat
    OBVIOUS
  <2>2. q = p + 1 + (q - p - 1)
    OBVIOUS
  <2>3. QED
    BY <2>1, <2>2
<1>2. q * B = p * B + B + d * B
  BY <1>1
<1>3. p * B \in Nat /\ d * B \in Nat
  OBVIOUS
<1>4. QED
  BY <1>2, <1>3

(* One digit of a positional number: with digits below the base the higher  *)
(* part decides, and the digit only when the higher parts agree; equal      *)
(* numbers have equal parts.  It is what operator< compares, member by      *)
(* member (updater.cc:655-661).                                             *)
LEMMA DigitOrder ==
  ASSUME NEW p \in Nat, NEW q \in Nat, NEW B \in Nat,
         NEW r \in Nat, NEW s \in Nat, r < B, s < B
  PROVE  /\ p * B + r \in Nat
         /\ p * B + r < q * B + s <=> p < q \/ (p = q /\ r < s)
         /\ p * B + r = q * B + s <=> p = q /\ r = s
<1>1. p * B \in Nat /\ q * B \in Nat
  OBVIOUS
<1>2. CASE p < q
  <2>1. p * B + B <= q * B
    BY <1>2, ProductMonotone
  <2>2. p * B + r < q * B + s
    BY <1>1, <2>1
  <2>3. QED
    BY <1>1, <1>2, <2>2
<1>3. CASE q < p
  <2>1. q * B + B <= p * B
    BY <1>3, ProductMonotone
  <2>2. q * B + s < p * B + r
    BY <1>1, <2>1
  <2>3. QED
    BY <1>1, <1>3, <2>2
<1>4. CASE p = q
  <2>1. p * B = q * B
    BY <1>4
  <2>2. QED
    BY <1>1, <1>4, <2>1
<1>5. QED
  BY <1>2, <1>3, <1>4

(* What from_string accepts has the numbers written in the string, each no  *)
(* larger than MaxInt (updater.cc:667-684).                                 *)
LEMMA FromStringKeeps ==
  ASSUME NEW t \in Texts, FromString(t) # NoVersion
  PROVE  /\ FromString(t) = [major |-> t.major, minor |-> t.minor, patch |-> t.patch]
         /\ t.major \in 0 .. MaxInt
         /\ t.minor \in 0 .. MaxInt
         /\ t.patch \in 0 .. MaxInt
<1>1. t.major \in Nat /\ t.minor \in Nat /\ t.patch \in Nat
  BY MaxIntAssumption DEF Texts, Component, Dotted, NotDotted
<1>2. QED
  BY <1>1, MaxIntAssumption DEF FromString

(* The reference number of an accepted string orders them as the three      *)
(* numbers written in them do, most significant first.                      *)
LEMMA RankOrder ==
  ASSUME NEW a \in Texts, NEW b \in Texts,
         FromString(a) # NoVersion, FromString(b) # NoVersion
  PROVE  /\ Rank(a) \in Nat
         /\ Rank(b) \in Nat
         /\ Rank(a) < Rank(b) <=> Less(FromString(a), FromString(b))
         /\ Rank(a) = Rank(b) <=> Equal(FromString(a), FromString(b))
<1> DEFINE B == MaxInt + 2
           High(t) == t.major * B + t.minor
<1>1. B \in Nat
  BY MaxIntAssumption
<1>2. /\ a.major \in Nat /\ a.minor \in Nat /\ a.patch \in Nat
      /\ b.major \in Nat /\ b.minor \in Nat /\ b.patch \in Nat
      /\ a.minor < B /\ a.patch < B /\ b.minor < B /\ b.patch < B
  BY FromStringKeeps, MaxIntAssumption
<1>3. /\ High(a) \in Nat /\ High(b) \in Nat
      /\ High(a) < High(b) <=> a.major < b.major \/ (a.major = b.major /\ a.minor < b.minor)
      /\ High(a) = High(b) <=> a.major = b.major /\ a.minor = b.minor
  <2> HIDE DEF B
  <2>1. \A p, q, r, s \in Nat : r < B /\ s < B =>
          /\ p * B + r < q * B + s <=> p < q \/ (p = q /\ r < s)
          /\ p * B + r = q * B + s <=> p = q /\ r = s
    BY <1>1, DigitOrder
  <2>2. PICK p \in Nat, q \in Nat, r \in Nat, s \in Nat :
          /\ p = a.major /\ r = a.minor /\ r < B
          /\ q = b.major /\ s = b.minor /\ s < B
    BY <1>2
  <2>3. p * B + r \in Nat /\ q * B + s \in Nat
    BY <1>1
  <2>4. /\ p * B + r < q * B + s <=> p < q \/ (p = q /\ r < s)
        /\ p * B + r = q * B + s <=> p = q /\ r = s
    BY <2>1, <2>2
  <2>5. QED
    BY <2>2, <2>3, <2>4
<1>4. Rank(a) = High(a) * B + a.patch /\ Rank(b) = High(b) * B + b.patch
  BY DEF Rank
<1>5. /\ Rank(a) \in Nat /\ Rank(b) \in Nat
      /\ Rank(a) < Rank(b) <=> High(a) < High(b) \/ (High(a) = High(b) /\ a.patch < b.patch)
      /\ Rank(a) = Rank(b) <=> High(a) = High(b) /\ a.patch = b.patch
  <2> HIDE DEF B, High
  <2>1. QED
    BY <1>1, <1>2, <1>3, <1>4, DigitOrder
<1>6. /\ FromString(a) = [major |-> a.major, minor |-> a.minor, patch |-> a.patch]
      /\ FromString(b) = [major |-> b.major, minor |-> b.minor, patch |-> b.patch]
  BY FromStringKeeps
<1>7. QED
  <2> HIDE DEF B, High
  <2>1. QED
    BY <1>3, <1>5, <1>6 DEF Less, Equal

(* For every pair of strings that from_string accepts, the five operators   *)
(* of class Version decide as the numbers written in the strings do, for    *)
(* every width MaxInt of the integers (updater.cc:649-665, 667-684).        *)
THEOREM ComparisonsMatchTextAlways == Spec => []ComparisonsMatchText
<1> DEFINE Inv == left \in Texts /\ right \in Texts
<1>1. Init => Inv
  BY DEF Init, Texts
<1>2. Inv /\ [Next]_vars => Inv'
  BY DEF Next, vars
<1>3. Inv => ComparisonsMatchText
  <2> SUFFICES ASSUME Inv, FromString(left) # NoVersion, FromString(right) # NoVersion
               PROVE  /\ Less(FromString(left), FromString(right)) <=> Rank(left) < Rank(right)
                      /\ Equal(FromString(left), FromString(right)) <=> Rank(left) = Rank(right)
                      /\ Greater(FromString(left), FromString(right)) <=> Rank(left) > Rank(right)
                      /\ LessEq(FromString(left), FromString(right)) <=> Rank(left) <= Rank(right)
                      /\ GreaterEq(FromString(left), FromString(right)) <=> Rank(left) >= Rank(right)
    BY DEF ComparisonsMatchText
  <2>1. /\ Rank(left) \in Nat /\ Rank(right) \in Nat
        /\ Rank(left) < Rank(right) <=> Less(FromString(left), FromString(right))
        /\ Rank(left) = Rank(right) <=> Equal(FromString(left), FromString(right))
    BY RankOrder
  <2>2. QED
    BY <2>1 DEF Greater, LessEq, GreaterEq
<1>4. QED
  BY <1>1, <1>2, <1>3, PTL DEF Spec
=============================================================================
