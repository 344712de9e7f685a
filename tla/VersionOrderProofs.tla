------------------------- MODULE VersionOrderProofs -------------------------
(* The comparison operators of class Version form a strict total order, for  *)
(* every value of MaxInt.                                                    *)
EXTENDS VersionOrder, TLAPS

(* Two versions are equal exactly when they are the same record, so that    *)
(* find_if with operator== (updater.cc:534-538, 561-565) selects by value.  *)
LEMMA EqualIsIdentity ==
  \A a, b \in Version : Equal(a, b) <=> a = b
BY DEF Version, Equal

(* operator< is irreflexive and transitive, and any two versions are        *)
(* ordered one way, the other way, or equal (updater.cc:649-661).           *)
THEOREM LessIsStrictTotalOrder ==
  /\ \A a \in Version : ~Less(a, a)
  /\ \A a, b, c \in Version : Less(a, b) /\ Less(b, c) => Less(a, c)
  /\ \A a, b \in Version : Less(a, b) \/ Less(b, a) \/ a = b
  /\ \A a, b \in Version : ~(Less(a, b) /\ Less(b, a))
<1>1. \A a \in Version : ~Less(a, a)
  BY DEF Version, Less
<1>2. \A a, b, c \in Version : Less(a, b) /\ Less(b, c) => Less(a, c)
  BY DEF Version, Less
<1>3. \A a, b \in Version : Less(a, b) \/ Less(b, a) \/ a = b
  BY DEF Version, Less
<1>4. \A a, b \in Version : ~(Less(a, b) /\ Less(b, a))
  BY DEF Version, Less
<1>5. QED
  BY <1>1, <1>2, <1>3, <1>4

(* The three derived operators are the ones that operator< determines, so   *)
(* "current >= latest" of update_server fails exactly when latest > current.*)
THEOREM DerivedComparisons ==
  \A a, b \in Version :
    /\ Greater(a, b) <=> Less(b, a)
    /\ GreaterEq(a, b) <=> Greater(a, b) \/ a = b
    /\ LessEq(a, b) <=> GreaterEq(b, a)
<1> SUFFICES ASSUME NEW a \in Version, NEW b \in Version
             PROVE  /\ Greater(a, b) <=> Less(b, a)
                    /\ GreaterEq(a, b) <=> Greater(a, b) \/ a = b
                    /\ LessEq(a, b) <=> GreaterEq(b, a)
  OBVIOUS
<1>1. Greater(a, b) <=> Less(b, a)
  BY LessIsStrictTotalOrder, EqualIsIdentity DEF Greater
<1>2. GreaterEq(a, b) <=> Greater(a, b) \/ a = b
  BY LessIsStrictTotalOrder, EqualIsIdentity, <1>1 DEF GreaterEq
<1>3. LessEq(a, b) <=> GreaterEq(b, a)
  BY LessIsStrictTotalOrder, EqualIsIdentity DEF LessEq, GreaterEq
<1>4. QED
  BY <1>1, <1>2, <1>3
=============================================================================
