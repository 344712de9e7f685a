--------------------------- MODULE MCVersionOrder ---------------------------
(* Compares the operators of VersionOrder with a reference definition over   *)
(* every pair of version strings whose numbers do not exceed MaxInt + 1.      *)
EXTENDS VersionOrder

VARIABLES left, right  \* the two version strings being compared

vars == <<left, right>>

Component == 0 .. MaxInt + 1
Texts == {Dotted(x, y, z) : x, y, z \in Component} \cup {NotDotted}

Init == left \in Texts /\ right = NotDotted
Next == right' \in Texts /\ UNCHANGED left
Spec == Init /\ [][Next]_vars

\* The number a dotted string denotes in a positional system in which every
\* component written in it is a digit: the reference order on strings.
Rank(t) == (t.major * (MaxInt + 2) + t.minor) * (MaxInt + 2) + t.patch

(* All five comparison operators of class Version agree with the order of   *)
(* the numbers written in the strings, whenever both strings are accepted   *)
(* (updater.cc:649-665, 667-684).                                           *)
ComparisonsMatchText ==
  LET a == FromString(left)
      b == FromString(right)
  IN a # NoVersion /\ b # NoVersion =>
       /\ Less(a, b)      <=> Rank(left) < Rank(right)
       /\ Equal(a, b)     <=> Rank(left) = Rank(right)
       /\ Greater(a, b)   <=> Rank(left) > Rank(right)
       /\ LessEq(a, b)    <=> Rank(left) <= Rank(right)
       /\ GreaterEq(a, b) <=> Rank(left) >= Rank(right)
=============================================================================
