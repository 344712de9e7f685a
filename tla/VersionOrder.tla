---------------------------- MODULE VersionOrder ----------------------------
(***************************************************************************)
(* The class Version of xdaqvc/updater.cc: parsing a version string and    *)
(* the comparison operators with which update_server decides whether the   *)
(* server is out of date and which row of the version table it installs.   *)
(*                                                                         *)
(* A version string is abstracted to what from_string can tell apart: does *)
(* it match (\d+)\.(\d+)\.(\d+), and if so which three numbers are written *)
(* in it.  The numbers are unbounded; std::stoi is not.                    *)
(***************************************************************************)
EXTENDS Integers

CONSTANTS
  MaxInt,      \* the largest int, beyond which std::stoi throws out_of_range
  NoVersion    \* std::nullopt

ASSUME MaxIntAssumption == MaxInt \in Nat

\* The objects of class Version that from_string can produce.
Version == [major : 0 .. MaxInt, minor : 0 .. MaxInt, patch : 0 .. MaxInt]

ASSUME NoVersionAssumption == NoVersion \notin Version

\* A version string, by the three numbers written in it; NotDotted stands for
\* every string that does not have that form.
Text == [matches : BOOLEAN, major : Nat, minor : Nat, patch : Nat]
Dotted(major, minor, patch) ==
  [matches |-> TRUE, major |-> major, minor |-> minor, patch |-> patch]
NotDotted == [matches |-> FALSE, major |-> 0, minor |-> 0, patch |-> 0]

-----------------------------------------------------------------------------
\* Seeded fault: the conversion does not notice the overflow.
FromStringSaturating(text) ==
  LET Clamp(n) == IF n <= MaxInt THEN n ELSE MaxInt
  IN IF text.matches
       THEN [major |-> Clamp(text.major), minor |-> Clamp(text.minor),
             patch |-> Clamp(text.patch)]
       ELSE NoVersion

-----------------------------------------------------------------------------

Equal(a, b) ==
  a.major = b.major /\ a.minor = b.minor /\ a.patch = b.patch

Less(a, b) ==
  \/ a.major < b.major
  \/ a.major = b.major /\ a.minor < b.minor
  \/ a.major = b.major /\ a.minor = b.minor /\ a.patch < b.patch

Greater(a, b) == ~(Less(a, b) \/ Equal(a, b))

GreaterEq(a, b) == ~Less(a, b)

LessEq(a, b) == Less(a, b) \/ Equal(a, b)

\* stoi throws on a number that does not fit; the handler returns nullopt.
FromString(text) ==
  LET Fits(n) == n <= MaxInt
  IN IF text.matches /\ Fits(text.major) /\ Fits(text.minor) /\ Fits(text.patch)
       THEN [major |-> text.major, minor |-> text.minor, patch |-> text.patch]
       ELSE NoVersion
=============================================================================
