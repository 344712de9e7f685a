------------------------------ MODULE MCUpdater -----------------------------
(* Small instances of Updater: three versions that differ in one component,  *)
(* a package for each, and the ways a download can go wrong.                  *)
EXTENDS Updater, FiniteSets, TLC

V(patch) == [major |-> 0, minor |-> 0, patch |-> patch]
T(patch) == Dotted(0, 0, patch)

MCContent == {"", "part", "pkg1", "pkg2"}
MCSizeOf == [c \in Content |->
               CASE c = "" -> 0 [] c = "part" -> 1 [] OTHER -> 2]
\* "bad" is a digest no content has, as in DownloadAndVerifyInvalidHash.
MCHash == Content \cup {"bad"}
MCSha256 == [c \in Content |-> c]

R(version, hash, form) == [version |-> version, hash |-> hash, form |-> form]

\* An orderly table; one whose latest version has two rows after a row that is
\* skipped; one that lacks its latest version and has an empty package; one with
\* a broken package; one that cannot be used.
Orderly == [latest |-> T(2), versions |-> <<R(T(2), "pkg2", "complete"),
                                            R(T(1), "pkg1", "complete")>>]
Doubled == [latest |-> T(1), versions |-> <<R(T(1), "pkg2", "badMin"),
              R(T(1), "pkg1", "complete"), R(T(1), "pkg2", "complete")>>]
Lacking == [latest |-> T(2), versions |-> <<R(NotDotted, "pkg2", "unreadable"),
                                            R(T(1), "", "complete")>>]
Broken == [latest |-> T(2), versions |-> <<R(T(2), "bad", "complete")>>]
Unusable == [latest |-> T(1), versions |-> <<R(T(1), "pkg1", "unreadable")>>]

AllTables == {Orderly, Doubled, Lacking, Broken, Unusable}
TwoTables == {Orderly, Broken}

\* For two processes: one package, whole or empty.
TinyContent == {"", "pkg1"}
Single == [latest |-> T(1), versions |-> <<R(T(1), "pkg1", "complete")>>]
SmallTables == {Single}

OlderForce == {NoVersion, V(1)}
SomeForce == {NoVersion, V(0)}
NoForce == {NoVersion}
FirstV == V(0)
OwnDir == [c \in Client |-> c]
SharedDir == [c \in Client |-> "updates"]
SharedDirs == {"updates"}

\* Bound: at most one upload of a departed client is pending.
OneLate == Cardinality(late) <= 1

\* Bound: handshakes have a token, on which nothing else depends.
TokensGiven == \A c \in Client : pc[c] = "prepare" => token[c] # NoToken

Clients == Permutations(Client)
=============================================================================
