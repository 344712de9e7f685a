--------------------------- MODULE UpdateContract ---------------------------
(* What the callers of update_server may rely on, with no file, table,       *)
(* request or retry in sight.  A run sends the server at most one version,   *)
(* which the server installs at most once: before the run returns, after     *)
(* that, or never.  Only the first of these may be reported as an update,    *)
(* and only a run that has sent nothing may report that none was needed.     *)
EXTENDS VersionOrder

CONSTANTS
  Client,       \* the processes that call update_server
  FirstVersion  \* the version the server runs before any update

VARIABLES
  run,        \* "running", "done", or "idle" when never started or killed
  skip,       \* the argument skip_version_check
  answer,     \* what the run returned
  reported,   \* the version the server gave when the run asked
  sent,       \* the version on its way to the server
  installed,  \* the version the server installed during the run
  orphans,    \* versions sent by runs that are over, not installed yet
  server      \* the version the server runs

vars == <<run, skip, answer, reported, sent, installed, orphans, server>>

Init ==
  /\ run = [c \in Client |-> "idle"]
  /\ skip = [c \in Client |-> FALSE]
  /\ answer = [c \in Client |-> "none"]
  /\ reported = [c \in Client |-> NoVersion]
  /\ sent = [c \in Client |-> NoVersion]
  /\ installed = [c \in Client |-> NoVersion]
  /\ orphans = {}
  /\ server = FirstVersion

Begin(c) ==
  /\ run[c] # "running"
  /\ run' = [run EXCEPT ![c] = "running"]
  /\ \E s \in BOOLEAN : skip' = [skip EXCEPT ![c] = s]
  /\ answer' = [answer EXCEPT ![c] = "none"]
  /\ reported' = [reported EXCEPT ![c] = NoVersion]
  /\ installed' = [installed EXCEPT ![c] = NoVersion]
  /\ UNCHANGED <<sent, orphans, server>>

Ask(c) ==
  /\ run[c] = "running" /\ reported[c] = NoVersion
  /\ reported' = [reported EXCEPT ![c] = server]
  /\ UNCHANGED <<run, skip, answer, sent, installed, orphans, server>>

\* Nothing older than what the server reported, unless the check is skipped.
Send(c) ==
  /\ run[c] = "running" /\ reported[c] # NoVersion
  /\ sent[c] = NoVersion /\ installed[c] = NoVersion
  /\ \E v \in Version :
       /\ skip[c] \/ Greater(v, reported[c])
       /\ sent' = [sent EXCEPT ![c] = v]
  /\ UNCHANGED <<run, skip, answer, reported, installed, orphans, server>>

Install(c) ==
  /\ sent[c] # NoVersion /\ installed[c] = NoVersion
  /\ installed' = [installed EXCEPT ![c] = sent[c]]
  /\ server' = sent[c]
  /\ UNCHANGED <<run, skip, answer, reported, sent, orphans>>

InstallOrphan ==
  /\ \E v \in orphans : server' = v /\ orphans' \in {orphans, orphans \ {v}}
  /\ UNCHANGED <<run, skip, answer, reported, sent, installed>>

\* What the run may say when it returns.
MayAnswer(c, a) ==
  \/ a = "failed"
  \/ a = "updated" /\ installed[c] # NoVersion
  \/ a = "current" /\ ~skip[c] /\ reported[c] # NoVersion
                   /\ sent[c] = NoVersion /\ installed[c] = NoVersion

\* The run is over: what it sent and the server has not installed is nobody's.
Abandon(c) ==
  /\ orphans' = IF sent[c] # NoVersion /\ installed[c] = NoVersion
                  THEN orphans \cup {sent[c]} ELSE orphans
  /\ sent' = [sent EXCEPT ![c] = NoVersion]
  /\ UNCHANGED <<skip, reported, installed, server>>

Return(c) ==
  /\ run[c] = "running"
  /\ run' = [run EXCEPT ![c] = "done"]
  /\ \E a \in {"failed", "updated", "current"} :
       MayAnswer(c, a) /\ answer' = [answer EXCEPT ![c] = a]
  /\ Abandon(c)

Kill(c) ==
  /\ run[c] = "running"
  /\ run' = [run EXCEPT ![c] = "idle"]
  /\ UNCHANGED answer
  /\ Abandon(c)

Next ==
  \/ \E c \in Client :
       Begin(c) \/ Ask(c) \/ Send(c) \/ Install(c) \/ Return(c) \/ Kill(c)
  \/ InstallOrphan

Spec == Init /\ [][Next]_vars
=============================================================================
