----------------------- MODULE UpdaterContractProofs ------------------------
(* update_server implements UpdateContract, for every set of processes,      *)
(* directories, contents, tables and number of retries.                      *)
EXTENDS UpdaterProofs

USE DEF args, download, session, remote

\* The version of the server is asked for once in a run.
NotYetAsked ==
  \A c \in Client :
    pc[c] = "get_server_version" => result[c].current_version = NoVersion

MapInv == IInv /\ NotYetAsked

\* A request has a version.
LEMMA VersionOfType ==
  ASSUME NEW r \in Request \cup {NoRequest}
  PROVE  /\ r = NoRequest => VersionOf(r) = NoVersion
         /\ r # NoRequest => VersionOf(r) = r.ticket.version /\ VersionOf(r) \in Version
         /\ r # NoRequest => VersionOf(r) # NoVersion
BY NoVersionAssumption DEF VersionOf, Request, Ticket

\* What a process does changes only its own part of what callers see.
LEMMA OnlyOwnPart ==
  ASSUME TypeInv, NEW c \in Client, Acts(c)
  PROVE  /\ Runs' = [Runs EXCEPT ![c] = Runs'[c]]
         /\ Answers' = [Answers EXCEPT ![c] = Answers'[c]]
         /\ Reported' = [Reported EXCEPT ![c] = Reported'[c]]
         /\ Sent' = [Sent EXCEPT ![c] = Sent'[c]]
         /\ Installed' = [Installed EXCEPT ![c] = Installed'[c]]
<1>1. \A d \in Client \ {c} :
        /\ pc'[d] = pc[d] /\ result'[d] = result[d]
        /\ request'[d] = request[d] /\ served'[d] = served[d]
  BY OthersUntouched
<1>2. Runs' = [Runs EXCEPT ![c] = Runs'[c]]
  BY <1>1 DEF Runs
<1>3. Answers' = [Answers EXCEPT ![c] = Answers'[c]]
  BY <1>1 DEF Answers
<1>4. Reported' = [Reported EXCEPT ![c] = Reported'[c]]
  BY <1>1 DEF Reported
<1>5. Sent' = [Sent EXCEPT ![c] = Sent'[c]]
  BY <1>1 DEF Sent
<1>6. Installed' = [Installed EXCEPT ![c] = Installed'[c]]
  BY <1>1 DEF Installed
<1>7. QED
  BY <1>2, <1>3, <1>4, <1>5, <1>6

\* A function that is overwritten with the value it has.
LEMMA SameValue ==
  ASSUME NEW S, NEW c, NEW f, NEW g, f = [x \in S |-> f[x]],
         g = [f EXCEPT ![c] = g[c]], g[c] = f[c]
  PROVE  g = f
OBVIOUS

\* What the run returned, if what it returned for its own process is the same.
LEMMA SameAnswers ==
  ASSUME TypeInv, NEW c \in Client, Acts(c), Answers'[c] = Answers[c]
  PROVE  Answers' = Answers
<1>1. Answers = [d \in Client |-> Answers[d]]
  BY Zenon DEF Answers
<1>2. Answers' = [Answers EXCEPT ![c] = Answers'[c]]
  BY OnlyOwnPart
<1>3. QED
  BY <1>1, <1>2, SameValue

\* A call after which the run goes on, and nothing was sent, is a stutter.
LEMMA SilentStep ==
  ASSUME TypeInv, NEW c \in Client, Acts(c), pc[c] \in Running, pc'[c] \in Running,
         result'[c].current_version = result[c].current_version,
         UNCHANGED <<skip, remote>>
  PROVE  UNCHANGED Contract!vars
<1>1. Runs'[c] = Runs[c] /\ Answers'[c] = Answers[c] /\ Reported'[c] = Reported[c]
      /\ Sent'[c] = Sent[c] /\ Installed'[c] = Installed[c]
  BY DEF Runs, Answers, Reported, Sent, Installed, Running
<1>2. Runs' = Runs /\ Answers' = Answers /\ Reported' = Reported
      /\ Sent' = Sent /\ Installed' = Installed
  <2>1. Runs' = Runs
    BY <1>1, OnlyOwnPart DEF Runs
  <2>2. Answers' = Answers
    BY <1>1, SameAnswers
  <2>3. Reported' = Reported
    BY <1>1, OnlyOwnPart DEF Reported
  <2>4. Sent' = Sent
    BY <1>1, OnlyOwnPart DEF Sent
  <2>5. Installed' = Installed
    BY <1>1, OnlyOwnPart DEF Installed
  <2>6. QED
    BY <2>1, <2>2, <2>3, <2>4, <2>5
<1>3. Orphans' = Orphans
  BY DEF Orphans
<1>4. QED
  BY <1>2, <1>3 DEF Contract!vars

\* A run whose connection is not open returns without sending anything.
LEMMA QuietReturn ==
  ASSUME MapInv, NEW c \in Client, Acts(c), pc[c] \in Running \ {"reply"},
         pc'[c] = "done", UNCHANGED <<skip, remote>>,
         result'[c].current_version = result[c].current_version,
         Answers'[c] \in {"failed", "updated", "current"},
         Contract!MayAnswer(c, Answers'[c])
  PROVE  Contract!Return(c)
<1>1. TypeInv /\ RunInv(c)
  BY DEF MapInv, IInv
<1>2. request[c] = NoRequest
  BY <1>1 DEF RunInv
<1>3. Runs[c] = "running" /\ Runs'[c] = "done"
  BY DEF Runs, Running
<1>4. Sent[c] = NoVersion /\ Sent' = Sent /\ Installed' = Installed
      /\ Orphans' = Orphans
  BY <1>2 DEF Sent, VersionOf, Installed, Orphans
<1>5. Reported' = Reported
  BY <1>1, OnlyOwnPart DEF Reported
<1>6. Contract!Abandon(c)
  BY <1>4, <1>5 DEF Contract!Abandon, Sent
<1>7. QED
  BY <1>1, <1>3, <1>6, OnlyOwnPart DEF Contract!Return

\* So does one that fails.
LEMMA QuietFailure ==
  ASSUME MapInv, NEW c \in Client, Acts(c), pc[c] \in Running \ {"reply"},
         pc'[c] = "done", UNCHANGED <<skip, remote>>,
         result'[c].current_version = result[c].current_version,
         ~result'[c].success
  PROVE  Contract!Return(c)
<1>1. Answers'[c] = "failed"
  BY DEF Answers
<1>2. Contract!MayAnswer(c, Answers'[c])
  BY <1>1 DEF Contract!MayAnswer
<1>3. QED
  BY <1>1, <1>2, QuietReturn

\* Every error that is returned before the upload.
LEMMA FailReturns ==
  ASSUME MapInv, NEW c \in Client, Acts(c), pc[c] \in Running \ {"reply"},
         NEW e \in Error, Fail(c, e), UNCHANGED <<skip, remote>>
  PROVE  Contract!Return(c)
<1>1. TypeInv /\ result[c] \in UpdateResult /\ ~result[c].success
  BY DEF MapInv, IInv, RunInv, TypeInv, TypeOK
<1>2. pc'[c] = "done" /\ result'[c] = [result[c] EXCEPT !.error = e]
  BY <1>1, FailType DEF TypeInv
<1>3. ~result'[c].success /\ result'[c].current_version = result[c].current_version
  BY <1>1, <1>2 DEF UpdateResult
<1>4. QED
  BY <1>2, <1>3, QuietFailure

\* A round of the retry loop goes on or fails.
LEMMA RetryMaps ==
  ASSUME MapInv, NEW c \in Client, Acts(c), pc[c] \in {"get", "size", "hash"},
         Retry(c), UNCHANGED <<skip, remote>>
  PROVE  Contract!Return(c) \/ UNCHANGED Contract!vars
<1>1. TypeInv
  BY DEF MapInv, IInv
<1>2. CASE Goto(c, "open") /\ UNCHANGED result
  BY <1>1, <1>2, SilentStep DEF Goto, Running, TypeInv, TypeOK
<1>3. CASE Fail(c, "download")
  BY <1>3, FailReturns DEF Running, Error
<1>4. QED
  BY <1>2, <1>3 DEF Retry

-----------------------------------------------------------------------------
(* The steps that callers can see.                                          *)

\* The version that get_server_version returns.
LEMMA AskMaps ==
  ASSUME MapInv, NEW c \in Client, VersionReply(c)
  PROVE  Contract!Ask(c)
<1>1. TypeInv /\ Acts(c) /\ pc[c] = "get_server_version"
      /\ result[c] \in UpdateResult
  BY DEF MapInv, IInv, Acts, Step, VersionReply, TypeInv, TypeOK
<1>2. pc'[c] = "get_version_table" /\ result'[c] = [result[c] EXCEPT !.current_version = server]
  BY <1>1 DEF VersionReply, Goto, TypeInv, TypeOK
<1>3. Reported[c] = NoVersion /\ Reported'[c] = server
  BY <1>1, <1>2 DEF Reported, MapInv, NotYetAsked, UpdateResult
<1>4. Runs[c] = "running" /\ Runs'[c] = Runs[c] /\ Answers'[c] = Answers[c]
  BY <1>1, <1>2 DEF Runs, Answers, Running
<1>5. Runs' = Runs
  BY <1>1, <1>4, OnlyOwnPart DEF Runs
<1>6. Answers' = Answers
  BY <1>1, <1>4, SameAnswers
<1>7. Sent' = Sent /\ Installed' = Installed /\ Orphans' = Orphans
      /\ UNCHANGED <<skip, server>>
  BY DEF VersionReply, Sent, Installed, Orphans
<1>8. QED
  BY <1>1, <1>3, <1>4, <1>5, <1>6, <1>7, OnlyOwnPart DEF Contract!Ask

\* A result that says no update was needed.
LEMMA UpToDateMaps ==
  ASSUME MapInv, NEW c \in Client, UpToDate(c)
  PROVE  Contract!Return(c)
<1>1. TypeInv /\ Acts(c) /\ RunInv(c) /\ result[c] \in UpdateResult
  BY DEF MapInv, IInv, Acts, Step, TypeInv, TypeOK
<1>2. PICK raw \in RawTables :
        /\ Offers(c, raw) /\ ~NeedsUpdate(c, Latest(c, raw))
        /\ Finish(c, [result[c] EXCEPT !.available_version = Latest(c, raw),
                                       !.update_needed = "no", !.success = TRUE])
  BY DEF UpToDate
<1>3. /\ pc[c] = "get_version_table" /\ pc'[c] = "done" /\ ~skip[c]
      /\ result'[c] = [result[c] EXCEPT !.available_version = Latest(c, raw),
                                        !.update_needed = "no", !.success = TRUE]
  BY <1>1, <1>2 DEF Offers, NeedsUpdate, Finish, Goto, TypeInv, TypeOK
<1>4. /\ result'[c].success /\ result'[c].update_needed = "no"
      /\ result'[c].current_version = result[c].current_version
  BY <1>1, <1>3 DEF UpdateResult
<1>5. result[c].current_version \in Version /\ served[c] = NoRequest
      /\ request[c] = NoRequest
  BY <1>1, <1>3 DEF RunInv, Running
<1>6. Answers'[c] = "current"
  BY <1>3, <1>4 DEF Answers
<1>7. Reported[c] # NoVersion /\ Sent[c] = NoVersion /\ Installed[c] = NoVersion
  BY <1>5, NoVersionAssumption DEF Reported, Sent, Installed, VersionOf
<1>8. Contract!MayAnswer(c, Answers'[c])
  BY <1>3, <1>6, <1>7 DEF Contract!MayAnswer
<1>9. UNCHANGED <<skip, remote>>
  BY DEF UpToDate
<1>10. QED
  BY <1>1, <1>3, <1>4, <1>6, <1>8, <1>9, QuietReturn DEF Running

\* The choice of the row: the run goes on, or create_directories throws.
LEMMA TargetFoundMaps ==
  ASSUME MapInv, NEW c \in Client, TargetFound(c)
  PROVE  Contract!Return(c) \/ UNCHANGED Contract!vars
<1>1. TypeInv /\ Acts(c) /\ RunInv(c) /\ result[c] \in UpdateResult
      /\ UNCHANGED <<skip, remote>>
  BY DEF MapInv, IInv, Acts, Step, TypeInv, TypeOK, TargetFound
<1>2. PICK raw \in RawTables :
        /\ Offers(c, raw) /\ NeedsUpdate(c, Latest(c, raw))
        /\ \/ result' = [result EXCEPT ![c] = Needed(c, Latest(c, raw))]
              /\ Goto(c, "head")
           \/ Finish(c, [Needed(c, Latest(c, raw)) EXCEPT !.error = "exception"])
  BY DEF TargetFound
<1> DEFINE r == Needed(c, Latest(c, raw))
<1>3. /\ pc[c] = "get_version_table" /\ r \in UpdateResult /\ ~r.success
      /\ r.current_version = result[c].current_version
  BY <1>1, <1>2, NeededType, LatestType, NeededOrdered
  DEF Offers, TypeInv, Needed, UpdateResult
<1> HIDE DEF r
<1>4. CASE result' = [result EXCEPT ![c] = r] /\ Goto(c, "head")
  <2>1. result'[c] = r /\ pc'[c] = "head"
    BY <1>1, <1>4 DEF Goto, TypeInv, TypeOK
  <2>2. QED
    BY <1>1, <1>3, <2>1, SilentStep DEF Running
<1>5. CASE Finish(c, [r EXCEPT !.error = "exception"])
  <2>1. result'[c] = [r EXCEPT !.error = "exception"] /\ pc'[c] = "done"
    BY <1>1, <1>5 DEF Finish, Goto, TypeInv, TypeOK
  <2>2. ~result'[c].success /\ result'[c].current_version = r.current_version
    BY <1>3, <2>1 DEF UpdateResult
  <2>3. QED
    BY <1>1, <1>3, <2>1, <2>2, QuietFailure DEF Running
<1>6. QED
  BY <1>2, <1>4, <1>5 DEF r

\* A latest version without a row.
LEMMA TargetMissingMaps ==
  ASSUME MapInv, NEW c \in Client, TargetMissing(c)
  PROVE  Contract!Return(c)
<1>1. TypeInv /\ Acts(c) /\ RunInv(c) /\ UNCHANGED <<skip, remote>>
  BY DEF MapInv, IInv, Acts, Step, TargetMissing
<1>2. PICK raw \in RawTables :
        /\ Offers(c, raw) /\ NeedsUpdate(c, Latest(c, raw))
        /\ Finish(c, [Needed(c, Latest(c, raw)) EXCEPT !.error = "missing"])
  BY DEF TargetMissing
<1> DEFINE r == Needed(c, Latest(c, raw))
<1>3. /\ pc[c] = "get_version_table" /\ r \in UpdateResult /\ ~r.success
      /\ r.current_version = result[c].current_version
  BY <1>1, <1>2, NeededType, LatestType, NeededOrdered
  DEF Offers, TypeInv, TypeOK, Needed, UpdateResult
<1> HIDE DEF r
<1>4. result'[c] = [r EXCEPT !.error = "missing"] /\ pc'[c] = "done"
  BY <1>1, <1>2 DEF Finish, Goto, TypeInv, TypeOK, r
<1>5. ~result'[c].success /\ result'[c].current_version = r.current_version
  BY <1>3, <1>4 DEF UpdateResult
<1>6. QED
  BY <1>1, <1>3, <1>4, <1>5, QuietFailure DEF Running

\* The package on its way to the server.
LEMMA UploadMaps ==
  ASSUME MapInv, NEW c \in Client, Upload(c)
  PROVE  Contract!Send(c)
<1>1. TypeInv /\ Acts(c) /\ RunInv(c) /\ pc[c] = "transfer"
  BY DEF MapInv, IInv, Acts, Step, Upload
<1>2. request'[c] = [client |-> c, ticket |-> ticket[c], content |-> File(c)]
      /\ ticket[c] \in Ticket
  BY <1>1, UploadType DEF TypeInv, TicketIssued
<1>3. /\ request[c] = NoRequest /\ served[c] = NoRequest
      /\ result[c].current_version \in Version
      /\ ticket[c].version = result[c].available_version
      /\ ~skip[c] => Greater(result[c].available_version, result[c].current_version)
  BY <1>1 DEF RunInv, Ordered, Running, Active
<1>4. request'[c] # NoRequest
  BY <1>1, <1>2, UpdaterAssumption, FileType
  DEF Request, Upload, CanUpload, TypeInv, TargetChosen, Active
<1>5. Sent'[c] = ticket[c].version /\ ticket[c].version \in Version
  BY <1>2, <1>4 DEF Sent, VersionOf, Ticket
<1>6. Sent[c] = NoVersion /\ Installed[c] = NoVersion /\ Reported[c] # NoVersion
      /\ Reported[c] = result[c].current_version
  BY <1>3, NoVersionAssumption DEF Sent, Installed, Reported, VersionOf
<1>7. pc'[c] = "reply" /\ UNCHANGED <<skip, result, served, late, server>>
  BY <1>1 DEF Upload, Goto, TypeInv, TypeOK
<1>8. Runs[c] = "running" /\ Runs'[c] = Runs[c] /\ Answers'[c] = Answers[c]
  BY <1>1, <1>7 DEF Runs, Answers, Running
<1>9. Runs' = Runs
  BY <1>1, <1>8, OnlyOwnPart DEF Runs
<1>10. Answers' = Answers
  BY <1>1, <1>8, SameAnswers
<1>11. Reported' = Reported /\ Installed' = Installed /\ Orphans' = Orphans
  BY <1>7 DEF Reported, Installed, Orphans
<1>12. Sent' = [Sent EXCEPT ![c] = ticket[c].version]
  BY <1>1, <1>5, OnlyOwnPart
<1>13. skip[c] \/ Contract!Greater(ticket[c].version, Reported[c])
  <2>1. Greater(ticket[c].version, Reported[c])
          => Contract!Greater(ticket[c].version, Reported[c])
    BY DEF Greater, Less, Equal, Contract!Greater, Contract!Less, Contract!Equal
  <2>2. skip[c] \/ Greater(ticket[c].version, Reported[c])
    BY <1>3, <1>6
  <2>3. QED
    BY <2>1, <2>2
<1>14. QED
  BY <1>5, <1>6, <1>7, <1>8, <1>9, <1>10, <1>11, <1>12, <1>13
  DEF Contract!Send, Version, Contract!Version

\* A closed connection.
LEMMA DisconnectMaps ==
  ASSUME MapInv, NEW c \in Client, Acts(c), Disconnect(c),
         UNCHANGED <<skip, served, server>>,
         result'[c].current_version = result[c].current_version
  PROVE  Contract!Abandon(c)
<1>1. TypeInv /\ request[c] \in Request \cup {NoRequest}
      /\ served[c] \in Request \cup {NoRequest}
  BY DEF MapInv, IInv, TypeInv, TypeOK
<1>2. Sent[c] # NoVersion <=> request[c] # NoRequest
  BY <1>1, VersionOfType DEF Sent
<1>3. Installed[c] = NoVersion <=> served[c] = NoRequest
  BY <1>1, VersionOfType DEF Installed
<1>4. Sent'[c] = NoVersion
  BY <1>1 DEF Sent, Disconnect, VersionOf, TypeInv, TypeOK
<1>5. Orphans' = IF Sent[c] # NoVersion /\ Installed[c] = NoVersion
                   THEN Orphans \cup {Sent[c]} ELSE Orphans
  <2>1. late' = IF Sent[c] # NoVersion /\ Installed[c] = NoVersion
                  THEN late \cup {request[c]} ELSE late
    BY <1>2, <1>3 DEF Disconnect
  <2>2. Sent[c] = VersionOf(request[c])
    BY DEF Sent
  <2>3. QED
    BY <2>1, <2>2 DEF Orphans
<1>6. Reported' = Reported
  BY <1>1, OnlyOwnPart DEF Reported
<1>7. Installed' = Installed
  BY DEF Installed
<1>8. QED
  BY <1>1, <1>4, <1>5, <1>6, <1>7, OnlyOwnPart DEF Contract!Abandon

\* A package that is acknowledged, and one that is not.
LEMMA TransferMaps ==
  ASSUME MapInv, NEW c \in Client, TransferAcked(c) \/ TransferFails(c)
  PROVE  Contract!Return(c)
<1>1. /\ TypeInv /\ Acts(c) /\ RunInv(c) /\ pc[c] = "reply" /\ Disconnect(c)
      /\ result[c] \in UpdateResult /\ UNCHANGED <<skip, served, server>>
  BY DEF MapInv, IInv, Acts, Step, TransferAcked, TransferFails, TypeInv, TypeOK
<1>2. ~result[c].success /\ result[c].update_needed = "yes"
  BY <1>1 DEF RunInv, Running, Active
<1>3. pc'[c] = "done" /\ result'[c].current_version = result[c].current_version
      /\ \/ Answers'[c] = "failed"
         \/ Answers'[c] = "updated" /\ served[c] # NoRequest
  <2>1. CASE TransferAcked(c)
    <3>1. pc'[c] = "done" /\ result'[c] = [result[c] EXCEPT !.success = TRUE]
          /\ served[c] # NoRequest
      BY <1>1, <2>1 DEF TransferAcked, Finish, Goto, TypeInv, TypeOK
    <3>2. result'[c].success /\ result'[c].update_needed = "yes"
          /\ result'[c].current_version = result[c].current_version
      BY <1>1, <1>2, <3>1 DEF UpdateResult
    <3>3. QED
      BY <3>1, <3>2 DEF Answers
  <2>2. CASE TransferFails(c)
    <3>1. pc'[c] = "done" /\ result'[c] = [result[c] EXCEPT !.error = "transfer"]
      BY <1>1, <2>2 DEF TransferFails, Fail, Finish, Goto, TypeInv, TypeOK
    <3>2. ~result'[c].success
          /\ result'[c].current_version = result[c].current_version
      BY <1>1, <1>2, <3>1 DEF UpdateResult
    <3>3. QED
      BY <3>1, <3>2 DEF Answers
  <2>3. QED
    BY <2>1, <2>2
<1>4. served[c] # NoRequest => Installed[c] # NoVersion
  BY <1>1, VersionOfType DEF Installed, TypeInv, TypeOK
<1>5. Contract!MayAnswer(c, Answers'[c]) /\ Answers'[c] \in {"failed", "updated", "current"}
  BY <1>3, <1>4 DEF Contract!MayAnswer
<1>6. Contract!Abandon(c)
  BY <1>1, <1>3, DisconnectMaps
<1>7. Runs[c] = "running" /\ Runs'[c] = "done"
  BY <1>1, <1>3 DEF Runs, Running
<1>8. QED
  BY <1>1, <1>5, <1>6, <1>7, OnlyOwnPart DEF Contract!Return

\* A run that starts.
LEMMA StartMaps ==
  ASSUME MapInv, NEW c \in Client, Start(c)
  PROVE  Contract!Begin(c)
<1>1. TypeInv /\ Acts(c) /\ RunInv(c) /\ pc[c] \notin Running
  BY DEF MapInv, IInv, Acts, Start, Running
<1>2. PICK s \in BOOLEAN : skip' = [skip EXCEPT ![c] = s]
  BY DEF Start
<1>3. pc'[c] = "get_server_version" /\ ~result'[c].success
      /\ result'[c].current_version = NoVersion /\ served'[c] = NoRequest
      /\ UNCHANGED <<request, late, server>>
  BY <1>1 DEF Start, Goto, TypeInv, TypeOK
<1>4. Runs[c] # "running" /\ Runs'[c] = "running" /\ Answers'[c] = "none"
      /\ Reported'[c] = NoVersion /\ Installed'[c] = NoVersion
  BY <1>1, <1>3 DEF Runs, Answers, Reported, Installed, VersionOf, Running,
     TypeInv, TypeOK, Start
<1>5. Sent' = Sent /\ Orphans' = Orphans
  BY <1>3 DEF Sent, Orphans
<1>6. QED
  BY <1>1, <1>2, <1>3, <1>4, <1>5, OnlyOwnPart DEF Contract!Begin

\* A process that is killed.
LEMMA KillMaps ==
  ASSUME MapInv, NEW c \in Client, Kill(c)
  PROVE  Contract!Kill(c)
<1>1. /\ TypeInv /\ Acts(c) /\ pc[c] \in Running /\ Disconnect(c)
      /\ UNCHANGED <<skip, served, server, result>>
  BY DEF MapInv, IInv, Acts, Kill
<1>2. pc'[c] = "idle"
  BY <1>1 DEF Kill, Goto, TypeInv, TypeOK
<1>3. Runs[c] = "running" /\ Runs'[c] = "idle" /\ Answers'[c] = Answers[c]
  BY <1>1, <1>2 DEF Runs, Answers, Running
<1>4. Answers' = Answers
  BY <1>1, <1>3, SameAnswers
<1>5. Contract!Abandon(c)
  BY <1>1, DisconnectMaps
<1>6. QED
  BY <1>1, <1>3, <1>4, <1>5, OnlyOwnPart DEF Contract!Kill

\* An upload that the server installs while its client waits, or later.
LEMMA InstallMaps ==
  ASSUME MapInv, NEW c \in Client, Install(c)
  PROVE  Contract!Install(c)
<1>1. /\ TypeInv /\ Acts(c) /\ request[c] \in Request /\ served[c] = NoRequest
      /\ served' = [served EXCEPT ![c] = request[c]]
      /\ server' = request[c].ticket.version
      /\ UNCHANGED <<pc, skip, result, request, late>>
  BY DEF MapInv, IInv, Acts, Install, TypeInv, TypeOK
<1>2. request[c] # NoRequest
  BY DEF Install
<1>3. Sent[c] # NoVersion /\ Sent[c] = request[c].ticket.version
  BY <1>1, <1>2, VersionOfType DEF Sent
<1>4. Installed[c] = NoVersion
  BY <1>1 DEF Installed, VersionOf
<1>5. Installed'[c] = Sent[c]
  BY <1>1 DEF Installed, Sent, TypeInv, TypeOK
<1>6. Runs' = Runs /\ Answers' = Answers /\ Reported' = Reported /\ Sent' = Sent
      /\ Orphans' = Orphans
  BY <1>1 DEF Runs, Answers, Reported, Sent, Orphans
<1>7. QED
  BY <1>1, <1>3, <1>4, <1>5, <1>6, OnlyOwnPart DEF Contract!Install

LEMMA InstallLateMaps ==
  ASSUME MapInv, InstallLate
  PROVE  Contract!InstallOrphan
<1>1. PICK r \in late :
        server' = r.ticket.version /\ late' = late \ {r}
  BY DEF InstallLate
<1>2. r \in Request /\ r # NoRequest
  BY <1>1, UpdaterAssumption DEF MapInv, IInv, TypeInv, TypeOK
<1>3. VersionOf(r) \in Orphans /\ server' = VersionOf(r)
  BY <1>1, <1>2 DEF Orphans, VersionOf
<1>4. Orphans' \in {Orphans, Orphans \ {VersionOf(r)}}
  <2>1. CASE \E q \in late \ {r} : VersionOf(q) = VersionOf(r)
    BY <1>1, <2>1 DEF Orphans
  <2>2. CASE ~ \E q \in late \ {r} : VersionOf(q) = VersionOf(r)
    BY <1>1, <2>2 DEF Orphans
  <2>3. QED
    BY <2>1, <2>2
<1>5. Runs' = Runs /\ Answers' = Answers /\ Reported' = Reported /\ Sent' = Sent
      /\ Installed' = Installed /\ skip' = skip
  BY DEF InstallLate, Runs, Answers, Reported, Sent, Installed
<1>6. QED
  BY <1>3, <1>4, <1>5 DEF Contract!InstallOrphan

-----------------------------------------------------------------------------
(* Every step of the model is a step that callers see, or none.             *)

\* One blocking call of one process.
LEMMA StepMaps ==
  ASSUME MapInv, NEW c \in Client, Step(c)
  PROVE  Contract!Next \/ UNCHANGED Contract!vars
<1>0. TypeInv /\ Acts(c)
  BY DEF MapInv, IInv, Acts
<1>1. CASE VersionReply(c)
  BY <1>1, AskMaps DEF Contract!Next
<1>2. CASE VersionFails(c)
  BY <1>0, <1>2, FailReturns DEF VersionFails, Running, Error, Contract!Next
<1>3. CASE TableFails(c)
  BY <1>0, <1>3, FailReturns DEF TableFails, Running, Error, Contract!Next
<1>4. CASE ForcedVersionMissing(c)
  BY <1>0, <1>4, FailReturns DEF ForcedVersionMissing, Running, Error, Contract!Next
<1>5. CASE UpToDate(c)
  BY <1>5, UpToDateMaps DEF Contract!Next
<1>6. CASE TargetMissing(c)
  BY <1>6, TargetMissingMaps DEF Contract!Next
<1>7. CASE TargetFound(c)
  BY <1>7, TargetFoundMaps DEF Contract!Next
<1>8. CASE HeadReply(c)
  BY <1>0, <1>8, SilentStep DEF HeadReply, Goto, Running, TypeInv, TypeOK
<1>9. CASE HeadFails(c)
  BY <1>0, <1>9, FailReturns DEF HeadFails, Running, Error, Contract!Next
<1>10. CASE HeadUnreadable(c)
  BY <1>0, <1>10, FailReturns DEF HeadUnreadable, GiveUp, Running, Error, Contract!Next
<1>11. CASE OpenOutput(c)
  BY <1>0, <1>11, SilentStep DEF OpenOutput, Goto, Running, TypeInv, TypeOK
<1>12. CASE OpenFails(c)
  BY <1>0, <1>12, FailReturns DEF OpenFails, Running, Error, Contract!Next
<1>13. CASE GetReply(c)
  BY <1>0, <1>13, SilentStep DEF GetReply, Goto, Running, TypeInv, TypeOK
<1>14. CASE GetFails(c)
  BY <1>0, <1>14, RetryMaps DEF GetFails, Contract!Next
<1>15. CASE SizeMatches(c)
  BY <1>0, <1>15, SilentStep DEF SizeMatches, Goto, Running, TypeInv, TypeOK
<1>16. CASE SizeDiffers(c)
  BY <1>0, <1>16, RetryMaps DEF SizeDiffers, Contract!Next
<1>17. CASE SizeUnreadable(c)
  BY <1>0, <1>17, FailReturns DEF SizeUnreadable, Running, Error, Contract!Next
<1>18. CASE HashMatches(c)
  BY <1>0, <1>18, SilentStep DEF HashMatches, Goto, Running, TypeInv, TypeOK
<1>19. CASE HashDiffers(c)
  BY <1>0, <1>19, RetryMaps DEF HashDiffers, Contract!Next
<1>20. CASE HandshakeReply(c)
  BY <1>0, <1>20, SilentStep DEF HandshakeReply, Goto, Running, TypeInv, TypeOK
<1>21. CASE HandshakeFails(c)
  BY <1>0, <1>21, FailReturns DEF HandshakeFails, Running, Error, Contract!Next
<1>22. CASE PrepareReply(c)
  BY <1>0, <1>22, SilentStep DEF PrepareReply, Goto, Running, TypeInv, TypeOK
<1>23. CASE PrepareFails(c)
  BY <1>0, <1>23, FailReturns DEF PrepareFails, Running, Error, Contract!Next
<1>24. CASE HandshakeFileGone(c)
  BY <1>0, <1>24, FailReturns DEF HandshakeFileGone, Running, Error, Contract!Next
<1>25. CASE Upload(c)
  BY <1>25, UploadMaps DEF Contract!Next
<1>26. CASE UploadRefused(c)
  BY <1>0, <1>26, FailReturns DEF UploadRefused, Running, Error, Contract!Next
<1>27. CASE TransferAcked(c) \/ TransferFails(c)
  BY <1>27, TransferMaps DEF Contract!Next
<1>28. CASE RemovalThrows(c)
  BY <1>0, <1>28, FailReturns DEF RemovalThrows, GiveUp, Running, Error, Contract!Next
<1>29. QED
  BY <1>1, <1>2, <1>3, <1>4, <1>5, <1>6, <1>7, <1>8, <1>9, <1>10, <1>11, <1>12,
     <1>13, <1>14, <1>15, <1>16, <1>17, <1>18, <1>19, <1>20, <1>21, <1>22,
     <1>23, <1>24, <1>25, <1>26, <1>27, <1>28, Step(c) DEF Step

\* Any step.
LEMMA NextMaps == MapInv /\ [Next]_vars => [Contract!Next]_(Contract!vars)
<1> SUFFICES ASSUME MapInv, [Next]_vars
             PROVE  Contract!Next \/ UNCHANGED Contract!vars
  OBVIOUS
<1>1. ASSUME NEW c \in Client, Step(c) PROVE Contract!Next \/ UNCHANGED Contract!vars
  BY <1>1, StepMaps
<1>2. ASSUME NEW c \in Client, Start(c) \/ Install(c) \/ Kill(c) PROVE Contract!Next
  BY <1>2, StartMaps, InstallMaps, KillMaps DEF Contract!Next
<1>3. CASE InstallLate
  BY <1>3, InstallLateMaps DEF Contract!Next
<1>4. CASE UNCHANGED vars
  BY <1>4 DEF vars, Contract!vars, Runs, Answers, Reported, Sent, Installed, Orphans
<1>5. QED
  BY <1>1, <1>2, <1>3, <1>4 DEF Next, Environment

\* The state before the first run.
LEMMA InitialMaps == Init => Contract!Init
<1> SUFFICES ASSUME Init PROVE Contract!Init
  OBVIOUS
<1>1. \A c \in Client : Runs[c] = "idle" /\ Answers[c] = "none" /\ Reported[c] = NoVersion
                       /\ Sent[c] = NoVersion /\ Installed[c] = NoVersion
  BY DEF Init, Runs, Answers, Reported, Sent, Installed, VersionOf, Running
<1>2. Orphans = {}
  BY DEF Init, Orphans
<1>3. skip = [c \in Client |-> FALSE] /\ server = FirstVersion
  BY DEF Init
<1>4. Runs = [c \in Client |-> "idle"]
  BY <1>1 DEF Runs
<1>5. Answers = [c \in Client |-> "none"]
  BY <1>1 DEF Answers
<1>6. Reported = [c \in Client |-> NoVersion]
  BY <1>1 DEF Reported
<1>7. Sent = [c \in Client |-> NoVersion]
  BY <1>1 DEF Sent
<1>8. Installed = [c \in Client |-> NoVersion]
  BY <1>1 DEF Installed
<1>9. QED
  BY <1>2, <1>3, <1>4, <1>5, <1>6, <1>7, <1>8 DEF Contract!Init

\* A process asks for the version first, and only once.
LEMMA AskedOnce == MapInv /\ [Next]_vars => NotYetAsked'
<1> SUFFICES ASSUME MapInv, [Next]_vars, NEW d \in Client, pc'[d] = "get_server_version"
             PROVE  result'[d].current_version = NoVersion
  BY DEF NotYetAsked
<1>0. TypeInv
  BY DEF MapInv, IInv
<1>1. ASSUME NEW c \in Client, Acts(c) PROVE result'[d].current_version = NoVersion
  <2>1. CASE c # d
    BY <1>0, <1>1, <2>1, OthersUntouched DEF MapInv, NotYetAsked
  <2>2. CASE Start(d)
    BY <1>0, <2>2 DEF Start, TypeInv, TypeOK
  <2>3. CASE Install(d)
    BY <2>3 DEF Install, MapInv, NotYetAsked
  <2>4. CASE Kill(d)
    BY <1>0, <2>4 DEF Kill, Goto, TypeInv, TypeOK
  <2>5. CASE Step(d)
    <3>1. pc'[d] # "get_server_version"
      BY <1>0, <2>5
      DEF TypeInv, TypeOK, Goto, Finish, Fail, Retry, Step, VersionReply,
          VersionFails, TableFails, ForcedVersionMissing, UpToDate, TargetMissing,
          TargetFound, HeadReply, HeadFails, HeadUnreadable, OpenOutput, OpenFails,
          GetReply, GetFails, SizeMatches, SizeDiffers, SizeUnreadable, HashMatches,
          HashDiffers, HandshakeReply, HandshakeFails, PrepareReply, PrepareFails,
          HandshakeFileGone, Upload, UploadRefused, TransferAcked, TransferFails,
          RemovalThrows, GiveUp
    <3>2. QED
      BY <3>1
  <2>6. QED
    BY <1>1, <2>1, <2>2, <2>3, <2>4, <2>5 DEF Acts
<1>2. CASE InstallLate \/ UNCHANGED vars
  BY <1>2 DEF InstallLate, vars, MapInv, NotYetAsked
<1>3. QED
  BY <1>1, <1>2 DEF Next, Environment, Acts

(* Whatever is downloaded, overwritten, retried, refused, lost or killed, a *)
(* run of update_server sends the server at most one version, never an      *)
(* older one unless told to, and reports an update only if that version was *)
(* installed before it returned (updater.cc:502-647).                       *)
THEOREM UpdateServerKeepsContract == Spec => ImplementsContract
<1>1. Init => MapInv
  <2>1. Init => NotYetAsked
    BY DEF Init, NotYetAsked
  <2>2. QED
    BY <2>1, InitialIInv DEF MapInv
<1>2. MapInv /\ [Next]_vars => MapInv'
  BY NextIInv, AskedOnce DEF MapInv
<1>3. QED
  BY <1>1, <1>2, InitialMaps, NextMaps, PTL DEF Spec, ImplementsContract, Contract!Spec
=============================================================================
