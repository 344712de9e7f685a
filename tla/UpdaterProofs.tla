--------------------------- MODULE UpdaterProofs ----------------------------
(* What update_server guarantees for every set of processes, directories,    *)
(* contents, tables and number of retries.                                   *)
EXTENDS Updater, VersionOrderProofs

\* The calls that are made for a row of the version table.
Active == {"head", "open", "get", "size", "hash", "handshake", "prepare",
           "transfer", "reply"}

\* find_if has found the row before the first of these calls is made.
TargetChosen == \A c \in Client : pc[c] \in Active => target[c] \in Row

\* What is uploaded has been declared by prepare_file_transfer.
TicketIssued ==
  \A c \in Client : pc[c] \in {"prepare", "transfer", "reply"} => ticket[c] \in Ticket

TypeInv == TypeOK /\ TargetChosen /\ TicketIssued

USE DEF args, download, session, remote

-----------------------------------------------------------------------------
(* What the helpers return and preserve.                                    *)

\* from_string yields a version of the range of int, or nothing.
LEMMA FromStringType ==
  ASSUME NEW text \in Text
  PROVE  FromString(text) \in Version \cup {NoVersion}
BY MaxIntAssumption DEF FromString, Text, Version

\* A row that find_if can select has a version and a digest.
LEMMA RowType ==
  ASSUME NEW raw \in RawTables, NEW i \in DOMAIN raw.versions,
         Parsed(raw, i) # NoVersion
  PROVE  [version |-> Parsed(raw, i), hash |-> raw.versions[i].hash] \in Row
<1>1. raw.versions[i] \in RawRow
  BY UpdaterAssumption
<1>2. Parsed(raw, i) \in Version
  BY <1>1, FromStringType DEF RawRow, Parsed
<1>3. QED
  BY <1>1, <1>2 DEF RawRow, Row

\* latest_version, forced or not, is a version.
LEMMA LatestType ==
  ASSUME TypeOK, NEW c \in Client, NEW raw \in RawTables, Offers(c, raw)
  PROVE  Latest(c, raw) \in Version
<1>1. raw.latest \in Text /\ FromString(raw.latest) # NoVersion
  BY UpdaterAssumption DEF Offers, Usable
<1>2. FromString(raw.latest) \in Version
  BY <1>1, FromStringType
<1>3. force[c] \in Version \cup {NoVersion}
  BY UpdaterAssumption DEF TypeOK
<1>4. QED
  BY <1>2, <1>3 DEF Latest

\* Returning from update_server preserves the types of pc and result.
LEMMA FinishType ==
  ASSUME TypeOK, NEW c \in Client, NEW r \in UpdateResult, Finish(c, r)
  PROVE  /\ pc' \in [Client -> Running \cup {"idle", "done"}]
         /\ result' \in [Client -> UpdateResult]
         /\ pc'[c] = "done" /\ \A d \in Client \ {c} : pc'[d] = pc[d]
         /\ result'[c] = r /\ \A d \in Client \ {c} : result'[d] = result[d]
BY DEF TypeOK, Finish, Goto

\* So does returning an error.
LEMMA FailType ==
  ASSUME TypeOK, NEW c \in Client, NEW e \in Error, Fail(c, e)
  PROVE  /\ pc' \in [Client -> Running \cup {"idle", "done"}]
         /\ result' \in [Client -> UpdateResult]
         /\ pc'[c] = "done" /\ \A d \in Client \ {c} : pc'[d] = pc[d]
         /\ result'[c] = [result[c] EXCEPT !.error = e]
         /\ \A d \in Client \ {c} : result'[d] = result[d]
<1>1. [result[c] EXCEPT !.error = e] \in UpdateResult
  <2>1. result[c] \in UpdateResult
    BY DEF TypeOK
  <2>2. QED
    BY <2>1 DEF UpdateResult
<1>2. QED
  BY <1>1, FinishType DEF Fail

\* The end of a round of the retry loop preserves the types of what it sets.
LEMMA RetryType ==
  ASSUME TypeOK, NEW c \in Client, Retry(c)
  PROVE  /\ pc' \in [Client -> Running \cup {"idle", "done"}]
         /\ result' \in [Client -> UpdateResult]
         /\ attempt' \in [Client -> 0 .. MAX_RETRIES]
         /\ pc'[c] \in {"open", "done"} /\ \A d \in Client \ {c} : pc'[d] = pc[d]
         /\ result'[c] \in {result[c], [result[c] EXCEPT !.error = "download"]}
         /\ \A d \in Client \ {c} : result'[d] = result[d]
<1>1. CASE attempt[c] < MAX_RETRIES /\ Goto(c, "open")
            /\ attempt' = [attempt EXCEPT ![c] = @ + 1] /\ UNCHANGED result
  BY <1>1, UpdaterAssumption DEF TypeOK, Goto, Running
<1>2. CASE Fail(c, "download") /\ UNCHANGED attempt
  BY <1>2, FailType DEF TypeOK, Error
<1>3. QED
  BY <1>1, <1>2 DEF Retry

\* result once an update is needed.
LEMMA NeededType ==
  ASSUME TypeOK, NEW c \in Client, NEW v \in Version
  PROVE  /\ Needed(c, v) \in UpdateResult
         /\ \A e \in Error : [Needed(c, v) EXCEPT !.error = e] \in UpdateResult
<1>1. result[c] \in UpdateResult
  BY DEF TypeOK
<1>2. Needed(c, v) \in UpdateResult
  BY <1>1 DEF Needed, UpdateResult
<1>3. QED
  BY <1>2 DEF UpdateResult

\* Writing or removing a file.
LEMMA SetFileType ==
  ASSUME TypeOK, NEW c \in Client, NEW content \in Content \cup {NoFile},
         SetFile(c, content)
  PROVE  files' \in [Dir \X Version -> Content \cup {NoFile}]
BY DEF TypeOK, SetFile

\* Only the file of the process that writes changes.
LEMMA SetFileFrame ==
  ASSUME TypeOK, NEW c \in Client, NEW d \in Client \ {c}, NEW content,
         SetFile(c, content), Alone(d)
  PROVE  files'[Path(d)] = files[Path(d)]
<1>1. Path(d) # Path(c)
  BY DEF Alone, Path
<1>2. files' = [files EXCEPT ![Path(c)] = content]
  BY DEF SetFile
<1>3. QED
  BY <1>1, <1>2 DEF TypeOK

\* A download leaves a file of some content, or none.
LEMMA ReceiveType ==
  ASSUME TypeOK, NEW c \in Client, Receive(c)
  PROVE  files' \in [Dir \X Version -> Content \cup {NoFile}]
<1>1. CASE UNCHANGED files
  BY <1>1 DEF TypeOK
<1>2. CASE \E body \in Content : SetFile(c, body)
  BY <1>2, SetFileType
<1>3. QED
  BY <1>1, <1>2 DEF Receive

\* A download changes only the file of the process that downloads.
LEMMA ReceiveFrame ==
  ASSUME TypeOK, NEW c \in Client, NEW d \in Client \ {c}, Receive(c), Alone(d)
  PROVE  files'[Path(d)] = files[Path(d)]
<1>1. CASE UNCHANGED files
  BY <1>1
<1>2. CASE \E body \in Content : SetFile(c, body)
  BY <1>2, SetFileFrame
<1>3. QED
  BY <1>1, <1>2 DEF Receive

\* A handler of download_and_verify that ends the run.
LEMMA GiveUpType ==
  ASSUME TypeOK, NEW c \in Client, GiveUp(c)
  PROVE  /\ files' \in [Dir \X Version -> Content \cup {NoFile}]
         /\ pc' \in [Client -> Running \cup {"idle", "done"}]
         /\ result' \in [Client -> UpdateResult]
         /\ pc'[c] = "done" /\ \A d \in Client \ {c} : pc'[d] = pc[d]
<1>1. PICK e \in {"download", "exception"} : Fail(c, e)
  BY DEF GiveUp
<1>2. UNCHANGED files \/ SetFile(c, NoFile)
  BY DEF GiveUp
<1>3. files' \in [Dir \X Version -> Content \cup {NoFile}]
  BY <1>2, SetFileType DEF TypeOK
<1>4. e \in Error
  BY <1>1 DEF Error
<1>5. QED
  BY <1>1, <1>3, <1>4, FailType

\* It concerns no other process.
LEMMA GiveUpFrame ==
  ASSUME TypeOK, NEW c \in Client, NEW d \in Client \ {c}, GiveUp(c)
  PROVE  /\ pc'[d] = pc[d] /\ result'[d] = result[d]
         /\ Alone(d) => files'[Path(d)] = files[Path(d)]
<1>1. CASE SetFile(c, NoFile) /\ Fail(c, "download")
  BY <1>1, FailType, SetFileFrame DEF Error
<1>2. CASE UNCHANGED files /\ Fail(c, "exception")
  BY <1>2, FailType DEF Error
<1>3. QED
  BY <1>1, <1>2 DEF GiveUp

\* The update file of a process that has chosen its row.
LEMMA FileType ==
  ASSUME TypeOK, NEW c \in Client, target[c] \in Row
  PROVE  Path(c) \in Dir \X Version /\ File(c) \in Content \cup {NoFile}
<1>1. Path(c) \in Dir \X Version
  BY UpdaterAssumption DEF Path, Row
<1>2. QED
  BY <1>1 DEF TypeOK, File

\* The request that transfer_file sends.
LEMMA UploadType ==
  ASSUME TypeOK, TargetChosen, TicketIssued, NEW c \in Client, Upload(c)
  PROVE  /\ request'[c] = [client |-> c, ticket |-> ticket[c], content |-> File(c)]
         /\ request' \in [Client -> Request \cup {NoRequest}]
<1>1. ticket[c] \in Ticket
  BY DEF Upload, TicketIssued
<1>2. File(c) \in Content
  BY FileType DEF Upload, CanUpload, TargetChosen, Active
<1>3. [client |-> c, ticket |-> ticket[c], content |-> File(c)] \in Request
  BY <1>1, <1>2 DEF Request
<1>4. QED
  BY <1>3 DEF TypeOK, Upload

\* A closed connection.
LEMMA DisconnectType ==
  ASSUME TypeOK, NEW c \in Client, Disconnect(c)
  PROVE  request' \in [Client -> Request \cup {NoRequest}] /\ late' \subseteq Request
BY DEF TypeOK, Disconnect

-----------------------------------------------------------------------------
(* Type correctness: one step per action.                                   *)

\* What a process does preserves the types.
LEMMA StepType ==
  ASSUME TypeInv, NEW c \in Client, Step(c)
  PROVE  TypeInv'
<1> USE DEF TypeInv
<1>1. CASE VersionReply(c)
  <2>1. result[c] \in UpdateResult /\ server \in Version
    BY DEF TypeOK
  <2>2. [result[c] EXCEPT !.current_version = server] \in UpdateResult
    BY <2>1 DEF UpdateResult
  <2>3. result' = [result EXCEPT ![c] = [result[c] EXCEPT !.current_version = server]]
    BY <1>1 DEF VersionReply
  <2>4. QED
    BY <1>1, <2>2, <2>3 DEF TypeOK, TargetChosen, TicketIssued, VersionReply,
       Goto, Running, Active
<1>2. CASE VersionFails(c)
  BY <1>2, FailType DEF TypeOK, TargetChosen, TicketIssued, VersionFails,
     Active, Error
<1>3. CASE TableFails(c)
  BY <1>3, FailType DEF TypeOK, TargetChosen, TicketIssued, TableFails, Active,
     Error
<1>4. CASE ForcedVersionMissing(c)
  BY <1>4, FailType DEF TypeOK, TargetChosen, TicketIssued,
     ForcedVersionMissing, Active, Error
<1>5. CASE UpToDate(c)
  <2>1. PICK raw \in RawTables :
          /\ Offers(c, raw)
          /\ Finish(c, [result[c] EXCEPT !.available_version = Latest(c, raw),
                                         !.update_needed = "no", !.success = TRUE])
    BY <1>5 DEF UpToDate
  <2>2. result[c] \in UpdateResult /\ Latest(c, raw) \in Version
    BY <2>1, LatestType DEF TypeOK
  <2>3. [result[c] EXCEPT !.available_version = Latest(c, raw),
                          !.update_needed = "no", !.success = TRUE] \in UpdateResult
    BY <2>2 DEF UpdateResult
  <2>4. QED
    BY <1>5, <2>1, <2>3, FinishType DEF TypeOK, TargetChosen, TicketIssued,
       UpToDate, Active
<1>6. CASE TargetMissing(c)
  <2>1. PICK raw \in RawTables :
          /\ Offers(c, raw)
          /\ Finish(c, [Needed(c, Latest(c, raw)) EXCEPT !.error = "missing"])
    BY <1>6 DEF TargetMissing
  <2>2. [Needed(c, Latest(c, raw)) EXCEPT !.error = "missing"] \in UpdateResult
    BY <2>1, NeededType, LatestType DEF Error
  <2>3. QED
    BY <1>6, <2>1, <2>2, FinishType DEF TypeOK, TargetChosen, TicketIssued,
       TargetMissing, Active
<1>7. CASE TargetFound(c)
  <2> DEFINE Chosen(raw, i) ==
          /\ Offers(c, raw) /\ IsFirstRow(raw, Latest(c, raw), i)
          /\ \/ /\ target' = [target EXCEPT ![c] = [version |-> Parsed(raw, i),
                                                    hash |-> raw.versions[i].hash]]
                /\ result' = [result EXCEPT ![c] = Needed(c, Latest(c, raw))]
                /\ Goto(c, "head")
             \/ /\ Finish(c, [Needed(c, Latest(c, raw)) EXCEPT !.error = "exception"])
                /\ UNCHANGED target
  <2>0. PICK raw \in RawTables : \E i \in DOMAIN raw.versions : Chosen(raw, i)
    BY <1>7 DEF TargetFound
  <2>1. PICK i \in DOMAIN raw.versions : Chosen(raw, i)
    BY <2>0
  <2>2. Needed(c, Latest(c, raw)) \in UpdateResult
    BY <2>1, NeededType, LatestType DEF Error
  <2>3. [Needed(c, Latest(c, raw)) EXCEPT !.error = "exception"] \in UpdateResult
    BY <2>1, NeededType, LatestType DEF Error
  <2>4. [version |-> Parsed(raw, i), hash |-> raw.versions[i].hash] \in Row
    BY <2>1, RowType DEF IsFirstRow, Kept
  <2>5. CASE Goto(c, "head")
              /\ result' = [result EXCEPT ![c] = Needed(c, Latest(c, raw))]
              /\ target' = [target EXCEPT ![c] = [version |-> Parsed(raw, i),
                                                    hash |-> raw.versions[i].hash]]
    BY <1>7, <2>2, <2>4, <2>5
    DEF TypeOK, TargetChosen, TicketIssued, TargetFound, Goto, Running, Active
  <2>6. CASE Finish(c, [Needed(c, Latest(c, raw)) EXCEPT !.error = "exception"])
              /\ UNCHANGED target
    BY <1>7, <2>3, <2>6, FinishType DEF TypeOK, TargetChosen, TicketIssued,
       TargetFound, Active
  <2>7. QED
    BY <2>1, <2>5, <2>6
<1>8. CASE HeadReply(c)
  BY <1>8, UpdaterAssumption DEF TypeOK, TargetChosen, TicketIssued, HeadReply,
     Goto, Running, Active
<1>9. CASE HeadFails(c)
  BY <1>9, FailType DEF TypeOK, TargetChosen, TicketIssued, HeadFails, Active,
     Error
<1>10. CASE HeadUnreadable(c)
  BY <1>10, GiveUpType DEF TypeOK, TargetChosen, TicketIssued, HeadUnreadable, Active
<1>11. CASE OpenOutput(c)
  BY <1>11, UpdaterAssumption DEF TypeOK, TargetChosen, TicketIssued,
     OpenOutput, Goto, SetFile, Path, Running, Active
<1>12. CASE OpenFails(c)
  BY <1>12, FailType DEF TypeOK, TargetChosen, TicketIssued, OpenFails, Active,
     Error
<1>13. CASE GetReply(c)
  <2>1. files' \in [Dir \X Version -> Content \cup {NoFile}]
    BY <1>13, ReceiveType DEF GetReply
  <2>2. QED
    BY <1>13, <2>1 DEF TypeOK, TargetChosen, TicketIssued, GetReply, Goto,
       Running, Active
<1>14. CASE GetFails(c)
  <2>1. files' \in [Dir \X Version -> Content \cup {NoFile}]
    BY <1>14, ReceiveType DEF GetFails
  <2>2. QED
    BY <1>14, <2>1, RetryType DEF TypeOK, TargetChosen, TicketIssued, GetFails,
       Active
<1>15. CASE SizeMatches(c)
  BY <1>15 DEF TypeOK, TargetChosen, TicketIssued, SizeMatches, Goto, File,
     Path, Running, Active
<1>16. CASE SizeDiffers(c)
  BY <1>16, RetryType DEF TypeOK, TargetChosen, TicketIssued, SizeDiffers,
     SetFile, Active
<1>17. CASE SizeUnreadable(c)
  BY <1>17, FailType DEF TypeOK, TargetChosen, TicketIssued, SizeUnreadable,
     Active, Error
<1>18. CASE HashMatches(c)
  BY <1>18 DEF TypeOK, TargetChosen, TicketIssued, HashMatches, Goto, File,
     Path, Running, Active
<1>19. CASE HashDiffers(c)
  BY <1>19, RetryType DEF TypeOK, TargetChosen, TicketIssued, HashDiffers,
     SetFile, Active
<1>20. CASE HandshakeReply(c)
  <2>1. target[c] \in Row /\ File(c) \in Content
    BY <1>20, FileType DEF HandshakeReply, TargetChosen, Active
  <2>2. [version |-> target[c].version, hash |-> target[c].hash,
         size |-> SizeOf[File(c)]] \in Ticket
    BY <2>1, UpdaterAssumption DEF Row, Ticket
  <2>3. QED
    BY <1>20, <2>2 DEF TypeOK, TargetChosen, TicketIssued, HandshakeReply, Goto,
       Running, Active
<1>21. CASE HandshakeFails(c)
  BY <1>21, FailType DEF TypeOK, TargetChosen, TicketIssued, HandshakeFails,
     Active, Error
<1>22. CASE PrepareReply(c)
  BY <1>22 DEF TypeOK, TargetChosen, TicketIssued, PrepareReply, Goto, Running,
     Active
<1>23. CASE PrepareFails(c)
  BY <1>23, FailType DEF TypeOK, TargetChosen, TicketIssued, PrepareFails,
     Active, Error
<1>24. CASE HandshakeFileGone(c)
  BY <1>24, FailType DEF TypeOK, TargetChosen, TicketIssued, HandshakeFileGone,
     Active, Error
<1>25. CASE Upload(c)
  <2>1. request'[c] = [client |-> c, ticket |-> ticket[c], content |-> File(c)]
        /\ request' \in [Client -> Request \cup {NoRequest}]
    BY <1>25, UploadType
  <2>2. QED
    BY <1>25, <2>1 DEF TypeOK, TargetChosen, TicketIssued, Upload, Goto,
       Running, Active
<1>26. CASE UploadRefused(c)
  BY <1>26, FailType DEF TypeOK, TargetChosen, TicketIssued, UploadRefused,
     Active, Error
<1>27. CASE TransferAcked(c)
  <2>1. result[c] \in UpdateResult
    BY DEF TypeOK
  <2>2. [result[c] EXCEPT !.success = TRUE] \in UpdateResult
    BY <2>1 DEF UpdateResult
  <2>3. request' \in [Client -> Request \cup {NoRequest}] /\ late' \subseteq Request
    BY <1>27, DisconnectType DEF TransferAcked
  <2>4. QED
    BY <1>27, <2>2, <2>3, FinishType DEF TypeOK, TargetChosen, TicketIssued,
       TransferAcked, Active
<1>28. CASE TransferFails(c)
  <2>1. request' \in [Client -> Request \cup {NoRequest}] /\ late' \subseteq Request
    BY <1>28, DisconnectType DEF TransferFails
  <2>2. QED
    BY <1>28, <2>1, FailType DEF TypeOK, TargetChosen, TicketIssued,
       TransferFails, Active, Error
<1>29. CASE RemovalThrows(c)
  BY <1>29, GiveUpType DEF TypeOK, TargetChosen, TicketIssued, RemovalThrows, Active
<1>30. QED
  BY <1>1, <1>2, <1>3, <1>4, <1>5, <1>6, <1>7, <1>8, <1>9, <1>10, <1>11, <1>12,
     <1>13, <1>14, <1>15, <1>16, <1>17, <1>18, <1>19, <1>20, <1>21, <1>22,
     <1>23, <1>24, <1>25, <1>26, <1>27, <1>28,
     <1>29 DEF Step

\* So does what happens to it.
LEMMA EnvironmentType ==
  ASSUME TypeInv, Environment
  PROVE  TypeInv'
<1> USE DEF TypeInv
<1>1. ASSUME NEW c \in Client, Start(c) PROVE TypeInv'
  <2>1. [success |-> FALSE, error |-> "none", update_needed |-> "unset",
         current_version |-> NoVersion, available_version |-> NoVersion] \in UpdateResult
    BY DEF UpdateResult, Error
  <2>2. PICK s \in BOOLEAN, f \in ForceVersions :
          skip' = [skip EXCEPT ![c] = s] /\ force' = [force EXCEPT ![c] = f]
    BY <1>1 DEF Start
  <2>3. QED
    BY <1>1, <2>1, <2>2, UpdaterAssumption
    DEF TypeOK, TargetChosen, TicketIssued, Start, Goto, Running, Active
<1>2. ASSUME NEW c \in Client, Install(c) PROVE TypeInv'
  <2>1. request[c] \in Request
    BY <1>2 DEF Install, TypeOK
  <2>2. request[c].ticket.version \in Version
    BY <2>1 DEF Request, Ticket
  <2>3. QED
    BY <1>2, <2>1, <2>2 DEF TypeOK, TargetChosen, TicketIssued, Install
<1>3. ASSUME NEW c \in Client, Kill(c) PROVE TypeInv'
  <2>1. request' \in [Client -> Request \cup {NoRequest}] /\ late' \subseteq Request
    BY <1>3, DisconnectType DEF Kill
  <2>2. QED
    BY <1>3, <2>1 DEF TypeOK, TargetChosen, TicketIssued, Kill, Goto, Active
<1>4. ASSUME InstallLate PROVE TypeInv'
  <2>1. PICK r \in late :
          server' = r.ticket.version /\ image' = r /\ late' = late \ {r}
    BY <1>4 DEF InstallLate
  <2>2. r \in Request /\ r.ticket.version \in Version
    BY <2>1 DEF TypeOK, Request, Ticket
  <2>3. QED
    BY <1>4, <2>1, <2>2 DEF TypeOK, TargetChosen, TicketIssued, InstallLate
<1>5. QED
  BY <1>1, <1>2, <1>3, <1>4 DEF Environment

\* The variables start with their types.
LEMMA InitialType == Init => TypeInv
<1> SUFFICES ASSUME Init PROVE TypeInv
  OBVIOUS
<1>1. [success |-> FALSE, error |-> "none", update_needed |-> "unset",
       current_version |-> NoVersion, available_version |-> NoVersion] \in UpdateResult
  BY DEF UpdateResult, Error
<1>2. QED
  BY <1>1, UpdaterAssumption
  DEF Init, TypeInv, TypeOK, TargetChosen, TicketIssued, Running, Active

\* Every step preserves the types.
LEMMA NextType == TypeInv /\ [Next]_vars => TypeInv'
<1> SUFFICES ASSUME TypeInv, [Next]_vars PROVE TypeInv'
  OBVIOUS
<1>1. CASE UNCHANGED vars
  BY <1>1
  DEF vars, TypeInv, TypeOK, TargetChosen, TicketIssued
<1>2. CASE Next
  BY <1>2, StepType, EnvironmentType DEF Next
<1>3. QED
  BY <1>1, <1>2

(* Every variable of every run of update_server keeps its type: the retry   *)
(* counter never exceeds MAX_RETRIES (updater.cc:109), and nothing but a    *)
(* version of the table reaches the server, whatever the other processes    *)
(* and the network do.                                                      *)
THEOREM TypeCorrect == Spec => []TypeOK
<1>1. TypeInv => TypeOK
  BY DEF TypeInv
<1>2. QED
  BY <1>1, InitialType, NextType, PTL DEF Spec

-----------------------------------------------------------------------------
(* The inductive invariant.  What the code has established by the time a    *)
(* call is made is a predicate on one process, in two parts: what its own   *)
(* variables say, and what is in its update file, which holds as long as    *)
(* nobody else writes into its directory.                                   *)

\* update_needed is set: the version being installed is the available one, and
\* newer than the current one unless the check is skipped.
Ordered(c) ==
  LET r == result[c]
  IN r.update_needed = "yes" =>
       /\ r.available_version \in Version /\ r.current_version \in Version
       /\ ~skip[c] => Greater(r.available_version, r.current_version)

RunInv(c) ==
  LET r == result[c]
  IN /\ pc[c] \in Running => ~r.success
     /\ pc[c] \in {"get_server_version", "get_version_table"} =>
          r.update_needed = "unset" /\ served[c] = NoRequest
     /\ pc[c] \in Running \ {"get_server_version"} => r.current_version \in Version
     /\ pc[c] \in Active =>
          r.update_needed = "yes" /\ target[c].version = r.available_version
     /\ pc[c] \in Active \ {"reply"} => served[c] = NoRequest
     /\ pc[c] \in {"prepare", "transfer", "reply"} =>
          ticket[c].version = r.available_version
     /\ request[c] # NoRequest =>
          pc[c] = "reply" /\ request[c].ticket.version = r.available_version
     /\ served[c] # NoRequest =>
          r.update_needed = "yes" /\ served[c].ticket.version = r.available_version
     /\ Ordered(c)
     /\ Succeeded(c) =>
          /\ r.update_needed \in {"yes", "no"}
          /\ r.current_version \in Version /\ r.available_version \in Version
          /\ served[c] # NoRequest <=> r.update_needed = "yes"

\* The update file holds the package that the version table describes.
Verified(c) == File(c) \in Content /\ Sha256[File(c)] = target[c].hash

FileInv(c) == Alone(c) =>
  /\ pc[c] \in {"handshake", "prepare", "transfer", "reply"} => Verified(c)
  /\ pc[c] \in {"prepare", "transfer", "reply"} =>
       ticket[c].hash = target[c].hash /\ ticket[c].size = SizeOf[File(c)]
  /\ pc[c] = "reply" => SizeOf[File(c)] > 0
  /\ Succeeded(c) /\ result[c].update_needed = "yes" =>
       target[c] \in Row /\ Verified(c) /\ SizeOf[File(c)] > 0

IInv ==
  /\ TypeInv
  /\ \A c \in Client : RunInv(c)
  /\ \A c \in Client : FileInv(c)
  /\ VerifiedUploads

\* Everything that process c does or that happens to it.
Acts(c) == Step(c) \/ Start(c) \/ Install(c) \/ Kill(c)

\* The steps of c change nothing that another process keeps, its update file
\* included when the directory is its own.
LEMMA OthersUntouched ==
  ASSUME TypeInv, NEW c \in Client, Acts(c), NEW d \in Client \ {c}
  PROVE  /\ pc'[d] = pc[d] /\ skip'[d] = skip[d] /\ result'[d] = result[d]
         /\ target'[d] = target[d] /\ ticket'[d] = ticket[d]
         /\ attempt'[d] = attempt[d]
         /\ request'[d] = request[d] /\ served'[d] = served[d]
         /\ Alone(d) => files'[Path(d)] = files[Path(d)]
<1> USE DEF TypeInv, TypeOK, Goto, Finish, Fail, SetFile, Path, Alone, Disconnect, Retry
<1>1. CASE VersionReply(c)
  BY <1>1 DEF VersionReply
<1>2. CASE VersionFails(c)
  BY <1>2 DEF VersionFails
<1>3. CASE TableFails(c)
  BY <1>3 DEF TableFails
<1>4. CASE ForcedVersionMissing(c)
  BY <1>4 DEF ForcedVersionMissing
<1>5. CASE UpToDate(c)
  BY <1>5 DEF UpToDate
<1>6. CASE TargetMissing(c)
  BY <1>6 DEF TargetMissing
<1>7. CASE TargetFound(c)
  BY <1>7 DEF TargetFound
<1>8. CASE HeadReply(c)
  BY <1>8 DEF HeadReply
<1>9. CASE HeadFails(c)
  BY <1>9 DEF HeadFails
<1>10. CASE HeadUnreadable(c)
  BY <1>10, GiveUpFrame DEF HeadUnreadable
<1>11. CASE OpenOutput(c)
  BY <1>11 DEF OpenOutput
<1>12. CASE OpenFails(c)
  BY <1>12 DEF OpenFails
<1>13. CASE GetReply(c)
  BY <1>13, ReceiveFrame DEF GetReply
<1>14. CASE GetFails(c)
  BY <1>14, ReceiveFrame DEF GetFails
<1>15. CASE SizeMatches(c)
  BY <1>15 DEF SizeMatches
<1>16. CASE SizeDiffers(c)
  BY <1>16 DEF SizeDiffers
<1>17. CASE SizeUnreadable(c)
  BY <1>17 DEF SizeUnreadable
<1>18. CASE HashMatches(c)
  BY <1>18 DEF HashMatches
<1>19. CASE HashDiffers(c)
  BY <1>19 DEF HashDiffers
<1>20. CASE HandshakeReply(c)
  BY <1>20 DEF HandshakeReply
<1>21. CASE HandshakeFails(c)
  BY <1>21 DEF HandshakeFails
<1>22. CASE PrepareReply(c)
  BY <1>22 DEF PrepareReply
<1>23. CASE PrepareFails(c)
  BY <1>23 DEF PrepareFails
<1>24. CASE HandshakeFileGone(c)
  BY <1>24 DEF HandshakeFileGone
<1>25. CASE Upload(c)
  BY <1>25 DEF Upload
<1>26. CASE UploadRefused(c)
  BY <1>26 DEF UploadRefused
<1>27. CASE TransferAcked(c)
  BY <1>27 DEF TransferAcked
<1>28. CASE TransferFails(c)
  BY <1>28 DEF TransferFails
<1>29. CASE Start(c)
  BY <1>29 DEF Start
<1>30. CASE Install(c)
  BY <1>30 DEF Install
<1>31. CASE Kill(c)
  BY <1>31 DEF Kill
<1>32. CASE RemovalThrows(c)
  BY <1>32, GiveUpFrame DEF RemovalThrows
<1>33. QED
  BY <1>1, <1>2, <1>3, <1>4, <1>5, <1>6, <1>7, <1>8, <1>9, <1>10, <1>11, <1>12,
     <1>13, <1>14, <1>15, <1>16, <1>17, <1>18, <1>19, <1>20, <1>21, <1>22,
     <1>23, <1>24, <1>25, <1>26, <1>27, <1>28, <1>29, <1>30, <1>31,
     <1>32 DEF Step,
     Acts

\* The parts of the invariant that speak of one process depend on nothing else.
LEMMA RunFrame ==
  ASSUME NEW c \in Client, RunInv(c),
         pc'[c] = pc[c], skip'[c] = skip[c], result'[c] = result[c],
         target'[c] = target[c], ticket'[c] = ticket[c],
         request'[c] = request[c], served'[c] = served[c]
  PROVE  RunInv(c)'
BY DEF RunInv, Ordered, Succeeded

\* The same for its update file.
LEMMA FileFrame ==
  ASSUME NEW c \in Client, FileInv(c),
         pc'[c] = pc[c], result'[c] = result[c],
         target'[c] = target[c], ticket'[c] = ticket[c],
         Alone(c) => files'[Path(c)] = files[Path(c)]
  PROVE  FileInv(c)'
BY DEF FileInv, Verified, File, Path, Alone, Succeeded

\* The result once an update is needed.
LEMMA NeededOrdered ==
  ASSUME TypeInv, NEW c \in Client, RunInv(c), NEW raw \in RawTables,
         Offers(c, raw), NeedsUpdate(c, Latest(c, raw))
  PROVE  LET r == Needed(c, Latest(c, raw))
         IN /\ r.update_needed = "yes" /\ ~r.success
            /\ r.available_version = Latest(c, raw) /\ r.available_version \in Version
            /\ r.current_version \in Version
            /\ ~skip[c] => Greater(r.available_version, r.current_version)
<1>1. result[c] \in UpdateResult /\ Latest(c, raw) \in Version
  BY LatestType DEF TypeInv, TypeOK
<1>2. pc[c] = "get_version_table" /\ ~result[c].success
      /\ result[c].current_version \in Version
  BY DEF RunInv, Offers, Running
<1>3. ~skip[c] => Greater(Latest(c, raw), result[c].current_version)
  BY <1>1, <1>2, DerivedComparisons DEF NeedsUpdate, GreaterEq
<1>4. QED
  BY <1>1, <1>2, <1>3 DEF Needed, UpdateResult

\* A round of the retry loop that ends in another one or in a failure.
LEMMA RetryRun ==
  ASSUME TypeInv, NEW c \in Client, RunInv(c), pc[c] \in {"get", "size", "hash"}, Retry(c),
         UNCHANGED <<args, target, session, remote>>
  PROVE  RunInv(c)'
<1>1. result[c] \in UpdateResult
  BY DEF TypeInv, TypeOK
<1>2. /\ pc'[c] \in {"open", "done"}
      /\ result'[c] \in {result[c], [result[c] EXCEPT !.error = "download"]}
  BY RetryType DEF TypeInv
<1>3. result'[c].success = result[c].success
      /\ result'[c].update_needed = result[c].update_needed
      /\ result'[c].current_version = result[c].current_version
      /\ result'[c].available_version = result[c].available_version
  BY <1>1, <1>2 DEF UpdateResult
<1>4. ~result[c].success /\ ~Succeeded(c)'
  BY <1>3 DEF RunInv, Running, Succeeded
<1>5. QED
  BY <1>2, <1>3, <1>4 DEF RunInv, Ordered, Running, Active

\* A run that ends in a handler of download_and_verify.
LEMMA GiveUpRun ==
  ASSUME TypeInv, NEW c \in Client, RunInv(c), pc[c] \in {"head", "size", "hash"},
         GiveUp(c), UNCHANGED <<args, target, session, remote>>
  PROVE  RunInv(c)'
<1>1. result[c] \in UpdateResult
  BY DEF TypeInv, TypeOK
<1>2. /\ pc'[c] = "done"
      /\ \E e \in Error : result'[c] = [result[c] EXCEPT !.error = e]
  BY FailType DEF TypeInv, GiveUp, Error
<1>3. result'[c].success = result[c].success
      /\ result'[c].update_needed = result[c].update_needed
      /\ result'[c].current_version = result[c].current_version
      /\ result'[c].available_version = result[c].available_version
  BY <1>1, <1>2 DEF UpdateResult
<1>4. ~result[c].success /\ ~Succeeded(c)'
  BY <1>3 DEF RunInv, Running, Succeeded
<1>5. QED
  BY <1>2, <1>3, <1>4 DEF RunInv, Ordered, Running, Active

\* FileInv says nothing of a process that has verified nothing yet, or failed.
LEMMA EarlyFile ==
  ASSUME NEW c \in Client,
         pc'[c] \notin {"handshake", "prepare", "transfer", "reply"},
         ~(pc'[c] = "done" /\ result'[c].success /\ result'[c].update_needed = "yes")
  PROVE  FileInv(c)'
BY DEF FileInv, Succeeded

\* A run that failed promises nothing about its file.
LEMMA FailedFile ==
  ASSUME TypeInv, NEW c \in Client, RunInv(c), pc[c] \in Running,
         NEW e \in Error, Fail(c, e)
  PROVE  FileInv(c)'
<1>1. result[c] \in UpdateResult /\ ~result[c].success
  BY DEF TypeInv, TypeOK, RunInv
<1>2. pc'[c] = "done" /\ result'[c] = [result[c] EXCEPT !.error = e]
  BY FailType DEF TypeInv
<1>3. ~result'[c].success
  BY <1>1, <1>2 DEF UpdateResult
<1>4. QED
  BY <1>2, <1>3, EarlyFile

\* Nor does one whose download has to be tried again.
LEMMA RetriedFile ==
  ASSUME TypeInv, NEW c \in Client, RunInv(c), pc[c] \in {"get", "size", "hash"},
         Retry(c)
  PROVE  FileInv(c)'
<1>1. result[c] \in UpdateResult /\ ~result[c].success
  BY DEF TypeInv, TypeOK, RunInv, Running
<1>2. /\ pc'[c] \in {"open", "done"}
      /\ result'[c] \in {result[c], [result[c] EXCEPT !.error = "download"]}
  BY RetryType DEF TypeInv
<1>3. ~result'[c].success
  BY <1>1, <1>2 DEF UpdateResult
<1>4. QED
  BY <1>2, <1>3, EarlyFile

(* What each action of a process establishes for that process.              *)
LEMMA RunStep ==
  ASSUME TypeInv, TypeInv', NEW c \in Client, RunInv(c), Acts(c)
  PROVE  RunInv(c)'
<1> USE DEF TypeInv, TypeOK, RunInv, Ordered, Succeeded, Goto, Active, Running
<1>1. CASE VersionReply(c)
  BY <1>1 DEF VersionReply
<1>2. CASE VersionFails(c)
  BY <1>2 DEF VersionFails, Fail, Finish, Error
<1>3. CASE TableFails(c)
  BY <1>3 DEF TableFails, Fail, Finish, Error
<1>4. CASE ForcedVersionMissing(c)
  BY <1>4 DEF ForcedVersionMissing, Fail, Finish, Error
<1>5. CASE UpToDate(c)
  <2>1. PICK raw \in RawTables :
          /\ Offers(c, raw)
          /\ Finish(c, [result[c] EXCEPT !.available_version = Latest(c, raw),
                                         !.update_needed = "no", !.success = TRUE])
    BY <1>5 DEF UpToDate
  <2>2. result[c] \in UpdateResult /\ Latest(c, raw) \in Version
    BY <2>1, LatestType
  <2>3. /\ pc'[c] = "done" /\ result'[c].update_needed = "no"
        /\ result'[c].available_version \in Version
        /\ result'[c].current_version = result[c].current_version
    BY <2>1, <2>2 DEF Finish, UpdateResult
  <2>4. pc[c] = "get_version_table"
    BY <2>1 DEF Offers
  <2>5. QED
    BY <1>5, <2>3, <2>4 DEF UpToDate
<1>6. CASE TargetMissing(c)
  <2>1. PICK raw \in RawTables :
          /\ Offers(c, raw) /\ NeedsUpdate(c, Latest(c, raw))
          /\ Finish(c, [Needed(c, Latest(c, raw)) EXCEPT !.error = "missing"])
    BY <1>6 DEF TargetMissing
  <2> DEFINE r == Needed(c, Latest(c, raw))
  <2>2. /\ r \in UpdateResult /\ ~r.success /\ r.update_needed = "yes"
        /\ r.available_version \in Version /\ r.current_version \in Version
        /\ ~skip[c] => Greater(r.available_version, r.current_version)
    BY <2>1, NeededType, LatestType, NeededOrdered
  <2>3. pc[c] = "get_version_table"
    BY <2>1 DEF Offers
  <2> HIDE DEF r
  <2>4. result'[c] = [r EXCEPT !.error = "missing"] /\ pc'[c] = "done"
    BY <2>1 DEF Finish, r
  <2>5. QED
    BY <1>6, <2>2, <2>3, <2>4 DEF TargetMissing, UpdateResult
<1>7. CASE TargetFound(c)
  <2> DEFINE Chosen(raw, i) ==
          /\ Offers(c, raw) /\ NeedsUpdate(c, Latest(c, raw))
          /\ IsFirstRow(raw, Latest(c, raw), i)
          /\ \/ /\ target' = [target EXCEPT ![c] = [version |-> Parsed(raw, i),
                                                    hash |-> raw.versions[i].hash]]
                /\ result' = [result EXCEPT ![c] = Needed(c, Latest(c, raw))]
                /\ Goto(c, "head")
             \/ /\ Finish(c, [Needed(c, Latest(c, raw)) EXCEPT !.error = "exception"])
                /\ UNCHANGED target
  <2>1. PICK raw \in RawTables : \E i \in DOMAIN raw.versions : Chosen(raw, i)
    BY <1>7 DEF TargetFound
  <2>2. PICK i \in DOMAIN raw.versions : Chosen(raw, i)
    BY <2>1
  <2> DEFINE r == Needed(c, Latest(c, raw))
  <2>3. /\ r \in UpdateResult /\ ~r.success
        /\ r.update_needed = "yes" /\ r.available_version = Latest(c, raw)
        /\ r.available_version \in Version /\ r.current_version \in Version
        /\ ~skip[c] => Greater(r.available_version, r.current_version)
    BY <2>2, NeededType, LatestType, NeededOrdered
  <2>4. pc[c] = "get_version_table" /\ Parsed(raw, i) = Latest(c, raw)
    BY <2>2 DEF Offers, IsFirstRow
  <2> HIDE DEF r
  <2>5. CASE /\ target' = [target EXCEPT ![c] = [version |-> Parsed(raw, i),
                                                 hash |-> raw.versions[i].hash]]
             /\ result' = [result EXCEPT ![c] = r] /\ Goto(c, "head")
    <3>1. target'[c].version = Latest(c, raw) /\ result'[c] = r /\ pc'[c] = "head"
      BY <2>4, <2>5
    <3>2. QED
      BY <1>7, <2>3, <2>4, <3>1 DEF TargetFound
  <2>6. CASE Finish(c, [r EXCEPT !.error = "exception"]) /\ UNCHANGED target
    <3>1. result'[c] = [r EXCEPT !.error = "exception"] /\ pc'[c] = "done"
      BY <2>6 DEF Finish
    <3>2. QED
      BY <1>7, <2>3, <2>4, <3>1 DEF TargetFound, UpdateResult
  <2>7. QED
    BY <2>2, <2>5, <2>6 DEF r
<1>8. CASE HeadReply(c)
  BY <1>8 DEF HeadReply
<1>9. CASE HeadFails(c)
  BY <1>9 DEF HeadFails, Fail, Finish, Error
<1>10. CASE HeadUnreadable(c)
  BY <1>10, GiveUpRun DEF HeadUnreadable
<1>11. CASE OpenOutput(c)
  BY <1>11 DEF OpenOutput
<1>12. CASE OpenFails(c)
  BY <1>12 DEF OpenFails, Fail, Finish, Error
<1>13. CASE GetReply(c)
  BY <1>13 DEF GetReply
<1>14. CASE GetFails(c)
  BY <1>14, RetryRun DEF GetFails
<1>15. CASE SizeMatches(c)
  BY <1>15 DEF SizeMatches
<1>16. CASE SizeDiffers(c)
  BY <1>16, RetryRun DEF SizeDiffers
<1>17. CASE SizeUnreadable(c)
  BY <1>17 DEF SizeUnreadable, Fail, Finish, Error
<1>18. CASE HashMatches(c)
  BY <1>18 DEF HashMatches
<1>19. CASE HashDiffers(c)
  BY <1>19, RetryRun DEF HashDiffers
<1>20. CASE HandshakeReply(c)
  BY <1>20 DEF HandshakeReply
<1>21. CASE HandshakeFails(c)
  BY <1>21 DEF HandshakeFails, Fail, Finish, Error
<1>22. CASE PrepareReply(c)
  BY <1>22 DEF PrepareReply
<1>23. CASE PrepareFails(c)
  BY <1>23 DEF PrepareFails, Fail, Finish, Error
<1>24. CASE HandshakeFileGone(c)
  BY <1>24 DEF HandshakeFileGone, Fail, Finish, Error
<1>25. CASE Upload(c)
  BY <1>25 DEF Upload
<1>26. CASE UploadRefused(c)
  BY <1>26 DEF UploadRefused, Fail, Finish, Error
<1>27. CASE TransferAcked(c)
  BY <1>27 DEF TransferAcked, Finish, Disconnect
<1>28. CASE TransferFails(c)
  BY <1>28 DEF TransferFails, Fail, Finish, Disconnect, Error
<1>29. CASE Start(c)
  BY <1>29 DEF Start
<1>30. CASE Install(c)
  BY <1>30 DEF Install
<1>31. CASE Kill(c)
  BY <1>31 DEF Kill, Disconnect
<1>32. CASE RemovalThrows(c)
  BY <1>32, GiveUpRun DEF RemovalThrows
<1>33. QED
  BY <1>1, <1>2, <1>3, <1>4, <1>5, <1>6, <1>7, <1>8, <1>9, <1>10, <1>11, <1>12,
     <1>13, <1>14, <1>15, <1>16, <1>17, <1>18, <1>19, <1>20, <1>21, <1>22,
     <1>23, <1>24, <1>25, <1>26, <1>27, <1>28, <1>29, <1>30, <1>31,
     <1>32 DEF Step,
     Acts

\* What a process with its own directory does preserves its file invariant.
LEMMA FileStep ==
  ASSUME TypeInv, TypeInv', NEW c \in Client, RunInv(c), FileInv(c), Acts(c)
  PROVE  FileInv(c)'
<1> SUFFICES ASSUME Alone(c) PROVE FileInv(c)'
  BY DEF FileInv, Alone
<1> USE DEF FileInv, Verified, Succeeded, Goto, Active
<1>1. CASE VersionReply(c)
  BY <1>1, EarlyFile DEF VersionReply, TypeInv, TypeOK
<1>2. CASE VersionFails(c)
  BY <1>2, FailedFile DEF VersionFails, Running, Error
<1>3. CASE TableFails(c)
  BY <1>3, FailedFile DEF TableFails, Running, Error
<1>4. CASE ForcedVersionMissing(c)
  BY <1>4, FailedFile DEF ForcedVersionMissing, Running, Error
<1>5. CASE UpToDate(c)
  <2>1. PICK raw \in RawTables :
          Finish(c, [result[c] EXCEPT !.available_version = Latest(c, raw),
                                      !.update_needed = "no", !.success = TRUE])
    BY <1>5 DEF UpToDate
  <2>2. result[c] \in UpdateResult
    BY DEF TypeInv, TypeOK
  <2>3. pc'[c] = "done" /\ result'[c].update_needed = "no"
    BY <2>1, <2>2 DEF Finish, UpdateResult, TypeInv, TypeOK
  <2>4. QED
    BY <2>3, EarlyFile
<1>6. CASE TargetMissing(c)
  <2>1. PICK raw \in RawTables :
          /\ Offers(c, raw) /\ NeedsUpdate(c, Latest(c, raw))
          /\ Finish(c, [Needed(c, Latest(c, raw)) EXCEPT !.error = "missing"])
    BY <1>6 DEF TargetMissing
  <2>2. /\ Needed(c, Latest(c, raw)) \in UpdateResult
        /\ ~Needed(c, Latest(c, raw)).success
    BY <2>1, NeededType, LatestType, NeededOrdered DEF TypeInv
  <2>3. pc'[c] = "done" /\ ~result'[c].success
    BY <2>1, <2>2 DEF Finish, UpdateResult, TypeInv, TypeOK
  <2>4. QED
    BY <2>3, EarlyFile
<1>7. CASE TargetFound(c)
  <2>1. PICK raw \in RawTables :
          /\ Offers(c, raw) /\ NeedsUpdate(c, Latest(c, raw))
          /\ \/ Goto(c, "head")
             \/ Finish(c, [Needed(c, Latest(c, raw)) EXCEPT !.error = "exception"])
    BY <1>7 DEF TargetFound
  <2>2. /\ Needed(c, Latest(c, raw)) \in UpdateResult
        /\ ~Needed(c, Latest(c, raw)).success
    BY <2>1, NeededType, LatestType, NeededOrdered DEF TypeInv
  <2>3. \/ pc'[c] = "head"
        \/ pc'[c] = "done" /\ ~result'[c].success
    BY <2>1, <2>2 DEF Finish, UpdateResult, TypeInv, TypeOK
  <2>4. QED
    BY <2>3, EarlyFile
<1>8. CASE HeadReply(c)
  BY <1>8, EarlyFile DEF HeadReply, TypeInv, TypeOK
<1>9. CASE HeadFails(c)
  BY <1>9, FailedFile DEF HeadFails, Running, Error
<1>10. CASE HeadUnreadable(c)
  BY <1>10, FailedFile DEF HeadUnreadable, GiveUp, Running, Error
<1>11. CASE OpenOutput(c)
  BY <1>11, EarlyFile DEF OpenOutput, TypeInv, TypeOK
<1>12. CASE OpenFails(c)
  BY <1>12, FailedFile DEF OpenFails, Running, Error
<1>13. CASE GetReply(c)
  BY <1>13, EarlyFile DEF GetReply, TypeInv, TypeOK
<1>14. CASE GetFails(c)
  BY <1>14, RetriedFile DEF GetFails
<1>15. CASE SizeMatches(c)
  BY <1>15, EarlyFile DEF SizeMatches, TypeInv, TypeOK
<1>16. CASE SizeDiffers(c)
  BY <1>16, RetriedFile DEF SizeDiffers
<1>17. CASE SizeUnreadable(c)
  BY <1>17, FailedFile DEF SizeUnreadable, Running, Error
<1>18. CASE HashMatches(c)
  <2>1. Verified(c)
    BY <1>18, FileType DEF HashMatches, TypeInv, TargetChosen
  <2>2. QED
    BY <1>18, <2>1 DEF HashMatches, TypeInv, TypeOK, File, Path
<1>19. CASE HashDiffers(c)
  BY <1>19, RetriedFile DEF HashDiffers
<1>20. CASE HandshakeReply(c)
  <2>1. /\ pc'[c] = "prepare" /\ ticket'[c].hash = target[c].hash
        /\ ticket'[c].size = SizeOf[File(c)]
    BY <1>20 DEF HandshakeReply, TypeInv, TypeOK
  <2>2. QED
    BY <1>20, <2>1 DEF HandshakeReply, File, Path
<1>21. CASE HandshakeFails(c)
  BY <1>21, FailedFile DEF HandshakeFails, Running, Error
<1>22. CASE PrepareReply(c)
  BY <1>22 DEF PrepareReply, File, Path
<1>23. CASE PrepareFails(c)
  BY <1>23, FailedFile DEF PrepareFails, Running, Error
<1>24. CASE HandshakeFileGone(c)
  BY <1>24, FailedFile DEF HandshakeFileGone, Running, Error
<1>25. CASE Upload(c)
  <2>1. SizeOf[File(c)] \in Nat /\ SizeOf[File(c)] # 0
    BY <1>25, UpdaterAssumption DEF Upload, CanUpload
  <2>2. QED
    BY <1>25, <2>1 DEF Upload, File, Path, TypeInv, TypeOK
<1>26. CASE UploadRefused(c)
  BY <1>26, FailedFile DEF UploadRefused, Running, Error
<1>27. CASE TransferAcked(c)
  <2>1. target[c] \in Row /\ Verified(c) /\ SizeOf[File(c)] > 0
    BY <1>27 DEF TransferAcked, TypeInv, TargetChosen
  <2>2. UNCHANGED <<files, target>> /\ pc'[c] = "done"
    BY <1>27 DEF TransferAcked, Finish, TypeInv, TypeOK
  <2>3. QED
    BY <2>1, <2>2 DEF File, Path
<1>28. CASE TransferFails(c)
  BY <1>28, FailedFile DEF TransferFails, Running, Error
<1>29. CASE Start(c)
  BY <1>29, EarlyFile DEF Start, TypeInv, TypeOK
<1>30. CASE Install(c)
  BY <1>30 DEF Install, File, Path
<1>31. CASE Kill(c)
  BY <1>31, EarlyFile DEF Kill, TypeInv, TypeOK
<1>32. CASE RemovalThrows(c)
  BY <1>32, FailedFile DEF RemovalThrows, GiveUp, Running, Error
<1>33. QED
  BY <1>1, <1>2, <1>3, <1>4, <1>5, <1>6, <1>7, <1>8, <1>9, <1>10, <1>11, <1>12,
     <1>13, <1>14, <1>15, <1>16, <1>17, <1>18, <1>19, <1>20, <1>21, <1>22,
     <1>23, <1>24, <1>25, <1>26, <1>27, <1>28, <1>29, <1>30, <1>31,
     <1>32 DEF Step,
     Acts

\* Only transfer_file sends something new: every other step passes on, or
\* forgets, what was sent before.
LEMMA UploadsKept ==
  ASSUME TypeInv, NEW c \in Client, Acts(c), ~Upload(c)
  PROVE  Uploads' \subseteq Uploads
<1>1. CASE UNCHANGED remote
  BY <1>1 DEF Uploads
<1>2. CASE Disconnect(c) /\ UNCHANGED <<served, image>>
  BY <1>2 DEF Disconnect, Uploads, TypeInv, TypeOK
<1>3. CASE Start(c)
  BY <1>3 DEF Start, Uploads, TypeInv, TypeOK
<1>4. CASE Install(c)
  BY <1>4 DEF Install, Uploads, TypeInv, TypeOK
<1>5. CASE TransferAcked(c) \/ TransferFails(c) \/ Kill(c)
  BY <1>2, <1>5 DEF TransferAcked, TransferFails, Kill
<1>6. CASE Step(c) /\ ~TransferAcked(c) /\ ~TransferFails(c)
  <2>1. UNCHANGED remote
    BY <1>6 DEF Step, VersionReply, VersionFails, TableFails,
       ForcedVersionMissing, UpToDate, TargetMissing, TargetFound, HeadReply,
       HeadFails, HeadUnreadable, OpenOutput, OpenFails, GetReply, GetFails,
       SizeMatches, SizeDiffers, SizeUnreadable, HashMatches, HashDiffers,
       HandshakeReply, HandshakeFails, PrepareReply, PrepareFails,
       HandshakeFileGone, UploadRefused, RemovalThrows
  <2>2. QED
    BY <1>1, <2>1
<1>7. QED
  BY <1>3, <1>4, <1>5, <1>6 DEF Acts

\* What a process does keeps every upload verified.
LEMMA UploadsStep ==
  ASSUME TypeInv, NEW c \in Client, FileInv(c), VerifiedUploads, Acts(c)
  PROVE  VerifiedUploads'
<1>1. CASE Upload(c)
  <2>1. request'[c] = [client |-> c, ticket |-> ticket[c], content |-> File(c)]
    BY <1>1, UploadType DEF TypeInv
  <2>2. Uploads' \subseteq Uploads \cup {request'[c]}
    BY <1>1 DEF Upload, Uploads, TypeInv, TypeOK
  <2>3. Alone(c) => /\ Sha256[File(c)] = ticket[c].hash
                    /\ SizeOf[File(c)] = ticket[c].size
    BY <1>1 DEF FileInv, Verified, Upload
  <2>4. QED
    BY <2>1, <2>2, <2>3 DEF VerifiedUploads, Alone
<1>2. CASE ~Upload(c)
  BY <1>2, UploadsKept DEF VerifiedUploads, Alone
<1>3. QED
  BY <1>1, <1>2

-----------------------------------------------------------------------------
(* The invariant is inductive.                                              *)

\* The invariant holds before the first run.
LEMMA InitialIInv == Init => IInv
<1> SUFFICES ASSUME Init PROVE IInv
  OBVIOUS
<1>1. TypeInv
  BY InitialType
<1>2. ASSUME NEW c \in Client PROVE RunInv(c)
  BY DEF Init, RunInv, Ordered, Succeeded, Running, Active
<1>3. ASSUME NEW c \in Client PROVE FileInv(c)
  BY DEF Init, FileInv, Succeeded
<1>4. VerifiedUploads
  BY DEF Init, VerifiedUploads, Uploads
<1>5. QED
  BY <1>1, <1>2, <1>3, <1>4 DEF IInv

\* Every step preserves the invariant.
LEMMA NextIInv == IInv /\ [Next]_vars => IInv'
<1> SUFFICES ASSUME IInv, [Next]_vars PROVE IInv'
  OBVIOUS
<1>1. TypeInv /\ TypeInv'
  BY NextType DEF IInv
<1>2. ASSUME NEW c \in Client, Acts(c) PROVE IInv'
  <2>1. ASSUME NEW d \in Client PROVE RunInv(d)' /\ FileInv(d)'
    <3>1. CASE d = c
      BY <1>1, <1>2, <3>1, RunStep, FileStep DEF IInv
    <3>2. CASE d # c
      BY <1>1, <1>2, <3>2, OthersUntouched, RunFrame, FileFrame DEF IInv
    <3>3. QED
      BY <3>1, <3>2
  <2>2. VerifiedUploads'
    BY <1>1, <1>2, UploadsStep DEF IInv
  <2>3. QED
    BY <1>1, <2>1, <2>2 DEF IInv
<1>3. CASE InstallLate
  <2>1. ASSUME NEW d \in Client PROVE RunInv(d)' /\ FileInv(d)'
    BY <1>3, RunFrame, FileFrame DEF IInv, InstallLate
  <2>2. Uploads' \subseteq Uploads
    BY <1>3 DEF InstallLate, Uploads
  <2>3. VerifiedUploads'
    BY <2>2 DEF IInv, VerifiedUploads, Alone
  <2>4. QED
    BY <1>1, <2>1, <2>3 DEF IInv
<1>4. CASE UNCHANGED vars
  <2>1. ASSUME NEW d \in Client PROVE RunInv(d)' /\ FileInv(d)'
    BY <1>4, RunFrame, FileFrame DEF IInv, vars
  <2>2. VerifiedUploads'
    BY <1>4 DEF IInv, VerifiedUploads, Uploads, Alone, vars
  <2>3. QED
    BY <1>1, <2>1, <2>2 DEF IInv
<1>5. QED
  BY <1>2, <1>3, <1>4 DEF Next, Environment, Acts

\* The invariant holds in every behaviour.
LEMMA IInvAlways == Spec => []IInv
BY InitialIInv, NextIInv, PTL DEF Spec

-----------------------------------------------------------------------------
(* What the invariant gives.                                                *)

(* A process that has its update directory to itself never sends the update *)
(* server anything but the package the version table describes, with its    *)
(* true size, through any number of runs, retries, kills and lost replies   *)
(* (updater.cc:186, 352).                                                   *)
THEOREM UploadsAreVerified == Spec => []VerifiedUploads
<1>1. IInv => VerifiedUploads
  BY DEF IInv
<1>2. QED
  BY <1>1, IInvAlways, PTL

(* success with update_needed means that the server installed the available *)
(* version during this run, success without it that nothing was sent        *)
(* (updater.cc:552-556, 635-641).                                           *)
THEOREM SuccessMeansInstalled == Spec => []SuccessIsInstalled
<1>1. IInv => SuccessIsInstalled
  BY DEF IInv, RunInv, SuccessIsInstalled, Succeeded, TypeInv, TypeOK
<1>2. QED
  BY <1>1, IInvAlways, PTL

(* A successful UpdateResult has no uninitialised field that main reads     *)
(* (xvc_update_tool.cc:109-126).                                            *)
THEOREM SuccessIsInitialised == Spec => []SuccessInitialisesResult
<1>1. IInv => SuccessInitialisesResult
  BY NoVersionAssumption DEF IInv, RunInv, SuccessInitialisesResult, Succeeded
<1>2. QED
  BY <1>1, IInvAlways, PTL

(* Unless the check is skipped, no version is installed that is not newer   *)
(* than the one the server reported, forced or not (updater.cc:533-552).    *)
THEOREM NeverDowngrades == Spec => []UpgradesOnly
<1>1. IInv => UpgradesOnly
  <2> SUFFICES ASSUME IInv, NEW c \in Client, ~skip[c],
                      result[c].update_needed = "yes" \/ served[c] # NoRequest
               PROVE  /\ Greater(result[c].available_version, result[c].current_version)
                      /\ served[c] # NoRequest =>
                           Greater(served[c].ticket.version, result[c].current_version)
    BY DEF UpgradesOnly
  <2>1. RunInv(c)
    BY DEF IInv
  <2>2. QED
    BY <2>1 DEF RunInv, Ordered
<1>2. QED
  BY <1>1, IInvAlways, PTL

(* After a successful update the verified, non-empty package is still in    *)
(* the update directory (updater_test.cc:149-150).                          *)
THEOREM FileIsKept == Spec => []UpdateFileKept
<1>1. IInv => UpdateFileKept
  BY UpdaterAssumption DEF IInv, FileInv, Verified, UpdateFileKept
<1>2. QED
  BY <1>1, IInvAlways, PTL

-----------------------------------------------------------------------------
(* How long a run can be.                                                   *)

\* The attempts are counted from the first: none before the file is opened.
Counted(c) ==
  /\ pc[c] \in {"get_server_version", "get_version_table", "head"} => attempt[c] = 0
  /\ pc[c] \in Active \ {"head"} => attempt[c] > 0

CountInv == TypeInv /\ \A c \in Client : Counted(c)

\* Counted depends on nothing else.
LEMMA CountFrame ==
  ASSUME NEW c \in Client, Counted(c), pc'[c] = pc[c], attempt'[c] = attempt[c]
  PROVE  Counted(c)'
BY DEF Counted

\* The rounds of the loop that are left, and the calls.
LEMMA CallsLeftType ==
  ASSUME TypeOK, NEW c \in Client, pc[c] \in Running
  PROVE  /\ RoundsLeft(c) \in 0 .. MAX_RETRIES - 1
         /\ CallsAfter[pc[c]] \in 0 .. 10
         /\ CallsLeft(c) = CallsAfter[pc[c]] + 1 + 4 * RoundsLeft(c)
         /\ CallsLeft(c) \in 1 .. 4 * MAX_RETRIES + 7
<1>1. attempt[c] \in 0 .. MAX_RETRIES /\ MAX_RETRIES \in Nat \ {0}
  BY UpdaterAssumption DEF TypeOK
<1>2. RoundsLeft(c) \in 0 .. MAX_RETRIES - 1
  BY <1>1 DEF RoundsLeft
<1>3. CallsAfter[pc[c]] \in 0 .. 10
  BY DEF CallsAfter, Running
<1>4. CallsLeft(c) = CallsAfter[pc[c]] + 1 + 4 * RoundsLeft(c)
  BY DEF CallsLeft
<1>5. QED
  BY <1>1, <1>2, <1>3, <1>4

\* A call that returns for good leaves fewer calls: the run goes on to a later
\* one, in the same attempt, or is over.
LEMMA LaterCall ==
  ASSUME TypeInv, TypeInv', NEW c \in Client, pc[c] \in Running,
         RoundsLeft(c)' = RoundsLeft(c) \/ pc'[c] \notin Running,
         pc'[c] \in Running => CallsAfter[pc'[c]] < CallsAfter[pc[c]]
  PROVE  CallsLeft(c)' < CallsLeft(c)
<1>1. TypeOK /\ TypeOK'
  BY DEF TypeInv
<1>2. /\ RoundsLeft(c) \in 0 .. MAX_RETRIES - 1
      /\ CallsAfter[pc[c]] \in 0 .. 10
      /\ CallsLeft(c) = CallsAfter[pc[c]] + 1 + 4 * RoundsLeft(c)
      /\ MAX_RETRIES \in Nat
  BY <1>1, CallsLeftType, UpdaterAssumption
<1>3. CASE pc'[c] \in Running
  <2>1. /\ CallsLeft(c)' = CallsAfter[pc'[c]] + 1 + 4 * RoundsLeft(c)
        /\ CallsAfter[pc'[c]] \in 0 .. 10
    BY <1>3 DEF CallsLeft, CallsAfter, Running
  <2>2. QED
    BY <1>2, <1>3, <2>1
<1>4. CASE pc'[c] \notin Running
  <2>1. CallsLeft(c)' = 0
    BY <1>4 DEF CallsLeft
  <2>2. QED
    BY <1>2, <2>1
<1>5. QED
  BY <1>3, <1>4

\* So does one that starts the loop again: an attempt is worth four calls, and
\* the one that fails last is the third after the file was opened.
LEMMA NextRound ==
  ASSUME TypeInv, TypeInv', NEW c \in Client, Counted(c),
         pc[c] \in {"get", "size", "hash"}, Retry(c)
  PROVE  Counted(c)' /\ CallsLeft(c)' < CallsLeft(c)
<1> USE DEF TypeInv, TypeOK
<1>1. CASE attempt[c] < MAX_RETRIES /\ Goto(c, "open")
            /\ attempt' = [attempt EXCEPT ![c] = @ + 1]
  <2>1. /\ pc'[c] = "open" /\ attempt'[c] = attempt[c] + 1
        /\ attempt[c] \in 1 .. MAX_RETRIES /\ MAX_RETRIES \in Nat
    BY <1>1, UpdaterAssumption DEF Goto, Counted, Active
  <2>2. /\ RoundsLeft(c) = MAX_RETRIES - attempt[c]
        /\ RoundsLeft(c)' = MAX_RETRIES - attempt[c] - 1
    BY <2>1 DEF RoundsLeft
  <2>3. CallsLeft(c)' = 8 + 4 * (MAX_RETRIES - attempt[c] - 1)
    BY <2>1, <2>2 DEF CallsLeft, CallsAfter, Running
  <2>4. /\ CallsLeft(c) = CallsAfter[pc[c]] + 1 + 4 * (MAX_RETRIES - attempt[c])
        /\ CallsAfter[pc[c]] \in 4 .. 6
    BY <2>2 DEF CallsLeft, CallsAfter, Running
  <2>5. QED
    BY <2>1, <2>3, <2>4 DEF Counted, Active
<1>2. CASE Fail(c, "download")
  <2>1. pc'[c] = "done"
    BY <1>2, FailType DEF Error
  <2>2. QED
    BY <2>1, LaterCall DEF Counted, Active, Running
<1>3. QED
  BY <1>1, <1>2 DEF Retry

\* The same for a call that returns with the counter as it was.
LEMMA SameRound ==
  ASSUME TypeInv, TypeInv', NEW c \in Client, Counted(c), pc[c] \in Running,
         UNCHANGED attempt,
         pc'[c] \in Running =>
           /\ CallsAfter[pc'[c]] < CallsAfter[pc[c]]
           /\ pc[c] \in Active \ {"head"} <=> pc'[c] \in Active \ {"head"}
  PROVE  Counted(c)' /\ CallsLeft(c)' < CallsLeft(c)
<1>1. RoundsLeft(c)' = RoundsLeft(c)
  BY DEF RoundsLeft
<1>2. CallsLeft(c)' < CallsLeft(c)
  BY <1>1, LaterCall
<1>3. Counted(c)'
  BY DEF Counted, Active, Running
<1>4. QED
  BY <1>2, <1>3

\* Every call that returns leaves fewer to make.
LEMMA StepShortens ==
  ASSUME TypeInv, TypeInv', NEW c \in Client, Counted(c), Step(c)
  PROVE  pc[c] \in Running /\ Counted(c)' /\ CallsLeft(c)' < CallsLeft(c)
<1> DEFINE Gone == pc[c] \in Running /\ pc'[c] = "done" /\ UNCHANGED attempt
<1>1. CASE Gone
  BY <1>1, SameRound DEF Running
<1>2. CASE \/ VersionFails(c) \/ TableFails(c) \/ ForcedVersionMissing(c)
           \/ HeadFails(c) \/ HeadUnreadable(c) \/ OpenFails(c) \/ SizeUnreadable(c)
           \/ HandshakeFails(c) \/ HandshakeFileGone(c) \/ PrepareFails(c)
           \/ UploadRefused(c) \/ TransferFails(c) \/ RemovalThrows(c)
  <2>1. Gone
    BY <1>2 DEF VersionFails, TableFails, ForcedVersionMissing, HeadFails,
       HeadUnreadable, OpenFails, SizeUnreadable, HandshakeFails,
       HandshakeFileGone, PrepareFails, UploadRefused, TransferFails,
       RemovalThrows, GiveUp, Fail, Finish, Goto, TypeInv, TypeOK, Running
  <2>2. QED
    BY <1>1, <2>1
<1>3. CASE UpToDate(c) \/ TargetMissing(c) \/ TransferAcked(c)
  <2>1. Gone
    BY <1>3 DEF UpToDate, TargetMissing, TransferAcked, Offers, Finish, Goto,
       TypeInv, TypeOK, Running
  <2>2. QED
    BY <1>1, <2>1
<1>4. CASE \/ VersionReply(c) \/ OpenOutput(c) \/ GetReply(c) \/ SizeMatches(c)
           \/ HashMatches(c) \/ HandshakeReply(c) \/ PrepareReply(c) \/ Upload(c)
  <2>1. /\ pc[c] \in Running /\ pc'[c] \in Running /\ UNCHANGED attempt
        /\ CallsAfter[pc'[c]] < CallsAfter[pc[c]]
        /\ pc[c] \in Active \ {"head"} <=> pc'[c] \in Active \ {"head"}
    BY <1>4 DEF VersionReply, OpenOutput, GetReply, SizeMatches, HashMatches,
       HandshakeReply, PrepareReply, Upload, Goto, TypeInv, TypeOK, Running,
       Active, CallsAfter
  <2>2. QED
    BY <2>1, SameRound
<1>5. CASE TargetFound(c)
  <2>1. /\ pc[c] = "get_version_table" /\ UNCHANGED attempt
        /\ pc'[c] \in {"head", "done"}
    BY <1>5 DEF TargetFound, Offers, Finish, Goto, TypeInv, TypeOK
  <2>2. QED
    BY <2>1, SameRound DEF Running, Active, CallsAfter
<1>6. CASE HeadReply(c)
  <2>1. pc[c] = "head" /\ pc'[c] = "open" /\ attempt[c] = 0 /\ attempt'[c] = 1
    BY <1>6 DEF HeadReply, Goto, Counted, TypeInv, TypeOK
  <2>2. RoundsLeft(c)' = RoundsLeft(c)
    BY <2>1 DEF RoundsLeft
  <2>3. CallsLeft(c)' < CallsLeft(c)
    BY <2>1, <2>2, LaterCall DEF Running, CallsAfter
  <2>4. QED
    BY <2>1, <2>3 DEF Counted, Active, Running
<1>7. CASE GetFails(c) \/ SizeDiffers(c) \/ HashDiffers(c)
  BY <1>7, NextRound DEF GetFails, SizeDiffers, HashDiffers, Running
<1>8. QED
  BY <1>2, <1>3, <1>4, <1>5, <1>6, <1>7 DEF Step

\* What happens to a process otherwise keeps its count, and makes no call.
LEMMA EnvironmentCounts ==
  ASSUME TypeInv, NEW c \in Client, Counted(c), Start(c) \/ Install(c) \/ Kill(c)
  PROVE  /\ Counted(c)'
         /\ pc[c] \in Running => pc'[c] \in {pc[c], "idle"}
<1>1. CASE Start(c)
  BY <1>1 DEF Start, Goto, Counted, Active, Running, TypeInv, TypeOK
<1>2. CASE Install(c)
  BY <1>2 DEF Install, Counted
<1>3. CASE Kill(c)
  BY <1>3 DEF Kill, Goto, Counted, Active, TypeInv, TypeOK
<1>4. QED
  BY <1>1, <1>2, <1>3

\* The count is an invariant, and no step leaves a run more calls.
LEMMA CountStep ==
  ASSUME CountInv, [Next]_vars
  PROVE  /\ CountInv'
         /\ \A c \in Client : pc[c] \in Running /\ pc'[c] # pc[c] =>
              CallsLeft(c)' < CallsLeft(c) /\ CallsLeft(c) <= 4 * MAX_RETRIES + 7
<1>1. TypeInv /\ TypeInv' /\ TypeOK
  BY NextType DEF CountInv, TypeInv
<1>2. ASSUME NEW c \in Client
      PROVE  /\ Counted(c)'
             /\ pc[c] \in Running /\ pc'[c] # pc[c] => CallsLeft(c)' < CallsLeft(c)
  <2>1. Counted(c)
    BY DEF CountInv
  <2>2. CASE Step(c)
    BY <1>1, <2>1, <2>2, StepShortens
  <2>3. CASE Start(c) \/ Install(c) \/ Kill(c)
    <3>1. Counted(c)' /\ (pc[c] \in Running => pc'[c] \in {pc[c], "idle"})
      BY <1>1, <2>1, <2>3, EnvironmentCounts
    <3>2. pc[c] \in Running /\ pc'[c] = "idle" => CallsLeft(c)' < CallsLeft(c)
      BY <1>1, LaterCall DEF Running
    <3>3. QED
      BY <3>1, <3>2
  <2>4. CASE \E d \in Client \ {c} : Acts(d)
    BY <1>1, <2>1, <2>4, OthersUntouched, CountFrame
  <2>5. CASE InstallLate \/ UNCHANGED vars
    BY <2>1, <2>5, CountFrame DEF InstallLate, vars
  <2>6. QED
    BY <2>2, <2>3, <2>4, <2>5 DEF Next, Environment, Acts
<1>3. ASSUME NEW c \in Client, pc[c] \in Running
      PROVE  CallsLeft(c) <= 4 * MAX_RETRIES + 7
  BY <1>1, <1>3, CallsLeftType, UpdaterAssumption
<1>4. QED
  BY <1>1, <1>2, <1>3 DEF CountInv

(* A run of update_server makes at most 4 * MAX_RETRIES + 7 blocking calls, *)
(* for every number of retries: every call that returns leaves fewer, the   *)
(* failures that start the loop of download_and_verify again included       *)
(* (updater.cc:109-207).                                                    *)
THEOREM RunsAreBounded == Spec => RunsAreShort
<1>1. Init => CountInv
  BY InitialType DEF Init, CountInv, Counted, Active
<1>2. CountInv /\ [Next]_vars => CountInv'
  BY CountStep
<1>3. CountInv /\ [Next]_vars =>
        [\A c \in Client : pc[c] \in Running /\ pc'[c] # pc[c] =>
           CallsLeft(c)' < CallsLeft(c) /\ CallsLeft(c) <= 4 * MAX_RETRIES + 7]_vars
  BY CountStep
<1>4. QED
  BY <1>1, <1>2, <1>3, PTL DEF Spec, RunsAreShort

(* Whatever processes, late uploads and forced versions do, the server goes *)
(* back to an older version only by a late upload, a skipped check or a     *)
(* check that was out of date when the upload arrived (updater.cc:552, 627).*)
THEOREM DowngradesAreExplained == Spec => DowngradeHasCause
<1> DEFINE Cause ==
      Less(server', server) =>
        \/ \E r \in late : r.ticket.version = server'
        \/ \E c \in Client :
             /\ request[c] # NoRequest /\ request[c].ticket.version = server'
             /\ skip[c] \/ result[c].current_version # server
<1>1. ASSUME IInv, [Next]_vars PROVE Cause
  <2>1. server \in Version
    BY <1>1 DEF IInv, TypeInv, TypeOK
  <2>2. CASE UNCHANGED server
    BY <2>1, <2>2, LessIsStrictTotalOrder
  <2>3. CASE InstallLate
    BY <2>3 DEF InstallLate
  <2>4. ASSUME NEW c \in Client, Install(c) PROVE Cause
    <3>1. /\ request[c] # NoRequest /\ request[c].ticket.version = server'
          /\ RunInv(c)
      BY <1>1, <2>4 DEF Install, IInv
    <3>2. SUFFICES ASSUME ~skip[c], result[c].current_version = server
                   PROVE  ~Less(server', server)
      BY <3>1
    <3>3. /\ server' = result[c].available_version /\ server' \in Version
          /\ Greater(server', server)
      BY <3>1, <3>2 DEF RunInv, Ordered, Active
    <3>4. QED
      BY <2>1, <3>3 DEF Greater
  <2>5. ASSUME NEW c \in Client, Step(c) \/ Start(c) \/ Kill(c) PROVE UNCHANGED server
    BY <2>5 DEF Step, Start, Kill, VersionReply, VersionFails, TableFails,
       ForcedVersionMissing, UpToDate, TargetMissing, TargetFound, HeadReply,
       HeadFails, HeadUnreadable, OpenOutput, OpenFails, GetReply, GetFails,
       SizeMatches, SizeDiffers, SizeUnreadable, HashMatches, HashDiffers,
       HandshakeReply, HandshakeFileGone, HandshakeFails, PrepareReply,
       PrepareFails, Upload, UploadRefused, TransferAcked, TransferFails,
       RemovalThrows
  <2>6. QED
    BY <1>1, <2>2, <2>3, <2>4, <2>5 DEF Next, Environment, vars
<1>2. IInv /\ [Next]_vars => [Cause]_vars
  BY <1>1
<1>3. QED
  BY <1>2, IInvAlways, PTL DEF Spec, DowngradeHasCause
=============================================================================
