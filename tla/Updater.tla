------------------------------ MODULE Updater -------------------------------
(***************************************************************************)
(* update_server of xdaqvc/updater.cc, run any number of times by any      *)
(* number of processes against one server, over a network that may fail    *)
(* any request.  One action is one reply to (or failure of) a blocking     *)
(* call of the code, with everything the code does up to its next call.    *)
(*                                                                         *)
(* The CDN, the updated server and its update server are external: their   *)
(* replies are whatever the client's code has a branch for.                *)
(***************************************************************************)
EXTENDS VersionOrder, Sequences

CONSTANTS
  Client,         \* the processes that call update_server
  Dir, DirOf,     \* the update directories, and which one each process uses
  Content,        \* what a file can hold
  Empty,          \* the content of a file that was just truncated
  SizeOf,         \* fs::file_size, by content
  Hash, Sha256,   \* digests, and calculate_sha256 by content
  RawTables,      \* the version tables the CDN may serve, before parsing
  ForceVersions,  \* the values of force_version, NoVersion for nullopt
  FirstVersion,   \* the version the server runs before any update
  MAX_RETRIES,    \* download attempts
  NoFile, NoToken, NoRow, NoTicket, NoRequest

VARIABLES
  pc,             \* the call each process is blocked in
  skip, force,    \* the arguments skip_version_check and force_version
  result,         \* the UpdateResult being built
  target,         \* *target_version: the row of the table being installed
  expected_size, attempt,  \* locals of download_and_verify
  token, ticket,  \* handshake_response.token; what prepare_file_transfer declares
  files,          \* the update directories
  request,        \* the upload on each process's open connection
  served,         \* the upload of each process's current run the server installed
  late,           \* uploads whose client has gone: the server may still apply them
  server, image   \* the version the server runs, and the upload it came from

vars == <<pc, skip, force, result, target, expected_size, attempt, token, ticket,
          files, request, served, late, server, image>>
args == <<skip, force>>
download == <<expected_size, attempt>>
session == <<token, ticket>>
remote == <<request, served, late, server, image>>

-----------------------------------------------------------------------------
Row == [version : Version, hash : Hash]
Ticket == [version : Version, hash : Hash, size : Nat]
Request == [client : Client, ticket : Ticket, content : Content]

Error == {"none", "version", "table", "forced", "missing", "download",
          "handshake", "prepare", "transfer", "exception"}
UpdateResult ==
  [success : BOOLEAN, error : Error, update_needed : {"unset", "no", "yes"},
   current_version : Version \cup {NoVersion},
   available_version : Version \cup {NoVersion}]

\* A row of the raw table: the string under "version", the digest, and whether
\* the other fields are complete, include one that get<std::string> refuses, or
\* hold a min_client_version that does not parse.
RawRow == [version : Text, hash : Hash, form : {"complete", "unreadable", "badMin"}]

ASSUME UpdaterAssumption ==
  /\ DirOf \in [Client -> Dir]
  /\ Empty \in Content /\ SizeOf \in [Content -> Nat] /\ SizeOf[Empty] = 0
  /\ Sha256 \in [Content -> Hash]
  /\ ForceVersions \subseteq Version \cup {NoVersion}
  /\ FirstVersion \in Version
  /\ MAX_RETRIES \in Nat \ {0}
  /\ \A raw \in RawTables : raw.latest \in Text /\ raw.versions \in Seq(RawRow)
  /\ NoFile \notin Content /\ NoRow \notin Row /\ NoTicket \notin Ticket
  /\ NoRequest \notin Request

Running == {"get_server_version", "get_version_table", "head", "open", "get", "size",
            "hash", "handshake", "prepare", "transfer", "reply"}

\* update_dir / "xvc-server-<version>.tar.xz"
Path(c) == <<DirOf[c], target[c].version>>
File(c) == files[Path(c)]
SetFile(c, content) == files' = [files EXCEPT ![Path(c)] = content]

\* No other process writes into the directory of c.
Alone(c) == \A d \in Client \ {c} : DirOf[d] # DirOf[c]

Goto(c, step) == pc' = [pc EXCEPT ![c] = step]
Finish(c, r) == Goto(c, "done") /\ result' = [result EXCEPT ![c] = r]
Fail(c, error) == Finish(c, [result[c] EXCEPT !.error = error])

-----------------------------------------------------------------------------
(* get_version_table: a row is skipped when one of its versions does not    *)
(* parse; a field that get<std::string> cannot read makes the whole table   *)
(* unavailable, unless the row was skipped before that field was read.      *)

Parsed(raw, i) == FromString(raw.versions[i].version)

Usable(raw) ==
  /\ FromString(raw.latest) # NoVersion
  /\ \A i \in DOMAIN raw.versions :
       raw.versions[i].form = "unreadable" => Parsed(raw, i) = NoVersion

\* The rows of VersionTable::versions, by their index in the raw table.
Kept(raw) == {i \in DOMAIN raw.versions :
                Parsed(raw, i) # NoVersion /\ raw.versions[i].form # "badMin"}

HasRow(raw, v) == \E i \in Kept(raw) : Parsed(raw, i) = v

\* std::find_if: the first row of version v.
IsFirstRow(raw, v, i) ==
  /\ i \in Kept(raw) /\ Parsed(raw, i) = v
  /\ \A j \in Kept(raw) : Parsed(raw, j) = v => i <= j

-----------------------------------------------------------------------------
(* Step 1 and 2 of update_server: version and version table.                *)

Start(c) ==
  /\ pc[c] \in {"idle", "done"}
  /\ \E s \in BOOLEAN, f \in ForceVersions :
       skip' = [skip EXCEPT ![c] = s] /\ force' = [force EXCEPT ![c] = f]
  /\ result' = [result EXCEPT ![c] =
       [success |-> FALSE, error |-> "none", update_needed |-> "unset",
        current_version |-> NoVersion, available_version |-> NoVersion]]
  /\ target' = [target EXCEPT ![c] = NoRow]
  /\ expected_size' = [expected_size EXCEPT ![c] = 0]
  /\ attempt' = [attempt EXCEPT ![c] = 0]
  /\ token' = [token EXCEPT ![c] = NoToken]
  /\ ticket' = [ticket EXCEPT ![c] = NoTicket]
  /\ served' = [served EXCEPT ![c] = NoRequest]
  /\ Goto(c, "get_server_version")
  /\ UNCHANGED <<files, request, late, server, image>>

VersionReply(c) ==
  /\ pc[c] = "get_server_version"
  /\ result' = [result EXCEPT ![c].current_version = server]
  /\ Goto(c, "get_version_table")
  /\ UNCHANGED <<args, target, download, session, files, remote>>

VersionFails(c) ==
  /\ pc[c] = "get_server_version"
  /\ Fail(c, "version")
  /\ UNCHANGED <<args, target, download, session, files, remote>>

TableFails(c) ==
  /\ pc[c] = "get_version_table"
  /\ Fail(c, "table")
  /\ UNCHANGED <<args, target, download, session, files, remote>>

\* A usable table has arrived, and force_version, if given, is in it.
Offers(c, raw) ==
  /\ pc[c] = "get_version_table"
  /\ Usable(raw)
  /\ force[c] = NoVersion \/ HasRow(raw, force[c])

ForcedVersionMissing(c) ==
  /\ pc[c] = "get_version_table"
  /\ \E raw \in RawTables :
       Usable(raw) /\ force[c] # NoVersion /\ ~HasRow(raw, force[c])
  /\ Fail(c, "forced")
  /\ UNCHANGED <<args, target, download, session, files, remote>>

Latest(c, raw) == IF force[c] = NoVersion THEN FromString(raw.latest) ELSE force[c]

\* Seeded fault: the comparison is off by one, ">" for ">=".
ReinstallsSameVersion(c, latest) ==
  skip[c] \/ ~Greater(result[c].current_version, latest)

\* Seeded fault: a forced version is installed without the comparison.
ForceSkipsCheck(c, latest) ==
  skip[c] \/ force[c] # NoVersion \/ ~GreaterEq(result[c].current_version, latest)

NeedsUpdate(c, latest) ==
  skip[c] \/ ~GreaterEq(result[c].current_version, latest)

\* Seeded fault: the result is returned before available_version is set.
UpToDateReturnsEarly(c) ==
  /\ \E raw \in RawTables :
       /\ Offers(c, raw) /\ ~NeedsUpdate(c, Latest(c, raw))
       /\ Finish(c, [result[c] EXCEPT !.update_needed = "no", !.success = TRUE])
  /\ UNCHANGED <<args, target, download, session, files, remote>>

UpToDate(c) ==
  /\ \E raw \in RawTables :
       /\ Offers(c, raw) /\ ~NeedsUpdate(c, Latest(c, raw))
       /\ Finish(c, [result[c] EXCEPT !.available_version = Latest(c, raw),
                                      !.update_needed = "no", !.success = TRUE])
  /\ UNCHANGED <<args, target, download, session, files, remote>>

\* result once latest turned out to be worth installing.
Needed(c, latest) ==
  [result[c] EXCEPT !.available_version = latest, !.update_needed = "yes"]

TargetMissing(c) ==
  /\ \E raw \in RawTables :
       /\ Offers(c, raw) /\ NeedsUpdate(c, Latest(c, raw))
       /\ ~HasRow(raw, Latest(c, raw))
       /\ Finish(c, [Needed(c, Latest(c, raw)) EXCEPT !.error = "missing"])
  /\ UNCHANGED <<args, target, download, session, files, remote>>

\* create_directories may throw; otherwise the first request of the download
\* is sent.
TargetFound(c) ==
  /\ \E raw \in RawTables : \E i \in DOMAIN raw.versions :
       /\ Offers(c, raw) /\ NeedsUpdate(c, Latest(c, raw))
       /\ IsFirstRow(raw, Latest(c, raw), i)
       /\ \/ /\ target' = [target EXCEPT ![c] = [version |-> Parsed(raw, i),
                                                 hash |-> raw.versions[i].hash]]
             /\ result' = [result EXCEPT ![c] = Needed(c, Latest(c, raw))]
             /\ Goto(c, "head")
          \/ /\ Finish(c, [Needed(c, Latest(c, raw)) EXCEPT !.error = "exception"])
             /\ UNCHANGED target
  /\ UNCHANGED <<args, download, session, files, remote>>

-----------------------------------------------------------------------------
(* Step 3: download_and_verify.                                             *)

\* The length the CDN announces; 0 stands for a missing Content-Length too.
HeadReply(c) ==
  /\ pc[c] = "head"
  /\ \E content \in Content :
       expected_size' = [expected_size EXCEPT ![c] = SizeOf[content]]
  /\ attempt' = [attempt EXCEPT ![c] = 1]
  /\ Goto(c, "open")
  /\ UNCHANGED <<args, result, target, session, files, remote>>

HeadFails(c) ==
  /\ pc[c] = "head"
  /\ Fail(c, "download")
  /\ UNCHANGED <<args, target, download, session, files, remote>>

\* The handler of download_and_verify removes the file.  If fs::remove throws,
\* that leaves the handler, and update_server returns with the file in place.
GiveUp(c) ==
  \/ SetFile(c, NoFile) /\ Fail(c, "download")
  \/ File(c) # NoFile /\ UNCHANGED files /\ Fail(c, "exception")

\* stoull throws on the header: the handler removes a file it never opened.
HeadUnreadable(c) ==
  /\ pc[c] = "head"
  /\ GiveUp(c)
  /\ UNCHANGED <<args, target, download, session, remote>>

OpenOutput(c) ==
  /\ pc[c] = "open"
  /\ SetFile(c, Empty)
  /\ Goto(c, "get")
  /\ UNCHANGED <<args, result, target, download, session, remote>>

OpenFails(c) ==
  /\ pc[c] = "open"
  /\ Fail(c, "download")
  /\ UNCHANGED <<args, target, download, session, files, remote>>

\* Seeded fault: a failed attempt is not counted.
RetriesForever(c) == Goto(c, "open") /\ UNCHANGED <<result, attempt>>

\* Seeded fault: the loop runs once too often.
RetriesOnceMore(c) ==
  \/ /\ attempt[c] <= MAX_RETRIES
     /\ attempt' = [attempt EXCEPT ![c] = @ + 1]
     /\ Goto(c, "open")
     /\ UNCHANGED result
  \/ /\ attempt[c] > MAX_RETRIES
     /\ Fail(c, "download")
     /\ UNCHANGED attempt

\* The next round of the retry loop, or the end of it.
Retry(c) ==
  \/ /\ attempt[c] < MAX_RETRIES
     /\ attempt' = [attempt EXCEPT ![c] = @ + 1]
     /\ Goto(c, "open")
     /\ UNCHANGED result
  \/ /\ attempt[c] >= MAX_RETRIES
     /\ Fail(c, "download")
     /\ UNCHANGED attempt

\* What the download leaves at Path(c): another process may have removed the
\* file that is open, and then there is still none.
Receive(c) ==
  IF File(c) = NoFile THEN UNCHANGED files ELSE \E body \in Content : SetFile(c, body)

\* A 200 whose body may still be cut short or damaged.
GetReply(c) ==
  /\ pc[c] = "get"
  /\ Receive(c)
  /\ Goto(c, IF expected_size[c] > 0 THEN "size" ELSE "hash")
  /\ UNCHANGED <<args, result, target, download, session, remote>>

\* Any other status: whatever was received stays in the file.
GetFails(c) ==
  /\ pc[c] = "get"
  /\ Receive(c)
  /\ Retry(c)
  /\ UNCHANGED <<args, target, expected_size, session, remote>>

SizeMatches(c) ==
  /\ pc[c] = "size" /\ File(c) # NoFile /\ SizeOf[File(c)] = expected_size[c]
  /\ Goto(c, "hash")
  /\ UNCHANGED <<args, result, target, download, session, files, remote>>

SizeDiffers(c) ==
  /\ pc[c] = "size" /\ File(c) # NoFile /\ SizeOf[File(c)] # expected_size[c]
  /\ SetFile(c, NoFile)
  /\ Retry(c)
  /\ UNCHANGED <<args, target, expected_size, session, remote>>

\* fs::file_size throws when somebody else has removed the file.
SizeUnreadable(c) ==
  /\ pc[c] = "size" /\ File(c) = NoFile
  /\ Fail(c, "download")
  /\ UNCHANGED <<args, target, download, session, files, remote>>

\* Seeded fault: the digest is computed but not compared.
HashNotCompared(c) ==
  /\ pc[c] = "hash" /\ File(c) # NoFile
  /\ Goto(c, "handshake")
  /\ UNCHANGED <<args, result, target, download, session, files, remote>>

HashMatches(c) ==
  /\ pc[c] = "hash" /\ File(c) # NoFile /\ Sha256[File(c)] = target[c].hash
  /\ Goto(c, "handshake")
  /\ UNCHANGED <<args, result, target, download, session, files, remote>>

\* The digest differs, or the file could not be opened for hashing.
HashDiffers(c) ==
  /\ pc[c] = "hash"
  /\ SetFile(c, NoFile)
  /\ Retry(c)
  /\ UNCHANGED <<args, target, expected_size, session, remote>>

\* fs::remove throws for a file that failed a check.
RemovalThrows(c) ==
  /\ pc[c] \in {"size", "hash"} /\ File(c) # NoFile
  /\ pc[c] = "size" => SizeOf[File(c)] # expected_size[c]
  /\ GiveUp(c)
  /\ UNCHANGED <<args, target, download, session, remote>>

-----------------------------------------------------------------------------
(* Step 4 to 6: handshake, prepare_file_transfer and transfer_file.         *)

\* status is "ready": a reply without a usable "token" is still a success,
\* because success is set before the field is read.  The size is taken from the
\* file before the next request, which declares it.
HandshakeReply(c) ==
  /\ pc[c] = "handshake" /\ File(c) # NoFile
  /\ \E t \in {"token", NoToken} : token' = [token EXCEPT ![c] = t]
  /\ ticket' = [ticket EXCEPT ![c] = [version |-> target[c].version,
                                      hash |-> target[c].hash,
                                      size |-> SizeOf[File(c)]]]
  /\ Goto(c, "prepare")
  /\ UNCHANGED <<args, result, target, download, files, remote>>

\* The same, but fs::file_size throws.
HandshakeFileGone(c) ==
  /\ pc[c] = "handshake" /\ File(c) = NoFile
  /\ Fail(c, "exception")
  /\ UNCHANGED <<args, target, download, session, files, remote>>

HandshakeFails(c) ==
  /\ pc[c] = "handshake"
  /\ Fail(c, "handshake")
  /\ UNCHANGED <<args, target, download, session, files, remote>>

\* The update server hands out a transfer_id, perhaps without asking for a token.
PrepareReply(c) ==
  /\ pc[c] = "prepare"
  /\ Goto(c, "transfer")
  /\ UNCHANGED <<args, result, target, download, session, files, remote>>

PrepareFails(c) ==
  /\ pc[c] = "prepare"
  /\ Fail(c, "prepare")
  /\ UNCHANGED <<args, target, download, session, files, remote>>

\* Seeded fault: the file is not checked for being empty.
UploadsEmptyFile(c) == File(c) # NoFile

CanUpload(c) == File(c) # NoFile /\ SizeOf[File(c)] # 0

Upload(c) ==
  /\ pc[c] = "transfer" /\ CanUpload(c)
  /\ request' = [request EXCEPT
       ![c] = [client |-> c, ticket |-> ticket[c], content |-> File(c)]]
  /\ Goto(c, "reply")
  /\ UNCHANGED <<args, result, target, download, session, files, served, late,
                 server, image>>

UploadRefused(c) ==
  /\ pc[c] = "transfer" /\ ~CanUpload(c)
  /\ Fail(c, "transfer")
  /\ UNCHANGED <<args, target, download, session, files, remote>>

\* The connection of c is closed: the server may yet read what it received.
Disconnect(c) ==
  /\ late' = IF request[c] # NoRequest /\ served[c] = NoRequest
               THEN late \cup {request[c]} ELSE late
  /\ request' = [request EXCEPT ![c] = NoRequest]

\* Seeded fault: any answer to the upload is taken for "success".
AckNotChecked(c) ==
  /\ pc[c] = "reply"
  /\ Finish(c, [result[c] EXCEPT !.success = TRUE])
  /\ Disconnect(c)
  /\ UNCHANGED <<args, target, download, session, files, served, server, image>>

\* status is "success", which the update server is taken to say of an upload
\* that it has installed, and of no other.
TransferAcked(c) ==
  /\ pc[c] = "reply" /\ served[c] # NoRequest
  /\ Finish(c, [result[c] EXCEPT !.success = TRUE])
  /\ Disconnect(c)
  /\ UNCHANGED <<args, target, download, session, files, served, server, image>>

\* Seeded fault: an upload that failed is sent once more.
TransferRetried(c) ==
  /\ pc[c] = "reply"
  /\ Goto(c, "transfer")
  /\ Disconnect(c)
  /\ UNCHANGED <<args, result, target, download, session, files, served, server, image>>

\* Another status, or the 30 s timeout, whether or not the server installed it.
TransferFails(c) ==
  /\ pc[c] = "reply"
  /\ Fail(c, "transfer")
  /\ Disconnect(c)
  /\ UNCHANGED <<args, target, download, session, files, served, server, image>>

-----------------------------------------------------------------------------
(* The environment: the update server, and processes being killed.          *)

Install(c) ==
  /\ request[c] # NoRequest /\ served[c] = NoRequest
  /\ server' = request[c].ticket.version
  /\ image' = request[c]
  /\ served' = [served EXCEPT ![c] = request[c]]
  /\ UNCHANGED <<pc, args, result, target, download, session, files, request, late>>

InstallLate ==
  /\ \E r \in late :
       server' = r.ticket.version /\ image' = r /\ late' = late \ {r}
  /\ UNCHANGED <<pc, args, result, target, download, session, files, request, served>>

Kill(c) ==
  /\ pc[c] \in Running
  /\ Goto(c, "idle")
  /\ Disconnect(c)
  /\ UNCHANGED <<args, result, target, download, session, files, served, server, image>>

-----------------------------------------------------------------------------
Init ==
  /\ pc = [c \in Client |-> "idle"]
  /\ skip = [c \in Client |-> FALSE]
  /\ force = [c \in Client |-> NoVersion]
  /\ result = [c \in Client |->
       [success |-> FALSE, error |-> "none", update_needed |-> "unset",
        current_version |-> NoVersion, available_version |-> NoVersion]]
  /\ target = [c \in Client |-> NoRow]
  /\ expected_size = [c \in Client |-> 0]
  /\ attempt = [c \in Client |-> 0]
  /\ token = [c \in Client |-> NoToken]
  /\ ticket = [c \in Client |-> NoTicket]
  /\ files = [p \in Dir \X Version |-> NoFile]
  /\ request = [c \in Client |-> NoRequest]
  /\ served = [c \in Client |-> NoRequest]
  /\ late = {}
  /\ server = FirstVersion
  /\ image = NoRequest

\* One blocking call of process c returns.
Step(c) ==
  \/ VersionReply(c) \/ VersionFails(c)
  \/ TableFails(c) \/ ForcedVersionMissing(c)
  \/ UpToDate(c) \/ TargetMissing(c) \/ TargetFound(c)
  \/ HeadReply(c) \/ HeadFails(c) \/ HeadUnreadable(c)
  \/ OpenOutput(c) \/ OpenFails(c)
  \/ GetReply(c) \/ GetFails(c)
  \/ SizeMatches(c) \/ SizeDiffers(c) \/ SizeUnreadable(c)
  \/ HashMatches(c) \/ HashDiffers(c) \/ RemovalThrows(c)
  \/ HandshakeReply(c) \/ HandshakeFileGone(c) \/ HandshakeFails(c)
  \/ PrepareReply(c) \/ PrepareFails(c)
  \/ Upload(c) \/ UploadRefused(c)
  \/ TransferAcked(c) \/ TransferFails(c)

Environment ==
  \/ \E c \in Client : Start(c) \/ Install(c) \/ Kill(c)
  \/ InstallLate

Next == (\E c \in Client : Step(c)) \/ Environment

\* Every HTTP call has a cpr::Timeout and every other call is a local file
\* operation: a blocking call returns, one way or the other.
Fairness == \A c \in Client : WF_vars(Step(c))

Spec == Init /\ [][Next]_vars /\ Fairness

-----------------------------------------------------------------------------
TypeOK ==
  /\ pc \in [Client -> Running \cup {"idle", "done"}]
  /\ skip \in [Client -> BOOLEAN]
  /\ force \in [Client -> ForceVersions \cup {NoVersion}]
  /\ result \in [Client -> UpdateResult]
  /\ target \in [Client -> Row \cup {NoRow}]
  /\ expected_size \in [Client -> Nat]
  /\ attempt \in [Client -> 0 .. MAX_RETRIES]
  /\ token \in [Client -> {"token", NoToken}]
  /\ ticket \in [Client -> Ticket \cup {NoTicket}]
  /\ files \in [Dir \X Version -> Content \cup {NoFile}]
  /\ request \in [Client -> Request \cup {NoRequest}]
  /\ served \in [Client -> Request \cup {NoRequest}]
  /\ late \subseteq Request
  /\ server \in Version
  /\ image \in Request \cup {NoRequest}

\* The uploads that reached the network and were not lost.
Uploads == {r \in late \cup {image} \cup {request[c] : c \in Client}
                       \cup {served[c] : c \in Client} : r # NoRequest}

(* Whatever a process that has its update directory to itself sends to the  *)
(* update server has the digest of the chosen row of the version table and  *)
(* the size it declared in prepare_file_transfer: between the verification  *)
(* (updater.cc:186) and the upload (updater.cc:352) nothing replaces the    *)
(* file, no matter which attempts, runs or killed processes came before.    *)
VerifiedUploads ==
  \A r \in Uploads : Alone(r.client) =>
    /\ Sha256[r.content] = r.ticket.hash
    /\ SizeOf[r.content] = r.ticket.size

Succeeded(c) == pc[c] = "done" /\ result[c].success

(* update_server reports a successful update only if the update server      *)
(* installed, during this very run, the version reported as available       *)
(* (updater.cc:635-641); and if it reports that none was needed, it sent    *)
(* nothing (updater.cc:552-556).                                            *)
SuccessIsInstalled ==
  \A c \in Client : Succeeded(c) =>
    IF result[c].update_needed = "yes"
      THEN served[c] # NoRequest /\ served[c].ticket.version = result[c].available_version
      ELSE served[c] = NoRequest /\ request[c] = NoRequest

(* No field of a successful UpdateResult is read uninitialised: struct      *)
(* UpdateResult has no initialisers, and main prints both versions after    *)
(* testing update_needed (xvc_update_tool.cc:109-126).                      *)
SuccessInitialisesResult ==
  \A c \in Client : Succeeded(c) =>
    /\ result[c].update_needed # "unset"
    /\ result[c].current_version # NoVersion
    /\ result[c].available_version # NoVersion

(* Unless the check is skipped, an update is only sent when it is newer     *)
(* than the version the server reported, even when an older version was     *)
(* forced (updater.cc:533-552; updater_test.cc:142 asserts it of the        *)
(* result).                                                                 *)
UpgradesOnly ==
  \A c \in Client :
    ~skip[c] /\ (result[c].update_needed = "yes" \/ served[c] # NoRequest) =>
      /\ Greater(result[c].available_version, result[c].current_version)
      /\ served[c] # NoRequest =>
           Greater(served[c].ticket.version, result[c].current_version)

(* After a successful update the verified file is still in the update       *)
(* directory, and is not empty (updater_test.cc:149-150).                   *)
UpdateFileKept ==
  \A c \in Client :
    Alone(c) /\ Succeeded(c) /\ result[c].update_needed = "yes" =>
      File(c) # NoFile /\ SizeOf[File(c)] > 0 /\ Sha256[File(c)] = target[c].hash

(* Claimed by updater_test.cc:44-53 (DownloadAndVerifyInvalidHash): when no  *)
(* download can have the expected digest, nothing is left in its place.     *)
(* The code removes a file that fails a check, but not what an attempt with *)
(* another status than 200 wrote (updater.cc:154-162).                      *)
InvalidHashLeavesNoFile ==
  \A c \in Client :
    /\ Alone(c) /\ pc[c] = "done" /\ result[c].error = "download" /\ attempt[c] > 0
    /\ \A content \in Content : Sha256[content] # target[c].hash
    => File(c) = NoFile

(* Claimed by updater_test.cc:56-63 (HandshakeTest): a successful handshake *)
(* yields a token.  The code sets success before it reads the token         *)
(* (updater.cc:233-234), and a missing token does not take it back.         *)
HandshakeYieldsToken ==
  \A c \in Client : pc[c] \in {"prepare", "transfer", "reply"} => token[c] # NoToken

(* The server never goes back to an older version on the word of a run that *)
(* made the check with what the server then still ran: it takes an upload   *)
(* whose client has gone, a skipped check, or another installation between  *)
(* the check (updater.cc:552) and the upload (updater.cc:627), which the    *)
(* code does not look for.                                                  *)
DowngradeHasCause ==
  [][Less(server', server) =>
       \/ \E r \in late : r.ticket.version = server'
       \/ \E c \in Client :
            /\ request[c] # NoRequest /\ request[c].ticket.version = server'
            /\ skip[c] \/ result[c].current_version # server]_vars

(* Every run of update_server returns, whatever the network does.           *)
Termination ==
  \A c \in Client : pc[c] \in Running ~> pc[c] \in {"idle", "done"}

\* The calls a run makes after this one if no attempt fails any more.
CallsAfter ==
  [get_server_version |-> 10, get_version_table |-> 9, head |-> 8, open |-> 7,
   get |-> 6, size |-> 5, hash |-> 4, handshake |-> 3, prepare |-> 2,
   transfer |-> 1, reply |-> 0]

\* The calls that may be left to a run, with this one: an attempt that is left
\* is one more round of open, get, size and hash.
RoundsLeft(c) == MAX_RETRIES - (IF attempt[c] = 0 THEN 1 ELSE attempt[c])
CallsLeft(c) ==
  IF pc[c] \in Running THEN CallsAfter[pc[c]] + 1 + 4 * RoundsLeft(c) ELSE 0

(* A run makes at most 4 * MAX_RETRIES + 7 blocking calls, each bounded by  *)
(* its timeout: every call that returns leaves fewer to make, whether it    *)
(* succeeded, failed, or failed in a way that starts the loop of            *)
(* download_and_verify (updater.cc:109-207) again.                          *)
RunsAreShort ==
  [][\A c \in Client : pc[c] \in Running /\ pc'[c] # pc[c] =>
       CallsLeft(c)' < CallsLeft(c) /\ CallsLeft(c) <= 4 * MAX_RETRIES + 7]_vars

-----------------------------------------------------------------------------
(* update_server as its callers see it.                                     *)

Runs == [c \in Client |-> IF pc[c] \in Running THEN "running" ELSE pc[c]]

Answers == [c \in Client |->
  IF pc[c] # "done" THEN "none"
  ELSE IF ~result[c].success THEN "failed"
  ELSE IF result[c].update_needed = "yes" THEN "updated" ELSE "current"]

VersionOf(r) == IF r = NoRequest THEN NoVersion ELSE r.ticket.version

Reported == [c \in Client |-> result[c].current_version]
Sent == [c \in Client |-> VersionOf(request[c])]
Installed == [c \in Client |-> VersionOf(served[c])]
Orphans == {VersionOf(r) : r \in late}

Contract == INSTANCE UpdateContract WITH
  run <- Runs, answer <- Answers, reported <- Reported, sent <- Sent,
  installed <- Installed, orphans <- Orphans

(* Whatever is downloaded, overwritten, retried, refused, lost or killed, a *)
(* run of update_server sends the server at most one version, never an      *)
(* older one unless told to, and reports an update only if that version was *)
(* installed before it returned (updater.cc:502-647).                       *)
ImplementsContract == Contract!Spec
=============================================================================
