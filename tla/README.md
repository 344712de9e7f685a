# A TLA+ model of libxvc

libxvc is the client library of the XDAQ video capture system: it lists and
controls the cameras of a server, receives the server's events, records the
streams, and updates the server.  This directory holds TLA+ modules of the parts
of it that keep state, the TLC configurations that check them on small
instances, and proofs of their main properties for every value of the constants.
Paths are relative to the repository (`xdaqvc/...` is `src/xdaqvc/...` in
`PROJECT.json`).

## 1. Inventory

| Part | Source | State | Operations | Model |
|---|---|---|---|---|
| Version | `updater.h:22-37`, `updater.cc:649-684` | three ints | `from_string`, five comparisons | `VersionOrder` |
| Updater | `updater.cc` | the result being built, the file in the update directory, token, what was declared, attempt; remotely the server's version | `update_server` and the six calls it makes | `Updater` |
| ws_client, session | `ws_client.{h,cc}` | io_context with its outstanding operations, `_host`, `_buffer`, the thread, the handler | constructor, destructor, `run`, `on_*`, `reconnect`, `close` | `WsClient` |
| Camera, PortPool | `camera.{h,cc}`, `port_pool.{h,cc}` | the set of free ports, `_id` and `_port` of each object; remotely the streams | construct, copy, destroy, `start`, `stop`, allocate, release | `CameraPool` |
| Recording | `xvc.cc:216-451` | the tee's pad, the elements of the branch in the bin, references to the pipeline, probes, detached threads | `start_*_recording`, `stop_*_recording`, probe callbacks, the sleeping thread | `Recording` |
| Pipeline construction | `xvc.cc:41-48, 93-214, 453-526` | the elements of the stream in the bin | `setup_*_stream`, `mock_camera` | `Recording` |
| Files of a recording | `xvc.cc:50-85` | `FileTracker`, and the `.mkv` and `.bin` files on disk | `generate_filename` | `Fragments` |
| Extraction of binary data | `xvc.cc:526-698` | a pipeline over one file, its `.bin` file | `parse_video_save_binary_*` | `Fragments` |
| Server information | `server.cc` | none | one GET each | not modelled |
| Tools, tests, build files | `tool/`, `test/` | none | argument parsing, printing | not modelled |

How they interact:

- `update_server` is one thread of blocking HTTP calls to three parties: the
  server (its version), a CDN (the version table and the package), and the
  update server (handshake, announcement, upload).  It shares the update
  directory with every process that is given the same one, and the server with
  everybody.  `tool/xvc_update_tool.cc` calls it and prints the result's fields.
- `Camera` objects of a process share the global `pool` (`camera.cc:26`), and
  through it the ports to which the server streams because of `start`.
- `ws_client` owns a thread that runs an `io_context`.  All handlers run on that
  thread, and the application's event handler is called from it.  The destructor
  runs on the application's thread.
- The recording functions change a running GStreamer pipeline from the
  application's thread, from the streaming thread (idle probes) and from
  detached threads, which sleep 3.5 s first.
- While an M-JPEG recording runs, `splitmuxsink` calls `generate_filename` on the
  streaming thread; it removes old `.mkv` and `.bin` files, while other threads
  may be writing `.bin` files with `parse_video_save_binary_*`.

What is hard about each, and what makes it correct (the lines are in
`PROJECT.json`, "hazards"):

- **Updater.**  Any call fails; downloads are retried; the process may be killed
  anywhere; a timed-out upload may still be installed; the file is checked in one
  call and uploaded three calls later.  Correct means that only verified files
  are uploaded, that success is reported only for what was installed, that
  nothing is downgraded unless asked for, and that every call returns.
- **Version.**  Comparison is lexicographic, and numbers beyond `int` are refused.
- **ws_client.**  The chain must go on after refused and lost connections, with
  one operation at a time, though the close of the old connection overlaps the new
  one; messages must arrive in order; nothing may run after the destructor.
- **Camera.**  Ports are a resource that is taken in a constructor and given back
  in a destructor, in a class with implicit copy operations; requests may be
  carried out after they timed out.
- **Recording.**  Elements have fixed names and stay for 3.5 s after a stop, so
  that early starts, repeated stops and late threads meet each other, between
  any two elements; the references to the pipeline must balance, and a start after
  a finished recording must find everything released.
- **Files.**  Names are local times with a resolution of a second, and the clock
  may go back; the limit is a signed number compared as an unsigned one; a file
  and its `.bin` are removed in two steps, either of which may throw.

## 2. Modules

Every module keeps the names of the code where TLA+ allows it.  Each action is one
handler, or one blocking call with all that the code does until the next, including
its early returns.  Operators commented
"Seeded fault" are plausible bugs; no specification uses them.

- `VersionOrder`: pure operators.  A version string is abstracted to whether it
  matches the regular expression and the three numbers written in it.  `MaxInt`
  is the largest `int`.
- `Updater` (extends it): a process is at the call `pc[c]`.  `Start` is the entry
  of `update_server` with any arguments.  The next actions follow the code:
  `get_server_version`, `get_version_table`, then HEAD, the retry loop
  (`OpenOutput`, `GetReply`/`GetFails`, `SizeMatches`/`SizeDiffers`,
  `HashMatches`/`HashDiffers`, with `Retry` as its loop condition; `GiveUp` is the
  handler around it, which an `fs::remove` that throws reaches too: `RemovalThrows`),
  `perform_handshake` (`HandshakeReply` also does the `fs::file_size` that follows
  it), `prepare_file_transfer`, `transfer_file`.  `files` is the update
  directory and outlives processes.  External: `Install` and `InstallLate` (the
  server applies an upload, possibly after its client has gone) and `Kill`.  Of the
  server it is assumed that it answers an upload with "success" only after it has
  installed it (`TransferAcked`): the client looks at nothing but that word
  (`updater.cc:386-388`).  It may say "ready" to an empty token (`PrepareReply`).
- `UpdateContract` (extends `VersionOrder`): the same as its callers see it.  A run
  asks for the version, sends at most one, and returns an answer; the server
  installs what was sent before the run returns, later, or never.  There are no
  files, tables, requests or retries.  `Updater` implements it under the mapping
  `Runs`, `Answers`, `Reported`, `Sent`, `Installed`, `Orphans` (at the end of
  `Updater`): a run is "running" at every call, its answer is computed from the
  fields `success` and `update_needed` that callers test, what was sent and
  installed are the versions of `request` and `served`, and the orphans are those
  of `late`.  A download, a retry or a handshake is a stuttering step.
- `WsClient`: `pending` is the set of started operations of the `io_context`,
  `link` the state of the connection, `wire` what the server sent and the client
  has not read, `buffer` is `_buffer` as a sequence of whole messages and
  fragments, `host_ports` how often a port was appended to `_host`.
- `CameraPool`: `available` is `_available_ports`, `camera` the objects by the
  place the application keeps them in, `stream` and `late` the server's side.
  Three history variables remember ports that were copied, lost or released in
  use, to say exactly what is promised about all others.
- `Recording`: `built` says which functions built the pipeline.  `pad` is the
  tee's pad `src_1`, `on` the recording that was linked to it last, and `bin` says
  for each of the fixed names whose element has it.  A call of `start_*_recording`
  is `RequestPad`, one `AddElement` per element, and `Link` or `LinkFails`; `step` is
  its place.  GStreamer, which is external, refuses an element whose name is taken
  and does not link elements that are not in one bin: this is why `CanLink` asks
  whether *this* call's elements hold all names.  `Stop` adds a probe; `Idle` is
  the first callback, which releases the pad; `IdleAgain` those of the repeated stops,
  which find the same elements by name (`probes`, `calls`).  A thread is the list
  of elements that it found and still has to remove (`RemoveElement`, `Finish`).
  `refs` is the reference count; the model ends where it is 0: what follows in the
  program is undefined.  `Build` and `BuildFails` are the functions that construct
  the stream, by the names they use.
- `Fragments`: `file_paths` and `max_files` are the `FileTracker`, whose files are
  known by the second in their names; `video` says which fragment a `.mkv` file holds, `bin`
  which `.bin` files exist.  The streaming thread is in `generate_filename` at
  `call`: `NameFragment` up to the test of the limit, `RemoveVideo`, `RemoveBin`,
  and then splitmuxsink's `OpenFragment`, which creates or truncates the file.  Each
  parser is at `task[t]`: `OpenFile`, `Launch`, and `Pop`, the loop over the bus,
  on which the pipeline posts one final message (`Post`).  `names`, `steady`, `before`
  and `orphan` are history, to say what is promised about which files.
- `MCVersionOrder`, `MCUpdater`, `MCCameraPool`, `MCFragments` define the small instances;
  `WsClient` and `Recording` are checked directly.  `*Proofs` hold the theorems.

## 3. Runs

TLC finds the following (`tlc -config X.cfg M`):

| Run | Distinct states | Question |
|---|---|---|
| `version_order` | 4,225 | Do the comparisons agree with the numbers in the strings, also at the range of `int`? |
| `update_single` | 262,890 | One process, every argument and table, kills at any point: all properties of a process with its own directory, causes of a downgrade, number of calls |
| `update_shared` | 503,261 | Two processes in one directory, with an upload that outlives its client: what still holds, and that `Updater` implements `UpdateContract` |
| `camera_pool` | 208,597 | Who holds each port and who streams to it? |
| `ws_client` | 9,774 | Order and completeness, Host header, the chain, destruction, recovery and delivery |
| `recording` | 719,082 | Start and stop in any order and number, and by a careful application |
| `fragments` | 726,241 | Recordings that follow each other under one path, with a clock that may be set back, and a parser: which files stay? |

and five runs that show a disagreement (section 6).

Properties in words:

- `VerifiedUploads`: what a process with its own directory uploads has the digest
  of the chosen table row and the size it declared, whatever earlier attempts, runs
  and kills left behind.  `SuccessIsInstalled`: a reported success is an
  installation during that run, of the version reported.  `UpgradesOnly`: unless
  the check is skipped, only a newer version than the one read is sent, even when
  an older one was forced.  `SuccessInitialisesResult`: no field that a caller
  reads of a successful result is uninitialised.  `UpdateFileKept`: after success
  the package is still in the directory.  `DowngradeHasCause`: the server goes back to
  an older version only by an upload whose client has gone, a run that skips the check, or
  one that decided with a version the server no longer ran when the upload was
  applied (the code does not look again).  `Termination`: every run returns;
  `RunsAreShort`: after at most `4 * MAX_RETRIES + 7` calls, each with its timeout,
  however the attempts fail.
- `ImplementsContract`: the refinement.  An update is reported only if the one
  version that was sent was installed during the run, "no update needed" only by a
  run that sent nothing, and nothing older is sent unless the check is skipped,
  however two processes overwrite and remove each other's file.
- `EventsInOrder`: messages are delivered in order and at most once, and an event
  ends with one whole message.  `CompleteUntilFailure`: until an operation fails, event
  n is message n, alone, and nothing is missing.  `HostHeader`: one port, however many
  connections came before.  `ChainContinues`: one operation is outstanding until an
  error that is not retried.  `DestructorJoins`, `StableNetworkRecovers`,
  `MessageLeavesSocket`.
- `PortsAccounted`, `PortsExclusive`, `StreamsApart`, and `PoolConserved`: without copies
  and failed constructors, the free ports and the live cameras add up to the pool.
- `LinkedBranchStays`: the elements of a running recording are all in the bin and
  no thread is about to remove one, whatever the application calls, unless a stop was
  repeated before it took effect.  `StoppedBranchGoes`: the elements of a stopped
  recording leave.  `RefsAccounted` and `StartsSucceed`, for careful applications: the
  references balance, and every start succeeds.  `NothingForgotten`, for any application:
  what is left in the bin of a recording that was taken off the tee, some thread will remove.
- `FilesBounded`: a positive `max_files` bounds the files of a recording.
  `NewestKept`: while the clock does not go back, the newest `max_files` fragments
  stay, and all if `max_files` is 0 or negative.  `LostToNamesake`: when the clock does
  go back, one of these is missing only if another fragment has its name, and only
  a later one, or one of the `max_files - 1` before it.  `BinGoesWithVideo`: a `.bin` file goes with
  its `.mkv` file.  `ParseReturns`.

Bounds, and why they are enough:

- Updater: `MaxInt = 2` and three versions give an older, an equal and a newer one: the
  tables offer the newest or the one in between, and the run may force the latter
  (`OlderForce`), so that a decision can be stale in either direction; four contents are an empty, a truncated and two whole packages (one of which
  is the wrong one for the other's row); a digest that no content has; five tables
  for the ways a table can be odd (rows skipped, doubled, missing, broken,
  unusable); `MAX_RETRIES` is the code's 3 in `update_single`, and 1 with two
  processes, where it only repeats what the other process interleaves with.
  `OneLate` (two processes) allows one orphaned upload at a time; with one process
  the set is finite without a bound.  `TokensGiven` (two processes) leaves out what
  follows a handshake without a token, which `update_single` covers: no action of
  either process asks whether there is one.
- WsClient: `MaxSent` is 4: a fragment in the buffer, a message of the old and one
  of the new connection, and one more.  The number of reconnections is not bounded.
- CameraPool: three places, two cameras, two ports: the pool runs empty, and a
  port passes from one camera to another.  `MaxLate = 2` lets two stale requests
  overtake each other.
- Recording: three starts, two stops of which something is outstanding, and three
  references: a recording runs while the thread of an earlier one sleeps or is between two
  removals, and a start fails in between.  Which kind of application it is (`use`),
  and which recording functions it calls (`codec`), is chosen initially.
- Fragments: `max_files` of -1, 0, 1 and 2; four fragments under names of three
  seconds, so that names come again within a recording and between recordings;
  `SizeMod = 16` values of `size_t`, which are more than there are fragments, as the
  assumption demands.  One parser is enough for what a parser and the recorder can
  do to a file.

Runs with `CHECK_DEADLOCK FALSE` are those where the program may stop: a session
whose chain has ended, a pipeline that was given up, a recording for which no
fragment is left.  `MCUpdater` and
`MCCameraPool` never stop.  Symmetry is used only in safety runs, over processes
or objects and cameras that the specification treats alike.

## 4. Fairness

- Updater: `WF(Step(c))`.  Each HTTP call has a `cpr::Timeout` and everything else
  is a local file operation, so that a blocking call of a live process returns.
  Which way it returns is not constrained, and neither servers nor kills are fair.
- WsClient: the operating system runs the thread; resolve, connect, handshake and
  close complete one way or the other (the connection has a timeout of 1 s, handshake and
  close those of Beast's suggested settings, the lookup the resolver's); a read
  completes if there is something to read or the connection is gone.  No success is
  assumed: `StableNetworkRecovers` has it as its premise that failures are finite.
- Recording: a playing pipeline's pad goes idle between two buffers, and a
  sleeping thread wakes up.
- Fragments: a thread that parses goes on (`WF(ParseStep(t))`), and the pipeline it
  has started reads one finite file, so that it comes to EOS or to an error
  (`WF(Post(t))`).  Nothing is assumed of the recording.

## 5. Proofs

All proofs are checked by TLAPS from the assumptions that the modules name
(`MaxIntAssumption`, `UpdaterAssumption`, `MaxSentAssumption`,
`CameraPoolAssumption`, `RecordingAssumption`, `FragmentsAssumption`): types of
constants, `SizeOf[Empty] = 0`, at least one download attempt, fewer fragments than a
`size_t` can count, markers such as `NoFile` outside of the sets they
are added to.

- `VersionOrderProofs`: `Less` is a strict total order on versions and the
  other comparisons are derived from it.  `MCVersionOrderProofs`:
  `ComparisonsMatchTextAlways`, that they agree with the numbers in the strings, for
  every range of `int`.  The reference definition ranks a text by one number; `DigitOrder`
  shows that comparing two-digit numbers is comparing digit by digit, and `RankOrder`
  uses it twice.
- `UpdaterProofs`: `TypeCorrect`, `UploadsAreVerified`, `SuccessMeansInstalled`,
  `SuccessIsInitialised`, `NeverDowngrades`, `FileIsKept`, for any number of
  processes, directories, contents, tables and retries.  `VerifiedUploads` is not
  inductive: it says nothing of the file between the hash and the upload.  The
  inductive invariant is `TypeInv /\ RunInv /\ FileInv /\ VerifiedUploads`.
  `TypeInv` adds that a row is chosen before the first download call and a ticket
  issued before the upload; `RunInv` says what `result`, `served` and `request` are
  at each call; `FileInv` says, for a process alone in its directory, what the file
  is worth at each call: nothing while it downloads, the right digest from
  `handshake` on, the declared size from `prepare` on.  The key lemma is
  `OthersUntouched`: a step of one process leaves the others' files alone.
  `RunsAreBounded` and `DowngradesAreExplained` are about steps: the first rests on
  `CountInv` (no attempt before the first download, at least one after it, never more
  than `MAX_RETRIES`), with a lemma for each way a call can end; the second
  on the guard under which a version was chosen, which `RunInv` carries to the upload.
- `WsClientProofs`: `TypeCorrect`, `HostIsWellFormed`, `ChainIsUnique`,
  `NothingAfterDestruction` from `ChainInv` (exactly one operation besides a close
  is outstanding while no error has stopped the chain), and `DeliveryInOrder` from
  `OrderInv`, which orders what is delivered, buffered and on the wire in one
  increasing sequence.  `FirstConnectionIsComplete` from `CleanInv`: before the first
  failure the buffer is empty, no close is under way, and nothing was sent before the
  connection was open, so that no step but a read takes a message from the wire.
- `CameraPoolProofs`: `TypeCorrect`, `NoPortDisappears`, `PortsAreExclusive`, and
  `StreamsAreApart`, which needs `StreamInv`: a port that was neither copied nor
  abandoned is used by its owner's camera only, if the owner was lost by one
  camera, and by none while it is in the pool.  `PoolIsConserved` follows from the first
  three without a further invariant: the ports that are not free and the live cameras
  are in bijection.
- `UpdaterContractProofs`: `UpdateServerKeepsContract`, that is
  `Spec => ImplementsContract`: the initial states of `Updater` map to those of
  `UpdateContract` and every step to one of its steps or to a stutter, for any
  number of processes.  It rests on the invariant of `UpdaterProofs` and on
  `NotYetAsked` (a run has no version of the server before it has asked for one), with
  one lemma per kind of step: those that go on, that return, and that touch the server.
- `RecordingProofs`: `TypeCorrect`; `RecordingIsNotTakenDown`, for any number of
  recordings: `RunInv` adds `Numbered` (nothing carries a number that was not given yet)
  and `PadInv` (what the pad says about the call of start that is under way);
  `ReferencesBalance` and `CarefulStartsSucceed` from `CarefulInv`: where a careful
  application is in its cycle of start, stop and waiting (`CallInv`), and what the bin
  holds there (`BinInv`).  `CarefulThreadsHavePipeline` is the claim that
  `recording_valid` refutes for other applications: with a careful one it holds.
  `StoppedRecordingIsNotForgotten` from `ForgetInv`, for any application.
- `FragmentsProofs`: `TypeCorrect`; `FilesAreBounded` from `Tracked` (every file
  of this recording is in the tracker) and the length of the tracker at each call;
  `NewestAreKept` from `PlaceTellsAge`: while names increase, the place of a file in
  the tracker says which fragment it holds; `OnlyNamesakesAreLost` from
  `TrackedAreLast`: the tracker holds the last names that were given, so that a removal takes
  the file of the name given `max_files` fragments ago, and any fragment it strikes has that
  name; `BinsGoWithVideos`.  They hold
  for any `max_files`, any number of fragments, seconds and parsers.

Every safety invariant and every action property that a run checks is stated by
one of these theorems.  Only model-checked are the liveness properties (`Termination`,
`StableNetworkRecovers`, `MessageLeavesSocket`, `StoppedBranchGoes`, `ParseReturns`),
because TLAPS does not reason about fairness here; `RunsAreShort` is the part of
`Termination` that does not need it.

## 6. Where code and documentation disagree

Each has a run that checks the claim and finds it violated.

1. `update_leftover`: `updater_test.cc:53` expects no file after a download that
   cannot have the hash; an attempt answered with another status than 200 leaves
   its file (`updater.cc:154-162`), and the run fails with it in place when a later
   attempt cannot open the file or none is left.
2. `update_token`: `updater_test.cc:61` expects a token after a successful
   handshake; `success` is set before the token is read (`updater.cc:233-234`).
3. `ws_stale_buffer`: `_buffer` is not cleared after a failed read, so that the next
   event starts with an old fragment (`ws_client.cc:109-117`).
4. `ws_run_returns`: the comment at `ws_client.cc:174` says that `run()` returns
   when the socket is closed; the session reconnects, and the destructor, which
   waits for `run()`, waits with it.
5. `recording_valid`: the reference that `stop_jpeg_recording` takes "so that
   'pipeline' remains valid" (`xvc.cc:400`) can be dropped by a
   `start_jpeg_recording` that fails (`xvc.cc:372, 387`).

Two smaller ones are visible in the models without a run of their own: the comment
at `updater.cc:515` says the version check can be skipped, but the version is asked
for all the same and its absence is an error (`VersionFails` has no guard); and
`stop_jpeg_recording` without a recording takes a reference to the pipeline that no
thread releases (`Stop` with `pad = "none"`, `xvc.cc:401`), which is why
`RefsAccounted` is about careful applications.

## 7. What the models leave out

- Updater: log messages, URLs, header names, progress callbacks (which only log, and share
  the static `last_progress`); `transfer_file` reads the file and sends
  it in one step; the server is a version and the upload it came from.  Which of
  several equal rows is installed is modelled (`IsFirstRow`).
- WsClient: the endpoint that `connect` picks, TLS and ping frames.  Several
  overlapping closes count as one outstanding operation, and the
  sleep of `reconnect` is part of its step, as nothing else runs on that thread.
  Undefined behaviour has a crash and going on as outcomes: an event handler called
  after it was destroyed (`OnReadCrashes`), and a session destroyed after the
  `io_context` its socket refers to (`Joined`).  A handler that throws ends the thread,
  or the process if it throws something else than a `std::exception` (`OnReadThrows`).
- CameraPool: capabilities and names; `cameras()`; a server that refuses a request
  (nothing changes).  One thread only: the pool has no lock.
- Recording: element properties and the pads' own references; what the callback of
  `stop_h265_recording` removes goes in one step, as nothing waits in between; an element that
  GStreamer creates but refuses to add counts as failing to link; all plug-ins
  are installed (a missing one is a hazard in the list).  The pipeline is only
  built before the first recording.
- Fragments: the names of H.265 fragments, which splitmuxsink forms itself and
  limits by `max-files`; whether the muxer can finish a file after EOS; a file that cannot be
  created; what is in a `.bin` file, which the library xdaqmetadata writes.
- `server.cc` is one GET and its text each, and the tools parse arguments and print: they keep no
  state.  `min_client_version` is parsed from the version table and never compared.
- The data race on the pool, which has no lock, has no outcome to model but arbitrary
  memory; it is in the list of hazards without a property.

## 8. Plan

Done, in this order: `VersionOrder`, `Updater`, `WsClient`, `CameraPool`,
`Recording` with their theorems; `UpdateContract` and the proof that `Updater`
implements it; `Fragments` with its theorems; `Recording` element by element, with
the construction of the pipeline; the comparison with the numbers in the strings, the
bound on the calls of a run, the causes of a downgrade, the conservation of the pool,
the completeness of the first connection, and what becomes of a stopped recording.

Next:

- What a caller of `update_server` can conclude from `UpdateContract` alone, proved there
  and carried over to `Updater` by `UpdateServerKeepsContract`.
- The safety half of the liveness properties, as `RunsAreShort` is of `Termination`:
  for `StoppedBranchGoes`, that every removal shortens what the threads have left to do.

Considered and not done:

- An abstract channel for `WsClient`.  What it would promise, an increasing
  sequence of messages with losses, is `EventsInOrder` and `MessageLeavesSocket`;
  the channel's FIFO order is TCP's and would be copied, not implemented.
- The capabilities of a `Camera`.  They only choose the URL of a request, and
  would multiply the states of `CameraPool` without bearing on a property.
- The progress of transfers (the static `last_progress`): it is only logged.
