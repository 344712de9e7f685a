----------------------------- MODULE Fragments ------------------------------
(***************************************************************************)
(* The files of M-JPEG recordings in xdaqvc/xvc.cc: generate_filename,     *)
(* which the streaming thread calls when a fragment begins, names it by    *)
(* the local time and makes room for it, and parse_video_save_binary_*,    *)
(* which other threads call to write a .bin file next to a .mkv file.      *)
(*                                                                         *)
(* All recordings are given the same path, so that a file is known by the  *)
(* second in its name.  splitmuxsink, which calls generate_filename and    *)
(* then creates the file, and the parsing pipeline are external.           *)
(***************************************************************************)
EXTENDS Integers, Sequences

CONSTANTS
  Parser,        \* the threads that call parse_video_save_binary_*
  MaxFilesArgs,  \* the values of the argument max_files
  SizeMod,       \* the number of values of size_t
  MaxSecond,     \* bound: local times
  MaxFragments   \* bound: fragments of all recordings

ASSUME FragmentsAssumption ==
  /\ SizeMod \in Nat /\ MaxSecond \in Nat \ {0} /\ MaxFragments \in Nat
  /\ MaxFilesArgs \subseteq Int
  /\ \A n \in MaxFilesArgs : MaxFragments < SizeMod + n /\ n < SizeMod

VARIABLES
  recording,   \* whether a recording runs
  max_files, file_paths,  \* its FileTracker
  fragments,   \* fragments so far, which numbers them
  before,      \* how many of them are of earlier recordings
  last,        \* the name of the last fragment
  names,       \* history: the names of the fragments of this recording
  steady,      \* history: each of them is later than the one before
  call,        \* what the streaming thread does next, "mux" between fragments
  video, bin,  \* the .mkv files, by the fragment they hold, and the .bin files
  orphan,      \* .bin files that were opened, or left behind, without a .mkv
  task, path, bus  \* per parser: the next step, its argument, its pipeline's bus

vars == <<recording, max_files, file_paths, fragments, before, last, names,
          steady, call, video, bin, orphan, task, path, bus>>
recorder == <<recording, max_files, file_paths, fragments, before, last, names,
              steady, call>>
disk == <<video, bin, orphan>>
parsers == <<task, path, bus>>

Second == 1 .. MaxSecond
NoPath == 0
NoFragment == 0
Fragment == 1 .. MaxFragments

-----------------------------------------------------------------------------
(* Recording.                                                               *)

\* static_cast<size_t>(max_files)
SizeT(n) == IF n < 0 THEN SizeMod + n ELSE n

\* A new FileTracker, which knows nothing of the files of earlier recordings.
StartRecording ==
  /\ ~recording
  /\ recording' = TRUE
  /\ max_files' \in MaxFilesArgs
  /\ file_paths' = <<>>
  /\ before' = fragments
  /\ last' = NoPath
  /\ names' = <<>>
  /\ steady' = TRUE
  /\ UNCHANGED <<fragments, call, disk, parsers>>

StopRecording ==
  /\ recording /\ call = "mux"
  /\ recording' = FALSE
  /\ UNCHANGED <<max_files, file_paths, fragments, before, last, names, steady, call,
                 disk, parsers>>

\* Seeded fault: one file too many is kept.
TooManyIncludingNext(n) == n > SizeT(max_files) + 1

\* Seeded fault: one file too few is kept.
TooManyAlready(n) == n >= SizeT(max_files)

TooMany(n) == n > SizeT(max_files)

\* Seeded fault: the name is formed before the time has been converted.
NameFragmentUnset ==
  /\ recording /\ call = "mux" /\ fragments < MaxFragments
  /\ fragments' = fragments + 1
  /\ file_paths' = Append(file_paths, last)
  /\ names' = Append(names, last)
  /\ call' = IF TooMany(Len(file_paths) + 1) THEN "removeVideo" ELSE "open"
  /\ UNCHANGED <<recording, max_files, before, last, steady, disk, parsers>>

\* generate_filename up to the removal of the oldest file.  The local time is
\* usually later than the last, but the clock may have been set back, if only
\* because summer time ended.
NameFragment ==
  /\ recording /\ call = "mux" /\ fragments < MaxFragments
  /\ fragments' = fragments + 1
  /\ \E now \in Second :
       /\ file_paths' = Append(file_paths, now)
       /\ last' = now
       /\ names' = Append(names, now)
       /\ steady' = IF last < now THEN steady ELSE FALSE
  /\ call' = IF TooMany(Len(file_paths) + 1) THEN "removeVideo" ELSE "open"
  /\ UNCHANGED <<recording, max_files, before, disk, parsers>>

RemoveVideo ==
  /\ call = "removeVideo"
  /\ video' = [video EXCEPT ![Head(file_paths)] = NoFragment]
  /\ call' = "removeBin"
  /\ UNCHANGED <<recording, max_files, file_paths, fragments, before, last, names, steady,
                 bin, orphan, parsers>>

\* Seeded fault: the .bin file stays.
RemoveVideoOnly ==
  /\ call = "removeBin"
  /\ file_paths' = Tail(file_paths)
  /\ call' = "open"
  /\ UNCHANGED <<recording, max_files, fragments, before, last, names, steady,
                 disk, parsers>>

RemoveBin ==
  /\ call = "removeBin"
  /\ bin' = [bin EXCEPT ![Head(file_paths)] = "none"]
  /\ orphan' = orphan \ {Head(file_paths)}
  /\ file_paths' = Tail(file_paths)
  /\ call' = "open"
  /\ UNCHANGED <<recording, max_files, fragments, before, last, names, steady,
                 video, parsers>>

\* fs::remove throws, as it does for a file that somebody has open on Windows,
\* and the exception leaves a callback of C code: the process is terminated.
RemovalThrows ==
  /\ call \in {"removeVideo", "removeBin"}
  /\ recording' = FALSE /\ call' = "mux"
  /\ orphan' = IF call = "removeBin" THEN orphan \cup {Head(file_paths)} ELSE orphan
  /\ task' = [t \in Parser |-> "idle"]
  /\ path' = [t \in Parser |-> NoPath]
  /\ bus' = [t \in Parser |-> "none"]
  /\ UNCHANGED <<max_files, file_paths, fragments, before, last, names, steady,
                 video, bin>>

\* splitmuxsink creates the file, or truncates the one that has its name.
OpenFragment ==
  /\ call = "open"
  /\ video' = [video EXCEPT ![last] = fragments]
  /\ call' = "mux"
  /\ UNCHANGED <<recording, max_files, file_paths, fragments, before, last, names, steady,
                 bin, orphan, parsers>>

-----------------------------------------------------------------------------
(* Parsing.                                                                 *)

Goto(t, step) == task' = [task EXCEPT ![t] = step]

\* The pipeline and the name of its file are given up.
Return(t) ==
  /\ Goto(t, "idle")
  /\ path' = [path EXCEPT ![t] = NoPath]
  /\ bus' = [bus EXCEPT ![t] = "none"]
  /\ UNCHANGED <<recorder, disk>>

\* A caller that has found a .mkv file in the directory.
Parse(t) ==
  /\ task[t] = "idle"
  /\ \E p \in Second :
       video[p] # NoFragment /\ path' = [path EXCEPT ![t] = p]
  /\ Goto(t, "openFile")
  /\ UNCHANGED <<recorder, disk, bus>>

\* The .bin file is opened before anything looks for the .mkv file.
OpenFile(t) ==
  /\ task[t] = "openFile"
  /\ bin' = [bin EXCEPT ![path[t]] = "file"]
  /\ orphan' = IF video[path[t]] = NoFragment THEN orphan \cup {path[t]} ELSE orphan
  /\ Goto(t, "launch")
  /\ UNCHANGED <<recorder, video, path, bus>>

Launch(t) ==
  /\ task[t] = "launch"
  /\ Goto(t, "wait")
  /\ UNCHANGED <<recorder, disk, path, bus>>

LaunchFails(t) == task[t] = "launch" /\ Return(t)

\* The pipeline posts its last message: it has read the file, or could not.
Post(t) ==
  /\ task[t] = "wait" /\ bus[t] = "none"
  /\ \E message \in {"EOS", "ERROR"} : bus' = [bus EXCEPT ![t] = message]
  /\ UNCHANGED <<recorder, disk, task, path>>

\* Seeded fault: only EOS ends the loop.
PopIgnoresErrors(t) == task[t] = "wait" /\ bus[t] = "EOS" /\ Return(t)

\* gst_bus_timed_pop_filtered returns one of the two messages, which ends the
\* loop; the rounds that time out after 100 ms change nothing.
Pop(t) == task[t] = "wait" /\ bus[t] # "none" /\ Return(t)

-----------------------------------------------------------------------------
Init ==
  /\ recording = FALSE /\ max_files \in MaxFilesArgs /\ file_paths = <<>>
  /\ fragments = 0 /\ before = 0 /\ last = NoPath
  /\ names = <<>> /\ steady = TRUE /\ call = "mux"
  /\ video = [p \in Second |-> NoFragment]
  /\ bin = [p \in Second |-> "none"]
  /\ orphan = {}
  /\ task = [t \in Parser |-> "idle"]
  /\ path = [t \in Parser |-> NoPath]
  /\ bus = [t \in Parser |-> "none"]

Recorder ==
  \/ StartRecording \/ StopRecording
  \/ NameFragment \/ RemoveVideo \/ RemoveBin \/ RemovalThrows \/ OpenFragment

ParseStep(t) == OpenFile(t) \/ Launch(t) \/ LaunchFails(t) \/ Pop(t)

Next ==
  \/ Recorder
  \/ \E t \in Parser : Parse(t) \/ ParseStep(t) \/ Post(t)

\* A thread that parses goes on, and a pipeline that reads one finite file
\* comes to its end or to an error.
Fairness == \A t \in Parser : WF_vars(ParseStep(t)) /\ WF_vars(Post(t))

Spec == Init /\ [][Next]_vars /\ Fairness

-----------------------------------------------------------------------------
TypeOK ==
  /\ recording \in BOOLEAN /\ max_files \in MaxFilesArgs
  /\ file_paths \in Seq(Second)
  /\ fragments \in 0 .. MaxFragments /\ before \in 0 .. fragments
  /\ last \in Second \cup {NoPath}
  /\ names \in Seq(Second) /\ steady \in BOOLEAN
  /\ call \in {"mux", "removeVideo", "removeBin", "open"}
  /\ video \in [Second -> Fragment \cup {NoFragment}]
  /\ bin \in [Second -> {"none", "file"}]
  /\ orphan \subseteq Second
  /\ task \in [Parser -> {"idle", "openFile", "launch", "wait"}]
  /\ path \in [Parser -> Second \cup {NoPath}]
  /\ bus \in [Parser -> {"none", "EOS", "ERROR"}]

(* With a positive max_files, a recording has no more than max_files files  *)
(* on disk, even if the clock is set back and names come again: whatever it *)
(* wrote and has not removed is still in file_paths (xvc.cc:71-81).         *)
FilesBounded ==
  recording /\ max_files >= 1 =>
    /\ \A p \in Second : video[p] > before =>
         \E i \in DOMAIN file_paths : file_paths[i] = p
    /\ call \in {"mux", "open"} => Len(file_paths) <= max_files

\* The fragments of this recording whose files have been created.
Opened == before + 1 .. IF call = "mux" THEN fragments ELSE fragments - 1

\* Fragment j has the name of k, and k may lose its file with it.
Shadows(j, k) ==
  /\ names[j - before] = names[k - before]
  /\ j > k \/ (j < k /\ k < j + max_files)

(* While the clock is not set back, the newest max_files fragments stay on  *)
(* disk, and all of them if max_files is 0 or negative: the conversion to   *)
(* size_t and the entry that is forgotten at once make both unlimited       *)
(* (xvc.cc:71-81).                                                          *)
NewestKept ==
  recording /\ steady =>
    \A k \in Opened :
      max_files <= 0 \/ k > fragments - max_files => \E p \in Second : video[p] = k

(* Even if the clock is set back, one of the newest max_files fragments is  *)
(* missing only if another one has its name: a later one, which truncates   *)
(* the file or is forgotten with it, or one of the max_files - 1 before it, *)
(* whose removal takes the file of both (xvc.cc:69-83).                     *)
LostToNamesake ==
  recording =>
    \A k \in Opened :
      \/ max_files >= 1 /\ k <= fragments - max_files
      \/ video[names[k - before]] = k
      \/ \E j \in before + 1 .. fragments : Shadows(j, k)

(* A .bin file disappears with its .mkv file, unless a parser opened it     *)
(* after the .mkv file was gone, or the removal was cut short by an         *)
(* exception (xvc.cc:76-79, 528-535).                                       *)
BinGoesWithVideo ==
  \A p \in Second : bin[p] = "file" /\ video[p] = NoFragment =>
    p \in orphan \/ (call = "removeBin" /\ p = Head(file_paths))

(* parse_video_save_binary_* returns: the loop has no time limit, but ends  *)
(* with either message (xvc.cc:575-608, 661-694).                           *)
ParseReturns == \A t \in Parser : task[t] # "idle" ~> task[t] = "idle"
=============================================================================
