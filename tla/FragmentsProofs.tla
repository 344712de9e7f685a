--------------------------- MODULE FragmentsProofs --------------------------
(* What generate_filename and parse_video_save_binary_* guarantee about the  *)
(* files of recordings, for any number of fragments and parsing threads and  *)
(* every value of max_files.                                                 *)
EXTENDS Fragments, SequenceTheorems, TLAPS

USE DEF recorder, disk, parsers, Second, Fragment, NoFragment, NoPath

\* A step of a parsing thread or of its pipeline.
Parses(t) == Parse(t) \/ ParseStep(t) \/ Post(t)

-----------------------------------------------------------------------------
(* Types.                                                                   *)

\* A name is being made room for or opened only while a recording runs, and a
\* removal is of a file that is in file_paths.
Busy ==
  /\ call # "mux" => recording /\ fragments > before
  /\ call \in {"removeVideo", "removeBin"} => file_paths # <<>>
  /\ recording /\ fragments > before => last \in Second

\* A thread that parses knows the name of its file.
HasPath == \A t \in Parser : task[t] # "idle" => path[t] \in Second

TypeInv == TypeOK /\ Busy /\ HasPath

\* The oldest name, and what is left of file_paths without it.
LEMMA HeadAndTail ==
  ASSUME TypeOK, file_paths # <<>>
  PROVE  /\ Len(file_paths) \in Nat \ {0} /\ DOMAIN file_paths = 1 .. Len(file_paths)
         /\ Head(file_paths) = file_paths[1] /\ Head(file_paths) \in Second
         /\ Tail(file_paths) \in Seq(Second)
         /\ Len(Tail(file_paths)) = Len(file_paths) - 1
         /\ \A i \in 1 .. Len(file_paths) - 1 : Tail(file_paths)[i] = file_paths[i + 1]
<1>1. file_paths \in Seq(Second)
  BY DEF TypeOK
<1>2. Len(file_paths) \in Nat \ {0} /\ DOMAIN file_paths = 1 .. Len(file_paths)
  BY <1>1, EmptySeq, LenProperties
<1>3. Head(file_paths) = file_paths[1]
  BY <1>1
<1>4. QED
  BY <1>1, <1>2, <1>3, HeadTailProperties

\* A name that is added to file_paths.
LEMMA Appended ==
  ASSUME TypeOK, NEW p \in Second
  PROVE  /\ Append(file_paths, p) \in Seq(Second) /\ Append(file_paths, p) # <<>>
         /\ Len(file_paths) \in Nat
         /\ Len(Append(file_paths, p)) = Len(file_paths) + 1
         /\ \A i \in 1 .. Len(file_paths) : Append(file_paths, p)[i] = file_paths[i]
         /\ Append(file_paths, p)[Len(file_paths) + 1] = p
<1>1. file_paths \in Seq(Second)
  BY DEF TypeOK
<1>2. QED
  BY <1>1, AppendProperties, LenProperties

\* A parsing thread changes nothing that a recording depends on.
LEMMA ParsesType ==
  ASSUME TypeInv, NEW t \in Parser, Parses(t)
  PROVE  TypeInv' /\ UNCHANGED <<recorder, video>>
<1> USE DEF TypeInv, TypeOK, Busy, HasPath, Goto, Return
<1>1. CASE Parse(t)
  BY <1>1 DEF Parse
<1>2. CASE OpenFile(t)
  <2>1. path[t] \in Second
    BY <1>2 DEF OpenFile
  <2>2. QED
    BY <1>2, <2>1 DEF OpenFile
<1>3. CASE Launch(t)
  BY <1>3 DEF Launch
<1>4. CASE LaunchFails(t)
  BY <1>4 DEF LaunchFails
<1>5. CASE Pop(t)
  BY <1>5 DEF Pop
<1>6. CASE Post(t)
  BY <1>6 DEF Post
<1>7. QED
  BY <1>1, <1>2, <1>3, <1>4, <1>5, <1>6 DEF Parses, ParseStep

\* The streaming thread and the application preserve the types.
LEMMA RecorderType == TypeInv /\ Recorder => TypeInv'
<1> SUFFICES ASSUME TypeInv, Recorder PROVE TypeInv'
  OBVIOUS
<1> USE FragmentsAssumption DEF TypeInv, TypeOK, Busy, HasPath
<1>1. CASE StartRecording
  BY <1>1, EmptySeq DEF StartRecording
<1>2. CASE StopRecording
  BY <1>2 DEF StopRecording
<1>3. CASE NameFragment
  <2>1. PICK p \in Second : file_paths' = Append(file_paths, p) /\ last' = p
    BY <1>3 DEF NameFragment
  <2>2. file_paths' \in Seq(Second) /\ file_paths' # <<>>
    BY <2>1, Appended
  <2>7. names' \in Seq(Second)
    <3>1. \E now \in Second : names' = Append(names, now)
      BY <1>3 DEF NameFragment
    <3>2. QED
      BY <3>1, AppendProperties
  <2>3. UNCHANGED <<recording, max_files, before, disk, parsers>>
        /\ recording /\ fragments' = fragments + 1 /\ fragments < MaxFragments
        /\ call' \in {"removeVideo", "open"} /\ steady' \in BOOLEAN
    BY <1>3 DEF NameFragment
  <2>4. TypeOK'
    BY <2>1, <2>2, <2>3, <2>7
  <2>5. Busy' /\ HasPath'
    BY <2>1, <2>2, <2>3
  <2>6. QED
    BY <2>4, <2>5
<1>4. CASE RemoveVideo
  BY <1>4, HeadAndTail DEF RemoveVideo
<1>5. CASE RemoveBin
  BY <1>5, HeadAndTail DEF RemoveBin
<1>6. CASE RemovalThrows
  BY <1>6, HeadAndTail DEF RemovalThrows
<1>7. CASE OpenFragment
  BY <1>7 DEF OpenFragment
<1>8. QED
  BY <1>1, <1>2, <1>3, <1>4, <1>5, <1>6, <1>7 DEF Recorder

\* The variables start with their types.
LEMMA InitialType == Init => TypeInv
<1> SUFFICES ASSUME Init PROVE TypeInv
  OBVIOUS
<1>1. file_paths \in Seq(Second) /\ names \in Seq(Second)
  BY EmptySeq DEF Init
<1>2. TypeOK
  <2>1. recording \in BOOLEAN /\ steady \in BOOLEAN /\ max_files \in MaxFilesArgs
        /\ call = "mux" /\ orphan \subseteq Second
    BY DEF Init
  <2>2. fragments \in 0 .. MaxFragments /\ before \in 0 .. fragments /\ last = NoPath
    BY FragmentsAssumption DEF Init
  <2>3. /\ video \in [Second -> Fragment \cup {NoFragment}]
        /\ bin \in [Second -> {"none", "file"}]
        /\ task \in [Parser -> {"idle", "openFile", "launch", "wait"}]
        /\ path \in [Parser -> Second \cup {NoPath}]
        /\ bus \in [Parser -> {"none", "EOS", "ERROR"}]
    BY DEF Init
  <2>4. QED
    BY <1>1, <2>1, <2>2, <2>3 DEF TypeOK
<1>3. Busy /\ HasPath
  BY DEF Init, Busy, HasPath
<1>4. QED
  BY <1>2, <1>3 DEF TypeInv

\* Every step preserves the types.
LEMMA NextType == TypeInv /\ [Next]_vars => TypeInv'
<1> SUFFICES ASSUME TypeInv, [Next]_vars PROVE TypeInv'
  OBVIOUS
<1>1. CASE Recorder
  BY <1>1, RecorderType
<1>2. ASSUME NEW t \in Parser, Parses(t) PROVE TypeInv'
  BY <1>2, ParsesType
<1>3. CASE UNCHANGED vars
  BY <1>3 DEF vars, TypeInv, TypeOK, Busy, HasPath
<1>4. QED
  BY <1>1, <1>2, <1>3 DEF Next, Parses

(* Every variable keeps its type: the oldest name is only taken from a      *)
(* file_paths that has one (xvc.cc:73-81).                                  *)
THEOREM TypeCorrect == Spec => []TypeOK
<1>1. TypeInv => TypeOK
  BY DEF TypeInv
<1>2. QED
  BY <1>1, InitialType, NextType, PTL DEF Spec

-----------------------------------------------------------------------------
(* What the recording keeps.  Every conjunct is about the recording that     *)
(* runs; the files of earlier ones are numbered up to before.                *)

Removing == call \in {"removeVideo", "removeBin"}

\* No file holds a fragment that has not been created yet.
NoneAhead == \A p \in Second : video[p] <= IF call = "mux" THEN fragments ELSE fragments - 1

\* FileTracker: its length, and that its last entry is the current name.  With
\* max_files = 0 it is empty, but for the moment before it forgets that name.
TrackerInv ==
  recording =>
    /\ Len(file_paths) <= fragments - before
    /\ max_files >= 0 /\ ~Removing => Len(file_paths) <= max_files
    /\ Removing => max_files >= 0 /\ Len(file_paths) = max_files + 1
    /\ max_files >= 1 /\ fragments > before => file_paths # <<>>
    /\ file_paths # <<>> => file_paths[Len(file_paths)] = last

\* What the recording wrote and has not removed is tracked.
Tracked ==
  recording /\ max_files >= 1 =>
    \A p \in Second : video[p] > before => \E i \in DOMAIN file_paths : file_paths[i] = p

\* The file whose name is removed next is gone.
HeadGone == call = "removeBin" => video[Head(file_paths)] = NoFragment

BoundInv == TypeInv /\ NoneAhead /\ TrackerInv /\ Tracked /\ HeadGone

LEMMA BoundInit == Init => BoundInv
BY InitialType DEF Init, BoundInv, NoneAhead, TrackerInv, Tracked, HeadGone, Removing

\* A removal starts when there is one name more than max_files.
LEMMA TooManyNames ==
  ASSUME BoundInv, NameFragment
  PROVE  IF max_files >= 0 /\ Len(file_paths) = max_files
           THEN call' = "removeVideo" ELSE call' = "open"
<1>1. Len(file_paths) \in Nat /\ recording /\ fragments \in Nat /\ before \in Nat
      /\ fragments < MaxFragments /\ call = "mux"
  BY FragmentsAssumption DEF BoundInv, TypeInv, TypeOK, NameFragment
<1>2. Len(file_paths) <= fragments
      /\ (max_files >= 0 => Len(file_paths) <= max_files)
  <2>1. ~Removing
    BY <1>1 DEF Removing
  <2>2. max_files \in Int
    BY FragmentsAssumption DEF BoundInv, TypeInv, TypeOK
  <2>3. Len(file_paths) <= fragments - before
        /\ (max_files >= 0 => Len(file_paths) <= max_files)
    BY <1>1, <2>1 DEF BoundInv, TrackerInv
  <2>4. QED
    BY <1>1, <2>2, <2>3
<1>3. max_files \in Int /\ MaxFragments < SizeMod + max_files
      /\ MaxFragments \in Nat /\ SizeMod \in Nat
  BY FragmentsAssumption DEF BoundInv, TypeInv, TypeOK
<1>4. TooMany(Len(file_paths) + 1) <=> max_files >= 0 /\ Len(file_paths) = max_files
  BY <1>1, <1>2, <1>3 DEF TooMany, SizeT
<1>5. QED
  BY <1>4 DEF NameFragment

\* A name that comes.
LEMMA BoundName ==
  ASSUME BoundInv, NameFragment
  PROVE  BoundInv'
<1>1. TypeInv /\ TypeOK /\ TypeInv'
  BY RecorderType DEF BoundInv, TypeInv, Recorder
<1>2. PICK p \in Second : file_paths' = Append(file_paths, p) /\ last' = p
  BY DEF NameFragment
<1>3. /\ Len(file_paths) \in Nat /\ Len(file_paths') = Len(file_paths) + 1
      /\ file_paths' # <<>> /\ file_paths'[Len(file_paths')] = last'
      /\ \A i \in 1 .. Len(file_paths) : file_paths'[i] = file_paths[i]
      /\ DOMAIN file_paths = 1 .. Len(file_paths)
      /\ DOMAIN file_paths' = 1 .. Len(file_paths')
  BY <1>1, <1>2, Appended, LenProperties DEF TypeInv, TypeOK
<1>4. /\ fragments \in Nat /\ before \in Nat /\ fragments' = fragments + 1
      /\ max_files \in Int /\ call = "mux" /\ recording
      /\ UNCHANGED <<max_files, before, recording, video>>
  BY <1>1, FragmentsAssumption DEF TypeOK, NameFragment
<1>5. IF max_files >= 0 /\ Len(file_paths) = max_files
        THEN call' = "removeVideo" ELSE call' = "open"
  BY TooManyNames
<1>6. NoneAhead'
  <2>1. \A p1 \in Second : video[p1] <= fragments
    BY <1>4 DEF BoundInv, NoneAhead
  <2>2. call' # "mux"
    BY <1>5
  <2>3. \A p1 \in Second : video'[p1] <= fragments' - 1
    BY <1>4, <2>1
  <2>4. QED
    BY <2>2, <2>3 DEF NoneAhead
<1>7. TrackerInv'
  <2>1. /\ Len(file_paths) <= fragments - before
        /\ max_files >= 0 => Len(file_paths) <= max_files
    BY <1>4 DEF BoundInv, TrackerInv, Removing
  <2>2. CASE max_files >= 0 /\ Len(file_paths) = max_files
    <3>1. Removing' /\ call' = "removeVideo"
      BY <1>5, <2>2 DEF Removing
    <3>2. QED
      BY <1>3, <1>4, <2>1, <2>2, <3>1 DEF TrackerInv
  <2>3. CASE ~(max_files >= 0 /\ Len(file_paths) = max_files)
    <3>1. ~Removing'
      BY <1>5, <2>3 DEF Removing
    <3>2. Len(file_paths') <= fragments' - before'
      BY <1>3, <1>4, <2>1
    <3>3. max_files' >= 0 => Len(file_paths') <= max_files'
      <4>1. Len(file_paths) \in Nat /\ Len(file_paths') = Len(file_paths) + 1
            /\ max_files' = max_files /\ max_files \in Int
        BY <1>3, <1>4
      <4>2. max_files >= 0 => Len(file_paths) <= max_files /\ Len(file_paths) # max_files
        BY <2>1, <2>3
      <4>3. QED
        BY <4>1, <4>2
    <3>4. QED
      BY <1>3, <3>1, <3>2, <3>3 DEF TrackerInv
  <2>4. QED
    BY <2>2, <2>3
<1>8. Tracked'
  BY <1>3, <1>4 DEF BoundInv, Tracked
<1>9. HeadGone'
  BY <1>5 DEF HeadGone
<1>10. QED
  BY <1>1, <1>6, <1>7, <1>8, <1>9 DEF BoundInv

\* The oldest file is removed.
LEMMA BoundRemoveVideo ==
  ASSUME BoundInv, RemoveVideo
  PROVE  BoundInv'
<1>1. TypeInv /\ TypeOK /\ TypeInv'
  BY RecorderType DEF BoundInv, TypeInv, Recorder
<1>2. /\ file_paths # <<>> /\ Head(file_paths) \in Second
      /\ call = "removeVideo" /\ call' = "removeBin"
      /\ video' = [video EXCEPT ![Head(file_paths)] = NoFragment]
      /\ UNCHANGED <<file_paths, max_files, before, fragments, recording, last>>
  BY <1>1, HeadAndTail DEF RemoveVideo, TypeInv, Busy
<1>3. \A p \in Second : video'[p] = IF p = Head(file_paths) THEN 0 ELSE video[p]
  BY <1>1, <1>2 DEF TypeOK
<1>4. fragments \in Nat /\ before \in Nat /\ fragments > before
  BY <1>1, <1>2, FragmentsAssumption DEF TypeInv, TypeOK, Busy
<1>5. NoneAhead'
  BY <1>2, <1>3, <1>4 DEF BoundInv, NoneAhead
<1>6. TrackerInv'
  BY <1>2 DEF BoundInv, TrackerInv, Removing
<1>7. Tracked'
  BY <1>2, <1>3, <1>4 DEF BoundInv, Tracked
<1>8. HeadGone'
  BY <1>2, <1>3 DEF HeadGone
<1>9. QED
  BY <1>1, <1>5, <1>6, <1>7, <1>8 DEF BoundInv

\* Its name is forgotten.
LEMMA BoundRemoveBin ==
  ASSUME BoundInv, RemoveBin
  PROVE  BoundInv'
<1>1. TypeInv /\ TypeOK /\ TypeInv'
  BY RecorderType DEF BoundInv, TypeInv, Recorder
<1>2. /\ file_paths # <<>> /\ call = "removeBin" /\ call' = "open" /\ recording
      /\ file_paths' = Tail(file_paths)
      /\ UNCHANGED <<video, max_files, before, fragments, recording, last>>
  BY <1>1 DEF RemoveBin, TypeInv, Busy
<1>3. /\ Len(file_paths) \in Nat \ {0} /\ Head(file_paths) = file_paths[1]
      /\ Len(file_paths') = Len(file_paths) - 1
      /\ \A i \in 1 .. Len(file_paths) - 1 : file_paths'[i] = file_paths[i + 1]
      /\ DOMAIN file_paths = 1 .. Len(file_paths)
      /\ DOMAIN file_paths' = 1 .. Len(file_paths')
  BY <1>1, <1>2, HeadAndTail, LenProperties
<1>4. fragments \in Nat /\ before \in Nat /\ max_files \in Int
      /\ max_files >= 0 /\ Len(file_paths) = max_files + 1
      /\ Len(file_paths) <= fragments - before
      /\ file_paths[Len(file_paths)] = last
  BY <1>1, <1>2, FragmentsAssumption
  DEF TypeInv, TypeOK, Busy, BoundInv, TrackerInv, Removing
<1>5. NoneAhead'
  BY <1>2 DEF BoundInv, NoneAhead
<1>6. TrackerInv'
  <2>1. ~Removing'
    BY <1>2 DEF Removing
  <2>2. file_paths' # <<>> => file_paths'[Len(file_paths')] = last
    <3>1. file_paths' # <<>> => Len(file_paths') \in Nat \ {0}
      BY <1>1, EmptySeq DEF TypeInv, TypeOK
    <3>2. QED
      BY <1>3, <1>4, <3>1
  <2>3. max_files >= 1 => file_paths' # <<>>
    <3>1. max_files >= 1 => Len(file_paths') # 0
      BY <1>3, <1>4
    <3>2. QED
      BY <3>1, EmptySeq
  <2>4. QED
    BY <1>2, <1>3, <1>4, <2>1, <2>2, <2>3 DEF TrackerInv
<1>7. Tracked'
  <2> SUFFICES ASSUME max_files >= 1, NEW p \in Second, video[p] > before
               PROVE  \E i \in DOMAIN file_paths' : file_paths'[i] = p
    BY <1>2 DEF Tracked
  <2>1. PICK i \in 1 .. Len(file_paths) : file_paths[i] = p
    BY <1>2, <1>3 DEF BoundInv, Tracked
  <2>2. i # 1
    BY <1>2, <1>3, <1>4, <2>1 DEF BoundInv, HeadGone
  <2>3. i - 1 \in 1 .. Len(file_paths') /\ file_paths'[i - 1] = p
    BY <1>3, <2>1, <2>2
  <2>4. QED
    BY <1>3, <2>3
<1>8. HeadGone'
  BY <1>2 DEF HeadGone
<1>9. QED
  BY <1>1, <1>5, <1>6, <1>7, <1>8 DEF BoundInv

\* The new file is created.
LEMMA BoundOpen ==
  ASSUME BoundInv, OpenFragment
  PROVE  BoundInv'
<1>1. TypeInv /\ TypeOK /\ TypeInv'
  BY RecorderType DEF BoundInv, TypeInv, Recorder
<1>2. /\ call = "open" /\ call' = "mux" /\ recording /\ fragments > before
      /\ last \in Second /\ video' = [video EXCEPT ![last] = fragments]
      /\ UNCHANGED <<file_paths, max_files, before, fragments, recording, last>>
  BY <1>1 DEF OpenFragment, TypeInv, Busy
<1>3. \A p \in Second : video'[p] = IF p = last THEN fragments ELSE video[p]
  BY <1>1, <1>2 DEF TypeOK
<1>4. fragments \in Nat /\ before \in Nat /\ max_files \in Int
      /\ video \in [Second -> Nat]
  BY <1>1, FragmentsAssumption DEF TypeOK
<1>5. NoneAhead'
  BY <1>2, <1>3, <1>4 DEF BoundInv, NoneAhead
<1>6. TrackerInv'
  BY <1>2 DEF BoundInv, TrackerInv, Removing
<1>7. Tracked'
  <2> SUFFICES ASSUME max_files >= 1, NEW p \in Second, video'[p] > before
               PROVE  \E i \in DOMAIN file_paths : file_paths[i] = p
    BY <1>2 DEF Tracked
  <2>1. CASE p = last
    <3>1. file_paths # <<>> /\ file_paths[Len(file_paths)] = last
      BY <1>2 DEF BoundInv, TrackerInv
    <3>2. Len(file_paths) \in DOMAIN file_paths
      BY <1>1, <3>1, HeadAndTail
    <3>3. QED
      BY <2>1, <3>1, <3>2
  <2>2. CASE p # last
    BY <1>2, <1>3, <2>2 DEF BoundInv, Tracked
  <2>3. QED
    BY <2>1, <2>2
<1>8. HeadGone'
  BY <1>2 DEF HeadGone
<1>9. QED
  BY <1>1, <1>5, <1>6, <1>7, <1>8 DEF BoundInv

\* A recording that begins, ends or is cut short.
LEMMA BoundOther ==
  ASSUME BoundInv, StartRecording \/ StopRecording \/ RemovalThrows
  PROVE  BoundInv'
<1>1. TypeInv /\ TypeOK /\ TypeInv'
  BY RecorderType DEF BoundInv, TypeInv, Recorder
<1>2. fragments \in Nat /\ video \in [Second -> Nat]
  BY <1>1, FragmentsAssumption DEF TypeOK
<1>3. \A p \in Second : video[p] <= fragments
  BY <1>2 DEF BoundInv, NoneAhead
<1>4. CASE StartRecording
  <2>1. /\ file_paths' = <<>> /\ before' = fragments /\ call = "mux"
        /\ UNCHANGED <<fragments, video, call>>
    BY <1>1, <1>4 DEF StartRecording, TypeInv, Busy
  <2>2. Len(file_paths') = 0
    BY <2>1
  <2>3. NoneAhead' /\ HeadGone'
    BY <1>3, <2>1 DEF NoneAhead, HeadGone
  <2>4. TrackerInv'
    <3>1. ~Removing'
      BY <2>1 DEF Removing
    <3>2. Len(file_paths') <= fragments' - before' /\ ~(fragments' > before')
      BY <1>2, <2>1, <2>2
    <3>3. max_files' >= 0 => Len(file_paths') <= max_files'
      <4>1. max_files' \in Int
        BY <1>1, FragmentsAssumption DEF TypeInv, TypeOK
      <4>2. QED
        BY <2>2, <4>1
    <3>4. QED
      BY <2>1, <3>1, <3>2, <3>3 DEF TrackerInv
  <2>5. Tracked'
    BY <1>2, <1>3, <2>1 DEF Tracked
  <2>6. QED
    BY <1>1, <2>3, <2>4, <2>5 DEF BoundInv
<1>5. CASE StopRecording \/ RemovalThrows
  <2>1. ~recording' /\ call' = "mux" /\ UNCHANGED <<fragments, video>>
    BY <1>5 DEF StopRecording, RemovalThrows
  <2>2. QED
    BY <1>1, <1>3, <2>1 DEF BoundInv, NoneAhead, TrackerInv, Tracked, HeadGone
<1>6. QED
  BY <1>4, <1>5

\* Steps that change nothing of the recording and its files.
LEMMA BoundFrame ==
  ASSUME BoundInv, TypeInv', UNCHANGED <<recorder, video>>
  PROVE  BoundInv'
BY DEF BoundInv, NoneAhead, TrackerInv, Tracked, HeadGone, Removing

\* Every step preserves the invariant.
LEMMA BoundNext == BoundInv /\ [Next]_vars => BoundInv'
<1> SUFFICES ASSUME BoundInv, [Next]_vars PROVE BoundInv'
  OBVIOUS
<1>1. TypeInv /\ TypeInv'
  BY NextType DEF BoundInv
<1>2. CASE Recorder
  BY <1>2, BoundName, BoundRemoveVideo, BoundRemoveBin, BoundOpen, BoundOther DEF Recorder
<1>3. ASSUME NEW t \in Parser, Parses(t) PROVE BoundInv'
  BY <1>1, <1>3, ParsesType, BoundFrame
<1>4. CASE UNCHANGED vars
  BY <1>1, <1>4, BoundFrame DEF vars
<1>5. QED
  BY <1>2, <1>3, <1>4 DEF Next, Parses

\* The invariant holds in every behaviour.
LEMMA BoundAlways == Spec => []BoundInv
BY BoundInit, BoundNext, PTL DEF Spec

(* A recording with a positive max_files never has more than max_files      *)
(* files on disk, and knows them all, even if names come again because the  *)
(* clock is set back (xvc.cc:71-81).                                        *)
THEOREM FilesAreBounded == Spec => []FilesBounded
<1>1. BoundInv => FilesBounded
  <2> SUFFICES ASSUME BoundInv, recording, max_files >= 1
               PROVE  /\ \A p \in Second : video[p] > before =>
                           \E i \in DOMAIN file_paths : file_paths[i] = p
                      /\ call \in {"mux", "open"} => Len(file_paths) <= max_files
    BY DEF FilesBounded
  <2>1. max_files \in Int
    BY FragmentsAssumption DEF BoundInv, TypeInv, TypeOK
  <2>2. call \in {"mux", "open"} => ~Removing
    BY DEF Removing
  <2>3. QED
    BY <2>1, <2>2 DEF BoundInv, TrackerInv, Tracked
<1>2. QED
  BY <1>1, BoundAlways, PTL

-----------------------------------------------------------------------------
(* The newest fragments.  While names come later and later, no name of this  *)
(* recording is used twice, and the i-th name that is tracked is of a        *)
(* fragment no newer than its place tells.                                   *)

NamesIncrease ==
  recording /\ steady =>
    /\ \A i \in DOMAIN file_paths : i < Len(file_paths) => file_paths[i] < last
    /\ \A p \in Second : video[p] > before => p <= last /\ (call # "mux" => p < last)

PlaceTellsAge ==
  recording /\ steady =>
    \A i \in DOMAIN file_paths : video[file_paths[i]] <= fragments - Len(file_paths) + i

KeepInv == BoundInv /\ NamesIncrease /\ PlaceTellsAge /\ NewestKept

\* What every step starts from.
LEMMA KeepFacts ==
  ASSUME KeepInv
  PROVE  /\ TypeOK /\ file_paths \in Seq(Second) /\ Len(file_paths) \in Nat
         /\ DOMAIN file_paths = 1 .. Len(file_paths)
         /\ \A i \in DOMAIN file_paths : file_paths[i] \in Second
         /\ fragments \in Nat /\ before \in Nat /\ max_files \in Int
         /\ video \in [Second -> Nat] /\ last \in Nat
         /\ (call # "mux" => recording /\ fragments > before /\ last \in Second)
BY LenProperties, ElementOfSeq, FragmentsAssumption
DEF KeepInv, BoundInv, TypeInv, TypeOK, Busy

LEMMA KeepName ==
  ASSUME KeepInv, BoundInv', NameFragment
  PROVE  KeepInv'
<1>1. PICK p \in Second : /\ file_paths' = Append(file_paths, p) /\ last' = p
                          /\ steady' = IF last < p THEN steady ELSE FALSE
  BY DEF NameFragment
<1>2. /\ call = "mux" /\ call' # "mux" /\ fragments' = fragments + 1 /\ recording
      /\ UNCHANGED <<max_files, before, recording, video>>
  BY DEF NameFragment
<1>3. /\ Len(file_paths') = Len(file_paths) + 1
      /\ \A i \in 1 .. Len(file_paths) : file_paths'[i] = file_paths[i]
      /\ file_paths'[Len(file_paths) + 1] = p
      /\ DOMAIN file_paths' = 1 .. Len(file_paths')
  <2>1. file_paths' \in Seq(Second)
    BY <1>1, KeepFacts, Appended
  <2>2. QED
    BY <1>1, <2>1, KeepFacts, Appended, LenProperties
<1>4. CASE ~steady'
  BY <1>4 DEF KeepInv, NamesIncrease, PlaceTellsAge, NewestKept
<1>5. CASE steady'
  <2>1. steady /\ last < p
    BY <1>1, <1>5
  <2>2. \A i \in 1 .. Len(file_paths) : file_paths[i] < p
    <3> SUFFICES ASSUME NEW i \in 1 .. Len(file_paths) PROVE file_paths[i] < p
      OBVIOUS
    <3>1. file_paths[i] \in Nat /\ last \in Nat /\ p \in Nat
      BY KeepFacts
    <3>2. file_paths[i] <= last
      <4>1. CASE i = Len(file_paths)
        <5>1. file_paths # <<>> /\ file_paths[Len(file_paths)] = last
          BY <1>2, <4>1, KeepFacts DEF KeepInv, BoundInv, TrackerInv
        <5>2. QED
          BY <3>1, <4>1, <5>1
      <4>2. CASE i < Len(file_paths)
        BY <1>2, <2>1, <3>1, <4>2, KeepFacts DEF KeepInv, NamesIncrease
      <4>3. Len(file_paths) \in Nat
        BY KeepFacts
      <4>4. i = Len(file_paths) \/ i < Len(file_paths)
        BY <4>3
      <4>5. QED
        BY <4>1, <4>2, <4>4
    <3>3. QED
      BY <2>1, <3>1, <3>2
  <2>3. NamesIncrease'
    <3>1. \A i \in 1 .. Len(file_paths') : i < Len(file_paths') => file_paths'[i] < p
      BY <1>3, <2>2, KeepFacts
    <3>2. \A q \in Second : video[q] > before => q < p
      BY <1>2, <2>1, KeepFacts DEF KeepInv, NamesIncrease
    <3>3. QED
      BY <1>1, <1>2, <1>3, <3>1, <3>2 DEF NamesIncrease
  <2>4. PlaceTellsAge'
    <3> SUFFICES ASSUME NEW i \in 1 .. Len(file_paths')
                 PROVE  video[file_paths'[i]] <= fragments' - Len(file_paths') + i
      BY <1>2, <1>3 DEF PlaceTellsAge
    <3>1. CASE i = Len(file_paths) + 1
      <4>1. video[p] <= fragments
        BY <1>2 DEF KeepInv, BoundInv, NoneAhead
      <4>2. Len(file_paths) \in Nat /\ fragments \in Nat
        BY KeepFacts
      <4>3. fragments' - Len(file_paths') + i = fragments + 1
        BY <1>2, <1>3, <3>1, <4>2
      <4>4. video[p] \in Nat
        BY KeepFacts
      <4>5. video[p] <= fragments + 1
        BY <4>1, <4>2, <4>4
      <4>6. QED
        BY <1>3, <3>1, <4>3, <4>5
    <3>2. CASE i \in 1 .. Len(file_paths)
      <4>1. video[file_paths[i]] <= fragments - Len(file_paths) + i
        BY <1>2, <2>1, <3>2, KeepFacts DEF KeepInv, PlaceTellsAge
      <4>2. file_paths[i] \in Second
        BY <3>2, KeepFacts
      <4>3. QED
        BY <1>2, <1>3, <3>2, <4>1, <4>2, KeepFacts
    <3>3. QED
      BY <1>3, <3>1, <3>2, KeepFacts
  <2>5. NewestKept'
    <3> SUFFICES ASSUME NEW k \in before + 1 .. fragments,
                        max_files <= 0 \/ k > fragments + 1 - max_files
                 PROVE  \E q \in Second : video[q] = k
      BY <1>2, KeepFacts DEF NewestKept, Opened
    <3>1. k \in Opened
      BY <1>2 DEF Opened
    <3>2. max_files <= 0 \/ k > fragments - max_files
      BY KeepFacts
    <3>3. QED
      BY <1>2, <2>1, <3>1, <3>2 DEF KeepInv, NewestKept
  <2>6. QED
    BY <2>3, <2>4, <2>5 DEF KeepInv
<1>6. QED
  BY <1>4, <1>5

LEMMA KeepRemoveVideo ==
  ASSUME KeepInv, BoundInv', RemoveVideo
  PROVE  KeepInv'
<1>1. /\ file_paths # <<>> /\ Head(file_paths) \in Second /\ recording
      /\ call = "removeVideo" /\ call' = "removeBin"
      /\ video' = [video EXCEPT ![Head(file_paths)] = NoFragment]
      /\ UNCHANGED <<file_paths, max_files, before, fragments, recording, last, steady>>
  BY HeadAndTail DEF RemoveVideo, KeepInv, BoundInv, TypeInv, Busy
<1>2. \A p \in Second : video'[p] = IF p = Head(file_paths) THEN 0 ELSE video[p]
  BY <1>1, KeepFacts
<1>3. CASE ~steady
  BY <1>1, <1>3 DEF KeepInv, NamesIncrease, PlaceTellsAge, NewestKept
<1>4. CASE steady
  <2>1. /\ max_files >= 0 /\ Len(file_paths) = max_files + 1
        /\ Head(file_paths) = file_paths[1] /\ 1 \in DOMAIN file_paths
        /\ Len(file_paths) <= fragments - before
        /\ file_paths[Len(file_paths)] = last
    BY <1>1, HeadAndTail, KeepFacts DEF KeepInv, BoundInv, TrackerInv, Removing
  <2>2. NamesIncrease'
    BY <1>1, <1>2, <1>4, KeepFacts DEF KeepInv, NamesIncrease
  <2>3. PlaceTellsAge'
    <3> SUFFICES ASSUME NEW i \in DOMAIN file_paths
                 PROVE  video'[file_paths[i]] <= fragments - Len(file_paths) + i
      BY <1>1 DEF PlaceTellsAge
    <3>1. file_paths[i] \in Second /\ i \in 1 .. Len(file_paths)
      BY KeepFacts
    <3>2. video[file_paths[i]] <= fragments - Len(file_paths) + i
      BY <1>1, <1>4 DEF KeepInv, PlaceTellsAge
    <3>3. 0 <= fragments - Len(file_paths) + i
      BY <2>1, <3>1, KeepFacts
    <3>4. QED
      BY <1>2, <3>1, <3>2, <3>3
  <2>4. NewestKept'
    <3> SUFFICES ASSUME NEW k \in before + 1 .. fragments - 1,
                        max_files <= 0 \/ k > fragments - max_files
                 PROVE  \E q \in Second : video'[q] = k
      BY <1>1, KeepFacts DEF NewestKept, Opened
    <3>1. PICK q \in Second : video[q] = k
      <4>1. k \in Opened
        BY <1>1 DEF Opened
      <4>2. QED
        BY <1>1, <1>4, <4>1 DEF KeepInv, NewestKept
    <3>2. q # Head(file_paths)
      <4>1. CASE max_files = 0
        <5>1. Head(file_paths) = last
          BY <2>1, <4>1
        <5>2. q < last
          BY <1>1, <1>4, <3>1, KeepFacts DEF KeepInv, NamesIncrease
        <5>3. QED
          BY <5>1, <5>2, KeepFacts
      <4>2. CASE max_files >= 1
        <5>1. video[Head(file_paths)] <= fragments - max_files
          BY <1>1, <1>4, <2>1, KeepFacts DEF KeepInv, PlaceTellsAge
        <5>2. k > fragments - max_files
          BY <4>2, KeepFacts
        <5>3. QED
          BY <1>1, <3>1, <5>1, <5>2, KeepFacts
      <4>3. QED
        BY <2>1, <4>1, <4>2, KeepFacts
    <3>3. QED
      BY <1>2, <3>1, <3>2
  <2>5. QED
    BY <2>2, <2>3, <2>4 DEF KeepInv
<1>5. QED
  BY <1>3, <1>4

LEMMA KeepRemoveBin ==
  ASSUME KeepInv, BoundInv', RemoveBin
  PROVE  KeepInv'
<1>1. /\ file_paths # <<>> /\ call = "removeBin" /\ call' = "open" /\ recording
      /\ file_paths' = Tail(file_paths)
      /\ UNCHANGED <<video, max_files, before, fragments, recording, last, steady>>
  BY DEF RemoveBin, KeepInv, BoundInv, TypeInv, Busy
<1>2. /\ Len(file_paths) \in Nat \ {0}
      /\ Len(file_paths') = Len(file_paths) - 1
      /\ \A i \in 1 .. Len(file_paths) - 1 : file_paths'[i] = file_paths[i + 1]
      /\ DOMAIN file_paths' = 1 .. Len(file_paths')
  <2>1. file_paths' \in Seq(Second)
    BY <1>1, KeepFacts, HeadAndTail
  <2>2. QED
    BY <1>1, <2>1, KeepFacts, HeadAndTail, LenProperties
<1>3. CASE ~steady
  BY <1>1, <1>3 DEF KeepInv, NamesIncrease, PlaceTellsAge, NewestKept
<1>4. CASE steady
  <2>1. NamesIncrease'
    <3>1. \A i \in DOMAIN file_paths' : i < Len(file_paths') => file_paths'[i] < last
      <4> SUFFICES ASSUME NEW i \in DOMAIN file_paths', i < Len(file_paths')
                   PROVE  file_paths'[i] < last
        OBVIOUS
      <4>1. i \in 1 .. Len(file_paths) - 1 /\ i + 1 \in 1 .. Len(file_paths)
            /\ i + 1 < Len(file_paths)
        BY <1>2
      <4>2. file_paths[i + 1] < last
        BY <1>1, <1>4, <4>1, KeepFacts DEF KeepInv, NamesIncrease
      <4>3. QED
        BY <1>2, <4>1, <4>2
    <3>2. \A p \in Second : video[p] > before => p < last /\ p <= last
      BY <1>1, <1>4, KeepFacts DEF KeepInv, NamesIncrease
    <3>3. QED
      BY <1>1, <3>1, <3>2 DEF NamesIncrease
  <2>2. PlaceTellsAge'
    <3> SUFFICES ASSUME NEW i \in DOMAIN file_paths'
                 PROVE  video[file_paths'[i]] <= fragments - Len(file_paths') + i
      BY <1>1 DEF PlaceTellsAge
    <3>1. i \in 1 .. Len(file_paths) - 1 /\ i + 1 \in 1 .. Len(file_paths)
      BY <1>2
    <3>2. video[file_paths[i + 1]] <= fragments - Len(file_paths) + (i + 1)
      BY <1>1, <1>4, <3>1, KeepFacts DEF KeepInv, PlaceTellsAge
    <3>3. fragments - Len(file_paths) + (i + 1) = fragments - Len(file_paths') + i
      BY <1>2, <3>1, KeepFacts
    <3>4. file_paths'[i] = file_paths[i + 1]
      BY <1>2, <3>1
    <3>5. QED
      BY <3>2, <3>3, <3>4
  <2>3. NewestKept'
    BY <1>1, <1>4 DEF KeepInv, NewestKept, Opened
  <2>4. QED
    BY <2>1, <2>2, <2>3 DEF KeepInv
<1>5. QED
  BY <1>3, <1>4

LEMMA KeepOpen ==
  ASSUME KeepInv, BoundInv', OpenFragment
  PROVE  KeepInv'
<1>1. /\ call = "open" /\ call' = "mux" /\ recording /\ last \in Second
      /\ fragments > before
      /\ video' = [video EXCEPT ![last] = fragments]
      /\ UNCHANGED <<file_paths, max_files, before, fragments, recording, last, steady>>
  BY KeepFacts DEF OpenFragment
<1>2. \A p \in Second : video'[p] = IF p = last THEN fragments ELSE video[p]
  BY <1>1, KeepFacts
<1>3. CASE ~steady
  BY <1>1, <1>3 DEF KeepInv, NamesIncrease, PlaceTellsAge, NewestKept
<1>4. CASE steady
  <2>1. NamesIncrease'
    BY <1>1, <1>2, <1>4, KeepFacts DEF KeepInv, NamesIncrease
  <2>2. PlaceTellsAge'
    <3> SUFFICES ASSUME NEW i \in DOMAIN file_paths
                 PROVE  video'[file_paths[i]] <= fragments - Len(file_paths) + i
      BY <1>1 DEF PlaceTellsAge
    <3>1. file_paths[i] \in Second /\ i \in 1 .. Len(file_paths)
      BY KeepFacts
    <3>2. CASE i = Len(file_paths)
      <4>1. file_paths[i] = last
        BY <1>1, <3>1, <3>2, KeepFacts DEF KeepInv, BoundInv, TrackerInv
      <4>2. QED
        BY <1>2, <3>1, <3>2, <4>1, KeepFacts
    <3>3. CASE i < Len(file_paths)
      <4>1. file_paths[i] < last
        BY <1>1, <1>4, <3>3 DEF KeepInv, NamesIncrease
      <4>2. file_paths[i] # last
        BY <3>1, <4>1, KeepFacts
      <4>3. video[file_paths[i]] <= fragments - Len(file_paths) + i
        BY <1>1, <1>4 DEF KeepInv, PlaceTellsAge
      <4>4. QED
        BY <1>2, <3>1, <4>2, <4>3
    <3>4. QED
      BY <3>1, <3>2, <3>3, KeepFacts
  <2>3. NewestKept'
    <3> SUFFICES ASSUME NEW k \in before + 1 .. fragments,
                        max_files <= 0 \/ k > fragments - max_files
                 PROVE  \E q \in Second : video'[q] = k
      BY <1>1, KeepFacts DEF NewestKept, Opened
    <3>1. CASE k = fragments
      BY <1>1, <1>2, <3>1
    <3>2. CASE k # fragments
      <4>1. k \in Opened
        BY <1>1, <3>2, KeepFacts DEF Opened
      <4>2. PICK q \in Second : video[q] = k
        BY <1>1, <1>4, <4>1 DEF KeepInv, NewestKept
      <4>3. q < last
        BY <1>1, <1>4, <4>2, KeepFacts DEF KeepInv, NamesIncrease
      <4>4. q # last
        BY <4>3, KeepFacts
      <4>5. QED
        BY <1>2, <4>2, <4>4
    <3>3. QED
      BY <3>1, <3>2
  <2>4. QED
    BY <2>1, <2>2, <2>3 DEF KeepInv
<1>5. QED
  BY <1>3, <1>4

LEMMA KeepOther ==
  ASSUME KeepInv, BoundInv', StartRecording \/ StopRecording \/ RemovalThrows
  PROVE  KeepInv'
<1>1. CASE StartRecording
  <2>1. /\ file_paths' = <<>> /\ before' = fragments /\ call = "mux"
        /\ UNCHANGED <<fragments, video, call>>
    BY <1>1, KeepFacts DEF StartRecording
  <2>2. \A p \in Second : ~(video[p] > fragments)
    <3> SUFFICES ASSUME NEW p \in Second PROVE ~(video[p] > fragments)
      OBVIOUS
    <3>1. video[p] <= fragments
      BY <2>1 DEF KeepInv, BoundInv, NoneAhead
    <3>2. video[p] \in Nat /\ fragments \in Nat
      BY KeepFacts
    <3>3. QED
      BY <3>1, <3>2
  <2>3. NamesIncrease' /\ PlaceTellsAge'
    BY <2>1, <2>2 DEF NamesIncrease, PlaceTellsAge
  <2>4. Opened' = {}
    BY <2>1, KeepFacts DEF Opened
  <2>5. NewestKept'
    BY <2>4 DEF NewestKept
  <2>6. QED
    BY <2>3, <2>5 DEF KeepInv
<1>2. CASE StopRecording \/ RemovalThrows
  <2>1. ~recording'
    BY <1>2 DEF StopRecording, RemovalThrows
  <2>2. QED
    BY <2>1 DEF KeepInv, NamesIncrease, PlaceTellsAge, NewestKept
<1>3. QED
  BY <1>1, <1>2

LEMMA KeepFrame ==
  ASSUME KeepInv, BoundInv', UNCHANGED <<recorder, video>>
  PROVE  KeepInv'
BY DEF KeepInv, NamesIncrease, PlaceTellsAge, NewestKept, Opened

\* Every step preserves the invariant.
LEMMA KeepNext == KeepInv /\ [Next]_vars => KeepInv'
<1> SUFFICES ASSUME KeepInv, [Next]_vars PROVE KeepInv'
  OBVIOUS
<1>1. BoundInv' /\ TypeInv
  BY BoundNext DEF KeepInv, BoundInv
<1>2. CASE Recorder
  BY <1>1, <1>2, KeepName, KeepRemoveVideo, KeepRemoveBin, KeepOpen, KeepOther DEF Recorder
<1>3. ASSUME NEW t \in Parser, Parses(t) PROVE KeepInv'
  BY <1>1, <1>3, ParsesType, KeepFrame
<1>4. CASE UNCHANGED vars
  BY <1>1, <1>4, KeepFrame DEF vars
<1>5. QED
  BY <1>2, <1>3, <1>4 DEF Next, Parses

(* While the clock is not set back, the newest max_files fragments of a     *)
(* recording are on disk, and all of them when max_files is 0 or negative   *)
(* (xvc.cc:71-81).                                                          *)
THEOREM NewestAreKept == Spec => []NewestKept
<1>1. Init => KeepInv
  BY BoundInit DEF Init, KeepInv, NamesIncrease, PlaceTellsAge, NewestKept
<1>2. KeepInv => NewestKept
  BY DEF KeepInv
<1>3. QED
  BY <1>1, <1>2, KeepNext, PTL DEF Spec

-----------------------------------------------------------------------------
(* The fragments whose names come again.  The names that are tracked are the *)
(* last of the names given, so that a removal takes the file that was given  *)
(* its name max_files fragments ago.                                         *)

TrackedAreLast ==
  recording =>
    /\ Len(names) = fragments - before
    /\ fragments > before => last = names[fragments - before]
    /\ \A i \in DOMAIN file_paths :
         file_paths[i] = names[Len(names) - Len(file_paths) + i]

NamesakeInv == BoundInv /\ TrackedAreLast /\ LostToNamesake

\* What every step of the streaming thread starts from.
LEMMA NamesakeFacts ==
  ASSUME NamesakeInv, recording
  PROVE  /\ TypeOK /\ fragments \in Nat /\ before \in Nat /\ max_files \in Int
         /\ before <= fragments /\ Len(file_paths) \in Nat
         /\ DOMAIN file_paths = 1 .. Len(file_paths)
         /\ Len(file_paths) <= fragments - before
         /\ Len(names) = fragments - before
         /\ \A k \in before + 1 .. fragments : names[k - before] \in Second
         /\ (fragments > before => last = names[fragments - before])
         /\ video \in [Second -> Nat]
<1>1. TypeOK /\ fragments \in Nat /\ before \in Nat /\ max_files \in Int
      /\ before <= fragments /\ video \in [Second -> Nat]
  BY FragmentsAssumption DEF NamesakeInv, BoundInv, TypeInv, TypeOK
<1>2. Len(file_paths) \in Nat /\ DOMAIN file_paths = 1 .. Len(file_paths)
  BY <1>1, LenProperties DEF TypeOK
<1>3. Len(file_paths) <= fragments - before /\ Len(names) = fragments - before
      /\ (fragments > before => last = names[fragments - before])
  BY DEF NamesakeInv, BoundInv, TrackerInv, TrackedAreLast
<1>4. \A k \in before + 1 .. fragments : names[k - before] \in Second
  <2> SUFFICES ASSUME NEW k \in before + 1 .. fragments
               PROVE  names[k - before] \in Second
    OBVIOUS
  <2>1. k - before \in 1 .. Len(names)
    BY <1>1, <1>3
  <2>2. QED
    BY <1>1, <2>1, ElementOfSeq DEF TypeOK
<1>5. QED
  BY <1>1, <1>2, <1>3, <1>4

\* A name that comes adds to the namesakes, and one fragment less must stay.
LEMMA NamesakeName ==
  ASSUME NamesakeInv, BoundInv', NameFragment
  PROVE  NamesakeInv'
<1>1. PICK p \in Second : /\ file_paths' = Append(file_paths, p) /\ last' = p
                          /\ names' = Append(names, p)
  BY DEF NameFragment
<1>2. /\ call = "mux" /\ call' # "mux" /\ fragments' = fragments + 1 /\ recording
      /\ UNCHANGED <<max_files, before, recording, video>>
  BY DEF NameFragment
<1>3. /\ Len(file_paths') = Len(file_paths) + 1
      /\ \A i \in 1 .. Len(file_paths) : file_paths'[i] = file_paths[i]
      /\ file_paths'[Len(file_paths) + 1] = p
      /\ DOMAIN file_paths' = 1 .. Len(file_paths')
  <2>1. file_paths' \in Seq(Second)
    BY <1>1, <1>2, NamesakeFacts, Appended
  <2>2. QED
    BY <1>1, <1>2, <2>1, NamesakeFacts, Appended, LenProperties
<1>4. /\ Len(names') = fragments + 1 - before
      /\ \A i \in 1 .. fragments - before : names'[i] = names[i]
      /\ names'[fragments + 1 - before] = p
  <2>1. names \in Seq(Second) /\ Len(names) = fragments - before
        /\ fragments - before + 1 = fragments + 1 - before
    BY <1>2, NamesakeFacts DEF TypeOK
  <2>2. QED
    BY <1>1, <2>1, AppendProperties
<1>5. TrackedAreLast'
  <2>1. Len(names') = fragments' - before' /\ last' = names'[fragments' - before']
    <3>1. fragments' - before' = fragments + 1 - before
      BY <1>2, NamesakeFacts
    <3>2. QED
      BY <1>1, <1>4, <3>1
  <2>2. ASSUME NEW i \in 1 .. Len(file_paths')
        PROVE  file_paths'[i] = names'[Len(names') - Len(file_paths') + i]
    <3>1. CASE i = Len(file_paths')
      <4>1. Len(names') - Len(file_paths') + i = fragments + 1 - before
        BY <1>2, <1>3, <1>4, <3>1, NamesakeFacts
      <4>2. QED
        BY <1>3, <1>4, <3>1, <4>1
    <3>2. CASE i \in 1 .. Len(file_paths)
      <4> DEFINE n == fragments - before - Len(file_paths) + i
      <4>1. Len(names') - Len(file_paths') + i = n /\ n \in 1 .. fragments - before
        BY <1>2, <1>3, <1>4, <3>2, NamesakeFacts
      <4>2. file_paths[i] = names[n]
        BY <1>2, <3>2, NamesakeFacts DEF NamesakeInv, TrackedAreLast
      <4>3. QED
        BY <1>3, <1>4, <3>2, <4>1, <4>2
    <3>3. QED
      BY <1>2, <1>3, <3>1, <3>2, NamesakeFacts
  <2>3. QED
    BY <1>3, <2>1, <2>2 DEF TrackedAreLast
<1>6. LostToNamesake'
  <2> SUFFICES ASSUME NEW k \in before + 1 .. fragments,
                      ~(max_files >= 1 /\ k <= fragments + 1 - max_files)
               PROVE  \/ video[names'[k - before]] = k
                      \/ \E j \in before + 1 .. fragments + 1 : Shadows(j, k)'
    BY <1>2, NamesakeFacts DEF LostToNamesake, Opened
  <2>1. \A j \in before + 1 .. fragments : names'[j - before] = names[j - before]
    <3> SUFFICES ASSUME NEW j \in before + 1 .. fragments
                 PROVE  names'[j - before] = names[j - before]
      OBVIOUS
    <3>1. j - before \in 1 .. fragments - before
      BY <1>2, NamesakeFacts
    <3>2. QED
      BY <1>4, <3>1
  <2>2. ~(max_files >= 1 /\ k <= fragments - max_files) /\ k \in Opened
    BY <1>2, NamesakeFacts DEF Opened
  <2>3. CASE video[names[k - before]] = k
    BY <2>1, <2>3
  <2>4. CASE \E j \in before + 1 .. fragments : Shadows(j, k)
    <3>1. PICK j \in before + 1 .. fragments : Shadows(j, k)
      BY <2>4
    <3>2. Shadows(j, k)'
      BY <1>2, <2>1, <3>1 DEF Shadows
    <3>3. j \in before + 1 .. fragments + 1
      BY <1>2, NamesakeFacts
    <3>4. QED
      BY <3>2, <3>3
  <2>5. QED
    BY <1>2, <2>2, <2>3, <2>4 DEF NamesakeInv, LostToNamesake
<1>7. QED
  BY <1>5, <1>6 DEF NamesakeInv

\* The file that is removed was given its name max_files fragments ago.
LEMMA NamesakeRemoveVideo ==
  ASSUME NamesakeInv, BoundInv', RemoveVideo
  PROVE  NamesakeInv'
<1>1. /\ file_paths # <<>> /\ Head(file_paths) = file_paths[1] /\ recording
      /\ call = "removeVideo" /\ call' = "removeBin"
      /\ video' = [video EXCEPT ![Head(file_paths)] = NoFragment]
      /\ UNCHANGED <<file_paths, max_files, before, fragments, recording, last, names>>
  BY HeadAndTail DEF RemoveVideo, NamesakeInv, BoundInv, TypeInv, Busy
<1>2. max_files >= 0 /\ Len(file_paths) = max_files + 1
  BY <1>1 DEF NamesakeInv, BoundInv, TrackerInv, Removing
<1>3. fragments - max_files \in before + 1 .. fragments
  BY <1>1, <1>2, NamesakeFacts
<1>4. Head(file_paths) = names[(fragments - max_files) - before]
  <2>1. 1 \in DOMAIN file_paths
    BY <1>1, <1>2, NamesakeFacts
  <2>2. Len(names) - Len(file_paths) + 1 = (fragments - max_files) - before
    BY <1>1, <1>2, NamesakeFacts
  <2>3. QED
    BY <1>1, <2>1, <2>2 DEF NamesakeInv, TrackedAreLast
<1>5. TrackedAreLast'
  BY <1>1 DEF NamesakeInv, TrackedAreLast
<1>6. LostToNamesake'
  <2> SUFFICES ASSUME NEW k \in before + 1 .. fragments - 1,
                      ~(max_files >= 1 /\ k <= fragments - max_files),
                      video'[names[k - before]] # k
               PROVE  \E j \in before + 1 .. fragments : Shadows(j, k)
    BY <1>1 DEF LostToNamesake, Opened, Shadows
  <2>1. CASE names[k - before] = Head(file_paths)
    <3>1. LET j == fragments - max_files IN j > k \/ (j < k /\ k < j + max_files)
      BY <1>1, <1>2, NamesakeFacts
    <3>2. Shadows(fragments - max_files, k)
      BY <1>4, <2>1, <3>1 DEF Shadows
    <3>3. QED
      BY <1>3, <3>2
  <2>2. CASE names[k - before] # Head(file_paths)
    <3>1. video'[names[k - before]] = video[names[k - before]]
      <4>1. names[k - before] \in Second
        BY <1>1, NamesakeFacts
      <4>2. QED
        BY <1>1, <2>2, <4>1, NamesakeFacts
    <3>2. k \in Opened
      BY <1>1 DEF Opened
    <3>3. QED
      BY <1>1, <3>1, <3>2 DEF NamesakeInv, LostToNamesake
  <2>3. QED
    BY <2>1, <2>2
<1>7. QED
  BY <1>5, <1>6 DEF NamesakeInv

\* Its name is forgotten.
LEMMA NamesakeRemoveBin ==
  ASSUME NamesakeInv, BoundInv', RemoveBin
  PROVE  NamesakeInv'
<1>1. /\ file_paths # <<>> /\ call = "removeBin" /\ call' = "open" /\ recording
      /\ file_paths' = Tail(file_paths)
      /\ UNCHANGED <<video, max_files, before, fragments, recording, last, names>>
  BY DEF RemoveBin, NamesakeInv, BoundInv, TypeInv, Busy
<1>2. /\ Len(file_paths') = Len(file_paths) - 1
      /\ \A i \in 1 .. Len(file_paths) - 1 : file_paths'[i] = file_paths[i + 1]
      /\ DOMAIN file_paths' = 1 .. Len(file_paths')
  <2>1. file_paths' \in Seq(Second)
    BY <1>1, NamesakeFacts, HeadAndTail
  <2>2. QED
    BY <1>1, <2>1, NamesakeFacts, HeadAndTail, LenProperties
<1>3. TrackedAreLast'
  <2>1. ASSUME NEW i \in 1 .. Len(file_paths')
        PROVE  file_paths'[i] = names'[Len(names') - Len(file_paths') + i]
    <3>1. i \in 1 .. Len(file_paths) - 1 /\ i + 1 \in DOMAIN file_paths
      BY <1>1, <1>2, NamesakeFacts
    <3>2. file_paths[i + 1] = names[Len(names) - Len(file_paths) + (i + 1)]
      BY <1>1, <3>1 DEF NamesakeInv, TrackedAreLast
    <3>3. Len(names) - Len(file_paths) + (i + 1) = Len(names') - Len(file_paths') + i
      BY <1>1, <1>2, <3>1, NamesakeFacts
    <3>4. QED
      BY <1>1, <1>2, <3>1, <3>2, <3>3
  <2>2. QED
    BY <1>1, <1>2, <2>1 DEF NamesakeInv, TrackedAreLast
<1>4. LostToNamesake'
  BY <1>1 DEF NamesakeInv, LostToNamesake, Opened, Shadows
<1>5. QED
  BY <1>3, <1>4 DEF NamesakeInv

\* A file that is truncated is one of an earlier fragment with the same name.
LEMMA NamesakeOpen ==
  ASSUME NamesakeInv, BoundInv', OpenFragment
  PROVE  NamesakeInv'
<1>1. /\ call = "open" /\ call' = "mux" /\ recording /\ fragments > before
      /\ video' = [video EXCEPT ![last] = fragments]
      /\ UNCHANGED <<file_paths, max_files, before, fragments, recording, last, names>>
  BY DEF OpenFragment, NamesakeInv, BoundInv, TypeInv, Busy
<1>2. last = names[fragments - before] /\ fragments \in before + 1 .. fragments
  BY <1>1, NamesakeFacts
<1>3. TrackedAreLast'
  BY <1>1 DEF NamesakeInv, TrackedAreLast
<1>4. LostToNamesake'
  <2> SUFFICES ASSUME NEW k \in before + 1 .. fragments,
                      ~(max_files >= 1 /\ k <= fragments - max_files),
                      video'[names[k - before]] # k
               PROVE  \E j \in before + 1 .. fragments : Shadows(j, k)
    BY <1>1 DEF LostToNamesake, Opened, Shadows
  <2>1. names[k - before] \in Second
    BY <1>1, NamesakeFacts
  <2>2. k # fragments
    BY <1>1, <1>2, <2>1, NamesakeFacts
  <2>3. CASE names[k - before] = last
    <3>1. fragments > k
      BY <1>1, <2>2, NamesakeFacts
    <3>2. Shadows(fragments, k)
      BY <1>2, <2>3, <3>1 DEF Shadows
    <3>3. QED
      BY <1>2, <3>2
  <2>4. CASE names[k - before] # last
    <3>1. video[names[k - before]] # k
      BY <1>1, <2>1, <2>4, NamesakeFacts
    <3>2. k \in Opened
      BY <1>1, <2>2, NamesakeFacts DEF Opened
    <3>3. QED
      BY <1>1, <3>1, <3>2 DEF NamesakeInv, LostToNamesake
  <2>5. QED
    BY <2>3, <2>4
<1>5. QED
  BY <1>3, <1>4 DEF NamesakeInv

LEMMA NamesakeOther ==
  ASSUME NamesakeInv, BoundInv', StartRecording \/ StopRecording \/ RemovalThrows
  PROVE  NamesakeInv'
<1>1. CASE StartRecording
  <2>1. /\ file_paths' = <<>> /\ names' = <<>> /\ before' = fragments
        /\ fragments' = fragments /\ call' = call /\ call = "mux" /\ fragments \in Nat
    BY <1>1, FragmentsAssumption
    DEF StartRecording, NamesakeInv, BoundInv, TypeInv, TypeOK, Busy
  <2>2. TrackedAreLast'
    <3>1. Len(names') = 0 /\ DOMAIN file_paths' = {}
      BY <2>1
    <3>2. fragments' - before' = 0 /\ ~(fragments' > before')
      BY <2>1
    <3>3. QED
      BY <3>1, <3>2 DEF TrackedAreLast
  <2>3. Opened' = {}
    BY <2>1 DEF Opened
  <2>4. LostToNamesake'
    BY <2>3 DEF LostToNamesake
  <2>5. QED
    BY <2>2, <2>4 DEF NamesakeInv
<1>2. CASE StopRecording \/ RemovalThrows
  <2>1. ~recording'
    BY <1>2 DEF StopRecording, RemovalThrows
  <2>2. QED
    BY <2>1 DEF NamesakeInv, TrackedAreLast, LostToNamesake
<1>3. QED
  BY <1>1, <1>2

LEMMA NamesakeFrame ==
  ASSUME NamesakeInv, BoundInv', UNCHANGED <<recorder, video>>
  PROVE  NamesakeInv'
BY DEF NamesakeInv, TrackedAreLast, LostToNamesake, Opened, Shadows

\* Every step preserves the invariant.
LEMMA NamesakeNext == NamesakeInv /\ [Next]_vars => NamesakeInv'
<1> SUFFICES ASSUME NamesakeInv, [Next]_vars PROVE NamesakeInv'
  OBVIOUS
<1>1. BoundInv' /\ TypeInv
  BY BoundNext DEF NamesakeInv, BoundInv
<1>2. CASE Recorder
  BY <1>1, <1>2, NamesakeName, NamesakeRemoveVideo, NamesakeRemoveBin, NamesakeOpen,
     NamesakeOther DEF Recorder
<1>3. ASSUME NEW t \in Parser, Parses(t) PROVE NamesakeInv'
  BY <1>1, <1>3, ParsesType, NamesakeFrame
<1>4. CASE UNCHANGED vars
  BY <1>1, <1>4, NamesakeFrame DEF vars
<1>5. QED
  BY <1>2, <1>3, <1>4 DEF Next, Parses

(* Wherever the clock is set, one of the newest max_files fragments loses   *)
(* its file only to a fragment of the same name: a later one, or one of the *)
(* max_files - 1 before it (xvc.cc:69-83).                                  *)
THEOREM OnlyNamesakesAreLost == Spec => []LostToNamesake
<1>1. Init => NamesakeInv
  BY BoundInit DEF Init, NamesakeInv, TrackedAreLast, LostToNamesake
<1>2. NamesakeInv => LostToNamesake
  BY DEF NamesakeInv
<1>3. QED
  BY <1>1, <1>2, NamesakeNext, PTL DEF Spec

-----------------------------------------------------------------------------
(* The .bin files.                                                          *)

(* A .bin file goes with its .mkv file, however removals and parsers        *)
(* interleave, unless it was opened too late or a removal was cut short     *)
(* (xvc.cc:76-79, 528-535).                                                 *)
THEOREM BinsGoWithVideos == Spec => []BinGoesWithVideo
<1>1. Init => TypeInv /\ BinGoesWithVideo
  BY InitialType DEF Init, BinGoesWithVideo
<1>2. TypeInv /\ BinGoesWithVideo /\ [Next]_vars => BinGoesWithVideo'
  <2> SUFFICES ASSUME TypeInv, BinGoesWithVideo, [Next]_vars,
                      NEW p \in Second, bin'[p] = "file", video'[p] = NoFragment
               PROVE  p \in orphan' \/ (call' = "removeBin" /\ p = Head(file_paths'))
    BY DEF BinGoesWithVideo
  <2> USE DEF BinGoesWithVideo, TypeInv, TypeOK
  <2>1. CASE StartRecording \/ StopRecording \/ NameFragment
    BY <2>1 DEF StartRecording, StopRecording, NameFragment, Busy
  <2>2. CASE RemoveVideo
    BY <2>2, HeadAndTail DEF RemoveVideo, Busy
  <2>3. CASE RemoveBin
    BY <2>3, HeadAndTail DEF RemoveBin, Busy
  <2>4. CASE RemovalThrows
    BY <2>4 DEF RemovalThrows
  <2>5. CASE OpenFragment
    BY <2>5 DEF OpenFragment, Busy
  <2>6. ASSUME NEW t \in Parser, Parses(t)
        PROVE  p \in orphan' \/ (call' = "removeBin" /\ p = Head(file_paths'))
    <3>1. CASE OpenFile(t)
      BY <3>1 DEF OpenFile
    <3>2. CASE ~OpenFile(t)
      BY <2>6, <3>2 DEF Parses, ParseStep, Parse, Launch, LaunchFails, Pop, Post, Return
    <3>3. QED
      BY <3>1, <3>2
  <2>7. CASE UNCHANGED vars
    BY <2>7 DEF vars
  <2>8. QED
    BY <2>1, <2>2, <2>3, <2>4, <2>5, <2>6, <2>7 DEF Next, Recorder, Parses
<1>3. QED
  BY <1>1, <1>2, NextType, PTL DEF Spec
=============================================================================
