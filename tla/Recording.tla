----------------------------- MODULE Recording ------------------------------
(***************************************************************************)
(* A GStreamer pipeline that the functions of xdaqvc/xvc.cc build (setup_*  *)
(* and mock_camera) and on which they start and stop recordings.  A        *)
(* recording is a chain of elements with fixed names, hung on the request  *)
(* pad "src_1" of the tee and taken off again by an idle probe, for M-JPEG *)
(* with the help of a detached thread that sleeps for 3.5 s first.         *)
(*                                                                         *)
(* Three kinds of threads meet in the bin of the pipeline: the one that    *)
(* calls the functions, the streaming thread with the probes, and the      *)
(* detached ones.  Adding and removing an element is one step.             *)
(*                                                                         *)
(* The references to the pipeline are counted as GstObject counts them.    *)
(* Once the count is 0 the pipeline is gone, and whoever still uses it     *)
(* has undefined behaviour: nothing is modelled after that.                *)
(***************************************************************************)
EXTENDS Integers, Sequences, SequencesExt

CONSTANTS
  MaxStarts,  \* bound: calls of start
  MaxStops,   \* bound: stops of which a callback or the thread is outstanding
  MaxRefs     \* bound: references to the pipeline

ASSUME RecordingAssumption ==
  MaxStarts \in Nat /\ MaxStops \in Nat /\ MaxRefs \in Nat \ {0}

VARIABLES
  use,     \* how the application uses the functions
  codec,   \* the recording functions it calls
  refs,    \* references to the pipeline that were not given back
  app,     \* the application: using the pipeline, or done with it
  built,   \* the functions that have built the pipeline
  starts,  \* calls of start so far, which number the recordings
  step,    \* the place in a call of start, 0 outside
  pad,     \* the pad "src_1" of the tee
  on,      \* the recording that was linked to it last
  bin,     \* the recording whose element has the name, in the bin
  probes,  \* probes on the pad that have not been called
  calls,   \* probes of a pad that was released by the first of them
  stops,   \* "repeated" once a stop came before the last one took effect
  threads  \* the detached threads: the elements they are still to remove

vars == <<use, codec, refs, app, built, starts, step, pad, on, bin, probes,
          calls, stops, threads>>

-----------------------------------------------------------------------------
None == 0   \* no recording
Branch == 1 .. MaxStarts

Alive == refs > 0
IsJpeg == codec = "jpeg"

\* The elements of a recording, in the order in which they are added.
Chain ==
  IF IsJpeg THEN <<"queue_record", "record_parser", "filesink">>
            ELSE <<"queue_record", "record_parser", "cf_record_parser", "filesink">>
Name == {"queue_record", "record_parser", "cf_record_parser", "filesink"}
Part == [name : Name, of : Branch \cup {None}]
LinkStep == Len(Chain) + 1

\* A careful application builds the pipeline once, waits for a recording to be
\* gone before it starts another, and stops only one that runs; and GStreamer
\* refuses it nothing.
Careful == use = "careful"

\* The application may call a function with the pipeline.
Streaming == app = "using" /\ Alive
Calls == Streaming /\ step = 0

-----------------------------------------------------------------------------
(* Building the pipeline.                                                   *)

Setup == {"setup_h265_srt_stream", "setup_jpeg_srt_stream", "mock_camera"}

JpegStream ==
  {"src", "parser", "t", "queue_display", "dec", "conv", "cf_conv", "appsink"}

StreamElements(f) ==
  CASE f = "setup_h265_srt_stream" -> JpegStream \cup {"cf_parser", "cf_dec"}
    [] f = "setup_jpeg_srt_stream" -> JpegStream
    [] f = "mock_camera" -> {"src", "cf_src", "appsink"}

InStream == UNION {StreamElements(f) : f \in built}

\* An element whose name is taken stays outside of the bin, and does not link
\* with its neighbour if that one was added.
Mixed(f) ==
  StreamElements(f) \cap InStream # {} /\ ~(StreamElements(f) \subseteq InStream)

HasTee == "t" \in InStream

\* An application builds the pipeline before it records, but may do so again and
\* with another function.
Builds(f) ==
  /\ Calls /\ starts = 0
  /\ Careful => built = {} /\ f # "mock_camera"
  /\ built' = built \cup {f}
  /\ UNCHANGED <<use, codec, app, starts, step, pad, on, bin, probes, calls,
                 stops, threads>>

Build(f) == Builds(f) /\ ~Mixed(f) /\ UNCHANGED refs

\* The elements do not link, and the function drops a reference.
BuildFails(f) == Builds(f) /\ ~Careful /\ refs' = refs - 1

-----------------------------------------------------------------------------
(* Starting a recording.                                                    *)

\* A pad that exists, and that of a pipeline without a tee, cannot be requested.
RequestPad ==
  /\ Calls /\ starts < MaxStarts
  /\ Careful => built # {} /\ pad = "none" /\ threads = <<>>
  /\ starts' = starts + 1
  /\ step' = 1
  /\ pad' = IF pad = "none" /\ HasTee THEN "starting" ELSE pad
  /\ UNCHANGED <<use, codec, refs, app, built, on, bin, probes, calls, stops, threads>>

\* An element whose name is taken is refused.
AddElement ==
  /\ Alive /\ step \in DOMAIN Chain
  /\ bin' = IF bin[Chain[step]] = None
              THEN [bin EXCEPT ![Chain[step]] = starts] ELSE bin
  /\ step' = step + 1
  /\ UNCHANGED <<use, codec, refs, app, built, starts, pad, on, probes, calls,
                 stops, threads>>

\* The pad was requested and all elements were added and are still there.
CanLink == pad = "starting" /\ \A i \in DOMAIN Chain : bin[Chain[i]] = starts

Link ==
  /\ Alive /\ step = LinkStep
  /\ CanLink
  /\ pad' = "linked" /\ on' = starts /\ step' = 0
  /\ UNCHANGED <<use, codec, refs, app, built, starts, bin, probes, calls,
                 stops, threads>>

\* They do not link, or GStreamer refuses to link them for reasons of its own.
\* The function drops a reference and leaves what it has made.
LinkFails ==
  /\ Alive /\ step = LinkStep
  /\ Careful => ~CanLink
  /\ pad' = IF pad = "starting" THEN "unlinked" ELSE pad
  /\ step' = 0
  /\ refs' = refs - 1
  /\ UNCHANGED <<use, codec, app, built, starts, on, bin, probes, calls,
                 stops, threads>>

-----------------------------------------------------------------------------
(* Stopping it.                                                             *)

\* gst_pad_add_probe does nothing when there is no pad.
Stop ==
  /\ Calls /\ refs < MaxRefs /\ Len(threads) + probes + calls < MaxStops
  /\ Careful => pad = "linked" /\ probes = 0
  /\ refs' = IF IsJpeg THEN refs + 1 ELSE refs
  /\ probes' = IF pad = "none" THEN probes ELSE probes + 1
  /\ stops' = IF probes > 0 THEN "repeated" ELSE stops
  /\ UNCHANGED <<use, codec, app, built, starts, step, pad, on, bin, calls, threads>>

\* The elements that have the names of a recording now.
Found == [i \in DOMAIN Chain |-> [name |-> Chain[i], of |-> bin[Chain[i]]]]

\* Seeded fault: the filter that only H.265 recordings have is forgotten.
CallbackKeepsFilter ==
  IF IsJpeg
    THEN /\ threads' = Append(threads, Found)
         /\ UNCHANGED bin
    ELSE /\ bin' = [n \in Name |-> IF n = "cf_record_parser" THEN bin[n] ELSE None]
         /\ UNCHANGED threads

\* The callback of stop_jpeg_recording sends EOS and leaves the elements to a
\* thread; the one of stop_h265_recording removes them at once.
Callback ==
  IF IsJpeg
    THEN /\ threads' = Append(threads, Found)
         /\ UNCHANGED bin
    ELSE /\ bin' = [n \in Name |-> None]
         /\ UNCHANGED threads

\* The pad is idle: the first callback releases it.
Idle ==
  /\ Streaming /\ probes > 0
  /\ Callback
  /\ pad' = "none"
  /\ calls' = calls + probes - 1
  /\ probes' = 0
  /\ UNCHANGED <<use, codec, refs, app, built, starts, step, on, stops>>

\* The callbacks of the stops that were repeated follow, and look for elements
\* by name like the first.
IdleAgain ==
  /\ Streaming /\ calls > 0
  /\ Callback
  /\ calls' = calls - 1
  /\ UNCHANGED <<use, codec, refs, app, built, starts, step, pad, on, probes, stops>>

\* Seeded fault: the thread looks the elements up when it wakes.
RemoveElementByName(i) ==
  /\ Alive /\ threads[i] # <<>>
  /\ bin' = [bin EXCEPT ![Head(threads[i]).name] = None]
  /\ threads' = [threads EXCEPT ![i] = Tail(threads[i])]
  /\ UNCHANGED <<use, codec, refs, app, built, starts, step, pad, on, probes,
                 calls, stops>>

\* Seeded fault: the thread leaves the last element in the bin.
RemoveElementsButLast(i) ==
  /\ Alive /\ threads[i] # <<>>
  /\ LET part == Head(threads[i]) IN
       bin' = IF bin[part.name] = part.of /\ Len(threads[i]) > 1
                THEN [bin EXCEPT ![part.name] = None] ELSE bin
  /\ threads' = [threads EXCEPT ![i] = Tail(threads[i])]
  /\ UNCHANGED <<use, codec, refs, app, built, starts, step, pad, on, probes,
                 calls, stops>>

\* A thread that has slept removes the next of its elements from the bin, if it
\* is still there.
RemoveElement(i) ==
  /\ Alive /\ threads[i] # <<>>
  /\ LET part == Head(threads[i]) IN
       bin' = IF bin[part.name] = part.of
                THEN [bin EXCEPT ![part.name] = None] ELSE bin
  /\ threads' = [threads EXCEPT ![i] = Tail(threads[i])]
  /\ UNCHANGED <<use, codec, refs, app, built, starts, step, pad, on, probes,
                 calls, stops>>

\* Seeded fault: the thread also drops a reference that is not its own.
FinishUnrefsTwice(i) ==
  /\ Alive /\ threads[i] = <<>>
  /\ threads' = RemoveAt(threads, i)
  /\ refs' = refs - 2
  /\ UNCHANGED <<use, codec, app, built, starts, step, pad, on, bin, probes,
                 calls, stops>>

\* It drops the reference that stop took.
Finish(i) ==
  /\ Alive /\ threads[i] = <<>>
  /\ threads' = RemoveAt(threads, i)
  /\ refs' = refs - 1
  /\ UNCHANGED <<use, codec, app, built, starts, step, pad, on, bin, probes,
                 calls, stops>>

\* The application stops the pipeline and gives back its reference.
Release ==
  /\ Calls
  /\ app' = "gone"
  /\ refs' = refs - 1
  /\ UNCHANGED <<use, codec, built, starts, step, pad, on, bin, probes, calls,
                 stops, threads>>

-----------------------------------------------------------------------------
Init ==
  /\ use \in {"careful", "any"}
  /\ codec \in {"jpeg", "h265"}
  /\ refs = 1 /\ app = "using" /\ built = {} /\ starts = 0 /\ step = 0
  /\ pad = "none" /\ on = None /\ bin = [n \in Name |-> None]
  /\ probes = 0 /\ calls = 0 /\ stops = "single" /\ threads = <<>>

Start == RequestPad \/ AddElement \/ Link \/ LinkFails

Wake == \E i \in DOMAIN threads : RemoveElement(i) \/ Finish(i)

Next ==
  \/ \E f \in Setup : Build(f) \/ BuildFails(f)
  \/ Start \/ Stop \/ Idle \/ IdleAgain \/ Wake \/ Release

\* The stream goes idle between two buffers, and a sleeping thread wakes up.
Fairness == WF_vars(Idle) /\ WF_vars(Wake)

Spec == Init /\ [][Next]_vars /\ Fairness
-----------------------------------------------------------------------------
TypeOK ==
  /\ use \in {"careful", "any"}
  /\ codec \in {"jpeg", "h265"}
  /\ refs \in 0 .. MaxRefs /\ app \in {"using", "gone"}
  /\ built \subseteq Setup
  /\ starts \in 0 .. MaxStarts /\ step \in 0 .. LinkStep
  /\ pad \in {"none", "starting", "unlinked", "linked"}
  /\ on \in Branch \cup {None}
  /\ bin \in [Name -> Branch \cup {None}]
  /\ probes \in 0 .. MaxStops /\ calls \in 0 .. MaxStops
  /\ stops \in {"single", "repeated"}
  /\ threads \in Seq(Seq(Part))

\* The references that are spoken for: the application's, and one for every
\* call of stop_jpeg_recording whose thread has not finished.
Owed ==
  (IF app = "using" THEN 1 ELSE 0) + Len(threads)
    + (IF IsJpeg THEN probes + calls ELSE 0)

(* With an application that waits for its recordings, no reference is lost  *)
(* and none is dropped twice, so that the pipeline lives exactly as long as *)
(* the application or a detached thread uses it (xvc.cc:401, 440).          *)
RefsAccounted == Careful => refs = Owed

(* With such an application every start succeeds, however many recordings   *)
(* there were: the pad was released and all names are free again            *)
(* (xvc.cc:303-331, 406-446).                                               *)
StartsSucceed == Careful /\ step = LinkStep => CanLink

\* A thread is about to remove an element of recording b.
Threatened(b) ==
  \E i \in DOMAIN threads : \E k \in DOMAIN threads[i] : threads[i][k].of = b

(* Whatever the application calls and however late a detached thread wakes  *)
(* up, it never takes down a recording that is running: all elements of the *)
(* chain that is linked to the tee are in the bin, and no thread is about   *)
(* to remove one, unless a stop was repeated before it took effect.  Starts *)
(* that fail in the meantime do no harm (xvc.cc:343-391, 426-441).          *)
LinkedBranchStays ==
  pad = "linked" /\ stops = "single" =>
    /\ \A i \in DOMAIN Chain : bin[Chain[i]] = on
    /\ ~Threatened(on)

\* A thread is about to remove the element that has the name.
Doomed(n) ==
  \E i \in DOMAIN threads : \E k \in DOMAIN threads[i] :
    threads[i][k].name = n /\ threads[i][k].of = bin[n]

(* No element of a recording that was taken off the tee is forgotten: what  *)
(* is still in the bin, some thread is going to remove, whatever the        *)
(* application calls in the 3.5 s until then, starts that fail half-way and *)
(* repeated stops included (xvc.cc:299-331, 406-446).                       *)
NothingForgotten ==
  pad # "linked" /\ on # None => \A n \in Name : bin[n] = on => Doomed(n)

(* A recording that was stopped leaves the bin with all its elements,       *)
(* unless the application gives the pipeline up first or has lost it        *)
(* (xvc.cc:294-335, 403-448).                                               *)
StoppedBranchGoes ==
  \A b \in Branch :
    pad = "linked" /\ on = b /\ probes > 0 ~>
      (\A n \in Name : bin[n] # b) \/ app = "gone" \/ ~Alive

(* Claimed by the comment at xvc.cc:400, "Increase the reference count so   *)
(* that 'pipeline' remains valid": it does while a thread still uses it.    *)
(* A start that fails in the meantime drops a reference that it never took  *)
(* (xvc.cc:372, 387).                                                       *)
ThreadsHavePipeline == threads # <<>> => Alive
=============================================================================
