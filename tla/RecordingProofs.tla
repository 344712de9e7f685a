-------------------------- MODULE RecordingProofs ---------------------------
(* What holds of a pipeline with recordings for any number of starts, stops  *)
(* and sleeping threads, and any interleaving of their steps.                *)
EXTENDS Recording, TLAPS

-----------------------------------------------------------------------------
(* Sequences.                                                               *)

\* What RemoveAt leaves of a sequence.
LEMMA RemoveAtProperties ==
  ASSUME NEW S, NEW s \in Seq(S), NEW i \in DOMAIN s
  PROVE  /\ RemoveAt(s, i) \in Seq(S)
         /\ Len(RemoveAt(s, i)) = Len(s) - 1
         /\ \A j \in DOMAIN RemoveAt(s, i) : \E k \in DOMAIN s : RemoveAt(s, i)[j] = s[k]
<1> DEFINE left == SubSeq(s, 1, i - 1)
           right == SubSeq(s, i + 1, Len(s))
<1>1. i \in 1 .. Len(s) /\ Len(s) \in Nat
  OBVIOUS
<1>2. /\ left \in Seq(S) /\ Len(left) = i - 1
      /\ \A j \in 1 .. i - 1 : left[j] = s[j]
  BY <1>1
<1>3. /\ right \in Seq(S) /\ Len(right) = Len(s) - i
      /\ \A j \in 1 .. Len(s) - i : right[j] = s[i + j]
  BY <1>1
<1>4. RemoveAt(s, i) = left \o right
  BY DEF RemoveAt
<1> HIDE DEF left, right
<1>5. left \o right \in Seq(S) /\ Len(left \o right) = Len(s) - 1
  BY <1>1, <1>2, <1>3
<1>6. ASSUME NEW j \in 1 .. Len(s) - 1
      PROVE  \E k \in DOMAIN s : (left \o right)[j] = s[k]
  <2>1. CASE j < i
    BY <1>1, <1>2, <1>3, <2>1
  <2>2. CASE j >= i
    <3>1. (left \o right)[j] = right[j - (i - 1)] /\ j - (i - 1) \in 1 .. Len(s) - i
      BY <1>1, <1>2, <1>3, <2>2
    <3>2. (left \o right)[j] = s[i + (j - (i - 1))] /\ i + (j - (i - 1)) \in 1 .. Len(s)
      BY <1>1, <1>3, <2>2, <3>1
    <3>3. QED
      BY <3>2
  <2>3. j < i \/ j >= i
    BY <1>1
  <2>4. QED
    BY <2>1, <2>2, <2>3, Zenon
<1>7. DOMAIN (left \o right) = 1 .. Len(s) - 1
  BY <1>5
<1>8. QED
  BY <1>4, <1>5, <1>6, <1>7, Zenon

\* What RemoveAt keeps: every other element.
LEMMA RemoveAtKeeps ==
  ASSUME NEW S, NEW s \in Seq(S), NEW i \in DOMAIN s, NEW k \in DOMAIN s, k # i
  PROVE  \E j \in DOMAIN RemoveAt(s, i) : RemoveAt(s, i)[j] = s[k]
<1> DEFINE left == SubSeq(s, 1, i - 1)
           right == SubSeq(s, i + 1, Len(s))
<1>1. i \in 1 .. Len(s) /\ k \in 1 .. Len(s) /\ Len(s) \in Nat
  OBVIOUS
<1>2. /\ left \in Seq(S) /\ Len(left) = i - 1
      /\ \A j \in 1 .. i - 1 : left[j] = s[j]
  BY <1>1
<1>3. /\ right \in Seq(S) /\ Len(right) = Len(s) - i
      /\ \A j \in 1 .. Len(s) - i : right[j] = s[i + j]
  BY <1>1
<1>4. RemoveAt(s, i) = left \o right
  BY DEF RemoveAt
<1> HIDE DEF left, right
<1>5. DOMAIN (left \o right) = 1 .. Len(s) - 1
  BY <1>1, <1>2, <1>3
<1>6. CASE k < i
  <2>1. k \in 1 .. Len(s) - 1 /\ (left \o right)[k] = s[k]
    BY <1>1, <1>2, <1>3, <1>6
  <2>2. QED
    BY <1>4, <1>5, <2>1
<1>7. CASE k > i
  <2>1. k - i \in 1 .. Len(s) - i /\ k - 1 \in 1 .. Len(s) - 1 /\ i + (k - i) = k
    BY <1>1, <1>7
  <2>2. (left \o right)[k - 1] = right[k - i]
    <3>1. (left \o right)[k - 1] = right[(k - 1) - (i - 1)]
      BY <1>1, <1>2, <1>3, <1>7
    <3>2. (k - 1) - (i - 1) = k - i
      BY <1>1
    <3>3. QED
      BY <3>1, <3>2
  <2>3. (left \o right)[k - 1] = s[k]
    BY <1>3, <2>1, <2>2
  <2>4. QED
    BY <1>4, <1>5, <2>1, <2>3
<1>8. QED
  BY <1>1, <1>6, <1>7

\* What an appended element adds.
LEMMA AppendProperties ==
  ASSUME NEW S, NEW s \in Seq(S), NEW e \in S
  PROVE  /\ Append(s, e) \in Seq(S)
         /\ Len(Append(s, e)) = Len(s) + 1
         /\ \A j \in DOMAIN Append(s, e) :
              Append(s, e)[j] = e \/ \E k \in DOMAIN s : Append(s, e)[j] = s[k]
         /\ Len(s) + 1 \in DOMAIN Append(s, e) /\ Append(s, e)[Len(s) + 1] = e
         /\ \A k \in DOMAIN s : k \in DOMAIN Append(s, e) /\ Append(s, e)[k] = s[k]
<1>1. Len(s) \in Nat
  OBVIOUS
<1>2. /\ Append(s, e) \in Seq(S)
      /\ Len(Append(s, e)) = Len(s) + 1
      /\ DOMAIN Append(s, e) = 1 .. Len(s) + 1
  OBVIOUS
<1>3. ASSUME NEW j \in 1 .. Len(s) + 1
      PROVE  Append(s, e)[j] = e \/ \E k \in DOMAIN s : Append(s, e)[j] = s[k]
  <2>1. CASE j = Len(s) + 1
    BY <2>1
  <2>2. CASE j # Len(s) + 1
    <3>1. j \in 1 .. Len(s)
      BY <1>1, <2>2
    <3>2. Append(s, e)[j] = s[j]
      BY <3>1
    <3>3. QED
      BY <3>1, <3>2
  <2>3. QED
    BY <2>1, <2>2
<1>4. /\ Len(s) + 1 \in 1 .. Len(s) + 1 /\ Append(s, e)[Len(s) + 1] = e
      /\ \A k \in DOMAIN s : k \in 1 .. Len(s) + 1 /\ Append(s, e)[k] = s[k]
  BY <1>1
<1>5. QED
  BY <1>2, <1>3, <1>4, Zenon

\* What is left of a sequence without its first element.
LEMMA TailProperties ==
  ASSUME NEW S, NEW s \in Seq(S), s # <<>>
  PROVE  /\ Head(s) \in S /\ Head(s) = s[1] /\ 1 \in DOMAIN s
         /\ Tail(s) \in Seq(S) /\ DOMAIN Tail(s) = 1 .. Len(s) - 1
         /\ \A j \in DOMAIN Tail(s) : j + 1 \in DOMAIN s /\ Tail(s)[j] = s[j + 1]
OBVIOUS

-----------------------------------------------------------------------------
(* The chain of a recording.                                                *)

\* Three or four different names.
LEMMA ChainFacts ==
  /\ Len(Chain) \in Nat \ {0} /\ DOMAIN Chain = 1 .. Len(Chain)
  /\ \A i \in DOMAIN Chain : Chain[i] \in Name
  /\ \A i, j \in DOMAIN Chain : Chain[i] = Chain[j] => i = j
<1>1. CASE IsJpeg
  <2>1. Chain = <<"queue_record", "record_parser", "filesink">>
    BY <1>1 DEF Chain
  <2>2. QED
    BY <2>1 DEF Name
<1>2. CASE ~IsJpeg
  <2>1. Chain = <<"queue_record", "record_parser", "cf_record_parser", "filesink">>
    BY <1>2 DEF Chain
  <2>2. QED
    BY <2>1 DEF Name
<1>3. QED
  BY <1>1, <1>2

\* An H.265 recording uses every name.
LEMMA ChainCoversNames ==
  ASSUME ~IsJpeg
  PROVE  \A n \in Name : \E i \in DOMAIN Chain : Chain[i] = n
<1>1. Chain = <<"queue_record", "record_parser", "cf_record_parser", "filesink">>
  BY DEF Chain
<1>2. QED
  BY <1>1 DEF Name

\* Neither the functions that an application calls nor the chain ever change.
LEMMA ChainStays ==
  ASSUME [Next]_vars
  PROVE  UNCHANGED <<use, codec, Chain, LinkStep>>
<1>1. UNCHANGED <<use, codec>>
  BY DEF Next, Build, BuildFails, Builds, Start, RequestPad, AddElement, Link,
         LinkFails, Stop, Idle, IdleAgain, Wake, RemoveElement, Finish, Release, vars
<1>2. QED
  BY <1>1 DEF Chain, LinkStep, IsJpeg

-----------------------------------------------------------------------------
(* Types.                                                                   *)

\* Callbacks are bounded together, and only a start that has begun adds anything.
TypeInv ==
  /\ TypeOK
  /\ probes + calls <= MaxStops
  /\ step # 0 => starts # 0
  /\ \A n \in Name : (\A i \in DOMAIN Chain : Chain[i] # n) => bin[n] = None

\* What a callback finds are elements of recordings.
LEMMA FoundFacts ==
  ASSUME TypeInv
  PROVE  /\ Found \in Seq(Part) /\ DOMAIN Found = DOMAIN Chain
         /\ \A i \in DOMAIN Chain :
              Found[i] = [name |-> Chain[i], of |-> bin[Chain[i]]]
<1>1. \A i \in DOMAIN Chain : [name |-> Chain[i], of |-> bin[Chain[i]]] \in Part
  BY ChainFacts DEF TypeInv, TypeOK, Part
<1>2. QED
  BY <1>1, ChainFacts DEF Found

\* A step of a thread.
LEMMA RemoveFacts ==
  ASSUME TypeInv, NEW i \in DOMAIN threads, RemoveElement(i)
  PROVE  /\ threads[i] \in Seq(Part) /\ threads[i] # <<>>
         /\ Head(threads[i]) \in Part /\ Head(threads[i]) = threads[i][1]
         /\ 1 \in DOMAIN threads[i]
         /\ threads' \in Seq(Seq(Part)) /\ DOMAIN threads' = DOMAIN threads
         /\ Len(threads') = Len(threads)
         /\ threads'[i] = Tail(threads[i])
         /\ \A j \in DOMAIN threads : j # i => threads'[j] = threads[j]
         /\ bin' = [bin EXCEPT ![Head(threads[i]).name] =
                      IF bin[Head(threads[i]).name] = Head(threads[i]).of
                        THEN None ELSE bin[Head(threads[i]).name]]
<1>1. threads \in Seq(Seq(Part)) /\ threads[i] \in Seq(Part) /\ threads[i] # <<>>
  BY DEF TypeInv, TypeOK, RemoveElement
<1>2. /\ Head(threads[i]) \in Part /\ Head(threads[i]) = threads[i][1]
      /\ 1 \in DOMAIN threads[i] /\ Tail(threads[i]) \in Seq(Part)
  BY <1>1, TailProperties
<1>3. threads' = [threads EXCEPT ![i] = Tail(threads[i])]
  BY DEF RemoveElement
<1>4. /\ threads' \in Seq(Seq(Part)) /\ DOMAIN threads' = DOMAIN threads
      /\ Len(threads') = Len(threads) /\ threads'[i] = Tail(threads[i])
      /\ \A j \in DOMAIN threads : j # i => threads'[j] = threads[j]
  BY <1>1, <1>2, <1>3
<1>5. bin \in [Name -> Branch \cup {None}] /\ Head(threads[i]).name \in Name
  BY <1>2 DEF TypeInv, TypeOK, Part
<1>6. bin' = [bin EXCEPT ![Head(threads[i]).name] =
                IF bin[Head(threads[i]).name] = Head(threads[i]).of
                  THEN None ELSE bin[Head(threads[i]).name]]
  <2>1. CASE bin[Head(threads[i]).name] = Head(threads[i]).of
    BY <2>1 DEF RemoveElement
  <2>2. CASE bin[Head(threads[i]).name] # Head(threads[i]).of
    BY <1>5, <2>2 DEF RemoveElement
  <2>3. QED
    BY <2>1, <2>2
<1>7. QED
  BY <1>1, <1>2, <1>4, <1>6

\* The last step of a thread.
LEMMA FinishFacts ==
  ASSUME TypeInv, NEW i \in DOMAIN threads, Finish(i)
  PROVE  /\ threads' \in Seq(Seq(Part)) /\ Len(threads') = Len(threads) - 1
         /\ \A j \in DOMAIN threads' : \E k \in DOMAIN threads : threads'[j] = threads[k]
BY RemoveAtProperties DEF TypeInv, TypeOK, Finish

\* The first callback and the ones that follow.
LEMMA CallbackFacts ==
  ASSUME TypeInv, Callback
  PROVE  /\ threads' \in Seq(Seq(Part))
         /\ IsJpeg => /\ bin' = bin /\ threads' = Append(threads, Found)
                      /\ Len(threads') = Len(threads) + 1
                      /\ \A j \in DOMAIN threads' :
                           \/ threads'[j] = Found
                           \/ \E k \in DOMAIN threads : threads'[j] = threads[k]
         /\ ~IsJpeg => bin' = [n \in Name |-> None] /\ threads' = threads
<1>1. threads \in Seq(Seq(Part)) /\ Found \in Seq(Part)
  BY FoundFacts DEF TypeInv, TypeOK
<1>2. CASE IsJpeg
  <2>1. threads' = Append(threads, Found) /\ bin' = bin
    BY <1>2 DEF Callback
  <2>2. /\ Append(threads, Found) \in Seq(Seq(Part))
        /\ Len(Append(threads, Found)) = Len(threads) + 1
        /\ \A j \in DOMAIN Append(threads, Found) :
             \/ Append(threads, Found)[j] = Found
             \/ \E k \in DOMAIN threads : Append(threads, Found)[j] = threads[k]
    BY <1>1, AppendProperties
  <2>3. QED
    BY <1>2, <2>1, <2>2, Zenon
<1>3. CASE ~IsJpeg
  BY <1>1, <1>3 DEF Callback
<1>4. QED
  BY <1>2, <1>3

\* A pipeline on which nothing was called.
LEMMA InitialType ==
  ASSUME Init
  PROVE  TypeInv
<1>1. LinkStep \in Nat
  BY ChainFacts DEF LinkStep
<1>2. QED
  BY <1>1, RecordingAssumption DEF Init, TypeInv, TypeOK, Branch, None

\* Every step preserves the types.
LEMMA NextType ==
  ASSUME TypeInv, [Next]_vars
  PROVE  TypeInv'
<1> USE RecordingAssumption DEF TypeInv, TypeOK, Branch, None
<1>0. /\ UNCHANGED <<use, codec, Chain, LinkStep>>
      /\ LinkStep \in Nat /\ LinkStep = Len(Chain) + 1 /\ Len(Chain) \in Nat \ {0}
      /\ DOMAIN Chain = 1 .. Len(Chain)
  BY ChainStays, ChainFacts DEF LinkStep
<1>1. CASE \E f \in Setup : Build(f) \/ BuildFails(f)
  <2>1. /\ built' \subseteq Setup /\ refs > 0 /\ refs' \in {refs, refs - 1}
        /\ UNCHANGED <<app, starts, step, pad, on, bin, probes, calls, stops, threads>>
    BY <1>1 DEF Build, BuildFails, Builds, Calls, Streaming, Alive
  <2>2. QED
    BY <1>0, <2>1
<1>2. CASE RequestPad
  BY <1>0, <1>2 DEF RequestPad
<1>3. CASE AddElement
  <2>1. Chain[step] \in Name /\ step \in 1 .. Len(Chain) /\ starts \in 1 .. MaxStarts
    BY <1>0, <1>3, ChainFacts DEF AddElement
  <2>2. bin' \in [Name -> Branch \cup {None}]
    BY <1>3, <2>1 DEF AddElement
  <2>3. \A n \in Name : (\A i \in DOMAIN Chain : Chain[i] # n) => bin'[n] = None
    BY <1>0, <1>3, <2>1 DEF AddElement
  <2>4. step' \in 0 .. LinkStep
    BY <1>0, <1>3, <2>1 DEF AddElement
  <2>5. UNCHANGED <<refs, app, built, starts, pad, on, probes, calls, stops, threads>>
    BY <1>3 DEF AddElement
  <2>6. QED
    BY <1>0, <2>1, <2>2, <2>3, <2>4, <2>5
<1>4. CASE Link
  BY <1>0, <1>4 DEF Link
<1>5. CASE LinkFails
  BY <1>0, <1>5 DEF LinkFails, Alive
<1>6. CASE Stop
  BY <1>0, <1>6 DEF Stop
<1>7. CASE Idle
  <2>1. threads' \in Seq(Seq(Part)) /\ bin' \in {bin, [n \in Name |-> None]}
    BY <1>7, CallbackFacts DEF Idle
  <2>2. /\ pad' = "none" /\ calls' = calls + probes - 1 /\ probes' = 0 /\ probes > 0
        /\ UNCHANGED <<refs, app, built, starts, step, on, stops>>
    BY <1>7 DEF Idle
  <2>3. QED
    BY <1>0, <2>1, <2>2
<1>8. CASE IdleAgain
  <2>1. threads' \in Seq(Seq(Part)) /\ bin' \in {bin, [n \in Name |-> None]}
    BY <1>8, CallbackFacts DEF IdleAgain
  <2>2. /\ calls' = calls - 1 /\ calls > 0
        /\ UNCHANGED <<refs, app, built, starts, step, pad, on, probes, stops>>
    BY <1>8 DEF IdleAgain
  <2>3. QED
    BY <1>0, <2>1, <2>2
<1>9. CASE Wake
  <2>1. ASSUME NEW i \in DOMAIN threads, RemoveElement(i) PROVE TypeInv'
    <3> DEFINE part == Head(threads[i])
               left == IF bin[part.name] = part.of THEN None ELSE bin[part.name]
    <3>1. threads' \in Seq(Seq(Part)) /\ part \in Part
          /\ bin' = [bin EXCEPT ![part.name] = left]
      BY <2>1, RemoveFacts
    <3>2. part.name \in Name
      BY <3>1 DEF Part
    <3>3. left \in {bin[part.name], None}
      OBVIOUS
    <3> HIDE DEF part, left
    <3>4. bin' \in [Name -> Branch \cup {None}]
      BY <3>1, <3>2, <3>3
    <3>5. \A n \in Name : bin'[n] \in {bin[n], None}
      BY <3>1, <3>2, <3>3
    <3>6. UNCHANGED <<refs, app, built, starts, step, pad, on, probes, calls, stops>>
      BY <2>1 DEF RemoveElement
    <3>7. QED
      BY <1>0, <3>1, <3>4, <3>5, <3>6
  <2>2. ASSUME NEW i \in DOMAIN threads, Finish(i) PROVE TypeInv'
    <3>1. threads' \in Seq(Seq(Part))
      BY <2>2, FinishFacts
    <3>2. /\ refs > 0 /\ refs' = refs - 1
          /\ UNCHANGED <<app, built, starts, step, pad, on, bin, probes, calls, stops>>
      BY <2>2 DEF Finish, Alive
    <3>3. QED
      BY <1>0, <3>1, <3>2
  <2>3. QED
    BY <1>9, <2>1, <2>2 DEF Wake
<1>10. CASE Release
  BY <1>0, <1>10 DEF Release, Calls, Streaming, Alive
<1>11. CASE UNCHANGED vars
  BY <1>0, <1>11 DEF vars
<1>12. QED
  BY <1>1, <1>2, <1>3, <1>4, <1>5, <1>6, <1>7, <1>8, <1>9, <1>10, <1>11
  DEF Next, Start

\* The types hold in every behaviour.
LEMMA TypeAlways == Spec => []TypeInv
BY InitialType, NextType, PTL DEF Spec

\* Every variable keeps its type: the references never fall below zero.
THEOREM TypeCorrect == Spec => []TypeOK
<1>1. TypeInv => TypeOK
  BY DEF TypeInv
<1>2. QED
  BY <1>1, TypeAlways, PTL

-----------------------------------------------------------------------------
(* Running recordings.                                                      *)

\* Nothing carries a number that was not given yet.
Numbered ==
  /\ on <= starts
  /\ \A n \in Name : bin[n] <= starts
  /\ \A i \in DOMAIN threads : \A k \in DOMAIN threads[i] : threads[i][k].of <= starts

\* Probes are on a pad that no start is about to link.
PadInv ==
  /\ pad = "starting" => step # 0
  /\ pad \in {"none", "starting"} => probes = 0
  /\ stops = "single" => calls = 0 /\ probes <= 1
  /\ pad = "linked" => on # None
  /\ pad = "starting" /\ stops = "single" => ~Threatened(starts)

RunInv == TypeInv /\ Numbered /\ PadInv /\ LinkedBranchStays

\* Before the first call nothing is linked.
LEMMA InitialRun ==
  ASSUME Init
  PROVE  RunInv
<1>1. threads = <<>> /\ DOMAIN threads = {}
  BY DEF Init
<1>2. QED
  BY <1>1, InitialType DEF Init, RunInv, Numbered, PadInv, LinkedBranchStays, None

\* What every step starts from.
LEMMA RunFacts ==
  ASSUME RunInv
  PROVE  /\ starts \in Nat /\ on \in Nat /\ probes \in Nat /\ calls \in Nat
         /\ bin \in [Name -> Nat] /\ threads \in Seq(Seq(Part))
         /\ \A i \in DOMAIN threads : \A k \in DOMAIN threads[i] :
              threads[i][k] \in Part /\ threads[i][k].of \in Nat
         /\ ~Threatened(starts + 1)
<1>1. /\ starts \in Nat /\ on \in Nat /\ probes \in Nat /\ calls \in Nat
      /\ bin \in [Name -> Nat] /\ threads \in Seq(Seq(Part))
  BY RecordingAssumption DEF RunInv, TypeInv, TypeOK, Branch, None
<1>2. ASSUME NEW i \in DOMAIN threads, NEW k \in DOMAIN threads[i]
      PROVE  threads[i][k] \in Part /\ threads[i][k].of \in Nat
  <2>1. threads[i] \in Seq(Part)
    BY <1>1
  <2>2. threads[i][k] \in Part
    BY <2>1
  <2>3. QED
    BY <2>2, RecordingAssumption DEF Part, Branch, None
<1>3. ~Threatened(starts + 1)
  BY <1>1, <1>2 DEF RunInv, Numbered, Threatened
<1>4. QED
  BY <1>1, <1>2, <1>3

\* The functions that the application calls.
LEMMA RunCalls ==
  ASSUME RunInv, TypeInv', UNCHANGED Chain,
         \/ \E f \in Setup : Build(f) \/ BuildFails(f)
         \/ Start \/ Stop \/ Release \/ UNCHANGED vars
  PROVE  RunInv'
<1> USE RunFacts DEF RunInv, Numbered, PadInv, LinkedBranchStays, Threatened, None
<1>1. CASE \E f \in Setup : Build(f) \/ BuildFails(f)
  <2>1. UNCHANGED <<starts, step, pad, on, bin, probes, calls, stops, threads>>
    BY <1>1 DEF Build, BuildFails, Builds
  <2>2. QED
    BY <2>1
<1>2. CASE RequestPad
  <2>1. /\ starts' = starts + 1 /\ step' = 1 /\ pad' \in {pad, "starting"}
        /\ pad' # pad => pad = "none"
        /\ UNCHANGED <<on, bin, probes, calls, stops, threads>>
    BY <1>2 DEF RequestPad
  <2>2. pad # "starting"
    BY <1>2 DEF RequestPad, Calls
  <2>3. Numbered'
    BY <2>1
  <2>4. QED
    BY <2>1, <2>2, <2>3
<1>3. CASE AddElement
  <2>1. /\ Chain[step] \in Name /\ step' # 0
        /\ UNCHANGED <<starts, pad, on, probes, calls, stops, threads>>
    BY <1>3, ChainFacts DEF AddElement
  <2>2. /\ \A n \in Name : bin'[n] \in {bin[n], starts}
        /\ \A n \in Name : bin[n] # None => bin'[n] = bin[n]
    BY <1>3, <2>1 DEF AddElement
  <2>3. Numbered'
    BY <2>1, <2>2
  <2>4. PadInv'
    BY <2>1
  <2>5. LinkedBranchStays'
    <3> SUFFICES ASSUME pad = "linked", stops = "single"
                 PROVE  \A i \in DOMAIN Chain : bin'[Chain[i]] = on
      BY <2>1
    <3>1. \A i \in DOMAIN Chain : bin[Chain[i]] = on /\ on # None
      OBVIOUS
    <3>2. QED
      BY <2>2, <3>1, ChainFacts
  <2>6. QED
    BY <2>3, <2>4, <2>5
<1>4. CASE Link
  BY <1>4 DEF Link, CanLink, TypeInv
<1>5. CASE LinkFails
  BY <1>5 DEF LinkFails
<1>6. CASE Stop
  BY <1>6 DEF Stop, Calls
<1>7. CASE Release
  BY <1>7 DEF Release
<1>8. CASE UNCHANGED vars
  BY <1>8 DEF vars
<1>9. QED
  BY <1>1, <1>2, <1>3, <1>4, <1>5, <1>6, <1>7, <1>8 DEF Start

\* The callbacks of the probes.
LEMMA RunCallbacks ==
  ASSUME RunInv, TypeInv', UNCHANGED Chain, Idle \/ IdleAgain
  PROVE  RunInv'
<1>1. Callback /\ UNCHANGED <<starts, step, on, stops>>
  BY DEF Idle, IdleAgain
<1>2. Numbered'
  <2>1. CASE IsJpeg
    <3>1. bin' = bin /\ \A j \in DOMAIN threads' :
            threads'[j] = Found \/ \E k \in DOMAIN threads : threads'[j] = threads[k]
      BY <1>1, <2>1, CallbackFacts DEF RunInv
    <3>2. \A k \in DOMAIN Found : Found[k].of <= starts
      BY FoundFacts, ChainFacts DEF RunInv, Numbered
    <3>3. QED
      BY <1>1, <3>1, <3>2 DEF RunInv, Numbered
  <2>2. CASE ~IsJpeg
    <3>1. threads' = threads /\ \A n \in Name : bin'[n] = None
      BY <1>1, <2>2, CallbackFacts DEF RunInv
    <3>2. QED
      BY <1>1, <3>1, RunFacts DEF RunInv, Numbered, None
  <2>3. QED
    BY <2>1, <2>2
<1>3. CASE Idle
  <2>1. pad' = "none" /\ probes' = 0 /\ calls' = calls + probes - 1 /\ probes > 0
    BY <1>3 DEF Idle
  <2>2. QED
    BY <1>1, <1>2, <2>1, RunFacts DEF RunInv, PadInv, LinkedBranchStays
<1>4. CASE IdleAgain
  <2>1. calls > 0 /\ UNCHANGED <<pad, probes>>
    BY <1>4 DEF IdleAgain
  <2>2. stops = "repeated"
    BY <2>1, RunFacts DEF RunInv, TypeInv, TypeOK, PadInv
  <2>3. QED
    BY <1>1, <1>2, <2>1, <2>2, RunFacts DEF RunInv, PadInv, LinkedBranchStays
<1>5. QED
  BY <1>3, <1>4

\* The threads.
LEMMA RunThreads ==
  ASSUME RunInv, TypeInv', UNCHANGED Chain, Wake
  PROVE  RunInv'
<1>1. UNCHANGED <<starts, step, pad, on, probes, calls, stops>>
  BY DEF Wake, RemoveElement, Finish
<1>2. \A j \in DOMAIN threads' : \A l \in DOMAIN threads'[j] :
        \E i \in DOMAIN threads : \E k \in DOMAIN threads[i] :
          threads'[j][l] = threads[i][k]
  <2>1. ASSUME NEW i \in DOMAIN threads, RemoveElement(i),
               NEW j \in DOMAIN threads', NEW l \in DOMAIN threads'[j]
        PROVE  \E h \in DOMAIN threads : \E k \in DOMAIN threads[h] :
                 threads'[j][l] = threads[h][k]
    <3>1. CASE j = i
      <4>1. /\ threads[i] \in Seq(Part) /\ threads[i] # <<>>
            /\ threads'[i] = Tail(threads[i])
        BY <2>1, RemoveFacts DEF RunInv
      <4>2. l + 1 \in DOMAIN threads[i] /\ threads'[i][l] = threads[i][l + 1]
        BY <2>1, <3>1, <4>1, TailProperties
      <4>3. QED
        BY <2>1, <3>1, <4>2
    <3>2. CASE j # i
      <4>1. j \in DOMAIN threads /\ threads'[j] = threads[j]
        BY <2>1, <3>2, RemoveFacts DEF RunInv
      <4>2. QED
        BY <2>1, <4>1
    <3>3. QED
      BY <3>1, <3>2
  <2>2. ASSUME NEW i \in DOMAIN threads, Finish(i)
        PROVE  \A j \in DOMAIN threads' : \E k \in DOMAIN threads : threads'[j] = threads[k]
    BY <2>2, FinishFacts DEF RunInv
  <2>3. QED
    BY <2>1, <2>2 DEF Wake
<1>3. \A n \in Name : bin'[n] = bin[n] \/ (bin'[n] = None /\ Threatened(bin[n]))
  <2>1. ASSUME NEW i \in DOMAIN threads, RemoveElement(i), NEW n \in Name,
               bin'[n] # bin[n]
        PROVE  bin'[n] = None /\ Threatened(bin[n])
    <3> DEFINE part == Head(threads[i])
    <3>1. /\ bin' = [bin EXCEPT ![part.name] =
                       IF bin[part.name] = part.of THEN None ELSE bin[part.name]]
          /\ part = threads[i][1] /\ 1 \in DOMAIN threads[i] /\ part \in Part
      BY <2>1, RemoveFacts DEF RunInv
    <3>2. bin \in [Name -> Nat]
      BY RunFacts
    <3> HIDE DEF part
    <3>3. n = part.name /\ bin[n] = part.of /\ bin'[n] = None
      BY <2>1, <3>1, <3>2
    <3>4. QED
      BY <3>1, <3>3 DEF Threatened
  <2>2. ASSUME NEW i \in DOMAIN threads, Finish(i) PROVE bin' = bin
    BY <2>2 DEF Finish
  <2>3. QED
    BY <2>1, <2>2 DEF Wake
<1>4. Numbered'
  <2>1. \A n \in Name : bin'[n] <= starts
    BY <1>3, RunFacts DEF RunInv, Numbered, None
  <2>2. \A j \in DOMAIN threads' : \A l \in DOMAIN threads'[j] : threads'[j][l].of <= starts
    BY <1>2 DEF RunInv, Numbered
  <2>3. QED
    BY <1>1, <2>1, <2>2 DEF RunInv, Numbered
<1>5. PadInv'
  <2>1. pad = "starting" /\ stops = "single" => ~Threatened(starts)'
    BY <1>1, <1>2 DEF RunInv, PadInv, Threatened
  <2>2. QED
    BY <1>1, <2>1 DEF RunInv, PadInv
<1>6. LinkedBranchStays'
  <2> SUFFICES ASSUME pad = "linked", stops = "single"
               PROVE  /\ \A i \in DOMAIN Chain : bin'[Chain[i]] = on
                      /\ ~Threatened(on)'
    BY <1>1 DEF LinkedBranchStays
  <2>1. \A i \in DOMAIN Chain : bin[Chain[i]] = on
    BY DEF RunInv, LinkedBranchStays
  <2>2. ~Threatened(on)
    BY DEF RunInv, LinkedBranchStays
  <2>3. ~Threatened(on)'
    BY <1>1, <1>2, <2>2 DEF Threatened
  <2>4. \A i \in DOMAIN Chain : bin'[Chain[i]] = on
    BY <1>3, <2>1, <2>2, ChainFacts
  <2>5. QED
    BY <2>3, <2>4
<1>7. QED
  BY <1>4, <1>5, <1>6 DEF RunInv

\* The invariant holds in every behaviour.
LEMMA RunAlways == Spec => []RunInv
<1>1. Init => RunInv
  BY InitialRun
<1>2. RunInv /\ [Next]_vars => RunInv'
  <2> SUFFICES ASSUME RunInv, [Next]_vars PROVE RunInv'
    OBVIOUS
  <2>1. TypeInv' /\ UNCHANGED Chain
    BY NextType, ChainStays DEF RunInv
  <2>2. QED
    BY <2>1, RunCalls, RunCallbacks, RunThreads DEF Next
<1>3. QED
  BY <1>1, <1>2, PTL DEF Spec

\* No detached thread takes down a recording that is running, whatever the
\* application calls (xvc.cc:343-391, 426-441).
THEOREM RecordingIsNotTakenDown == Spec => []LinkedBranchStays
<1>1. RunInv => LinkedBranchStays
  BY DEF RunInv
<1>2. QED
  BY <1>1, RunAlways, PTL

-----------------------------------------------------------------------------
(* Careful applications.                                                    *)

\* One call at a time, and only on a pad that it can have.
CallInv ==
  /\ stops = "single" /\ calls = 0
  /\ "mock_camera" \notin built
  /\ pad # "unlinked" /\ (step # 0 <=> pad = "starting")
  /\ pad # "none" => threads = <<>>
  /\ Len(threads) <= 1

\* A start has added the first elements and finds the other names free; after a
\* stop whatever is in the bin is about to be removed.
BinInv ==
  /\ pad = "starting" => \A i \in DOMAIN Chain :
                           bin[Chain[i]] = IF i < step THEN starts ELSE None
  /\ pad = "none" => \A n \in Name : bin[n] = None \/ Doomed(n)

CarefulInv == Careful => CallInv /\ BinInv /\ refs = Owed

\* The first call of a careful application finds nothing.
LEMMA InitialCareful ==
  ASSUME Init
  PROVE  CarefulInv
<1>1. threads = <<>> /\ Len(threads) = 0
  BY DEF Init
<1>2. QED
  BY <1>1 DEF Init, CarefulInv, CallInv, BinInv, Owed

\* Every name is free when no recording is left.
LEMMA NothingLeft ==
  ASSUME BinInv, pad = "none", threads = <<>>
  PROVE  \A n \in Name : bin[n] = None
BY DEF BinInv, Doomed

\* A start of a careful application that has added its elements can link them.
LEMMA CanLinkThen ==
  ASSUME RunInv, CallInv, BinInv, step = LinkStep
  PROVE  CanLink
<1>1. DOMAIN Chain = 1 .. Len(Chain) /\ Len(Chain) \in Nat /\ step = Len(Chain) + 1
  BY ChainFacts DEF LinkStep
<1>2. pad = "starting"
  BY <1>1 DEF CallInv
<1>3. \A i \in DOMAIN Chain : i < step
  BY <1>1
<1>4. QED
  BY <1>2, <1>3 DEF BinInv, CanLink

\* Starting.
LEMMA CarefulStart ==
  ASSUME RunInv, RunInv', CarefulInv, Careful, Start,
         UNCHANGED <<use, codec, Chain, LinkStep>>
  PROVE  CarefulInv'
<1>0. CallInv /\ BinInv /\ refs = Owed
  BY DEF CarefulInv
<1>1. CASE RequestPad
  <2>1. /\ built # {} /\ pad = "none" /\ threads = <<>> /\ step' = 1
        /\ UNCHANGED <<refs, app, built, on, bin, probes, calls, stops, threads>>
    BY <1>1 DEF RequestPad
  <2>2. HasTee
    <3>1. PICK f \in built : TRUE
      BY <2>1
    <3>2. f \in {"setup_h265_srt_stream", "setup_jpeg_srt_stream"}
      BY <1>0, <3>1 DEF CallInv, RunInv, TypeInv, TypeOK, Setup
    <3>3. "t" \in StreamElements(f)
      BY <3>2 DEF StreamElements, JpegStream
    <3>4. QED
      BY <3>1, <3>3 DEF HasTee, InStream
  <2>3. pad' = "starting"
    BY <1>1, <2>1, <2>2 DEF RequestPad
  <2>4. \A n \in Name : bin'[n] = None
    BY <1>0, <2>1, NothingLeft
  <2>5. \A i \in DOMAIN Chain' : ~(i < step')
    BY <2>1, ChainFacts
  <2>6. BinInv'
    BY <2>3, <2>4, <2>5, ChainFacts DEF BinInv
  <2>7. CallInv'
    BY <1>0, <2>1, <2>3 DEF CallInv
  <2>8. refs' = Owed'
    BY <1>0, <2>1 DEF Owed, IsJpeg
  <2>9. QED
    BY <2>6, <2>7, <2>8 DEF CarefulInv
<1>2. CASE AddElement
  <2>1. /\ step \in DOMAIN Chain /\ step' = step + 1
        /\ UNCHANGED <<refs, app, built, starts, pad, on, probes, calls, stops, threads>>
    BY <1>2 DEF AddElement
  <2>2. step \in Nat \ {0} /\ pad = "starting"
    BY <1>0, <2>1, ChainFacts DEF CallInv
  <2>3. bin[Chain[step]] = None
    BY <1>0, <2>1, <2>2 DEF BinInv
  <2>4. bin' = [bin EXCEPT ![Chain[step]] = starts]
    BY <1>2, <2>3 DEF AddElement
  <2>5. ASSUME NEW i \in DOMAIN Chain
        PROVE  bin'[Chain[i]] = IF i < step + 1 THEN starts ELSE None
    <3>1. bin[Chain[i]] = IF i < step THEN starts ELSE None
      BY <1>0, <2>2 DEF BinInv
    <3>2. i \in Nat /\ Chain[i] \in Name /\ (Chain[i] = Chain[step] => i = step)
      BY <2>1, ChainFacts
    <3>3. CASE i = step
      BY <2>2, <2>4, <3>2, <3>3, RunFacts
    <3>4. CASE i # step
      <4>1. bin'[Chain[i]] = bin[Chain[i]]
        BY <2>4, <3>2, <3>4, RunFacts
      <4>2. i < step <=> i < step + 1
        BY <2>2, <3>2, <3>4
      <4>3. QED
        BY <3>1, <4>1, <4>2
    <3>5. QED
      BY <3>3, <3>4
  <2>6. BinInv'
    BY <2>1, <2>2, <2>5 DEF BinInv
  <2>7. CallInv'
    BY <1>0, <2>1, <2>2 DEF CallInv
  <2>8. refs' = Owed'
    BY <1>0, <2>1 DEF Owed, IsJpeg
  <2>9. QED
    BY <2>6, <2>7, <2>8 DEF CarefulInv
<1>3. CASE Link
  <2>1. /\ step # 0 /\ step' = 0 /\ pad' = "linked"
        /\ UNCHANGED <<refs, app, built, starts, bin, probes, calls, stops, threads>>
    BY <1>3, ChainFacts DEF Link, LinkStep
  <2>2. CallInv'
    BY <1>0, <2>1 DEF CallInv
  <2>3. BinInv'
    BY <2>1 DEF BinInv
  <2>4. refs' = Owed'
    BY <1>0, <2>1 DEF Owed, IsJpeg
  <2>5. QED
    BY <2>2, <2>3, <2>4 DEF CarefulInv
<1>4. CASE LinkFails
  BY <1>0, <1>4, CanLinkThen DEF LinkFails
<1>5. QED
  BY <1>1, <1>2, <1>3, <1>4 DEF Start

\* Stopping, and the callback that follows.
LEMMA CarefulStop ==
  ASSUME RunInv, RunInv', CarefulInv, Careful, Stop \/ Idle \/ IdleAgain,
         UNCHANGED <<use, codec, Chain, LinkStep>>
  PROVE  CarefulInv'
<1>0. CallInv /\ BinInv /\ refs = Owed /\ Len(threads) \in Nat
  BY RunFacts DEF CarefulInv
<1>1. CASE Stop
  <2>1. /\ pad = "linked" /\ probes = 0 /\ probes' = 1 /\ stops' = stops
        /\ refs' = IF IsJpeg THEN refs + 1 ELSE refs
        /\ UNCHANGED <<codec, app, built, starts, step, pad, on, bin, calls, threads>>
    BY <1>1 DEF Stop
  <2>2. CallInv' /\ BinInv'
    BY <1>0, <2>1 DEF CallInv, BinInv
  <2>3. refs' = Owed'
    <3>1. calls = 0
      BY <1>0 DEF CallInv
    <3>2. CASE IsJpeg
      BY <1>0, <2>1, <3>1, <3>2 DEF Owed, IsJpeg
    <3>3. CASE ~IsJpeg
      BY <1>0, <2>1, <3>3 DEF Owed, IsJpeg
    <3>4. QED
      BY <3>2, <3>3
  <2>4. QED
    BY <2>2, <2>3 DEF CarefulInv
<1>2. CASE Idle
  <2>1. /\ Callback /\ pad' = "none" /\ probes' = 0 /\ probes > 0
        /\ calls' = calls + probes - 1
        /\ UNCHANGED <<use, codec, refs, app, built, starts, step, on, stops>>
    BY <1>2 DEF Idle
  <2>2. pad \notin {"none", "starting"}
    BY <2>1 DEF RunInv, PadInv
  <2>3. calls = 0 /\ probes = 1 /\ threads = <<>> /\ step = 0
    BY <1>0, <2>1, <2>2, RunFacts DEF CallInv, RunInv, PadInv
  <2>4. pad = "linked"
    BY <1>0, <2>2 DEF CallInv, RunInv, TypeInv, TypeOK
  <2>5. CASE IsJpeg
    <3>1. threads' = Append(threads, Found) /\ bin' = bin
      BY <2>1, <2>5, CallbackFacts DEF RunInv
    <3>2. threads' = <<Found>>
      BY <2>3, <3>1
    <3>3. Len(threads') = 1 /\ threads'[1] = Found /\ DOMAIN threads' = {1}
      BY <3>2
    <3>4. ASSUME NEW n \in Name, bin[n] # None
          PROVE  Doomed(n)'
      <4>1. PICK k \in DOMAIN Chain : Chain[k] = n
        BY <3>4 DEF RunInv, TypeInv
      <4>2. k \in DOMAIN Found /\ Found[k] = [name |-> n, of |-> bin[n]]
        BY <4>1, FoundFacts DEF RunInv
      <4>3. QED
        BY <3>1, <3>3, <4>2 DEF Doomed
    <3>5. BinInv'
      BY <2>1, <3>1, <3>4 DEF BinInv
    <3>6. CallInv'
      BY <1>0, <2>1, <2>3, <3>3 DEF CallInv
    <3>7. refs' = Owed'
      <4>1. Owed' = (IF app = "using" THEN 1 ELSE 0) + 1
        BY <2>1, <2>3, <2>5, <3>3 DEF Owed, IsJpeg
      <4>2. Owed = (IF app = "using" THEN 1 ELSE 0) + 1
        BY <2>3, <2>5 DEF Owed
      <4>3. QED
        BY <1>0, <2>1, <4>1, <4>2
    <3>8. QED
      BY <3>5, <3>6, <3>7 DEF CarefulInv
  <2>6. CASE ~IsJpeg
    <3>1. threads' = threads /\ \A n \in Name : bin'[n] = None
      BY <2>1, <2>6, CallbackFacts DEF RunInv
    <3>2. BinInv'
      BY <2>1, <3>1 DEF BinInv
    <3>3. CallInv'
      BY <1>0, <2>1, <2>3, <3>1 DEF CallInv
    <3>4. refs' = Owed'
      BY <1>0, <2>1, <2>6, <3>1 DEF Owed, IsJpeg
    <3>5. QED
      BY <3>2, <3>3, <3>4 DEF CarefulInv
  <2>7. QED
    BY <2>5, <2>6
<1>3. CASE IdleAgain
  BY <1>0, <1>3 DEF IdleAgain, CallInv
<1>4. QED
  BY <1>1, <1>2, <1>3

\* The thread of a stopped recording.
LEMMA CarefulThreads ==
  ASSUME RunInv, RunInv', CarefulInv, Careful, Wake,
         UNCHANGED <<use, codec, Chain, LinkStep>>
  PROVE  CarefulInv'
<1>0. CallInv /\ BinInv /\ refs = Owed /\ Len(threads) \in Nat
  BY RunFacts DEF CarefulInv
<1>1. UNCHANGED <<app, built, starts, step, pad, on, probes, calls, stops>>
  BY DEF Wake, RemoveElement, Finish
<1>2. PICK i \in DOMAIN threads : RemoveElement(i) \/ Finish(i)
  BY DEF Wake
<1>3. threads \in Seq(Seq(Part)) /\ Len(threads) = 1 /\ i = 1
      /\ DOMAIN threads = {1} /\ threads # <<>>
  <2>1. threads \in Seq(Seq(Part)) /\ Len(threads) <= 1
    BY <1>0, RunFacts DEF CallInv
  <2>2. DOMAIN threads = 1 .. Len(threads)
    BY <2>1
  <2>3. i \in 1 .. Len(threads)
    BY <2>2
  <2>4. \A n \in Nat : n <= 1 /\ i \in 1 .. n => n = 1 /\ i = 1
    OBVIOUS
  <2>5. Len(threads) \in Nat
    BY <2>1
  <2>6. Len(threads) = 1 /\ i = 1
    BY <2>1, <2>3, <2>4, <2>5, Zenon
  <2>7. DOMAIN threads = {1}
    BY <2>2, <2>6
  <2>8. threads # <<>>
    BY <2>6
  <2>9. QED
    BY <2>1, <2>6, <2>7, <2>8
<1>4. pad = "none"
  BY <1>0, <1>3 DEF CallInv
<1>5. CASE RemoveElement(i)
  <2> DEFINE part == Head(threads[1])
  <2>1. /\ threads[1] \in Seq(Part) /\ threads[1] # <<>> /\ part = threads[1][1]
        /\ part \in Part
        /\ threads'[1] = Tail(threads[1]) /\ Len(threads') = 1 /\ DOMAIN threads' = {1}
        /\ bin' = [bin EXCEPT ![part.name] =
                     IF bin[part.name] = part.of THEN None ELSE bin[part.name]]
    BY <1>3, <1>5, RemoveFacts DEF RunInv
  <2>2. part.name \in Name /\ bin \in [Name -> Nat]
    BY <2>1, RunFacts DEF Part
  <2> HIDE DEF part
  <2>3. ASSUME NEW n \in Name, bin'[n] # None
        PROVE  Doomed(n)'
    <3>1. bin'[n] = bin[n] /\ ~(n = part.name /\ bin[n] = part.of)
      BY <2>1, <2>2, <2>3
    <3>2. Doomed(n)
      BY <1>0, <1>4, <2>3, <3>1 DEF BinInv
    <3>3. PICK k \in DOMAIN threads[1] : threads[1][k].name = n /\ threads[1][k].of = bin[n]
      BY <1>3, <3>2 DEF Doomed
    <3>4. k # 1
      BY <2>1, <3>1, <3>3
    <3>5. k - 1 \in DOMAIN threads'[1] /\ threads'[1][k - 1] = threads[1][k]
      BY <2>1, <3>3, <3>4
    <3>6. QED
      BY <2>1, <3>1, <3>3, <3>5 DEF Doomed
  <2>4. BinInv'
    BY <1>1, <1>4, <2>3 DEF BinInv
  <2>5. CallInv'
    BY <1>0, <1>1, <1>4, <2>1 DEF CallInv
  <2>6. refs' = Owed'
    <3>1. refs' = refs
      BY <1>5 DEF RemoveElement
    <3>2. QED
      BY <1>0, <1>1, <1>3, <2>1, <3>1 DEF Owed, IsJpeg
  <2>7. QED
    BY <2>4, <2>5, <2>6 DEF CarefulInv
<1>6. CASE Finish(i)
  <2>1. threads[1] = <<>> /\ bin' = bin /\ refs' = refs - 1
    BY <1>3, <1>6 DEF Finish
  <2>2. threads' \in Seq(Seq(Part)) /\ Len(threads') = 0
    BY <1>3, <1>6, FinishFacts DEF RunInv
  <2>3. threads' = <<>>
    BY <2>2
  <2>4. \A n \in Name : bin[n] = None
    BY <1>0, <1>3, <1>4, <2>1 DEF BinInv, Doomed
  <2>5. BinInv'
    BY <1>1, <1>4, <2>1, <2>4 DEF BinInv
  <2>6. CallInv'
    BY <1>0, <1>1, <1>4, <2>2, <2>3 DEF CallInv
  <2>7. refs' = Owed'
    <3>1. probes \in Nat /\ calls \in Nat
      BY RunFacts
    <3>2. Owed' = Owed - 1
      BY <1>1, <1>3, <2>2, <3>1 DEF Owed, IsJpeg
    <3>3. QED
      BY <1>0, <2>1, <3>2
  <2>8. QED
    BY <2>5, <2>6, <2>7 DEF CarefulInv
<1>7. QED
  BY <1>2, <1>5, <1>6

\* Building, releasing, and steps of the environment.
LEMMA CarefulOther ==
  ASSUME RunInv, RunInv', CarefulInv, Careful,
         (\E f \in Setup : Build(f) \/ BuildFails(f)) \/ Release \/ UNCHANGED vars,
         UNCHANGED <<use, codec, Chain, LinkStep>>
  PROVE  CarefulInv'
<1>0. CallInv /\ BinInv /\ refs = Owed /\ Len(threads) \in Nat
  BY RunFacts DEF CarefulInv
<1>1. CASE \E f \in Setup : Build(f) \/ BuildFails(f)
  <2>1. PICK f \in Setup : Build(f)
    BY <1>1 DEF BuildFails
  <2>2. /\ built' = built \cup {f} /\ f # "mock_camera"
        /\ UNCHANGED <<refs, app, starts, step, pad, on, bin, probes, calls, stops, threads>>
    BY <2>1 DEF Build, Builds
  <2>3. CallInv' /\ BinInv' /\ refs' = Owed'
    BY <1>0, <2>2 DEF CallInv, BinInv, Doomed, Owed, IsJpeg
  <2>4. QED
    BY <2>3 DEF CarefulInv
<1>2. CASE Release
  <2>1. /\ app = "using" /\ app' = "gone" /\ refs' = refs - 1
        /\ UNCHANGED <<built, starts, step, pad, on, bin, probes, calls, stops, threads>>
    BY <1>2 DEF Release, Calls, Streaming
  <2>2. CallInv' /\ BinInv'
    BY <1>0, <2>1 DEF CallInv, BinInv, Doomed
  <2>3. probes \in Nat /\ calls \in Nat
    BY RunFacts
  <2>4. refs' = Owed'
    BY <1>0, <2>1, <2>3 DEF Owed, IsJpeg
  <2>5. QED
    BY <2>2, <2>4 DEF CarefulInv
<1>3. CASE UNCHANGED vars
  BY <1>0, <1>3 DEF vars, CarefulInv, CallInv, BinInv, Doomed, Owed, IsJpeg
<1>4. QED
  BY <1>1, <1>2, <1>3

\* The invariant holds in every behaviour.
LEMMA CarefulAlways == Spec => [](RunInv /\ CarefulInv)
<1>1. Init => CarefulInv
  BY InitialCareful
<1>2. RunInv /\ RunInv' /\ CarefulInv /\ [Next]_vars => CarefulInv'
  <2> SUFFICES ASSUME RunInv, RunInv', CarefulInv, [Next]_vars PROVE CarefulInv'
    OBVIOUS
  <2>1. UNCHANGED <<use, codec, Chain, LinkStep>>
    BY ChainStays
  <2>2. CASE Careful
    BY <2>1, <2>2, CarefulStart, CarefulStop, CarefulThreads, CarefulOther DEF Next
  <2>3. CASE ~Careful
    BY <2>1, <2>3 DEF CarefulInv, Careful
  <2>4. QED
    BY <2>2, <2>3
<1>3. QED
  BY <1>1, <1>2, RunAlways, PTL DEF Spec

\* The pipeline lives as long as the application or a detached thread uses it,
\* and no longer, if the application waits for its recordings (xvc.cc:401, 440).
THEOREM ReferencesBalance == Spec => []RefsAccounted
<1>1. CarefulInv => RefsAccounted
  BY DEF CarefulInv, RefsAccounted
<1>2. QED
  BY <1>1, CarefulAlways, PTL

\* Such an application finds the pad and all names free whenever it starts a
\* recording, after any number of them (xvc.cc:303-331, 406-446).
THEOREM CarefulStartsSucceed == Spec => []StartsSucceed
<1>1. RunInv /\ CarefulInv => StartsSucceed
  BY CanLinkThen DEF CarefulInv, StartsSucceed
<1>2. QED
  BY <1>1, CarefulAlways, PTL

\* The comment "Increase the reference count so that 'pipeline' remains valid"
\* (xvc.cc:400) is right for such an application: a thread that still has
\* something to remove finds the pipeline alive.
THEOREM CarefulThreadsHavePipeline == Spec => [](Careful => ThreadsHavePipeline)
<1>1. RunInv /\ CarefulInv => (Careful => ThreadsHavePipeline)
  <2> SUFFICES ASSUME RunInv, CarefulInv, Careful, threads # <<>> PROVE refs > 0
    BY DEF ThreadsHavePipeline, Alive
  <2>1. threads \in Seq(Seq(Part)) /\ probes \in Nat /\ calls \in Nat
    BY RunFacts
  <2>2. Len(threads) \in Nat \ {0}
    BY <2>1
  <2>3. refs = Owed
    BY DEF CarefulInv
  <2>4. Owed \in Nat /\ Owed >= Len(threads)
    <3>1. (IF app = "using" THEN 1 ELSE 0) \in Nat
      OBVIOUS
    <3>2. (IF IsJpeg THEN probes + calls ELSE 0) \in Nat
      BY <2>1
    <3>3. QED
      BY <2>2, <3>1, <3>2 DEF Owed
  <2>5. QED
    BY <2>2, <2>3, <2>4
<1>2. QED
  BY <1>1, CarefulAlways, PTL

-----------------------------------------------------------------------------
(* Recordings that were stopped.                                            *)

\* A start that is under way is of a recording that was never linked.
ForgetInv == NothingForgotten /\ (step # 0 => on < starts)

\* Before the first call there is no recording.
LEMMA InitialForget ==
  ASSUME Init
  PROVE  ForgetInv
BY DEF Init, ForgetInv, NothingForgotten

\* What the application calls takes no element from a thread and gives the bin
\* none of a recording that was linked before.
LEMMA ForgetCalls ==
  ASSUME RunInv, ForgetInv,
         \/ \E f \in Setup : Build(f) \/ BuildFails(f)
         \/ Start \/ Stop \/ Release \/ UNCHANGED vars
  PROVE  ForgetInv'
<1> USE RunFacts DEF ForgetInv, NothingForgotten, Doomed
<1>1. CASE \E f \in Setup : Build(f) \/ BuildFails(f)
  BY <1>1 DEF Build, BuildFails, Builds
<1>2. CASE RequestPad
  <2>1. /\ starts' = starts + 1 /\ UNCHANGED <<on, bin, threads>>
        /\ pad = "linked" => pad' = "linked"
    BY <1>2 DEF RequestPad
  <2>2. on < starts'
    BY <2>1 DEF RunInv, Numbered
  <2>3. QED
    BY <2>1, <2>2
<1>3. CASE AddElement
  <2>1. /\ on < starts /\ Chain[step] \in Name
        /\ UNCHANGED <<starts, pad, on, threads>>
    BY <1>3, ChainFacts DEF AddElement
  <2>2. \A n \in Name : bin'[n] \in {bin[n], starts}
    BY <1>3, <2>1 DEF AddElement
  <2>3. \A n \in Name : bin'[n] = on => bin'[n] = bin[n]
    BY <2>1, <2>2
  <2>4. \A n \in Name : bin'[n] = bin[n] /\ Doomed(n) => Doomed(n)'
    BY <2>1
  <2>5. NothingForgotten'
    <3> HIDE DEF Doomed
    <3>1. QED
      BY <2>1, <2>3, <2>4
  <2>6. QED
    BY <2>1, <2>5
<1>4. CASE Link
  BY <1>4 DEF Link
<1>5. CASE LinkFails
  BY <1>5 DEF LinkFails
<1>6. CASE Stop
  BY <1>6 DEF Stop, Calls
<1>7. CASE Release
  BY <1>7 DEF Release
<1>8. CASE UNCHANGED vars
  BY <1>8 DEF vars
<1>9. QED
  BY <1>1, <1>2, <1>3, <1>4, <1>5, <1>6, <1>7, <1>8 DEF Start

\* A callback takes down what it finds, or hands all of it to a thread.
LEMMA ForgetCallbacks ==
  ASSUME RunInv, ForgetInv, Idle \/ IdleAgain
  PROVE  ForgetInv'
<1>1. Callback /\ UNCHANGED <<codec, starts, step, on>>
  BY DEF Idle, IdleAgain
<1>2. CASE IsJpeg
  <2>1. /\ bin' = bin /\ threads' = Append(threads, Found)
        /\ threads \in Seq(Seq(Part)) /\ Found \in Seq(Part)
    BY <1>1, <1>2, CallbackFacts, RunFacts, FoundFacts DEF RunInv
  <2>2. Len(threads) + 1 \in DOMAIN threads' /\ threads'[Len(threads) + 1] = Found
    BY <2>1, AppendProperties
  <2>3. ASSUME NEW n \in Name, bin'[n] = on, on # None PROVE Doomed(n)'
    <3>1. PICK k \in DOMAIN Chain : Chain[k] = n
      BY <2>1, <2>3 DEF RunInv, TypeInv
    <3>2. k \in DOMAIN Found /\ Found[k] = [name |-> n, of |-> bin[n]]
      BY <3>1, FoundFacts DEF RunInv
    <3>3. QED
      BY <2>1, <2>2, <3>2 DEF Doomed
  <2>4. QED
    BY <1>1, <2>3 DEF ForgetInv, NothingForgotten
<1>3. CASE ~IsJpeg
  <2>1. \A n \in Name : bin'[n] = None
    BY <1>1, <1>3, CallbackFacts DEF RunInv
  <2>2. QED
    BY <1>1, <2>1 DEF ForgetInv, NothingForgotten
<1>4. QED
  BY <1>2, <1>3

\* A thread keeps its part of the list until it has removed it.
LEMMA ForgetThreads ==
  ASSUME RunInv, ForgetInv, Wake
  PROVE  ForgetInv'
<1>1. UNCHANGED <<starts, step, pad, on>>
  BY DEF Wake, RemoveElement, Finish
<1>2. ASSUME NEW i \in DOMAIN threads, RemoveElement(i), NEW n \in Name,
             bin'[n] = on, on # None, Doomed(n) \/ bin[n] # on
      PROVE  Doomed(n)'
  <2> DEFINE part == Head(threads[i])
  <2>1. /\ threads[i] \in Seq(Part) /\ threads[i] # <<>> /\ part = threads[i][1]
        /\ part \in Part /\ DOMAIN threads' = DOMAIN threads
        /\ threads'[i] = Tail(threads[i])
        /\ \A j \in DOMAIN threads : j # i => threads'[j] = threads[j]
        /\ bin' = [bin EXCEPT ![part.name] =
                     IF bin[part.name] = part.of THEN None ELSE bin[part.name]]
    BY <1>2, RemoveFacts DEF RunInv
  <2>2. part.name \in Name /\ bin \in [Name -> Nat]
    BY <2>1, RunFacts DEF Part
  <2> HIDE DEF part
  <2>3. bin'[n] = bin[n] /\ ~(n = part.name /\ bin[n] = part.of)
    BY <1>2, <2>1, <2>2
  <2>4. PICK j \in DOMAIN threads : \E k \in DOMAIN threads[j] :
          threads[j][k].name = n /\ threads[j][k].of = bin[n]
    BY <1>2, <2>3 DEF Doomed
  <2>5. PICK k \in DOMAIN threads[j] :
          threads[j][k].name = n /\ threads[j][k].of = bin[n]
    BY <2>4
  <2>6. CASE j = i
    <3>1. k # 1
      BY <2>1, <2>3, <2>5, <2>6
    <3>2. k - 1 \in DOMAIN threads'[i] /\ threads'[i][k - 1] = threads[i][k]
      BY <2>1, <2>5, <2>6, <3>1
    <3>3. QED
      BY <2>1, <2>3, <2>5, <2>6, <3>2 DEF Doomed
  <2>7. CASE j # i
    BY <2>1, <2>3, <2>5, <2>7 DEF Doomed
  <2>8. QED
    BY <2>6, <2>7
<1>3. ASSUME NEW i \in DOMAIN threads, Finish(i), NEW n \in Name, Doomed(n)
      PROVE  Doomed(n)'
  <2>1. /\ threads \in Seq(Seq(Part)) /\ threads[i] = <<>> /\ bin' = bin
        /\ threads' = RemoveAt(threads, i)
    BY <1>3, RunFacts DEF Finish
  <2>2. PICK j \in DOMAIN threads : \E k \in DOMAIN threads[j] :
          threads[j][k].name = n /\ threads[j][k].of = bin[n]
    BY <1>3 DEF Doomed
  <2>3. j # i
    BY <2>1, <2>2
  <2>4. \E h \in DOMAIN threads' : threads'[h] = threads[j]
    BY <2>1, <2>3, RemoveAtKeeps
  <2>5. QED
    BY <2>1, <2>2, <2>4 DEF Doomed
<1>4. ASSUME NEW i \in DOMAIN threads, Finish(i) PROVE bin' = bin
  BY <1>4 DEF Finish
<1>5. PICK i \in DOMAIN threads : RemoveElement(i) \/ Finish(i)
  BY DEF Wake
<1>6. QED
  BY <1>1, <1>2, <1>3, <1>4, <1>5 DEF ForgetInv, NothingForgotten

(* Every element of a recording that was taken off the tee and is still in  *)
(* the bin is on the list of a detached thread, for any number of starts    *)
(* and stops in any order and with any use of the functions                 *)
(* (xvc.cc:299-331, 406-446).                                               *)
THEOREM StoppedRecordingIsNotForgotten == Spec => []NothingForgotten
<1>1. Init => ForgetInv
  BY InitialForget
<1>2. RunInv /\ ForgetInv /\ [Next]_vars => ForgetInv'
  BY ForgetCalls, ForgetCallbacks, ForgetThreads DEF Next
<1>3. ForgetInv => NothingForgotten
  BY DEF ForgetInv
<1>4. QED
  BY <1>1, <1>2, <1>3, RunAlways, PTL DEF Spec
=============================================================================
