--------------------------- MODULE TaskQueueProofs ---------------------------
(***************************************************************************)
(* Proofs about TaskQueue, for any finite set of workers, any tasks and    *)
(* keys and any initial tasks.                                             *)
(***************************************************************************)
EXTENDS TaskQueue, FiniteSetTheorems, SequenceTheorems, TLAPS

(***************************************************************************)
(* The inductive invariant.  Conservation alone is not inductive: that a   *)
(* report finds a positive counter and that the loop ends with an empty    *)
(* queue rest on where the queue and the workers are.                      *)
(***************************************************************************)

\* Where the queue goroutine is determines what its variables hold.
ControlInv ==
  /\ qpc = "init" => /\ incompleteTasks = 0
                     /\ addedKeys = {}
                     /\ Len(q) = nextInitial - 1
                     /\ \A w \in Workers : wpc[w] = "idle"
  /\ qpc # "init" => nextInitial = Len(InitialTasks) + 1
  /\ qpc # "select" => currentTask = NoTask
  /\ qpc \notin {"init", "loop", "select"} => incompleteTasks = 0

\* Where a worker is determines what it holds.
WorkerInv ==
  \A w \in Workers :
    /\ held[w] # NoTask <=> Busy(w)
    /\ offered[w] # NoTask <=> wpc[w] = "posting"
    /\ wpc[w] = "exited" => outClosed

CounterInv ==
  qpc # "init" => incompleteTasks = Len(Restored) + Cardinality(BusyWorkers)

IInv == TypeOK /\ ControlInv /\ WorkerInv /\ CounterInv

-----------------------------------------------------------------------------
(* Facts about single states.                                              *)

LEMMA ConsProperties ==
  ASSUME NEW t \in Tasks, NEW s \in Seq(Tasks)
  PROVE  LET r == <<t>> \o s
         IN  r # <<>> /\ Head(r) = t /\ Tail(r) = s
<1>. DEFINE r == <<t>> \o s
<1>1. <<t>> \in Seq(Tasks) /\ Len(<<t>>) = 1 /\ <<t>>[1] = t
  OBVIOUS
<1>2. /\ r \in Seq(Tasks) /\ Len(r) = 1 + Len(s) /\ Len(s) \in Nat
      /\ \A i \in 1 .. 1 + Len(s) : r[i] = IF i <= 1 THEN <<t>>[i] ELSE s[i - 1]
  BY <1>1, ConcatProperties, LenProperties
<1>. HIDE DEF r
<1>3. r # <<>>
  BY <1>2, EmptySeq
<1>4. Head(r) = t
  BY <1>1, <1>2, <1>3
<1>5. /\ Tail(r) \in Seq(Tasks) /\ Len(Tail(r)) = Len(s)
      /\ \A i \in 1 .. Len(Tail(r)) : Tail(r)[i] = r[i + 1]
  BY <1>2, <1>3, HeadTailProperties
<1>6. \A i \in 1 .. Len(s) : Tail(r)[i] = s[i]
  BY <1>2, <1>5
<1>7. Tail(r) = s
  BY <1>5, <1>6, SeqEqual
<1>. QED  BY <1>3, <1>4, <1>7 DEF r

LEMMA MoveOne ==
  ASSUME NEW s \in Seq(Tasks), NEW t \in Tasks, NEW u \in Seq(Tasks)
  PROVE  Append(s, t) \o u = s \o (<<t>> \o u)
<1>. DEFINE one == <<t>>
<1>1. one \in Seq(Tasks)
  OBVIOUS
<1>2. Append(s, t) = s \o one
  OBVIOUS
<1>. HIDE DEF one
<1>3. (s \o one) \o u = s \o (one \o u)
  BY <1>1, ConcatAssociative
<1>. QED  BY <1>2, <1>3 DEF one

LEMMA PutBack ==
  ASSUME NEW t \in Tasks \cup {NoTask}, NEW s \in Seq(Tasks)
  PROVE  LET r == IF t = NoTask THEN s ELSE <<t>> \o s
         IN  r \in Seq(Tasks) /\ Len(r) = Len(s) + (IF t = NoTask THEN 0 ELSE 1)
<1>1. CASE t = NoTask
  BY <1>1, LenProperties
<1>2. CASE t # NoTask
  <2>1. <<t>> \in Seq(Tasks) /\ Len(<<t>>) = 1
    BY <1>2
  <2>. QED  BY <1>2, <2>1, ConcatProperties, LenProperties
<1>. QED  BY <1>1, <1>2

LEMMA RestoredType ==
  ASSUME TypeOK
  PROVE  /\ Restored \in Seq(Tasks)
         /\ Len(Restored) = Len(q) + (IF currentTask = NoTask THEN 0 ELSE 1)
BY PutBack DEF TypeOK, Restored

LEMMA BusyFinite ==
  /\ IsFiniteSet(BusyWorkers)
  /\ Cardinality(BusyWorkers) \in Nat
<1>1. BusyWorkers \in SUBSET Workers
  BY DEF BusyWorkers
<1>. QED  BY <1>1, FS_Subset, FS_CardinalityType, WorkersAssumption

\* A counter of zero leaves nothing waiting and nobody busy.
LEMMA NothingLeft ==
  ASSUME IInv, qpc # "init", incompleteTasks = 0
  PROVE  Restored = <<>> /\ \A w \in Workers : ~Busy(w)
<1>1. Len(Restored) + Cardinality(BusyWorkers) = 0
  BY DEF IInv, CounterInv
<1>2. Restored \in Seq(Tasks) /\ Len(Restored) \in Nat
  BY RestoredType, LenProperties DEF IInv
<1>3. Len(Restored) = 0 /\ Cardinality(BusyWorkers) = 0
  BY <1>1, <1>2, BusyFinite
<1>4. BusyWorkers = {}
  BY <1>3, BusyFinite, FS_EmptySet
<1>5. Restored = <<>>
  BY <1>2, <1>3, EmptySeq
<1>. QED  BY <1>4, <1>5 DEF BusyWorkers

-----------------------------------------------------------------------------
(* The invariant is inductive.                                             *)

LEMMA InvInit == Init => IInv
<1>. SUFFICES ASSUME Init PROVE IInv
  OBVIOUS
<1>1. TypeOK
  BY TasksAssumption, EmptySeq DEF Init, TypeOK
<1>2. ControlInv
  BY DEF Init, ControlInv
<1>3. WorkerInv
  BY DEF Init, WorkerInv, Busy
<1>4. CounterInv
  BY DEF Init, CounterInv
<1>. QED  BY <1>1, <1>2, <1>3, <1>4 DEF IInv

\* An action that leaves alone who is busy, what waits and the counter keeps
\* the count right.
LEMMA CounterKept ==
  ASSUME IInv, qpc # "init",
         Len(Restored') = Len(Restored), BusyWorkers' = BusyWorkers,
         incompleteTasks' = incompleteTasks
  PROVE  CounterInv'
BY DEF IInv, CounterInv

LEMMA StepAlone ==
  ASSUME IInv, QueueAlone
  PROVE  IInv'
<1>. USE TasksAssumption DEF IInv
<1>0. q \in Seq(Tasks) /\ Len(q) \in Nat /\ Len(InitialTasks) \in Nat
  BY LenProperties DEF TypeOK
<1>1. CASE AddInitial
  <2>. USE <1>1 DEF AddInitial, workerVars
  <2>1. q' = Append(q, InitialTasks[nextInitial])
    BY DEF ControlInv
  <2>2. InitialTasks[nextInitial] \in Tasks
    BY <1>0, ElementOfSeq DEF TypeOK
  <2>3. TypeOK'
    BY <1>0, <2>1, <2>2 DEF TypeOK
  <2>4. ControlInv'
    BY <1>0, <2>1, <2>2 DEF ControlInv, TypeOK
  <2>5. WorkerInv'
    BY DEF WorkerInv, Busy, outClosed
  <2>6. CounterInv'
    BY DEF CounterInv
  <2>. QED  BY <2>3, <2>4, <2>5, <2>6
<1>2. CASE EnterLoop
  <2>. USE <1>2 DEF EnterLoop, workerVars
  <2>1. nextInitial = Len(InitialTasks) + 1 /\ Len(q) = Len(InitialTasks)
    BY <1>0 DEF ControlInv, TypeOK
  <2>2. TypeOK'
    BY <1>0 DEF TypeOK
  <2>3. ControlInv'
    BY <2>1 DEF ControlInv
  <2>4. WorkerInv'
    BY DEF WorkerInv, Busy, outClosed
  <2>5. Restored' = q
    BY DEF Restored, ControlInv
  <2>6. BusyWorkers' = {}
    BY DEF BusyWorkers, Busy, ControlInv
  <2>7. CounterInv'
    BY <1>0, <2>1, <2>5, <2>6, FS_EmptySet DEF CounterInv
  <2>. QED  BY <2>2, <2>3, <2>4, <2>7
<1>3. CASE PopTask
  <2>. USE <1>3 DEF PopTask, workerVars
  <2>1. q # <<>> => /\ Head(q) \in Tasks
                    /\ Tail(q) \in Seq(Tasks)
                    /\ Len(Tail(q)) = Len(q) - 1
    BY <1>0, HeadTailProperties
  <2>2. TypeOK'
    BY <2>1 DEF TypeOK
  <2>3. ControlInv'
    BY DEF ControlInv
  <2>4. WorkerInv'
    BY DEF WorkerInv, Busy, outClosed
  <2>5. Len(Restored) = Len(q)
    BY DEF Restored, ControlInv
  <2>6. Len(Restored') = Len(q') + (IF currentTask' = NoTask THEN 0 ELSE 1)
    BY <2>2, PutBack DEF TypeOK, Restored
  <2>7. Len(Restored') = Len(Restored)
    BY <1>0, <2>1, <2>5, <2>6
  <2>8. BusyWorkers' = BusyWorkers
    BY DEF BusyWorkers, Busy
  <2>9. CounterInv'
    BY <2>7, <2>8, CounterKept
  <2>. QED  BY <2>2, <2>3, <2>4, <2>9
<1>4. CASE LeaveLoop
  <2>. USE <1>4 DEF LeaveLoop, workerVars
  <2>1. TypeOK'
    BY DEF TypeOK
  <2>2. ControlInv'
    BY DEF ControlInv
  <2>3. WorkerInv'
    BY DEF WorkerInv, Busy, outClosed
  <2>4. CounterInv'
    BY DEF CounterInv, Restored, BusyWorkers, Busy
  <2>. QED  BY <2>1, <2>2, <2>3, <2>4
<1>5. CASE CloseChannel
  <2>. USE <1>5 DEF CloseChannel, workerVars
  <2>1. TypeOK'
    BY DEF TypeOK
  <2>2. ControlInv'
    BY DEF ControlInv
  <2>3. WorkerInv'
    BY DEF WorkerInv, Busy, outClosed
  <2>4. CounterInv'
    BY DEF CounterInv, Restored, BusyWorkers, Busy
  <2>. QED  BY <2>1, <2>2, <2>3, <2>4
<1>. QED  BY <1>1, <1>2, <1>3, <1>4, <1>5 DEF QueueAlone

\* What a worker's step leaves alone.
LEMMA StepWorker ==
  ASSUME IInv, NEW w \in Workers,
         \/ \E t \in Tasks : Post(w, t)
         \/ Finish(w)
         \/ Exit(w)
  PROVE  IInv'
<1>. USE TasksAssumption DEF IInv
<1>1. qpc # "init"
  BY DEF Post, Finish, Exit, ControlInv, outClosed
<1>2. UNCHANGED <<addedKeys, q, nextInitial, incompleteTasks, currentTask, qpc,
                  held, handedOut>>
  BY DEF Post, Finish, Exit, queueVars
<1>3. BusyWorkers' = BusyWorkers
  BY DEF Post, Finish, Exit, BusyWorkers, Busy, TypeOK
<1>4. TypeOK'
  BY <1>2 DEF Post, Finish, Exit, TypeOK
<1>5. ControlInv'
  BY <1>1, <1>2 DEF ControlInv
<1>6. WorkerInv'
  BY <1>2 DEF Post, Finish, Exit, WorkerInv, TypeOK, Busy, outClosed
<1>7. Restored' = Restored
  BY <1>2 DEF Restored
<1>8. CounterInv'
  BY <1>1, <1>2, <1>3, <1>7, CounterKept
<1>. QED  BY <1>4, <1>5, <1>6, <1>8

\* An enqueued task is counted, a dropped one is not.
LEMMA EnqueueStep ==
  ASSUME TypeOK, NEW t \in Tasks, Enqueue(t)
  PROVE  /\ q' \in Seq(Tasks) /\ addedKeys' \subseteq Keys
         /\ incompleteTasks' \in Nat
         /\ incompleteTasks' - Len(q') = incompleteTasks - Len(Restored)
<1>0. /\ Restored \in Seq(Tasks) /\ Len(Restored) \in Nat
      /\ incompleteTasks \in Nat /\ addedKeys \subseteq Keys
  BY RestoredType, LenProperties DEF TypeOK
<1>1. CASE KeyOf[t] \in addedKeys
  <2>1. q' = Restored /\ UNCHANGED <<addedKeys, incompleteTasks>>
    BY <1>1 DEF Enqueue
  <2>. QED  BY <1>0, <2>1
<1>2. CASE KeyOf[t] \notin addedKeys
  <2>1. /\ q' = Append(Restored, t)
        /\ addedKeys' = addedKeys \cup {KeyOf[t]}
        /\ incompleteTasks' = incompleteTasks + 1
    BY <1>2 DEF Enqueue
  <2>2. q' \in Seq(Tasks) /\ Len(q') = Len(Restored) + 1
    BY <1>0, <2>1
  <2>3. addedKeys' \subseteq Keys
    BY <1>0, <2>1, TasksAssumption
  <2>. QED  BY <1>0, <2>1, <2>2, <2>3
<1>. QED  BY <1>1, <1>2

\* A rendezvous happens in the select, where the counter is positive.
LEMMA StepRendezvous ==
  ASSUME IInv, NEW w \in Workers, Rendezvous(w)
  PROVE  IInv'
<1>. USE TasksAssumption DEF IInv
<1>0. /\ q \in Seq(Tasks) /\ Len(q) \in Nat
      /\ Restored \in Seq(Tasks) /\ Len(Restored) \in Nat
      /\ Len(Restored) = Len(q) + (IF currentTask = NoTask THEN 0 ELSE 1)
      /\ incompleteTasks \in Nat
      /\ IsFiniteSet(BusyWorkers) /\ Cardinality(BusyWorkers) \in Nat
  BY LenProperties, RestoredType, BusyFinite DEF TypeOK
<1>1. CASE ReceiveTask(w)
  <2>. USE <1>1 DEF ReceiveTask
  <2>1. offered[w] \in Tasks /\ KeyOf[offered[w]] \in Keys
    BY DEF WorkerInv, TypeOK
  <2>3. /\ q' \in Seq(Tasks) /\ addedKeys' \subseteq Keys
        /\ incompleteTasks' \in Nat
        /\ incompleteTasks' - Len(q') = incompleteTasks - Len(Restored)
    BY <2>1, EnqueueStep
  <2>4. TypeOK'
    BY <2>3 DEF TypeOK
  <2>5. ControlInv'
    BY DEF ControlInv
  <2>6. WorkerInv'
    BY DEF WorkerInv, TypeOK, Busy, outClosed
  <2>7. BusyWorkers' = BusyWorkers
    BY DEF BusyWorkers, Busy, TypeOK
  <2>8. Restored' = q'
    BY DEF Restored
  <2>9. CounterInv'
    BY <1>0, <2>3, <2>7, <2>8, LenProperties DEF CounterInv
  <2>. QED  BY <2>4, <2>5, <2>6, <2>9
<1>2. CASE SendTask(w)
  <2>. USE <1>2 DEF SendTask
  <2>1. currentTask \in Tasks /\ KeyOf[currentTask] \in Keys
    BY DEF TypeOK
  <2>2. TypeOK'
    BY <2>1 DEF TypeOK
  <2>3. ControlInv'
    BY DEF ControlInv
  <2>4. WorkerInv'
    BY <2>1 DEF WorkerInv, TypeOK, Busy, outClosed
  <2>5. w \notin BusyWorkers /\ BusyWorkers' = BusyWorkers \cup {w}
    BY DEF BusyWorkers, Busy, TypeOK
  <2>6. Cardinality(BusyWorkers') = Cardinality(BusyWorkers) + 1
    BY <1>0, <2>5, FS_AddElement
  <2>7. Restored' = q
    BY DEF Restored
  <2>8. CounterInv'
    BY <1>0, <2>6, <2>7 DEF CounterInv
  <2>. QED  BY <2>2, <2>3, <2>4, <2>8
<1>3. CASE ReceiveDone(w)
  <2>. USE <1>3 DEF ReceiveDone
  <2>1. w \in BusyWorkers /\ BusyWorkers' = BusyWorkers \ {w}
    BY DEF BusyWorkers, Busy, TypeOK
  <2>2. Cardinality(BusyWorkers') = Cardinality(BusyWorkers) - 1
    BY <1>0, <2>1, FS_RemoveElement
  <2>3. Cardinality(BusyWorkers') \in Nat
    BY <2>1, <1>0, FS_RemoveElement, FS_CardinalityType
  <2>4. incompleteTasks - 1 \in Nat
    BY <1>0, <2>2, <2>3 DEF CounterInv
  <2>5. TypeOK'
    BY <1>0, <2>4 DEF TypeOK
  <2>6. ControlInv'
    BY DEF ControlInv
  <2>7. WorkerInv'
    BY DEF WorkerInv, TypeOK, Busy, outClosed
  <2>8. Restored' = Restored
    BY DEF Restored
  <2>9. CounterInv'
    BY <1>0, <2>2, <2>8 DEF CounterInv
  <2>. QED  BY <2>5, <2>6, <2>7, <2>9
<1>. QED  BY <1>1, <1>2, <1>3 DEF Rendezvous

LEMMA InvUnchanged == IInv /\ UNCHANGED vars => IInv'
BY DEF IInv, TypeOK, ControlInv, WorkerInv, CounterInv, Restored, BusyWorkers,
       Busy, outClosed, vars, queueVars, workerVars

LEMMA InvStep == IInv /\ [Next]_vars => IInv'
BY StepAlone, StepRendezvous, StepWorker, InvUnchanged
   DEF Next, QueueStep, Terminated

THEOREM Invariance == Spec => []IInv
BY InvInit, InvStep, PTL DEF Spec

-----------------------------------------------------------------------------
(* What the invariant gives at once.                                       *)

\* Every variable of the queue and of the workers keeps its type; the counter
\* never goes below zero (queue.go:61).
THEOREM TypeCorrectness == Spec => []TypeOK
BY Invariance, PTL DEF IInv

\* The counter is exact in every state of every crawl: queue.go:28-63 for any
\* number of workers.
THEOREM ConservationHolds == Spec => []Conservation
<1>1. IInv => Conservation
  BY DEF IInv, CounterInv, Conservation
<1>. QED  BY <1>1, Invariance, PTL

\* No interleaving of the deferred closes (scraper.go:48-50) with the
\* workers sends on a closed channel.
THEOREM NoPanic == Spec => []NoSendOnClosedChannel
<1>1. ASSUME IInv PROVE NoSendOnClosedChannel
  <2>1. CASE doneClosed
    <3>1. qpc # "init" /\ incompleteTasks = 0
      BY <1>1, <2>1 DEF IInv, ControlInv, doneClosed
    <3>. QED  BY <1>1, <3>1, NothingLeft DEF NoSendOnClosedChannel, Busy
  <2>2. CASE ~doneClosed
    BY <2>2 DEF NoSendOnClosedChannel, doneClosed, inClosed
  <2>. QED  BY <2>1, <2>2
<1>. QED  BY <1>1, Invariance, PTL

-----------------------------------------------------------------------------
(* How the line of waiting tasks moves.                                    *)

Rest == SubSeq(InitialTasks, nextInitial, Len(InitialTasks))

LEMMA RestType ==
  ASSUME IInv
  PROVE  /\ Rest \in Seq(Tasks)
         /\ qpc # "init" => Rest = <<>>
<1>1. InitialTasks \in Seq(Tasks) /\ Len(InitialTasks) \in Nat
  BY TasksAssumption, LenProperties
<1>2. nextInitial \in 1 .. Len(InitialTasks) + 1
  BY DEF IInv, TypeOK
<1>3. \A i \in nextInitial .. Len(InitialTasks) : InitialTasks[i] \in Tasks
  BY <1>1, <1>2, ElementOfSeq
<1>4. Rest \in Seq(Tasks)
  BY <1>1, <1>2, <1>3, SubSeqProperties DEF Rest
<1>5. qpc # "init" => Rest = <<>>
  <2>1. SUFFICES ASSUME qpc # "init" PROVE Rest = <<>>
    OBVIOUS
  <2>2. nextInitial = Len(InitialTasks) + 1
    BY <2>1 DEF IInv, ControlInv
  <2>. QED  BY <1>1, <2>2, SubSeqEmpty DEF Rest
<1>. QED  BY <1>4, <1>5

LEMMA LineType ==
  ASSUME IInv
  PROVE  /\ Line \in Seq(Tasks)
         /\ qpc # "init" => Line = Restored
<1>1. Restored \in Seq(Tasks)
  BY RestoredType DEF IInv
<1>2. Line = Restored \o Rest
  BY DEF Line, Rest
<1>3. Line \in Seq(Tasks)
  BY <1>1, <1>2, RestType, ConcatProperties
<1>4. qpc # "init" => Line = Restored
  BY <1>1, <1>2, RestType, ConcatEmptySeq
<1>. QED  BY <1>3, <1>4

\* The queue goroutine alone moves no task in the line: the loop over
\* initialTasks passes the first to q, PopTask the first of q to currentTask.
LEMMA LineKept ==
  ASSUME IInv, QueueAlone
  PROVE  Line' = Line /\ UNCHANGED <<addedKeys, held, handedOut, wpc>>
<1>0. UNCHANGED <<addedKeys, held, handedOut, wpc>>
  BY DEF QueueAlone, AddInitial, EnterLoop, PopTask, LeaveLoop, CloseChannel,
         workerVars
<1>1. CASE AddInitial
  <2>. DEFINE x == InitialTasks[nextInitial]
              later == SubSeq(InitialTasks, nextInitial + 1, Len(InitialTasks))
  <2>1. /\ InitialTasks \in Seq(Tasks) /\ Len(InitialTasks) \in Nat
        /\ nextInitial \in 1 .. Len(InitialTasks)
        /\ q \in Seq(Tasks)
    BY <1>1, TasksAssumption, LenProperties DEF AddInitial, IInv, TypeOK
  <2>2. x \in Tasks
    BY <2>1, ElementOfSeq
  <2>3. SubSeq(InitialTasks, nextInitial, Len(InitialTasks)) = <<x>> \o later
    BY <2>1, SubSeqRecursiveFirst
  <2>4. later \in Seq(Tasks)
    <3>1. \A i \in nextInitial + 1 .. Len(InitialTasks) : InitialTasks[i] \in Tasks
      BY <2>1, ElementOfSeq
    <3>. QED  BY <2>1, <3>1, SubSeqProperties
  <2>5. Restored = q /\ Restored' = Append(q, x)
    BY <1>1 DEF AddInitial, IInv, ControlInv, Restored
  <2>6. Line = q \o (<<x>> \o later)
    BY <2>3, <2>5 DEF Line
  <2>7. nextInitial' = nextInitial + 1
    BY <1>1 DEF AddInitial
  <2>8. Line' = Append(q, x) \o later
    BY <2>5, <2>7 DEF Line
  <2>9. Append(q, x) \o later = q \o (<<x>> \o later)
    BY <2>1, <2>2, <2>4, MoveOne
  <2>. QED  BY <1>0, <2>6, <2>8, <2>9
<1>2. CASE PopTask
  <2>1. q \in Seq(Tasks)
    BY DEF IInv, TypeOK
  <2>2. Restored = q
    BY <1>2 DEF PopTask, IInv, ControlInv, Restored
  <2>3. Restored' = q
    <3>1. CASE q = <<>>
      BY <1>2, <3>1 DEF PopTask, Restored
    <3>2. CASE q # <<>>
      <4>1. /\ Head(q) \in Tasks
            /\ <<Head(q)>> \o Tail(q) = q
        <5>1. /\ Head(q) \in Tasks /\ Tail(q) \in Seq(Tasks)
              /\ Len(Tail(q)) = Len(q) - 1
              /\ \A i \in 1 .. Len(Tail(q)) : Tail(q)[i] = q[i + 1]
              /\ Len(q) \in Nat
          BY <2>1, <3>2, HeadTailProperties, LenProperties
        <5>2. <<Head(q)>> \in Seq(Tasks) /\ Len(<<Head(q)>>) = 1
          BY <5>1
        <5>3. /\ <<Head(q)>> \o Tail(q) \in Seq(Tasks)
              /\ Len(<<Head(q)>> \o Tail(q)) = Len(q)
              /\ \A i \in 1 .. Len(q) : (<<Head(q)>> \o Tail(q))[i] =
                   IF i <= 1 THEN <<Head(q)>>[i] ELSE Tail(q)[i - 1]
          BY <5>1, <5>2, ConcatProperties
        <5>4. Head(q) = q[1]
          BY <2>1, <3>2
        <5>5. \A i \in 1 .. Len(q) : (<<Head(q)>> \o Tail(q))[i] = q[i]
          BY <5>1, <5>3, <5>4
        <5>. QED  BY <2>1, <5>1, <5>3, <5>5, SeqEqual
      <4>2. currentTask' = Head(q) /\ q' = Tail(q)
        BY <1>2, <3>2 DEF PopTask
      <4>. QED  BY <4>1, <4>2, TasksAssumption DEF Restored
    <3>. QED  BY <3>1, <3>2
  <2>. QED  BY <1>0, <1>2, <2>2, <2>3 DEF PopTask, Line
<1>3. CASE EnterLoop \/ LeaveLoop \/ CloseChannel
  BY <1>0, <1>3 DEF EnterLoop, LeaveLoop, CloseChannel, Line, Restored
<1>. QED  BY <1>1, <1>2, <1>3 DEF QueueAlone

\* A posted task goes to the end of the line, unless its key is known; a
\* worker is handed the first; a report moves nothing.
LEMMA LineMoves ==
  ASSUME IInv, IInv', NEW w \in Workers
  PROVE  /\ ReceiveTask(w) =>
              /\ offered[w] \in Tasks
              /\ IF KeyOf[offered[w]] \in addedKeys
                   THEN Line' = Line /\ addedKeys' = addedKeys
                   ELSE /\ Line' = Append(Line, offered[w])
                        /\ addedKeys' = addedKeys \cup {KeyOf[offered[w]]}
         /\ SendTask(w) =>
              /\ currentTask \in Tasks
              /\ Line # <<>> /\ Head(Line) = currentTask
              /\ Line' = Tail(Line)
         /\ ReceiveDone(w) => Line' = Line
<1>1. qpc = "select" => Line = Restored
  BY LineType
<1>2. qpc' = "loop" => Line' = Restored'
  <2>1. SUFFICES ASSUME qpc' = "loop" PROVE Line' = Restored'
    OBVIOUS
  <2>2. nextInitial' = Len(InitialTasks) + 1
    BY <2>1 DEF IInv, ControlInv
  <2>3. SubSeq(InitialTasks, nextInitial, Len(InitialTasks))' = <<>>
    BY <2>2, TasksAssumption, LenProperties, SubSeqEmpty
  <2>4. Restored' \in Seq(Tasks)
    BY PutBack DEF IInv, TypeOK, Restored
  <2>. QED  BY <2>3, <2>4, ConcatEmptySeq DEF Line
<1>3. ASSUME ReceiveTask(w)
      PROVE  /\ offered[w] \in Tasks
             /\ IF KeyOf[offered[w]] \in addedKeys
                  THEN Line' = Line /\ addedKeys' = addedKeys
                  ELSE /\ Line' = Append(Line, offered[w])
                       /\ addedKeys' = addedKeys \cup {KeyOf[offered[w]]}
  <2>1. Line = Restored /\ Line' = q'
    BY <1>1, <1>2, <1>3 DEF ReceiveTask, Restored
  <2>2. offered[w] \in Tasks
    BY <1>3 DEF ReceiveTask, IInv, TypeOK, WorkerInv
  <2>3. Enqueue(offered[w])
    BY <1>3 DEF ReceiveTask
  <2>. QED  BY <2>1, <2>2, <2>3 DEF Enqueue
<1>4. ASSUME SendTask(w)
      PROVE  /\ currentTask \in Tasks
             /\ Line # <<>> /\ Head(Line) = currentTask
             /\ Line' = Tail(Line)
  <2>1. currentTask \in Tasks /\ q \in Seq(Tasks)
    BY <1>4 DEF SendTask, IInv, TypeOK
  <2>2. Line = <<currentTask>> \o q
    BY <1>1, <1>4 DEF SendTask, Restored
  <2>3. Line' = q
    BY <1>2, <1>4 DEF SendTask, Restored
  <2>4. /\ <<currentTask>> \o q # <<>>
        /\ Head(<<currentTask>> \o q) = currentTask
        /\ Tail(<<currentTask>> \o q) = q
    BY <2>1, ConsProperties
  <2>. QED  BY <2>1, <2>2, <2>3, <2>4
<1>5. ASSUME ReceiveDone(w) PROVE Line' = Line
  BY <1>1, <1>2, <1>5 DEF ReceiveDone, Restored
<1>. QED  BY <1>3, <1>4, <1>5

LEMMA WorkerKeepsLine ==
  ASSUME NEW w \in Workers,
         \/ \E t \in Tasks : Post(w, t)
         \/ Finish(w)
         \/ Exit(w)
  PROVE  Line' = Line /\ UNCHANGED <<addedKeys, held, handedOut>>
BY DEF Post, Finish, Exit, queueVars, Line, Restored

LEMMA LineInit == Init => Line = InitialTasks
<1>. SUFFICES ASSUME Init PROVE Line = InitialTasks
  OBVIOUS
<1>1. Restored = <<>> /\ nextInitial = 1
  BY DEF Init, Restored
<1>2. SubSeq(InitialTasks, 1, Len(InitialTasks)) = InitialTasks
  BY TasksAssumption, SubSeqFull
<1>. QED  BY <1>1, <1>2, TasksAssumption, ConcatEmptySeq DEF Line

-----------------------------------------------------------------------------
(* When Scrape returns, every key that was known has been handed out.      *)

Known == addedKeys \cup {KeyOf[InitialTasks[i]] : i \in 1 .. Len(InitialTasks)}

InLine(k) == \E i \in 1 .. Len(Line) : KeyOf[Line[i]] = k

\* A known key has been handed out or one of its tasks still waits.
KnownInv == \A k \in Known : handedOut[k] > 0 \/ InLine(k)

LEMMA KnownInit == Init => KnownInv
BY LineInit DEF Init, KnownInv, Known, InLine

LEMMA KnownKept ==
  ASSUME KnownInv, Line' = Line, UNCHANGED <<addedKeys, handedOut>>
  PROVE  KnownInv'
BY DEF KnownInv, Known, InLine

LEMMA KnownStep ==
  ASSUME KnownInv, IInv, IInv', [Next]_vars
  PROVE  KnownInv'
<1>0. /\ Line \in Seq(Tasks) /\ Len(Line) \in Nat
      /\ handedOut \in [Keys -> Nat]
  BY LineType, LenProperties DEF IInv, TypeOK
<1>1. CASE QueueAlone
  BY <1>1, LineKept, KnownKept
<1>2. ASSUME NEW w \in Workers, ReceiveTask(w) PROVE KnownInv'
  <2>1. UNCHANGED handedOut
    BY <1>2 DEF ReceiveTask
  <2>2. CASE KeyOf[offered[w]] \in addedKeys
    BY <1>2, <2>1, <2>2, LineMoves, KnownKept
  <2>3. CASE KeyOf[offered[w]] \notin addedKeys
    <3>1. /\ offered[w] \in Tasks
          /\ Line' = Append(Line, offered[w])
          /\ addedKeys' = addedKeys \cup {KeyOf[offered[w]]}
      BY <1>2, <2>3, LineMoves
    <3>2. /\ Len(Line') = Len(Line) + 1
          /\ \A i \in 1 .. Len(Line) : Line'[i] = Line[i]
          /\ Line'[Len(Line) + 1] = offered[w]
      BY <1>0, <3>1
    <3>3. \A k : InLine(k) => InLine(k)'
      BY <1>0, <3>2 DEF InLine
    <3>4. ASSUME NEW k, k = KeyOf[offered[w]] PROVE InLine(k)'
      <4>1. Len(Line) + 1 \in 1 .. Len(Line')
        BY <1>0, <3>2
      <4>. QED  BY <3>2, <3>4, <4>1 DEF InLine
    <3>5. Known' = Known \cup {KeyOf[offered[w]]}
      BY <3>1 DEF Known
    <3>. QED  BY <2>1, <3>3, <3>4, <3>5 DEF KnownInv
  <2>. QED  BY <2>2, <2>3
<1>3. ASSUME NEW w \in Workers, SendTask(w) PROVE KnownInv'
  <2>1. /\ currentTask \in Tasks
        /\ Line # <<>> /\ Head(Line) = currentTask
        /\ Line' = Tail(Line)
    BY <1>3, LineMoves
  <2>2. /\ addedKeys' = addedKeys
        /\ handedOut' = [handedOut EXCEPT ![KeyOf[currentTask]] = @ + 1]
    BY <1>3 DEF SendTask
  <2>3. /\ Len(Line') = Len(Line) - 1
        /\ \A i \in 1 .. Len(Line) - 1 : Line'[i] = Line[i + 1]
        /\ Line[1] = currentTask
    BY <1>0, <2>1, HeadTailProperties
  <2>4. KeyOf[currentTask] \in Keys
    BY <2>1, TasksAssumption
  <2>5. handedOut'[KeyOf[currentTask]] > 0
    BY <1>0, <2>2, <2>4
  <2>6. ASSUME NEW k, k # KeyOf[currentTask], InLine(k) PROVE InLine(k)'
    <3>1. PICK i \in 1 .. Len(Line) : KeyOf[Line[i]] = k
      BY <2>6 DEF InLine
    <3>2. i # 1
      BY <2>3, <2>6, <3>1
    <3>3. i - 1 \in 1 .. Len(Line') /\ Line'[i - 1] = Line[i]
      BY <1>0, <2>3, <3>1, <3>2
    <3>. QED  BY <3>1, <3>3 DEF InLine
  <2>7. ASSUME NEW k \in Known, k # KeyOf[currentTask]
        PROVE  handedOut'[k] > 0 \/ InLine(k)'
    BY <1>0, <2>2, <2>6, <2>7 DEF KnownInv
  <2>8. Known' = Known
    BY <2>2 DEF Known
  <2>. QED  BY <2>5, <2>7, <2>8 DEF KnownInv
<1>4. ASSUME NEW w \in Workers, ReceiveDone(w) PROVE KnownInv'
  BY <1>4, LineMoves, KnownKept DEF ReceiveDone
<1>5. ASSUME NEW w \in Workers,
             \/ \E t \in Tasks : Post(w, t)
             \/ Finish(w)
             \/ Exit(w)
      PROVE  KnownInv'
  BY <1>5, WorkerKeepsLine, KnownKept
<1>6. CASE UNCHANGED vars
  BY <1>6, KnownKept DEF vars, queueVars, Line, Restored
<1>. QED
  BY <1>1, <1>2, <1>3, <1>4, <1>5, <1>6
     DEF Next, QueueStep, Rendezvous, Terminated

\* Scrape returns only when nothing waits, nobody works, and every key given
\* on the command line or posted by a worker has been handed out: no crawl of
\* any size stops early.
THEOREM Completeness == Spec => []ReturnIsComplete
<1>1. IInv /\ KnownInv => ReturnIsComplete
  <2>. SUFFICES ASSUME IInv, KnownInv,
                       NEW v \in Workers, wpc[v] = "exited"
                PROVE  /\ Restored = <<>>
                       /\ nextInitial > Len(InitialTasks)
                       /\ \A w \in Workers : held[w] = NoTask
                       /\ \A k \in addedKeys : handedOut[k] > 0
                       /\ \A i \in DOMAIN InitialTasks :
                            handedOut[KeyOf[InitialTasks[i]]] > 0
    BY DEF ReturnIsComplete
  <2>1. qpc # "init" /\ incompleteTasks = 0
    BY DEF IInv, ControlInv, WorkerInv, outClosed
  <2>2. Restored = <<>> /\ \A w \in Workers : ~Busy(w)
    BY <2>1, NothingLeft
  <2>3. /\ DOMAIN InitialTasks = 1 .. Len(InitialTasks)
        /\ Len(InitialTasks) \in Nat
    BY TasksAssumption, LenProperties
  <2>4. nextInitial > Len(InitialTasks)
    BY <2>1, <2>3 DEF IInv, ControlInv
  <2>5. Line = <<>>
    BY <2>1, <2>2, LineType
  <2>6. \A k \in Known : handedOut[k] > 0
    BY <2>5 DEF KnownInv, InLine
  <2>. QED  BY <2>2, <2>3, <2>4, <2>6 DEF IInv, WorkerInv, Known
<1>2. Spec => []KnownInv
  <2>1. IInv /\ KnownInv /\ [Next]_vars /\ IInv' => KnownInv'
    BY KnownStep
  <2>. QED  BY <2>1, KnownInit, Invariance, PTL DEF Spec
<1>. QED  BY <1>1, <1>2, Invariance, PTL

-----------------------------------------------------------------------------
(* Each key is accounted for.                                              *)

At(s, k) == {i \in DOMAIN s : KeyOf[s[i]] = k}

LEMMA CountType ==
  ASSUME NEW s \in Seq(Tasks), NEW k
  PROVE  /\ IsFiniteSet(At(s, k)) /\ CountKey(s, k) = Cardinality(At(s, k))
         /\ CountKey(s, k) \in Nat
<1>1. DOMAIN s = 1 .. Len(s) /\ Len(s) \in Nat
  BY LenProperties
<1>2. IsFiniteSet(1 .. Len(s))
  BY <1>1, FS_Interval
<1>3. At(s, k) \subseteq 1 .. Len(s)
  BY <1>1 DEF At
<1>4. IsFiniteSet(At(s, k))
  BY <1>2, <1>3, FS_Subset
<1>. QED  BY <1>4, FS_CardinalityType DEF At, CountKey

LEMMA CountAppend ==
  ASSUME NEW s \in Seq(Tasks), NEW t \in Tasks, NEW k
  PROVE  CountKey(Append(s, t), k) = CountKey(s, k) + (IF KeyOf[t] = k THEN 1 ELSE 0)
<1>. DEFINE r == Append(s, t)
<1>1. /\ DOMAIN s = 1 .. Len(s) /\ Len(s) \in Nat
      /\ r \in Seq(Tasks) /\ DOMAIN r = 1 .. Len(s) + 1
      /\ \A i \in 1 .. Len(s) : r[i] = s[i]
      /\ r[Len(s) + 1] = t
  BY LenProperties, AppendProperties
<1>. HIDE DEF r
<1>2. At(r, k) = IF KeyOf[t] = k THEN At(s, k) \cup {Len(s) + 1} ELSE At(s, k)
  BY <1>1 DEF At
<1>3. Len(s) + 1 \notin At(s, k)
  BY <1>1 DEF At
<1>4. /\ Cardinality(At(s, k) \cup {Len(s) + 1}) = Cardinality(At(s, k)) + 1
      /\ CountKey(s, k) = Cardinality(At(s, k)) /\ CountKey(s, k) \in Nat
      /\ CountKey(r, k) = Cardinality(At(r, k))
  BY <1>1, <1>3, CountType, FS_AddElement
<1>. QED  BY <1>2, <1>4 DEF r

\* The positions in the tail are those after the first, moved by one.
LEMMA CountTail ==
  ASSUME NEW s \in Seq(Tasks), s # <<>>, NEW k
  PROVE  CountKey(s, k) = CountKey(Tail(s), k) + (IF KeyOf[Head(s)] = k THEN 1 ELSE 0)
<1>. DEFINE r == Tail(s)
            later == {i \in At(s, k) : i # 1}
            next == [i \in At(r, k) |-> i + 1]
<1>1. /\ DOMAIN s = 1 .. Len(s) /\ Len(s) \in Nat \ {0} /\ Head(s) = s[1]
      /\ r \in Seq(Tasks) /\ DOMAIN r = 1 .. Len(s) - 1
      /\ \A i \in 1 .. Len(s) - 1 : r[i] = s[i + 1]
  BY LenProperties, HeadTailProperties, EmptySeq
<1>2. IsFiniteSet(At(r, k)) /\ CountKey(r, k) = Cardinality(At(r, k))
  BY <1>1, CountType
<1>. HIDE DEF r
<1>3. /\ At(r, k) \subseteq 1 .. Len(s) - 1
      /\ \A i \in 1 .. Len(s) - 1 : i \in At(r, k) <=> i + 1 \in later
      /\ later \subseteq 2 .. Len(s)
  BY <1>1 DEF At
<1>. HIDE DEF later
<1>4. next \in [At(r, k) -> later]
  BY <1>1, <1>3
<1>5. \A i, j \in At(r, k) : next[i] = next[j] => i = j
  BY <1>1, <1>3
<1>6. \A j \in later : \E i \in At(r, k) : next[i] = j
  <2>. SUFFICES ASSUME NEW j \in later PROVE \E i \in At(r, k) : next[i] = j
    OBVIOUS
  <2>1. j - 1 \in 1 .. Len(s) - 1 /\ (j - 1) + 1 = j
    BY <1>1, <1>3
  <2>2. j - 1 \in At(r, k)
    BY <1>3, <2>1
  <2>. QED  BY <2>1, <2>2
<1>. HIDE DEF next
<1>7. next \in Bijection(At(r, k), later)
  BY <1>4, <1>5, <1>6 DEF Bijection, Injection, Surjection, IsInjective
<1>8. IsFiniteSet(later) /\ Cardinality(later) = Cardinality(At(r, k))
  BY <1>2, <1>7, FS_Bijection DEF ExistsBijection
<1>9. /\ At(s, k) = IF KeyOf[Head(s)] = k THEN later \cup {1} ELSE later
      /\ 1 \notin later
  BY <1>1 DEF At, later
<1>10. Cardinality(later \cup {1}) = Cardinality(later) + 1
  BY <1>8, <1>9, FS_AddElement
<1>11. CountKey(s, k) = Cardinality(At(s, k)) /\ CountKey(r, k) \in Nat
  BY <1>1, CountType
<1>12. CountKey(s, k) = CountKey(r, k) + (IF KeyOf[Head(s)] = k THEN 1 ELSE 0)
  BY <1>2, <1>8, <1>9, <1>10, <1>11
<1>. QED  BY <1>12 DEF r

LEMMA AccountedInit == Init => EachKeyAccounted
<1>. SUFFICES ASSUME Init, NEW k \in Keys
              PROVE  handedOut[k] + CountKey(Line, k)
                       = CountKey(InitialTasks, k) + (IF k \in addedKeys THEN 1 ELSE 0)
  BY DEF EachKeyAccounted
<1>1. Line = InitialTasks /\ handedOut[k] = 0 /\ k \notin addedKeys
  BY LineInit DEF Init
<1>. QED  BY <1>1, CountType, TasksAssumption

LEMMA AccountedKept ==
  ASSUME EachKeyAccounted, Line' = Line, UNCHANGED <<addedKeys, handedOut>>
  PROVE  EachKeyAccounted'
BY DEF EachKeyAccounted, CountKey

LEMMA AccountedStep ==
  ASSUME EachKeyAccounted, IInv, IInv', [Next]_vars
  PROVE  EachKeyAccounted'
<1>0. Line \in Seq(Tasks) /\ handedOut \in [Keys -> Nat]
  BY LineType DEF IInv, TypeOK
<1>1. CASE QueueAlone
  BY <1>1, LineKept, AccountedKept
<1>2. ASSUME NEW w \in Workers, ReceiveTask(w) PROVE EachKeyAccounted'
  <2>1. UNCHANGED handedOut
    BY <1>2 DEF ReceiveTask
  <2>2. CASE KeyOf[offered[w]] \in addedKeys
    BY <1>2, <2>1, <2>2, LineMoves, AccountedKept
  <2>3. CASE KeyOf[offered[w]] \notin addedKeys
    <3>. DEFINE t == offered[w]
    <3>1. /\ t \in Tasks /\ Line' = Append(Line, t)
          /\ addedKeys' = addedKeys \cup {KeyOf[t]}
      BY <1>2, <2>3, LineMoves
    <3>. SUFFICES ASSUME NEW k \in Keys
                  PROVE  handedOut'[k] + CountKey(Line', k)
                           = CountKey(InitialTasks, k) + (IF k \in addedKeys' THEN 1 ELSE 0)
      BY DEF EachKeyAccounted, CountKey
    <3>2. CountKey(Line', k) = CountKey(Line, k) + (IF KeyOf[t] = k THEN 1 ELSE 0)
      BY <1>0, <3>1, CountAppend
    <3>3. /\ CountKey(Line, k) \in Nat /\ CountKey(InitialTasks, k) \in Nat
          /\ handedOut[k] \in Nat /\ handedOut'[k] = handedOut[k]
      BY <1>0, <2>1, CountType, TasksAssumption
    <3>4. handedOut[k] + CountKey(Line, k)
            = CountKey(InitialTasks, k) + (IF k \in addedKeys THEN 1 ELSE 0)
      BY DEF EachKeyAccounted
    <3>5. CASE KeyOf[t] = k
      BY <2>3, <3>1, <3>2, <3>3, <3>4, <3>5
    <3>6. CASE KeyOf[t] # k
      BY <3>1, <3>2, <3>3, <3>4, <3>6
    <3>. QED  BY <3>5, <3>6
  <2>. QED  BY <2>2, <2>3
<1>3. ASSUME NEW w \in Workers, SendTask(w) PROVE EachKeyAccounted'
  <2>1. /\ currentTask \in Tasks
        /\ Line # <<>> /\ Head(Line) = currentTask
        /\ Line' = Tail(Line)
    BY <1>3, LineMoves
  <2>2. /\ addedKeys' = addedKeys
        /\ handedOut' = [handedOut EXCEPT ![KeyOf[currentTask]] = @ + 1]
    BY <1>3 DEF SendTask
  <2>. SUFFICES ASSUME NEW k \in Keys
                PROVE  handedOut'[k] + CountKey(Line', k)
                         = CountKey(InitialTasks, k) + (IF k \in addedKeys' THEN 1 ELSE 0)
    BY DEF EachKeyAccounted, CountKey
  <2>3. CountKey(Line, k) = CountKey(Line', k) + (IF KeyOf[currentTask] = k THEN 1 ELSE 0)
    BY <1>0, <2>1, CountTail
  <2>4. Line' \in Seq(Tasks)
    BY <1>0, <2>1, HeadTailProperties
  <2>5. /\ CountKey(Line', k) \in Nat /\ CountKey(InitialTasks, k) \in Nat
        /\ handedOut[k] \in Nat
        /\ handedOut'[k] = handedOut[k] + (IF KeyOf[currentTask] = k THEN 1 ELSE 0)
    BY <1>0, <2>2, <2>4, CountType, TasksAssumption
  <2>6. handedOut[k] + CountKey(Line, k)
          = CountKey(InitialTasks, k) + (IF k \in addedKeys THEN 1 ELSE 0)
    BY DEF EachKeyAccounted
  <2>. QED  BY <2>2, <2>3, <2>5, <2>6
<1>4. ASSUME NEW w \in Workers, ReceiveDone(w) PROVE EachKeyAccounted'
  BY <1>4, LineMoves, AccountedKept DEF ReceiveDone
<1>5. ASSUME NEW w \in Workers,
             \/ \E t \in Tasks : Post(w, t)
             \/ Finish(w)
             \/ Exit(w)
      PROVE  EachKeyAccounted'
  BY <1>5, WorkerKeepsLine, AccountedKept
<1>6. CASE UNCHANGED vars
  BY <1>6, AccountedKept DEF vars, queueVars, Line, Restored
<1>. QED
  BY <1>1, <1>2, <1>3, <1>4, <1>5, <1>6
     DEF Next, QueueStep, Rendezvous, Terminated

\* Nothing is lost and nothing repeated on the way from the command line or a
\* post to a worker: at every moment a key has been handed out, or waits, as
\* often as it was given, and once more if it was posted (queue.go:18-65).
THEOREM EachKeyAccountedHolds == Spec => []EachKeyAccounted
<1>1. EachKeyAccounted /\ IInv /\ [Next]_vars /\ IInv' => EachKeyAccounted'
  BY AccountedStep
<1>. QED  BY <1>1, AccountedInit, Invariance, PTL DEF Spec

\* What remains true of the comments at queue.go:23 and 47 ("already added this
\* key, skip it"): a key that is not among the command line's is handed out at
\* most once.
COROLLARY OnceWithoutInitial == Spec => [](\A k \in Keys :
  CountKey(InitialTasks, k) = 0 => handedOut[k] <= 1)
<1>1. IInv /\ EachKeyAccounted =>
        \A k \in Keys : CountKey(InitialTasks, k) = 0 => handedOut[k] <= 1
  <2>. SUFFICES ASSUME IInv, EachKeyAccounted, NEW k \in Keys,
                       CountKey(InitialTasks, k) = 0
                PROVE  handedOut[k] <= 1
    OBVIOUS
  <2>1. CountKey(Line, k) \in Nat /\ handedOut[k] \in Nat
    BY LineType, CountType DEF IInv, TypeOK
  <2>. QED  BY <2>1 DEF EachKeyAccounted
<1>. QED  BY <1>1, EachKeyAccountedHolds, Invariance, PTL

-----------------------------------------------------------------------------
(* The goroutines and channels implement the abstract crawl.               *)

LEMMA CrawlInit == Init => AbstractCrawl!Init
<1>. SUFFICES ASSUME Init PROVE AbstractCrawl!Init
  OBVIOUS
<1>1. Line = InitialTasks
  BY LineInit
<1>2. {w \in Workers : wpc[w] = "exited"} = {}
  BY DEF Init
<1>. QED  BY <1>1, <1>2 DEF Init, AbstractCrawl!Init

LEMMA CrawlStep ==
  ASSUME IInv, IInv', [Next]_vars
  PROVE  [AbstractCrawl!Next]_(AbstractCrawl!vars)
<1>. DEFINE gone == {w \in Workers : wpc[w] = "exited"}
<1>1. CASE QueueAlone
  <2>1. Line' = Line /\ UNCHANGED <<addedKeys, held, wpc>>
    BY <1>1, LineKept
  <2>. QED  BY <2>1 DEF AbstractCrawl!vars
<1>2. ASSUME NEW w \in Workers, ReceiveTask(w)
      PROVE  [AbstractCrawl!Next]_(AbstractCrawl!vars)
  <2>1. UNCHANGED held /\ gone' = gone
    BY <1>2 DEF ReceiveTask, IInv, TypeOK
  <2>2. CASE KeyOf[offered[w]] \in addedKeys
    BY <1>2, <2>1, <2>2, LineMoves DEF AbstractCrawl!vars
  <2>3. CASE KeyOf[offered[w]] \notin addedKeys
    <3>1. held[w] # NoTask
      BY <1>2 DEF ReceiveTask, IInv, WorkerInv, Busy
    <3>2. AbstractCrawl!Discover(w, offered[w]) /\ offered[w] \in Tasks
      BY <1>2, <2>1, <2>3, <3>1, LineMoves
         DEF AbstractCrawl!Discover, AbstractCrawl!Free
    <3>. QED  BY <3>2 DEF AbstractCrawl!Next
  <2>. QED  BY <2>2, <2>3
<1>3. ASSUME NEW w \in Workers, SendTask(w)
      PROVE  [AbstractCrawl!Next]_(AbstractCrawl!vars)
  <2>1. UNCHANGED addedKeys /\ gone' = gone
    BY <1>3 DEF SendTask, IInv, TypeOK
  <2>2. held[w] = NoTask /\ held' = [held EXCEPT ![w] = currentTask]
    BY <1>3 DEF SendTask, IInv, WorkerInv, Busy
  <2>3. AbstractCrawl!Start(w)
    BY <1>3, <2>1, <2>2, LineMoves
       DEF AbstractCrawl!Start, AbstractCrawl!Free
  <2>. QED  BY <2>3 DEF AbstractCrawl!Next
<1>4. ASSUME NEW w \in Workers, ReceiveDone(w)
      PROVE  [AbstractCrawl!Next]_(AbstractCrawl!vars)
  <2>1. UNCHANGED addedKeys /\ gone' = gone
    BY <1>4 DEF ReceiveDone, IInv, TypeOK
  <2>2. held[w] # NoTask /\ held' = [held EXCEPT ![w] = NoTask]
    BY <1>4 DEF ReceiveDone, IInv, WorkerInv, Busy
  <2>3. AbstractCrawl!Complete(w)
    BY <1>4, <2>1, <2>2, LineMoves
       DEF AbstractCrawl!Complete, AbstractCrawl!Free
  <2>. QED  BY <2>3 DEF AbstractCrawl!Next
<1>5. ASSUME NEW w \in Workers, \/ \E t \in Tasks : Post(w, t)
                                \/ Finish(w)
      PROVE  [AbstractCrawl!Next]_(AbstractCrawl!vars)
  <2>1. Line' = Line /\ UNCHANGED <<addedKeys, held>>
    BY <1>5, WorkerKeepsLine
  <2>2. gone' = gone
    BY <1>5 DEF Post, Finish, IInv, TypeOK
  <2>. QED  BY <2>1, <2>2 DEF AbstractCrawl!vars
<1>6. ASSUME NEW w \in Workers, Exit(w)
      PROVE  [AbstractCrawl!Next]_(AbstractCrawl!vars)
  <2>1. Line' = Line /\ UNCHANGED <<addedKeys, held>>
    BY <1>6, WorkerKeepsLine
  <2>2. w \notin gone /\ gone' = gone \cup {w}
    BY <1>6 DEF Exit, IInv, TypeOK
  <2>3. qpc # "init" /\ incompleteTasks = 0
    BY <1>6 DEF Exit, outClosed, IInv, ControlInv
  <2>4. Line = <<>> /\ \A v \in Workers : held[v] = NoTask
    BY <2>3, NothingLeft, LineType DEF IInv, WorkerInv
  <2>5. AbstractCrawl!Leave(w)
    BY <2>1, <2>2, <2>4 DEF AbstractCrawl!Leave, AbstractCrawl!Free
  <2>. QED  BY <2>5 DEF AbstractCrawl!Next
<1>7. CASE UNCHANGED vars
  BY <1>7 DEF vars, queueVars, workerVars, Line, Restored, AbstractCrawl!vars
<1>. QED
  BY <1>1, <1>2, <1>3, <1>4, <1>5, <1>6, <1>7
     DEF Next, QueueStep, Rendezvous, Terminated

\* Every behaviour of the queue and its workers is one of the abstract crawl:
\* tasks are started in the order they were found, each once, and a worker
\* leaves only when all are completed (queue.go:18-65, scraper.go:47-70).
THEOREM Refinement == Spec => ImplementsCrawl
<1>1. IInv /\ IInv' /\ [Next]_vars => [AbstractCrawl!Next]_(AbstractCrawl!vars)
  BY CrawlStep
<1>. QED
  BY <1>1, CrawlInit, Invariance, PTL
     DEF Spec, ImplementsCrawl, AbstractCrawl!Spec
=============================================================================
