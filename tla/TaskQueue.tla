------------------------------ MODULE TaskQueue ------------------------------
(***************************************************************************)
(* The task queue of scraper/queue.go with the goroutines around it in     *)
(* Scraper.Scrape (scraper.go:36-71): one queue goroutine and the workers, *)
(* which talk over three unbuffered channels.  A step on a channel is a    *)
(* rendezvous, so it is one action of both ends:                           *)
(*   out       SendTask(w)       the queue hands currentTask to a worker   *)
(*   in        ReceiveTask(w)    a worker posts a link it has found        *)
(*   doneTask  ReceiveDone(w)    a worker reports that it is done          *)
(*                                                                         *)
(* A task is its download URL; two URLs may have the same key.  A worker   *)
(* posts any tasks, in any order and as often as it likes: what it posts   *)
(* is the business of module Scraper.                                      *)
(*                                                                         *)
(* queue also handles in and doneTask being closed (queue.go:42-45, 60);   *)
(* only the queue goroutine closes them, after queue has returned, so      *)
(* those branches are never taken and have no action here.                 *)
(***************************************************************************)
EXTENDS Integers, Sequences, FiniteSets

CONSTANTS
  Workers,        \* the worker goroutines
  Tasks,          \* download URLs
  Keys,
  KeyOf,          \* repository.Key of a URL
  InitialTasks,   \* the tasks of the command line's URLs
  NoTask          \* Go's nil

ASSUME WorkersAssumption == IsFiniteSet(Workers) /\ Workers # {}
ASSUME TasksAssumption ==
  /\ KeyOf \in [Tasks -> Keys]
  /\ InitialTasks \in Seq(Tasks)
  /\ NoTask \notin Tasks

VARIABLES
  addedKeys,        \* the local variables of queue, queue.go:19-32
  q,
  nextInitial,      \* position of the loop over initialTasks
  incompleteTasks,
  currentTask,
  qpc,              \* where the queue goroutine is
  wpc,              \* where each worker is
  held,             \* the task a worker has received from out
  offered,          \* the task a worker is posting to in
  handedOut         \* history: how often a task of each key was handed out

queueVars == <<addedKeys, q, nextInitial, incompleteTasks, currentTask, qpc>>
workerVars == <<wpc, held, offered>>
vars == <<queueVars, workerVars, handedOut>>

Init ==
  /\ addedKeys = {}
  /\ q = <<>>
  /\ nextInitial = 1
  /\ incompleteTasks = 0
  /\ currentTask = NoTask
  /\ qpc = "init"
  /\ wpc = [w \in Workers |-> "idle"]
  /\ held = [w \in Workers |-> NoTask]
  /\ offered = [w \in Workers |-> NoTask]
  /\ handedOut = [k \in Keys |-> 0]

\* A closed channel: out, doneTask and in are closed in this order by the
\* deferred calls of the queue goroutine.
outClosed == qpc \in {"closeDone", "closeIn", "exited"}
doneClosed == qpc \in {"closeIn", "exited"}
inClosed == qpc = "exited"

Busy(w) == wpc[w] \in {"running", "posting", "finishing"}

-----------------------------------------------------------------------------
(* The queue goroutine on its own.                                         *)

\* One turn of the loop over initialTasks.  Its key is looked up in addedKeys
\* and not entered there.
AddInitial ==
  /\ qpc = "init"
  /\ nextInitial <= Len(InitialTasks)
  /\ q' = IF KeyOf[InitialTasks[nextInitial]] \in addedKeys
            THEN q
            ELSE Append(q, InitialTasks[nextInitial])
  /\ nextInitial' = nextInitial + 1
  /\ UNCHANGED <<addedKeys, incompleteTasks, currentTask, qpc,
                 workerVars, handedOut>>

EnterLoop ==
  /\ qpc = "init"
  /\ nextInitial > Len(InitialTasks)
  /\ incompleteTasks' = Len(InitialTasks)
  /\ qpc' = "loop"
  /\ UNCHANGED <<addedKeys, q, nextInitial, currentTask, workerVars, handedOut>>

\* The top of the loop: take the first task, if there is one, and wait.
PopTask ==
  /\ qpc = "loop"
  /\ incompleteTasks > 0
  /\ IF q = <<>>
       THEN currentTask' = NoTask /\ q' = q
       ELSE currentTask' = Head(q) /\ q' = Tail(q)
  /\ qpc' = "select"
  /\ UNCHANGED <<addedKeys, nextInitial, incompleteTasks, workerVars, handedOut>>

\* Mutant: the loop ends when nothing waits, whoever still works.
LeaveLoopWhenNoneWait ==
  /\ qpc = "loop"
  /\ q = <<>>
  /\ qpc' = "closeOut"
  /\ UNCHANGED <<addedKeys, q, nextInitial, incompleteTasks, currentTask,
                 workerVars, handedOut>>

LeaveLoop ==
  /\ qpc = "loop"
  /\ incompleteTasks = 0
  /\ qpc' = "closeOut"
  /\ UNCHANGED <<addedKeys, q, nextInitial, incompleteTasks, currentTask,
                 workerVars, handedOut>>

CloseChannel ==
  /\ \/ qpc = "closeOut" /\ qpc' = "closeDone"
     \/ qpc = "closeDone" /\ qpc' = "closeIn"
     \/ qpc = "closeIn" /\ qpc' = "exited"
  /\ UNCHANGED <<addedKeys, q, nextInitial, incompleteTasks, currentTask,
                 workerVars, handedOut>>

-----------------------------------------------------------------------------
(* The three cases of the select, queue.go:36-63.                          *)

\* Mutants: the task is put back without looking whether there is one; is put
\* back at the wrong end; is not put back.
RestoredUnchecked == <<currentTask>> \o q
RestoredBehind == IF currentTask = NoTask THEN q ELSE Append(q, currentTask)
RestoredForgotten == q

\* The queue once the task that could not be sent yet is put back in front.
Restored == IF currentTask = NoTask THEN q ELSE <<currentTask>> \o q

\* Mutants: a dropped duplicate is counted; a new task is not counted.
EnqueueCountingAll(t) ==
  /\ q' = IF KeyOf[t] \in addedKeys THEN Restored ELSE Append(Restored, t)
  /\ addedKeys' = addedKeys \cup {KeyOf[t]}
  /\ incompleteTasks' = incompleteTasks + 1
EnqueueUncounted(t) ==
  /\ q' = IF KeyOf[t] \in addedKeys THEN Restored ELSE Append(Restored, t)
  /\ addedKeys' = addedKeys \cup {KeyOf[t]}
  /\ UNCHANGED incompleteTasks

\* A task of a key that was posted before is dropped.
Enqueue(t) ==
  IF KeyOf[t] \in addedKeys
    THEN /\ q' = Restored
         /\ UNCHANGED <<addedKeys, incompleteTasks>>
    ELSE /\ q' = Append(Restored, t)
         /\ addedKeys' = addedKeys \cup {KeyOf[t]}
         /\ incompleteTasks' = incompleteTasks + 1

ReceiveTask(w) ==
  /\ qpc = "select"
  /\ wpc[w] = "posting"
  /\ Enqueue(offered[w])
  /\ currentTask' = NoTask
  /\ qpc' = "loop"
  /\ wpc' = [wpc EXCEPT ![w] = "running"]
  /\ offered' = [offered EXCEPT ![w] = NoTask]
  /\ UNCHANGED <<nextInitial, held, handedOut>>

SendTask(w) ==
  /\ qpc = "select"
  /\ currentTask # NoTask
  /\ wpc[w] = "idle"
  /\ held' = [held EXCEPT ![w] = currentTask]
  /\ wpc' = [wpc EXCEPT ![w] = "running"]
  /\ handedOut' = [handedOut EXCEPT ![KeyOf[currentTask]] = @ + 1]
  /\ currentTask' = NoTask
  /\ qpc' = "loop"
  /\ UNCHANGED <<addedKeys, q, nextInitial, incompleteTasks, offered>>

ReceiveDone(w) ==
  /\ qpc = "select"
  /\ wpc[w] = "finishing"
  /\ q' = Restored
  /\ currentTask' = NoTask
  /\ incompleteTasks' = incompleteTasks - 1
  /\ qpc' = "loop"
  /\ wpc' = [wpc EXCEPT ![w] = "idle"]
  /\ held' = [held EXCEPT ![w] = NoTask]
  /\ UNCHANGED <<addedKeys, nextInitial, offered, handedOut>>

-----------------------------------------------------------------------------
(* A worker between two rendezvous.                                        *)

\* processResponse has found a link to follow and sends it to in.
Post(w, t) ==
  /\ wpc[w] = "running"
  /\ wpc' = [wpc EXCEPT ![w] = "posting"]
  /\ offered' = [offered EXCEPT ![w] = t]
  /\ UNCHANGED <<queueVars, held, handedOut>>

\* Mutant: a worker whose task failed tries it again instead of reporting.
FinishRetrying(w) ==
  /\ wpc[w] = "running"
  /\ UNCHANGED vars

\* scrapeTask returns, with or without an error: its deferred function sends
\* to doneTask.
Finish(w) ==
  /\ wpc[w] = "running"
  /\ wpc' = [wpc EXCEPT ![w] = "finishing"]
  /\ UNCHANGED <<queueVars, held, offered, handedOut>>

\* Mutant: the worker goes on reading from the closed channel.
ExitReading(w) ==
  /\ wpc[w] = "idle"
  /\ outClosed
  /\ UNCHANGED vars

\* The range over outTasks ends.
Exit(w) ==
  /\ wpc[w] = "idle"
  /\ outClosed
  /\ wpc' = [wpc EXCEPT ![w] = "exited"]
  /\ UNCHANGED <<queueVars, held, offered, handedOut>>

-----------------------------------------------------------------------------

QueueAlone == AddInitial \/ EnterLoop \/ PopTask \/ LeaveLoop \/ CloseChannel

Rendezvous(w) == ReceiveTask(w) \/ SendTask(w) \/ ReceiveDone(w)

QueueStep == QueueAlone \/ \E w \in Workers : Rendezvous(w)

\* Every goroutine has returned.
Terminated ==
  /\ qpc = "exited"
  /\ \A w \in Workers : wpc[w] = "exited"
  /\ UNCHANGED vars

Next ==
  \/ QueueStep
  \/ \E w \in Workers :
       \/ \E t \in Tasks : Post(w, t)
       \/ Finish(w)
       \/ Exit(w)
  \/ Terminated

Spec == Init /\ [][Next]_vars

\* The queue goroutine runs when it can, whichever ready case its select
\* picks; a document has finitely many links, so a worker that gets to post
\* again and again ends its task (strong fairness of Finish); a worker that
\* can see the closed channel leaves.
Fairness ==
  /\ WF_vars(QueueStep)
  /\ \A w \in Workers : SF_vars(Finish(w)) /\ WF_vars(Exit(w))

FairSpec == Spec /\ Fairness

-----------------------------------------------------------------------------
(* Properties.                                                             *)

TypeOK ==
  /\ addedKeys \subseteq Keys
  /\ q \in Seq(Tasks)
  /\ nextInitial \in 1 .. Len(InitialTasks) + 1
  /\ incompleteTasks \in Nat
  /\ currentTask \in Tasks \cup {NoTask}
  /\ qpc \in {"init", "loop", "select", "closeOut", "closeDone", "closeIn",
              "exited"}
  /\ wpc \in [Workers -> {"idle", "running", "posting", "finishing", "exited"}]
  /\ held \in [Workers -> Tasks \cup {NoTask}]
  /\ offered \in [Workers -> Tasks \cup {NoTask}]
  /\ handedOut \in [Keys -> Nat]

BusyWorkers == {w \in Workers : Busy(w)}

\* While the queue runs, incompleteTasks counts exactly the tasks that wait
\* and the workers that have one: neither a task that is put back, nor a
\* dropped duplicate, nor two workers reporting at once makes the counter
\* drift (queue.go:28-63).
Conservation ==
  qpc \in {"loop", "select", "closeOut"} =>
    incompleteTasks = Len(Restored) + Cardinality(BusyWorkers)

\* A worker that is sending, or may still send, finds its channel open: no
\* interleaving of the closes (scraper.go:48-50) with the workers' posts and
\* reports makes the program panic.
NoSendOnClosedChannel ==
  \A w \in Workers :
    /\ wpc[w] \in {"running", "posting"} => ~inClosed
    /\ Busy(w) => ~doneClosed

\* A worker has left its loop only when every task is done with: Scrape
\* cannot return while a task waits or is worked on, and every key that was
\* ever added, or given on the command line, has been handed out
\* (scraper.go:56-70).
ReturnIsComplete ==
  (\E w \in Workers : wpc[w] = "exited") =>
    /\ Restored = <<>>
    /\ nextInitial > Len(InitialTasks)
    /\ \A w \in Workers : held[w] = NoTask
    /\ \A k \in addedKeys : handedOut[k] > 0
    /\ \A i \in DOMAIN InitialTasks : handedOut[KeyOf[InitialTasks[i]]] > 0

\* The tasks nobody has taken yet, in the order they will be taken.
Line == Restored \o SubSeq(InitialTasks, nextInitial, Len(InitialTasks))

CountKey(s, k) == Cardinality({i \in DOMAIN s : KeyOf[s[i]] = k})

\* Every key is handed out once for each initial task that has it and once
\* more if it was ever posted: nothing is lost, and nothing repeated beyond
\* that, whatever the order of posts, hand-outs and reports.
EachKeyAccounted ==
  \A k \in Keys :
    handedOut[k] + CountKey(Line, k)
      = CountKey(InitialTasks, k) + (IF k \in addedKeys THEN 1 ELSE 0)

\* What the comments at queue.go:23 and queue.go:47 say ("already added this
\* key, skip it"): no key is handed out twice.
NoKeyHandedOutTwice == \A k \in Keys : handedOut[k] <= 1

AbstractCrawl ==
  INSTANCE Crawl WITH
    waiting <- Line,
    seen <- addedKeys,
    working <- held,
    gone <- {w \in Workers : wpc[w] = "exited"}

\* The goroutines and channels implement the abstract crawl: tasks start in
\* the order they were found, each once, and workers leave only at the end.
ImplementsCrawl == AbstractCrawl!Spec

\* The same with the abstract crawl's fairness: a waiting task is started, a
\* started one is completed.
ImplementsFairCrawl == AbstractCrawl!FairSpec

\* Scrape returns: the workers do not wait for the queue while the queue
\* waits for them, and the counter does reach zero.
ScrapeReturns == <>(\A w \in Workers : wpc[w] = "exited")
=============================================================================
