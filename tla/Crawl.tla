-------------------------------- MODULE Crawl --------------------------------
(***************************************************************************)
(* What Scraper.Scrape promises, without channels, a queue goroutine or a  *)
(* counter: the tasks wait in one line, a free worker takes the first, a   *)
(* busy worker may add a task whose key nobody added before, and a worker  *)
(* leaves only when nothing waits and nobody works.                        *)
(*                                                                         *)
(* The initial tasks wait from the start and are not entered in seen, as   *)
(* in queue (queue.go:19-27): TaskQueue is shown to implement this module. *)
(***************************************************************************)
EXTENDS Integers, Sequences

CONSTANTS
  Workers,
  Tasks,
  KeyOf,          \* the key of a task (repository.Key of its URL)
  InitialTasks,   \* the sequence the crawl starts from
  NoTask

VARIABLES
  waiting,        \* the line of tasks nobody works on yet
  seen,           \* the keys of the tasks added during the crawl
  working,        \* what each worker works on
  gone            \* the workers that have left

vars == <<waiting, seen, working, gone>>

Free(w) == working[w] = NoTask

Init ==
  /\ waiting = InitialTasks
  /\ seen = {}
  /\ working = [w \in Workers |-> NoTask]
  /\ gone = {}

Discover(w, t) ==
  /\ ~Free(w)
  /\ KeyOf[t] \notin seen
  /\ seen' = seen \cup {KeyOf[t]}
  /\ waiting' = Append(waiting, t)
  /\ UNCHANGED <<working, gone>>

Start(w) ==
  /\ Free(w)
  /\ waiting # <<>>
  /\ working' = [working EXCEPT ![w] = Head(waiting)]
  /\ waiting' = Tail(waiting)
  /\ UNCHANGED <<seen, gone>>

Complete(w) ==
  /\ ~Free(w)
  /\ working' = [working EXCEPT ![w] = NoTask]
  /\ UNCHANGED <<waiting, seen, gone>>

Leave(w) ==
  /\ w \notin gone
  /\ waiting = <<>>
  /\ \A v \in Workers : Free(v)
  /\ gone' = gone \cup {w}
  /\ UNCHANGED <<waiting, seen, working>>

Next ==
  \E w \in Workers :
    \/ \E t \in Tasks : Discover(w, t)
    \/ Start(w)
    \/ Complete(w)
    \/ Leave(w)

Spec == Init /\ [][Next]_vars

\* Some worker starts a task that waits; every worker ends its task and, when
\* there is nothing left, leaves.
Fairness ==
  /\ WF_vars(\E w \in Workers : Start(w))
  /\ \A w \in Workers : WF_vars(Complete(w)) /\ WF_vars(Leave(w))

FairSpec == Spec /\ Fairness
=============================================================================
