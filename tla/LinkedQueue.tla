----------------------------- MODULE LinkedQueue -----------------------------
(***************************************************************************)
(* The singly linked list of scraper/queue.go (type linkedQueue): a deque  *)
(* of tasks threaded through the tasks' own next fields.  head, tail and   *)
(* next are the program's pointers, Nil is Go's nil.                       *)
(*                                                                         *)
(* contents is a history variable: the sequence the list stands for.  No   *)
(* guard on a pointer reads it; it only says which calls a caller makes (a *)
(* task enters the list when it has just been created or just been popped, *)
(* so never while it is still linked) and what the list should hold.       *)
(***************************************************************************)
EXTENDS Integers, Sequences, FiniteSets

CONSTANTS Tasks, Nil

ASSUME NilAssumption == Nil \notin Tasks

\* A program makes finitely many tasks; only the bound of toSlice needs it.
ASSUME FiniteAssumption == IsFiniteSet(Tasks)

VARIABLES head, tail, next, contents

vars == <<head, tail, next, contents>>

Linked(t) == \E i \in DOMAIN contents : contents[i] = t

Init ==
  /\ head = Nil
  /\ tail = Nil
  /\ next = [t \in Tasks |-> Nil]
  /\ contents = <<>>

\* Mutant: the old tail is not linked to the new task.
PushRightUnlinked(t) ==
  /\ ~Linked(t)
  /\ head' = IF tail = Nil THEN t ELSE head
  /\ tail' = t
  /\ next' = next
  /\ contents' = Append(contents, t)

pushRight(t) ==
  /\ ~Linked(t)
  /\ IF tail = Nil
       THEN head' = t /\ next' = next
       ELSE next' = [next EXCEPT ![tail] = t] /\ head' = head
  /\ tail' = t
  /\ contents' = Append(contents, t)

pushLeft(t) ==
  /\ ~Linked(t)
  /\ next' = [next EXCEPT ![t] = head]
  /\ head' = t
  /\ tail' = IF tail = Nil THEN t ELSE tail
  /\ contents' = <<t>> \o contents

\* Mutant: the last pop leaves tail at the task that was popped.
PopLeftKeepingTail ==
  /\ head # Nil
  /\ head' = next[head]
  /\ next' = [next EXCEPT ![head] = Nil]
  /\ tail' = tail
  /\ contents' = Tail(contents)

\* popLeft of a list that holds something; of an empty one it returns nil
\* and changes nothing.
popLeft ==
  /\ head # Nil
  /\ head' = next[head]
  /\ next' = [next EXCEPT ![head] = Nil]
  /\ tail' = IF next[head] = Nil THEN Nil ELSE tail
  /\ contents' = Tail(contents)

Next ==
  \/ \E t \in Tasks : pushRight(t) \/ pushLeft(t)
  \/ popLeft

Spec == Init /\ [][Next]_vars

-----------------------------------------------------------------------------
(* What the methods that walk the list compute.  A walk of a list that has *)
(* become cyclic would not end in the program: here it gives up after      *)
(* Cardinality(Tasks) tasks.                                               *)

toSlice ==
  LET walk[n \in 0 .. Cardinality(Tasks)] ==
        [t \in Tasks \cup {Nil} |->
           IF t = Nil \/ n = 0 THEN <<>> ELSE <<t>> \o walk[n - 1][next[t]]]
  IN  walk[Cardinality(Tasks)][head]

-----------------------------------------------------------------------------

TypeOK ==
  /\ head \in Tasks \cup {Nil}
  /\ tail \in Tasks \cup {Nil}
  /\ next \in [Tasks -> Tasks \cup {Nil}]
  /\ contents \in Seq(Tasks)

\* No task is linked twice: a second link would make the walk cyclic.
Distinct ==
  \A i, j \in 1 .. Len(contents) : contents[i] = contents[j] => i = j

\* head, tail and the next fields spell contents, and the last task's next
\* is nil.
Chained ==
  /\ head = IF contents = <<>> THEN Nil ELSE contents[1]
  /\ tail = IF contents = <<>> THEN Nil ELSE contents[Len(contents)]
  /\ \A i \in 1 .. Len(contents) :
       next[contents[i]] = IF i = Len(contents) THEN Nil ELSE contents[i + 1]

\* A task outside the list carries no pointer into it: pushRight never
\* resets next, so a stale pointer would drag other tasks back in.
Detached ==
  \A t \in Tasks : ~Linked(t) => next[t] = Nil

\* The pointers represent the sequence: the invariant behind popLeft handing
\* tasks out in order and none of them being lost or repeated
\* (queue.go:71-99).
Represents == Distinct /\ Chained /\ Detached

\* What a walk of the pointers returns (toSlice, queue.go:113-119) is exactly
\* the sequence of tasks pushed and not yet popped.
WalkIsContents == toSlice = contents

=============================================================================
