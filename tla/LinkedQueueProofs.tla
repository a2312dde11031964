-------------------------- MODULE LinkedQueueProofs --------------------------
(***************************************************************************)
(* The pointers of LinkedQueue represent the sequence of tasks pushed and  *)
(* not yet popped, for any set of tasks.  Represents is inductive once the *)
(* types are known; Detached is what pushRight, which never resets the     *)
(* next field of the task it adds, rests on.                               *)
(***************************************************************************)
EXTENDS LinkedQueue, SequenceTheorems, FiniteSetTheorems, TLAPS

IInv == TypeOK /\ Represents

LEMMA InvInit == Init => IInv
BY NilAssumption
   DEF Init, IInv, TypeOK, Represents, Distinct, Chained, Detached, Linked

\* What is known of the list before any step.
LEMMA ContentsFacts ==
  ASSUME IInv
  PROVE  /\ contents \in Seq(Tasks) /\ Len(contents) \in Nat
         /\ DOMAIN contents = 1 .. Len(contents)
         /\ \A i \in 1 .. Len(contents) : contents[i] \in Tasks
         /\ contents = <<>> <=> Len(contents) = 0
         /\ tail = Nil <=> contents = <<>>
         /\ head = Nil <=> contents = <<>>
<1>1. contents \in Seq(Tasks)
  BY DEF IInv, TypeOK
<1>2. /\ Len(contents) \in Nat /\ DOMAIN contents = 1 .. Len(contents)
      /\ \A i \in 1 .. Len(contents) : contents[i] \in Tasks
      /\ contents = <<>> <=> Len(contents) = 0
  BY <1>1, LenProperties, ElementOfSeq, EmptySeq
<1>3. /\ tail = Nil <=> contents = <<>>
      /\ head = Nil <=> contents = <<>>
  <2>1. CASE contents = <<>>
    BY <2>1 DEF IInv, Represents, Chained
  <2>2. CASE contents # <<>>
    <3>1. contents[1] \in Tasks /\ contents[Len(contents)] \in Tasks
      BY <1>2, <2>2
    <3>. QED  BY <2>2, <3>1, NilAssumption DEF IInv, Represents, Chained
  <2>. QED  BY <2>1, <2>2
<1>. QED  BY <1>1, <1>2, <1>3

\* Chained, with the length instead of the sequence.
LEMMA ChainFacts ==
  ASSUME IInv
  PROVE  LET n == Len(contents)
         IN  /\ head = IF n = 0 THEN Nil ELSE contents[1]
             /\ tail = IF n = 0 THEN Nil ELSE contents[n]
             /\ \A i \in 1 .. n : next[contents[i]] =
                                    IF i = n THEN Nil ELSE contents[i + 1]
             /\ tail = Nil <=> n = 0
<1>1. contents = <<>> <=> Len(contents) = 0
  BY ContentsFacts
<1>2. Chained /\ (tail = Nil <=> contents = <<>>)
  BY ContentsFacts DEF IInv, Represents
<1>. QED  BY <1>1, <1>2 DEF Chained

LEMMA PushRightStep ==
  ASSUME IInv, NEW t \in Tasks, pushRight(t)
  PROVE  IInv'
<1>. DEFINE n == Len(contents)
<1>0. /\ contents \in Seq(Tasks) /\ n \in Nat
      /\ DOMAIN contents = 1 .. n
      /\ \A i \in 1 .. n : contents[i] \in Tasks
      /\ contents = <<>> <=> n = 0
      /\ tail = Nil <=> contents = <<>>
  BY ContentsFacts
<1>1. /\ contents' \in Seq(Tasks) /\ Len(contents') = n + 1
      /\ \A i \in 1 .. n : contents'[i] = contents[i]
      /\ contents'[n + 1] = t
      /\ contents' # <<>>
      /\ DOMAIN contents' = 1 .. n + 1
  BY <1>0 DEF pushRight
<1>C. /\ head = IF n = 0 THEN Nil ELSE contents[1]
      /\ tail = IF n = 0 THEN Nil ELSE contents[n]
      /\ \A i \in 1 .. n : next[contents[i]] =
                             IF i = n THEN Nil ELSE contents[i + 1]
      /\ tail = Nil <=> n = 0
  BY ChainFacts
<1>. HIDE DEF n
<1>2. \A i \in 1 .. n : contents[i] # t
  BY <1>0 DEF pushRight, Linked
<1>3. next[t] = Nil
  BY DEF pushRight, IInv, Represents, Detached
<1>4. TypeOK'
  BY <1>1 DEF pushRight, IInv, TypeOK
<1>5. Distinct'
  BY <1>0, <1>1, <1>2 DEF IInv, Represents, Distinct, n
<1>6. head' = contents'[1] /\ tail' = contents'[n + 1]
  BY <1>0, <1>1, <1>C DEF pushRight
<1>7. \A i \in 1 .. n + 1 :
        next'[contents'[i]] = IF i = n + 1 THEN Nil ELSE contents'[i + 1]
  <2>1. CASE n = 0
    BY <1>0, <1>1, <1>3, <2>1 DEF pushRight
  <2>2. CASE n # 0
    <3>1. tail = contents[n] /\ n \in 1 .. n
      BY <1>0, <2>2, <1>C
    <3>2. next' = [next EXCEPT ![contents[n]] = t]
      BY <1>0, <2>2, <3>1 DEF pushRight
    <3>3. \A i \in 1 .. n - 1 : contents[i] # contents[n]
      BY <1>0, <3>1 DEF IInv, Represents, Distinct, n
    <3>4. \A i \in 1 .. n - 1 : next[contents[i]] = contents[i + 1]
      BY <1>0, <1>C
    <3>5. next \in [Tasks -> Tasks \cup {Nil}]
      BY DEF IInv, TypeOK
    <3>6. \A i \in 1 .. n - 1 : next'[contents'[i]] = contents'[i + 1]
      <4>. SUFFICES ASSUME NEW i \in 1 .. n - 1
                    PROVE  next'[contents'[i]] = contents'[i + 1]
        OBVIOUS
      <4>1. i \in 1 .. n /\ i + 1 \in 1 .. n
        BY <1>0
      <4>2. contents'[i] = contents[i] /\ contents'[i + 1] = contents[i + 1]
        BY <1>1, <4>1
      <4>3. next'[contents[i]] = next[contents[i]]
        BY <1>0, <3>2, <3>3, <3>5, <4>1
      <4>. QED  BY <3>4, <4>2, <4>3
    <3>7. next'[contents'[n]] = contents'[n + 1]
      BY <1>0, <1>1, <3>1, <3>2, <3>5
    <3>8. next'[contents'[n + 1]] = Nil
      BY <1>0, <1>1, <1>2, <1>3, <3>1, <3>2, <3>5
    <3>9. \A i \in 1 .. n + 1 : i \in 1 .. n - 1 \/ i = n \/ i = n + 1
      BY <1>0
    <3>. QED  BY <1>0, <3>6, <3>7, <3>8, <3>9
  <2>. QED  BY <2>1, <2>2
<1>8. Chained'
  BY <1>1, <1>6, <1>7 DEF Chained
<1>9. Detached'
  <2>. SUFFICES ASSUME NEW u \in Tasks, ~Linked(u)' PROVE next'[u] = Nil
    BY DEF Detached
  <2>1. u # t /\ ~Linked(u)
    BY <1>0, <1>1 DEF Linked
  <2>2. next[u] = Nil
    BY <2>1 DEF IInv, Represents, Detached
  <2>3. tail # Nil => tail # u
    BY <1>0, <2>1, <1>C DEF Linked
  <2>. QED  BY <2>2, <2>3 DEF pushRight, IInv, TypeOK
<1>. QED  BY <1>4, <1>5, <1>8, <1>9 DEF IInv, Represents

LEMMA PushLeftStep ==
  ASSUME IInv, NEW t \in Tasks, pushLeft(t)
  PROVE  IInv'
<1>. DEFINE n == Len(contents)
<1>0. /\ contents \in Seq(Tasks) /\ n \in Nat
      /\ DOMAIN contents = 1 .. n
      /\ \A i \in 1 .. n : contents[i] \in Tasks
      /\ contents = <<>> <=> n = 0
      /\ tail = Nil <=> contents = <<>>
  BY ContentsFacts
<1>1. /\ contents' \in Seq(Tasks) /\ Len(contents') = n + 1
      /\ \A i \in 1 .. n : contents'[i + 1] = contents[i]
      /\ contents'[1] = t
      /\ contents' # <<>>
      /\ DOMAIN contents' = 1 .. n + 1
  <2>1. <<t>> \in Seq(Tasks) /\ Len(<<t>>) = 1 /\ <<t>>[1] = t
    OBVIOUS
  <2>2. contents' = <<t>> \o contents
    BY DEF pushLeft
  <2>3. /\ contents' \in Seq(Tasks) /\ Len(contents') = 1 + n
        /\ \A i \in 1 .. 1 + n : contents'[i] = IF i <= 1 THEN <<t>>[i]
                                                 ELSE contents[i - 1]
    BY <1>0, <2>1, <2>2, ConcatProperties
  <2>. HIDE DEF n
  <2>4. Len(contents') = n + 1 /\ contents'[1] = t
    BY <1>0, <2>1, <2>3
  <2>5. \A i \in 1 .. n : contents'[i + 1] = contents[i]
    BY <1>0, <2>3
  <2>. QED  BY <2>3, <2>4, <2>5, LenProperties, EmptySeq, <1>0
<1>C. /\ head = IF n = 0 THEN Nil ELSE contents[1]
      /\ tail = IF n = 0 THEN Nil ELSE contents[n]
      /\ \A i \in 1 .. n : next[contents[i]] =
                             IF i = n THEN Nil ELSE contents[i + 1]
      /\ tail = Nil <=> n = 0
  BY ChainFacts
<1>. HIDE DEF n
<1>2. \A i \in 1 .. n : contents[i] # t
  BY <1>0 DEF pushLeft, Linked
<1>3. next \in [Tasks -> Tasks \cup {Nil}] /\ next' = [next EXCEPT ![t] = head]
  BY DEF pushLeft, IInv, TypeOK
<1>4. TypeOK'
  BY <1>1 DEF pushLeft, IInv, TypeOK
<1>5. Distinct'
  <2>. SUFFICES ASSUME NEW i \in 1 .. n + 1, NEW j \in 1 .. n + 1,
                       contents'[i] = contents'[j]
                PROVE  i = j
    BY <1>1 DEF Distinct
  <2>1. CASE i = 1 /\ j = 1
    BY <2>1
  <2>2. CASE i = 1 /\ j # 1
    <3>1. j - 1 \in 1 .. n /\ contents'[j] = contents[j - 1]
      BY <1>0, <1>1, <2>2
    <3>. QED  BY <1>1, <1>2, <2>2, <3>1
  <2>3. CASE i # 1 /\ j = 1
    <3>1. i - 1 \in 1 .. n /\ contents'[i] = contents[i - 1]
      BY <1>0, <1>1, <2>3
    <3>. QED  BY <1>1, <1>2, <2>3, <3>1
  <2>4. CASE i # 1 /\ j # 1
    <3>1. /\ i - 1 \in 1 .. n /\ contents'[i] = contents[i - 1]
          /\ j - 1 \in 1 .. n /\ contents'[j] = contents[j - 1]
      BY <1>0, <1>1, <2>4
    <3>2. i - 1 = j - 1
      BY <3>1 DEF IInv, Represents, Distinct, n
    <3>. QED  BY <1>0, <3>2
  <2>. QED  BY <2>1, <2>2, <2>3, <2>4
<1>6. head' = contents'[1] /\ tail' = contents'[n + 1]
  <2>1. CASE n = 0
    BY <1>0, <1>1, <2>1 DEF pushLeft
  <2>2. CASE n # 0
    <3>1. n \in 1 .. n /\ tail = contents[n] /\ tail # Nil
      BY <1>0, <2>2, <1>C
    <3>. QED  BY <1>1, <3>1 DEF pushLeft
  <2>. QED  BY <2>1, <2>2
<1>7. \A i \in 1 .. n + 1 :
        next'[contents'[i]] = IF i = n + 1 THEN Nil ELSE contents'[i + 1]
  <2>. SUFFICES ASSUME NEW i \in 1 .. n + 1
                PROVE  next'[contents'[i]] =
                         IF i = n + 1 THEN Nil ELSE contents'[i + 1]
    OBVIOUS
  <2>1. CASE i = 1
    <3>1. next'[contents'[i]] = head
      BY <1>1, <1>3, <2>1
    <3>2. head = IF n = 0 THEN Nil ELSE contents[1]
      BY <1>0, <1>C
    <3>. QED  BY <1>0, <1>1, <2>1, <3>1, <3>2
  <2>2. CASE i # 1
    <3>1. i - 1 \in 1 .. n /\ contents'[i] = contents[i - 1]
      BY <1>0, <1>1, <2>2
    <3>2. next'[contents'[i]] = next[contents[i - 1]]
      BY <1>0, <1>2, <1>3, <3>1
    <3>3. next[contents[i - 1]] = IF i - 1 = n THEN Nil ELSE contents[i]
      BY <1>0, <3>1, <1>C
    <3>4. i - 1 # n => i \in 1 .. n /\ contents'[i + 1] = contents[i]
      BY <1>0, <1>1, <3>1
    <3>. QED  BY <1>0, <3>2, <3>3, <3>4
  <2>. QED  BY <2>1, <2>2
<1>8. Chained'
  BY <1>1, <1>6, <1>7 DEF Chained
<1>9. Detached'
  <2>. SUFFICES ASSUME NEW u \in Tasks, ~Linked(u)' PROVE next'[u] = Nil
    BY DEF Detached
  <2>1. u # t
    BY <1>0, <1>1 DEF Linked
  <2>2. ~Linked(u)
    <3>1. \A i \in 1 .. n : i + 1 \in 1 .. n + 1
      BY <1>0
    <3>. QED  BY <1>0, <1>1, <3>1 DEF Linked
  <2>. QED  BY <1>3, <2>1, <2>2 DEF IInv, Represents, Detached
<1>. QED  BY <1>4, <1>5, <1>8, <1>9 DEF IInv, Represents

LEMMA PopLeftStep ==
  ASSUME IInv, popLeft
  PROVE  IInv'
<1>. DEFINE n == Len(contents)
<1>0. /\ contents \in Seq(Tasks) /\ n \in Nat /\ n # 0
      /\ DOMAIN contents = 1 .. n
      /\ \A i \in 1 .. n : contents[i] \in Tasks
      /\ contents # <<>>
  BY ContentsFacts DEF popLeft
<1>1. /\ contents' \in Seq(Tasks) /\ Len(contents') = n - 1
      /\ \A i \in 1 .. n - 1 : contents'[i] = contents[i + 1]
      /\ DOMAIN contents' = 1 .. n - 1
      /\ contents' = <<>> <=> n = 1
  <2>1. /\ contents' \in Seq(Tasks) /\ Len(contents') = n - 1
        /\ \A i \in 1 .. Len(contents') : contents'[i] = contents[i + 1]
    BY <1>0, HeadTailProperties DEF popLeft
  <2>. QED  BY <1>0, <2>1, LenProperties, EmptySeq
<1>C. /\ head = IF n = 0 THEN Nil ELSE contents[1]
      /\ tail = IF n = 0 THEN Nil ELSE contents[n]
      /\ \A i \in 1 .. n : next[contents[i]] =
                             IF i = n THEN Nil ELSE contents[i + 1]
      /\ tail = Nil <=> n = 0
  BY ChainFacts
<1>. HIDE DEF n
<1>2. /\ head = contents[1] /\ 1 \in 1 .. n
      /\ next \in [Tasks -> Tasks \cup {Nil}]
      /\ next' = [next EXCEPT ![contents[1]] = Nil]
  BY <1>0 DEF popLeft, IInv, TypeOK, Represents, Chained
<1>3. next[head] = IF n = 1 THEN Nil ELSE contents[2]
  BY <1>0, <1>2, <1>C
<1>4. TypeOK'
  BY <1>1, <1>2 DEF popLeft, IInv, TypeOK
<1>5. Distinct'
  <2>. SUFFICES ASSUME NEW i \in 1 .. n - 1, NEW j \in 1 .. n - 1,
                       contents'[i] = contents'[j]
                PROVE  i = j
    BY <1>1 DEF Distinct
  <2>1. /\ i + 1 \in 1 .. n /\ j + 1 \in 1 .. n
        /\ contents[i + 1] = contents[j + 1]
    BY <1>0, <1>1
  <2>2. i + 1 = j + 1
    BY <2>1 DEF IInv, Represents, Distinct, n
  <2>. QED  BY <1>0, <2>2
<1>6. /\ head' = IF n = 1 THEN Nil ELSE contents'[1]
      /\ tail' = IF n = 1 THEN Nil ELSE contents'[n - 1]
  <2>1. CASE n = 1
    BY <1>3, <2>1 DEF popLeft
  <2>2. CASE n # 1
    <3>1. /\ 1 \in 1 .. n - 1 /\ n - 1 \in 1 .. n - 1 /\ 2 \in 1 .. n
          /\ contents'[1] = contents[2] /\ contents'[n - 1] = contents[n]
      BY <1>0, <1>1, <2>2
    <3>2. next[head] = contents[2] /\ next[head] # Nil
      BY <1>0, <1>3, <2>2, <3>1, NilAssumption
    <3>3. tail = contents[n]
      BY <1>0, <1>C
    <3>. QED  BY <2>2, <3>1, <3>2, <3>3 DEF popLeft
  <2>. QED  BY <2>1, <2>2
<1>7. \A i \in 1 .. n - 1 :
        next'[contents'[i]] = IF i = n - 1 THEN Nil ELSE contents'[i + 1]
  <2>. SUFFICES ASSUME NEW i \in 1 .. n - 1
                PROVE  next'[contents'[i]] =
                         IF i = n - 1 THEN Nil ELSE contents'[i + 1]
    OBVIOUS
  <2>1. i + 1 \in 1 .. n /\ i + 1 # 1 /\ contents'[i] = contents[i + 1]
    BY <1>0, <1>1
  <2>2. contents[i + 1] # contents[1]
    BY <1>2, <2>1 DEF IInv, Represents, Distinct, n
  <2>3. next'[contents'[i]] = next[contents[i + 1]]
    BY <1>0, <1>2, <2>1, <2>2
  <2>4. next[contents[i + 1]] = IF i + 1 = n THEN Nil ELSE contents[i + 2]
    BY <1>0, <2>1, <1>C
  <2>5. i # n - 1 => contents'[i + 1] = contents[i + 2]
    BY <1>0, <1>1
  <2>. QED  BY <1>0, <2>3, <2>4, <2>5
<1>8. Chained'
  BY <1>1, <1>6, <1>7 DEF Chained
<1>9. Detached'
  <2>. SUFFICES ASSUME NEW u \in Tasks, ~Linked(u)' PROVE next'[u] = Nil
    BY DEF Detached
  <2>1. CASE u = contents[1]
    BY <1>2, <2>1
  <2>2. CASE u # contents[1]
    <3>1. ~Linked(u)
      <4>. SUFFICES ASSUME NEW i \in 1 .. n, contents[i] = u PROVE FALSE
        BY <1>0 DEF Linked
      <4>1. i - 1 \in 1 .. n - 1 /\ contents'[i - 1] = contents[i]
        BY <1>0, <1>1, <2>2
      <4>. QED  BY <1>1, <4>1 DEF Linked
    <3>. QED  BY <1>2, <2>2, <3>1 DEF IInv, Represents, Detached
  <2>. QED  BY <2>1, <2>2
<1>. QED  BY <1>4, <1>5, <1>8, <1>9 DEF IInv, Represents

LEMMA InvStep == IInv /\ [Next]_vars => IInv'
<1>1. IInv /\ UNCHANGED vars => IInv'
  BY DEF IInv, TypeOK, Represents, Distinct, Chained, Detached, Linked, vars
<1>. QED  BY <1>1, PushRightStep, PushLeftStep, PopLeftStep DEF Next

\* Whatever the order of pushRight, pushLeft and popLeft (queue.go:71-99),
\* head, tail and the next fields spell the tasks pushed and not yet popped,
\* each once, and no popped task keeps a pointer into the list.
THEOREM RepresentationHolds == Spec => []Represents
<1>1. Spec => []IInv
  BY InvInit, InvStep, PTL DEF Spec
<1>2. IInv => Represents
  BY DEF IInv
<1>. QED  BY <1>1, <1>2, PTL

-----------------------------------------------------------------------------
(* The walk.  toSlice recurses on the number of tasks it may still visit,  *)
(* so what it computes is shown by induction on that number, and that it   *)
(* is enough follows from Distinct.                                        *)

LEMMA NatLeast ==
  ASSUME NEW S, S \subseteq Nat, S # {}
  PROVE  \E x \in S : \A y \in S : ~(y < x)
<1>1. \E x \in S : \A y \in S : ~(<<y, x>> \in OpToRel(<, Nat))
  BY NatLessThanWellFounded, WFMin
<1>2. \A x, y \in Nat : y < x => <<y, x>> \in OpToRel(<, Nat)
  BY DEF OpToRel
<1>. QED  BY <1>1, <1>2

\* Induction, for a set of numbers instead of a predicate.
LEMMA NatInductionSet ==
  ASSUME NEW S, S \subseteq Nat, 0 \in S, \A n \in S : n + 1 \in S
  PROVE  S = Nat
<1>. SUFFICES ASSUME Nat \ S # {} PROVE FALSE
  OBVIOUS
<1>1. PICK x \in Nat \ S : \A y \in Nat \ S : ~(y < x)
  BY NatLeast
<1>2. x # 0 /\ x - 1 \in Nat
  BY <1>1
<1>. QED  BY <1>1, <1>2

\* One more task of a walk: step is the walk of one task less.
Visit(n, step) ==
  [t \in Tasks \cup {Nil} |->
     IF t = Nil \/ n = 0 THEN <<>> ELSE <<t>> \o step[next[t]]]

IsWalk(g, m) == g = [n \in 0 .. m |-> Visit(n, g[n - 1])]

\* The recursion of toSlice has a solution.
LEMMA WalkExists ==
  ASSUME NEW m \in Nat
  PROVE  \E g : IsWalk(g, m)
<1>. DEFINE S == {k \in Nat : \E g : IsWalk(g, k)}
<1>1. 0 \in S
  <2>. DEFINE g == [n \in 0 .. 0 |-> Visit(0, <<>>)]
  <2>1. \A x, y : Visit(0, x) = Visit(0, y)
    BY DEF Visit
  <2>2. g = [n \in 0 .. 0 |-> Visit(n, g[n - 1])]
    BY <2>1
  <2>. QED  BY <2>2 DEF IsWalk
<1>2. \A k \in S : k + 1 \in S
  <2>. SUFFICES ASSUME NEW k \in Nat, NEW g, IsWalk(g, k)
                PROVE  \E h : IsWalk(h, k + 1)
    OBVIOUS
  <2>. DEFINE h == [n \in 0 .. k + 1 |-> IF n = k + 1 THEN Visit(n, g[k])
                                         ELSE g[n]]
  <2>1. \A x, y : Visit(0, x) = Visit(0, y)
    BY DEF Visit
  <2>2. \A n \in 0 .. k + 1 : h[n] = Visit(n, h[n - 1])
    <3>. SUFFICES ASSUME NEW n \in 0 .. k + 1 PROVE h[n] = Visit(n, h[n - 1])
      OBVIOUS
    <3>1. CASE n = k + 1
      <4>1. n - 1 \in 0 .. k + 1 /\ n - 1 # k + 1 /\ n - 1 = k
        BY <3>1
      <4>2. h[n - 1] = g[k] /\ h[n] = Visit(n, g[k])
        BY <3>1, <4>1
      <4>. QED  BY <4>2
    <3>2. CASE n # k + 1
      <4>1. n \in 0 .. k /\ h[n] = g[n]
        BY <3>2
      <4>2. g[n] = Visit(n, g[n - 1])
        BY <4>1 DEF IsWalk
      <4>3. CASE n = 0
        BY <2>1, <4>1, <4>2, <4>3
      <4>4. CASE n # 0
        <5>1. n - 1 \in 0 .. k + 1 /\ n - 1 # k + 1
          BY <4>1, <4>4
        <5>2. h[n - 1] = g[n - 1]
          BY <5>1
        <5>. QED  BY <4>1, <4>2, <5>2
      <4>. QED  BY <4>3, <4>4
    <3>. QED  BY <3>1, <3>2
  <2>. HIDE DEF h
  <2>3. h = [n \in 0 .. k + 1 |-> h[n]]
    BY DEF h
  <2>4. h = [n \in 0 .. k + 1 |-> Visit(n, h[n - 1])]
    BY <2>2, <2>3
  <2>. QED  BY <2>4 DEF IsWalk
<1>. HIDE DEF S
<1>3. S = Nat
  <2>1. S \subseteq Nat
    BY DEF S
  <2>. QED  BY <1>1, <1>2, <2>1, NatInductionSet
<1>. QED  BY <1>3 DEF S

LEMMA toSliceIsWalk ==
  \E g : /\ IsWalk(g, Cardinality(Tasks))
         /\ toSlice = g[Cardinality(Tasks)][head]
<1>. DEFINE g == CHOOSE g : IsWalk(g, Cardinality(Tasks))
<1>1. Cardinality(Tasks) \in Nat
  BY FiniteAssumption, FS_CardinalityType
<1>2. IsWalk(g, Cardinality(Tasks))
  BY <1>1, WalkExists
<1>3. toSlice = g[Cardinality(Tasks)][head]
  BY DEF toSlice, IsWalk, Visit
<1>. QED  BY <1>2, <1>3

\* A list of distinct tasks is no longer than there are tasks.
LEMMA ContentsFit ==
  ASSUME IInv
  PROVE  Len(contents) <= Cardinality(Tasks)
<1>1. /\ contents \in Seq(Tasks) /\ Len(contents) \in Nat
      /\ DOMAIN contents = 1 .. Len(contents)
      /\ \A i \in 1 .. Len(contents) : contents[i] \in Tasks
  BY ContentsFacts
<1>2. Distinct
  BY DEF IInv, Represents
<1>. DEFINE n == Len(contents)
<1>3. contents \in [1 .. n -> Tasks]
  BY <1>1
<1>4. contents \in Injection(1 .. n, Tasks)
  BY <1>2, <1>3 DEF Distinct, Injection, IsInjective
<1>5. Cardinality(1 .. n) <= Cardinality(Tasks)
  BY <1>4, FiniteAssumption, FS_Injection
<1>6. Cardinality(1 .. n) = n
  <2>1. n \in Nat
    BY <1>1
  <2>. HIDE DEF n
  <2>2. Cardinality(1 .. n) = IF 1 > n THEN 0 ELSE n - 1 + 1
    BY <2>1, FS_Interval
  <2>. QED  BY <2>1, <2>2
<1>. QED  BY <1>5, <1>6

\* A walk that starts at the i-th task and may visit all that follow returns
\* the contents from i on.
LEMMA WalkFrom ==
  ASSUME IInv, NEW m \in Nat, NEW g, IsWalk(g, m)
  PROVE  \A n \in 0 .. m : \A i \in 1 .. Len(contents) + 1 :
           Len(contents) + 1 - i <= n =>
             g[n][IF i <= Len(contents) THEN contents[i] ELSE Nil] =
               SubSeq(contents, i, Len(contents))
<1>. DEFINE L == Len(contents)
            at(i) == IF i <= L THEN contents[i] ELSE Nil
            Right(n) == \A i \in 1 .. L + 1 :
                          L + 1 - i <= n =>
                            g[n][at(i)] = SubSeq(contents, i, L)
            S == {n \in Nat : n <= m => Right(n)}
<1>1. /\ contents \in Seq(Tasks) /\ L \in Nat
      /\ \A i \in 1 .. L : contents[i] \in Tasks
  BY ContentsFacts
<1>2. \A i \in 1 .. L : next[contents[i]] = at(i + 1)
  BY <1>1, ChainFacts
<1>3. \A n \in 0 .. m : g[n] = Visit(n, g[n - 1])
  BY DEF IsWalk
<1>4. \A n \in 0 .. m : g[n][at(L + 1)] = SubSeq(contents, L + 1, L)
  <2>. SUFFICES ASSUME NEW n \in 0 .. m
                PROVE  g[n][at(L + 1)] = SubSeq(contents, L + 1, L)
    OBVIOUS
  <2>1. at(L + 1) = Nil
    BY <1>1
  <2>2. SubSeq(contents, L + 1, L) = <<>>
    BY <1>1, SubSeqEmpty
  <2>3. Visit(n, g[n - 1])[Nil] = <<>>
    BY DEF Visit
  <2>. QED  BY <1>3, <2>1, <2>2, <2>3
<1>5. 0 \in S
  <2>1. \A i \in 1 .. L + 1 : L + 1 - i <= 0 => i = L + 1
    BY <1>1
  <2>2. 0 \in 0 .. m
    OBVIOUS
  <2>. HIDE DEF at, L
  <2>. QED  BY <1>4, <2>1, <2>2
<1>6. \A n \in S : n + 1 \in S
  <2>. SUFFICES ASSUME NEW n \in S, n + 1 <= m PROVE Right(n + 1)
    <3>. HIDE DEF Right
    <3>. QED  OBVIOUS
  <2>. n \in Nat /\ Right(n)
    <3>. HIDE DEF Right
    <3>. QED  OBVIOUS
  <2>. SUFFICES ASSUME NEW i \in 1 .. L + 1, L + 1 - i <= n + 1
                PROVE  g[n + 1][at(i)] = SubSeq(contents, i, L)
    OBVIOUS
  <2>1. CASE i = L + 1
    <3>. HIDE DEF at, L
    <3>. QED  BY <1>4, <2>1
  <2>2. CASE i # L + 1
    <3>1. i \in 1 .. L /\ i + 1 \in 1 .. L + 1 /\ L + 1 - (i + 1) <= n
      BY <1>1, <2>2
    <3>3. g[n][at(i + 1)] = SubSeq(contents, i + 1, L)
      BY <3>1
    <3>4. at(i) = contents[i] /\ contents[i] \in Tasks /\ contents[i] # Nil
      BY <1>1, <3>1, NilAssumption
    <3>. HIDE DEF at, L
    <3>5. g[n + 1] = Visit(n + 1, g[n])
      <4>1. n + 1 \in 0 .. m /\ (n + 1) - 1 = n
        OBVIOUS
      <4>. QED  BY <1>3, <4>1
    <3>6. Visit(n + 1, g[n])[contents[i]] =
            <<contents[i]>> \o g[n][next[contents[i]]]
      BY <3>4 DEF Visit
    <3>7. SubSeq(contents, i, L) =
            <<contents[i]>> \o SubSeq(contents, i + 1, L)
      BY <1>1, <3>1, SubSeqRecursiveFirst DEF L
    <3>. QED  BY <1>2, <3>1, <3>3, <3>4, <3>5, <3>6, <3>7
  <2>. QED  BY <2>1, <2>2
<1>7. S = Nat
  <2>1. S \subseteq Nat
    OBVIOUS
  <2>. HIDE DEF S
  <2>. QED  BY <1>5, <1>6, <2>1, NatInductionSet
<1>8. \A n \in 0 .. m : Right(n)
  <2>. HIDE DEF Right
  <2>. QED  BY <1>7
<1>. QED  BY <1>8

LEMMA WalkCorrect == IInv => WalkIsContents
<1>. SUFFICES ASSUME IInv PROVE toSlice = contents
  BY DEF WalkIsContents
<1>. DEFINE L == Len(contents)
            m == Cardinality(Tasks)
<1>1. contents \in Seq(Tasks) /\ L \in Nat /\ (contents = <<>> <=> L = 0)
  BY ContentsFacts
<1>2. m \in Nat /\ L <= m
  BY FiniteAssumption, FS_CardinalityType, ContentsFit
<1>3. PICK g : IsWalk(g, m) /\ toSlice = g[m][head]
  BY toSliceIsWalk
<1>4. head = IF 1 <= L THEN contents[1] ELSE Nil
  BY <1>1, ChainFacts
<1>. HIDE DEF m
<1>5. m \in 0 .. m /\ 1 \in 1 .. L + 1 /\ L + 1 - 1 <= m
  BY <1>1, <1>2
<1>6. g[m][IF 1 <= L THEN contents[1] ELSE Nil] = SubSeq(contents, 1, L)
  BY <1>2, <1>3, <1>5, WalkFrom
<1>7. SubSeq(contents, 1, L) = contents
  BY <1>1, SubSeqFull
<1>. QED  BY <1>3, <1>4, <1>6, <1>7

\* A walk of the pointers (toSlice, queue.go:101-119) ends, and returns the
\* tasks pushed and not yet popped, in the order they are handed out.
THEOREM WalkHolds == Spec => []WalkIsContents
<1>1. Spec => []IInv
  BY InvInit, InvStep, PTL DEF Spec
<1>. QED  BY <1>1, WalkCorrect, PTL
=============================================================================
