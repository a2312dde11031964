--------------------------- MODULE SequenceLemmas ---------------------------
(***************************************************************************)
(* What the proofs need of sequences of anything: induction over numbers,  *)
(* what FlattenSeq makes of sequences, a sequence that stands in another,  *)
(* and reading headers of which each leads to the next.                    *)
(***************************************************************************)
EXTENDS AnySequences, Integers, SequencesExt, SequenceTheorems,
        WellFoundedInduction, TLAPS

-----------------------------------------------------------------------------
(* Induction over numbers, and sequences of sequences.                     *)

\* Each set of numbers has a least one.
LEMMA NatLeast ==
  ASSUME NEW R, R \subseteq Nat, R # {}
  PROVE  \E x \in R : \A y \in R : ~(y < x)
<1>1. \E x \in R : \A y \in R : ~(<<y, x>> \in OpToRel(<, Nat))
  BY NatLessThanWellFounded, WFMin
<1>2. \A x, y \in Nat : y < x => <<y, x>> \in OpToRel(<, Nat)
  BY DEF OpToRel
<1>. QED  BY <1>1, <1>2

\* Induction, for a set of numbers instead of a predicate.
LEMMA NatInductionSet ==
  ASSUME NEW R, R \subseteq Nat, 0 \in R, \A n \in R : n + 1 \in R
  PROVE  R = Nat
<1>. SUFFICES ASSUME Nat \ R # {} PROVE FALSE
  OBVIOUS
<1>1. PICK x \in Nat \ R : \A y \in Nat \ R : ~(y < x)
  BY NatLeast
<1>2. x # 0 /\ x - 1 \in Nat
  BY <1>1
<1>. QED  BY <1>1, <1>2

\* f[k] is the first k sequences of s, one after the other.
Flattens(s, m, f) ==
  f = [k \in 1 .. m |-> IF k = 1 THEN s[k] ELSE f[k - 1] \o s[k]]

\* FlattenSeq is defined: what it makes of the first k parts, for each k.
LEMMA FlattensExists ==
  ASSUME NEW s, NEW m \in Nat PROVE \E f : Flattens(s, m, f)
<1>. DEFINE R == {n \in Nat : \E f : Flattens(s, n, f)}
<1>1. 0 \in R
  <2>. DEFINE f == [k \in 1 .. 0 |-> s[k]]
  <2>1. f = [k \in 1 .. 0 |-> IF k = 1 THEN s[k] ELSE f[k - 1] \o s[k]]
    OBVIOUS
  <2>. HIDE DEF f
  <2>2. Flattens(s, 0, f)
    BY <2>1 DEF Flattens
  <2>. QED  BY <2>2
<1>2. ASSUME NEW n \in R PROVE n + 1 \in R
  <2>1. PICK f : Flattens(s, n, f)
    OBVIOUS
  <2>. DEFINE g == [k \in 1 .. n + 1 |->
                      IF k = 1 THEN s[k] ELSE f[k - 1] \o s[k]]
  <2>2. n \in Nat
    OBVIOUS
  <2>3. \A k \in 1 .. n : f[k] = IF k = 1 THEN s[k] ELSE f[k - 1] \o s[k]
    BY <2>1 DEF Flattens
  <2>4. \A k \in 1 .. n : g[k] = f[k]
    BY <2>2, <2>3
  <2>5. \A k \in 1 .. n + 1 : k # 1 => g[k - 1] = f[k - 1]
    <3>. HIDE DEF g
    <3>. QED  BY <2>2, <2>4
  <2>6. g = [k \in 1 .. n + 1 |-> IF k = 1 THEN s[k] ELSE g[k - 1] \o s[k]]
    BY <2>5
  <2>. HIDE DEF g
  <2>7. Flattens(s, n + 1, g)
    BY <2>6 DEF Flattens
  <2>. QED  BY <2>2, <2>7
<1>3. R = Nat
  <2>. HIDE DEF R
  <2>1. R \subseteq Nat
    BY DEF R
  <2>. QED  BY <1>1, <1>2, <2>1, NatInductionSet
<1>. QED  BY <1>3

Agree(Q, s, t, m) == \A k \in 1 .. m : s[k] \in Seq(Q) /\ s[k] = t[k]

\* What it is does not depend on what follows, and it is a sequence.
LEMMA FlattensAgree ==
  ASSUME NEW Q, NEW s, NEW t, NEW m \in Nat, NEW n \in Nat, m <= n,
         Agree(Q, s, t, m),
         NEW f, NEW g, Flattens(s, m, f), Flattens(t, n, g)
  PROVE  Agree(Q, f, g, m)
<1>. DEFINE R == {k \in Nat : k \in 1 .. m => f[k] \in Seq(Q) /\ f[k] = g[k]}
<1>1. 0 \in R
  OBVIOUS
<1>2. ASSUME NEW k \in R PROVE k + 1 \in R
  <2>. SUFFICES ASSUME k + 1 \in 1 .. m
       PROVE  f[k + 1] \in Seq(Q) /\ f[k + 1] = g[k + 1]
    OBVIOUS
  <2>1. k \in Nat /\ k + 1 \in 1 .. n /\ (k + 1) - 1 = k
    OBVIOUS
  <2>2. /\ f[k + 1] = IF k + 1 = 1 THEN s[k + 1] ELSE f[(k + 1) - 1] \o s[k + 1]
        /\ g[k + 1] = IF k + 1 = 1 THEN t[k + 1] ELSE g[(k + 1) - 1] \o t[k + 1]
    BY <2>1 DEF Flattens
  <2>3. s[k + 1] \in Seq(Q) /\ s[k + 1] = t[k + 1]
    BY DEF Agree
  <2>4. CASE k = 0
    BY <2>2, <2>3, <2>4
  <2>5. CASE k # 0
    <3>1. k \in 1 .. m /\ k + 1 # 1
      BY <2>1, <2>5
    <3>2. f[k] \in Seq(Q) /\ f[k] = g[k]
      BY <3>1
    <3>3. f[k + 1] = f[k] \o s[k + 1] /\ g[k + 1] = g[k] \o t[k + 1]
      BY <2>1, <2>2, <3>1
    <3>4. f[k] \o s[k + 1] \in Seq(Q)
      BY <2>3, <3>2
    <3>. QED  BY <2>3, <3>2, <3>3, <3>4
  <2>. QED  BY <2>4, <2>5
<1>3. R = Nat
  <2>. HIDE DEF R
  <2>1. R \subseteq Nat
    BY DEF R
  <2>. QED  BY <1>1, <1>2, <2>1, NatInductionSet
<1>. QED  BY <1>3 DEF Agree

\* FlattenSeq takes the function that flattens.
LEMMA FlattenIs ==
  ASSUME NEW s, Len(s) \in Nat, Len(s) # 0
  PROVE  \E f : Flattens(s, Len(s), f) /\ FlattenSeq(s) = f[Len(s)]
<1>. DEFINE f == CHOOSE f : Flattens(s, Len(s), f)
<1>1. Flattens(s, Len(s), f)
  BY FlattensExists
<1>2. FlattenSeq(s) = f[Len(s)]
  BY DEF FlattenSeq, Flattens
<1>. QED  BY <1>1, <1>2

\* One part more is appended to what the others make.
LEMMA FlattenAppend ==
  ASSUME NEW Q, NEW s \in Seq(Seq(Q)), NEW x \in Seq(Q)
  PROVE  /\ FlattenSeq(s) \in Seq(Q)
         /\ FlattenSeq(Append(s, x)) = FlattenSeq(s) \o x
<1>. DEFINE n == Len(s)
            t == Append(s, x)
<1>1. /\ n \in Nat /\ Len(t) = n + 1 /\ Len(t) \in Nat /\ Len(t) # 0
      /\ \A k \in 1 .. n : s[k] \in Seq(Q) /\ s[k] = t[k]
      /\ t[n + 1] = x
  OBVIOUS
<1>. HIDE DEF t
<1>2. PICK g : Flattens(t, n + 1, g) /\ FlattenSeq(t) = g[n + 1]
  BY <1>1, FlattenIs
<1>3. g[n + 1] = IF n + 1 = 1 THEN t[n + 1] ELSE g[(n + 1) - 1] \o t[n + 1]
  <2>. HIDE DEF n
  <2>1. \A k \in 1 .. n + 1 : g[k] = IF k = 1 THEN t[k] ELSE g[k - 1] \o t[k]
    BY <1>2, Zenon DEF Flattens
  <2>2. n + 1 \in 1 .. n + 1
    BY <1>1
  <2>. QED  BY <2>1, <2>2, Zenon
<1>4. CASE n = 0
  <2>1. s = <<>>
    BY <1>4
  <2>2. FlattenSeq(s) = <<>>
    BY <1>4, <2>1 DEF FlattenSeq
  <2>3. <<>> \in Seq(Q) /\ <<>> \o x = x
    OBVIOUS
  <2>. QED  BY <1>1, <1>2, <1>3, <1>4, <2>2, <2>3 DEF t
<1>5. CASE n # 0
  <2>1. PICK f : Flattens(s, n, f) /\ FlattenSeq(s) = f[n]
    BY <1>1, <1>5, FlattenIs
  <2>2. f[n] \in Seq(Q) /\ f[n] = g[n]
    <3>. HIDE DEF n
    <3>1. n <= n + 1 /\ n + 1 \in Nat /\ n \in 1 .. n
      BY <1>1, <1>5
    <3>2. n \in Nat /\ Agree(Q, s, t, n)
      BY <1>1 DEF Agree
    <3>3. Flattens(s, n, f) /\ Flattens(t, n + 1, g)
      BY <1>2, <2>1
    <3>4. Agree(Q, f, g, n)
      BY <3>1, <3>2, <3>3, FlattensAgree
    <3>. QED  BY <3>1, <3>4 DEF Agree
  <2>3. n + 1 # 1 /\ (n + 1) - 1 = n
    BY <1>1, <1>5
  <2>. QED  BY <1>1, <1>2, <1>3, <2>1, <2>2, <2>3 DEF t
<1>. QED  BY <1>4, <1>5

\* The first k sequences of s, one after the other.
Upto(s, k) == FlattenSeq(SubSeq(s, 1, k))

\* What the first k parts make, and what one more adds.
LEMMA UptoNext ==
  ASSUME NEW Q, NEW s \in Seq(Seq(Q)), NEW k \in Nat, k + 1 <= Len(s)
  PROVE  /\ Upto(s, k) \in Seq(Q)
         /\ Upto(s, k + 1) = Upto(s, k) \o s[k + 1]
<1>1. /\ SubSeq(s, 1, k) \in Seq(Seq(Q)) /\ s[k + 1] \in Seq(Q)
      /\ SubSeq(s, 1, k + 1) = Append(SubSeq(s, 1, k), s[k + 1])
  <2>1. Len(s) \in Nat /\ k <= Len(s) /\ k + 1 \in 1 .. Len(s)
    OBVIOUS
  <2>2. SubSeq(s, 1, k) \in Seq(Seq(Q)) /\ s[k + 1] \in Seq(Q)
    BY <2>1
  <2>3. SubSeq(s, 1, k + 1) = Append(SubSeq(s, 1, k), s[k + 1])
    BY <2>1
  <2>. QED  BY <2>2, <2>3
<1>. QED  BY <1>1, FlattenAppend DEF Upto

LEMMA UptoNone ==
  ASSUME NEW s PROVE Upto(s, 0) = <<>>
<1>1. SubSeq(s, 1, 0) = <<>>
  OBVIOUS
<1>2. FlattenSeq(<<>>) = <<>>
  BY DEF FlattenSeq
<1>. QED  BY <1>1, <1>2 DEF Upto

\* Sequence k of s stands in f behind those before it.
Laid(s, f, k) ==
  /\ Len(Upto(s, k + 1)) <= Len(f)
  /\ \A j \in 1 .. Len(s[k + 1]) : f[Len(Upto(s, k)) + j] = s[k + 1][j]

\* Each part lies behind the parts before it.
LEMMA LaidOut ==
  ASSUME NEW Q, NEW s \in Seq(Seq(Q))
  PROVE  \A n \in 0 .. Len(s) : \A k \in 0 .. n - 1 : Laid(s, Upto(s, n), k)
<1>. DEFINE R == {n \in Nat : n <= Len(s) =>
                    \A k \in 0 .. n - 1 : Laid(s, Upto(s, n), k)}
<1>1. 0 \in R
  OBVIOUS
<1>2. ASSUME NEW n \in R PROVE n + 1 \in R
  <2>0. n \in Nat
    OBVIOUS
  <2>. SUFFICES ASSUME n + 1 <= Len(s), NEW k \in 0 .. n
       PROVE  Laid(s, Upto(s, n + 1), k)
    <3>1. (n + 1) - 1 = n
      BY <2>0
    <3>. QED  BY <2>0, <3>1
  <2>1. Len(s) \in Nat /\ k \in Nat /\ n <= Len(s) /\ k + 1 <= Len(s)
    BY <2>0
  <2>. DEFINE f == Upto(s, n)
              x == s[n + 1]
              g == Upto(s, n + 1)
  <2>2. f \in Seq(Q) /\ g = f \o x /\ x \in Seq(Q)
    <3>1. s[n + 1] \in Seq(Q)
      BY <2>0, <2>1
    <3>. QED  BY <2>0, <3>1, UptoNext
  <2>3. Upto(s, k) \in Seq(Q) /\ s[k + 1] \in Seq(Q)
        /\ Upto(s, k + 1) = Upto(s, k) \o s[k + 1]
    BY <2>1, UptoNext, SMTT(30)
  <2>. HIDE DEF f, x, g
  <2>4. /\ Len(g) = Len(f) + Len(x) /\ Len(f) \in Nat /\ Len(x) \in Nat
        /\ \A j \in 1 .. Len(f) : g[j] = f[j]
        /\ \A j \in 1 .. Len(x) : g[Len(f) + j] = x[j]
    BY <2>2, SMTT(30)
  <2>5. CASE k = n
    BY <2>4, <2>5 DEF Laid, f, g, x
  <2>6. CASE k # n
    <3>1. k \in 0 .. n - 1
      BY <2>0, <2>6
    <3>2. Laid(s, f, k)
      BY <2>0, <2>1, <3>1 DEF f
    <3>. DEFINE a == Upto(s, k)
                b == Upto(s, k + 1)
                y == s[k + 1]
    <3>3. Len(b) <= Len(f) /\ \A j \in 1 .. Len(y) : f[Len(a) + j] = y[j]
      BY <3>2 DEF Laid
    <3>4. a \in Seq(Q) /\ y \in Seq(Q) /\ b = a \o y
      BY <2>3
    <3>. HIDE DEF a, b, y
    <3>5. Len(a) \in Nat /\ Len(y) \in Nat /\ Len(b) = Len(a) + Len(y)
      BY <3>4
    <3>6. \A j \in 1 .. Len(y) : g[Len(a) + j] = y[j]
      <4>1. \A j \in 1 .. Len(y) : Len(a) + j \in 1 .. Len(f)
        BY <2>4, <3>3, <3>5
      <4>. QED  BY <2>4, <3>3, <4>1
    <3>7. Len(b) <= Len(g)
      BY <2>4, <3>3, <3>5
    <3>. QED  BY <3>6, <3>7 DEF Laid, a, b, y, g
  <2>. QED  BY <2>5, <2>6 DEF g
<1>3. R = Nat
  <2>. HIDE DEF R
  <2>1. R \subseteq Nat
    BY DEF R
  <2>. QED  BY <1>1, <1>2, <2>1, NatInductionSet
<1>. QED  BY <1>3

-----------------------------------------------------------------------------
(* Sequences of anything.                                                  *)

\* What every sequence has.
LEMMA SequenceFacts ==
  ASSUME NEW s, IsSequence(s)
  PROVE  Len(s) \in Nat /\ DOMAIN s = 1 .. Len(s)
BY DEF IsSequence

\* A sequence over any set is one.
LEMMA SequenceIs ==
  ASSUME NEW R, NEW s \in Seq(R)
  PROVE  IsSequence(s)
<1>. DEFINE T == {s[k] : k \in DOMAIN s}
<1>1. Len(s) \in Nat /\ DOMAIN s = 1 .. Len(s) /\ \A k \in DOMAIN s : s[k] \in T
  OBVIOUS
<1>2. s \in Seq(T)
  <2>. HIDE DEF T
  <2>. QED  BY <1>1
<1>. QED  BY <1>2 DEF IsSequence

\* Sequences with the same elements are the same.
LEMMA SameSequence ==
  ASSUME NEW s, NEW t, IsSequence(s), IsSequence(t), Len(s) = Len(t),
         \A k \in 1 .. Len(s) : s[k] = t[k]
  PROVE  s = t
<1>. DEFINE S == {s[k] : k \in DOMAIN s}
            T == {t[k] : k \in DOMAIN t}
<1>1. s \in Seq(S) /\ t \in Seq(T)
  BY DEF IsSequence
<1>. HIDE DEF S, T
<1>. QED  BY <1>1, SeqEqual

\* One sequence behind the other.
Joins(s, t, u) ==
  /\ IsSequence(u) /\ Len(u) = Len(s) + Len(t)
  /\ \A k \in 1 .. Len(s) : u[k] = s[k]
  /\ \A k \in 1 .. Len(t) : u[Len(s) + k] = t[k]

\* Two sequences, one behind the other.
LEMMA Joined ==
  ASSUME NEW s, NEW t, IsSequence(s), IsSequence(t)
  PROVE  Joins(s, t, s \o t)
<1>. DEFINE S == {s[k] : k \in DOMAIN s}
            T == {t[k] : k \in DOMAIN t}
            R == S \cup T
            u == s \o t
<1>1. s \in Seq(S) /\ t \in Seq(T)
  BY DEF IsSequence
<1>. HIDE DEF S, T
<1>2. s \in Seq(R) /\ t \in Seq(R)
  BY <1>1, SeqMonotonic
<1>. HIDE DEF R
<1>3. /\ u \in Seq(R) /\ Len(u) = Len(s) + Len(t)
      /\ \A k \in 1 .. Len(s) : u[k] = s[k]
      /\ \A k \in 1 .. Len(t) : u[Len(s) + k] = t[k]
  BY <1>2
<1>. HIDE DEF u
<1>4. IsSequence(u)
  BY <1>3, SequenceIs
<1>. QED  BY <1>3, <1>4 DEF Joins, u

LEMMA OneIsSequence ==
  ASSUME NEW x PROVE IsSequence(<<x>>) /\ Len(<<x>>) = 1 /\ <<x>>[1] = x
<1>1. <<x>> \in Seq({x}) /\ Len(<<x>>) = 1 /\ <<x>>[1] = x
  OBVIOUS
<1>. QED  BY <1>1, SequenceIs

LEMMA NoneIsSequence == IsSequence(<<>>) /\ Len(<<>>) = 0
<1>1. <<>> \in Seq({}) /\ Len(<<>>) = 0
  OBVIOUS
<1>. QED  BY <1>1, SequenceIs

\* Appending is joining with a sequence of one.
LEMMA Added ==
  ASSUME NEW s, IsSequence(s), NEW x
  PROVE  Append(s, x) = s \o <<x>>
<1>. DEFINE S == {s[k] : k \in DOMAIN s}
            R == S \cup {x}
<1>1. s \in Seq(S)
  BY DEF IsSequence
<1>. HIDE DEF S
<1>2. s \in Seq(R) /\ x \in R
  BY <1>1, SeqMonotonic
<1>. HIDE DEF R
<1>. QED  BY <1>2

-----------------------------------------------------------------------------
(* A sequence that stands in another, behind so many cells.                *)

Stands(d, off, s) ==
  /\ IsSequence(s) /\ off \in Nat /\ off + Len(s) <= Len(d)
  /\ \A j \in 1 .. Len(s) : d[off + j] = s[j]

\* What stands in a sequence stands there when more is appended.
LEMMA StandsStill ==
  ASSUME NEW d, NEW e, IsSequence(d), IsSequence(e), NEW off, NEW s, Stands(d, off, s)
  PROVE  Stands(d \o e, off, s)
<1>. DEFINE u == d \o e
<1>1. Joins(d, e, u)
  BY Joined, Zenon
<1>. HIDE DEF u
<1>2. Len(u) = Len(d) + Len(e) /\ \A k \in 1 .. Len(d) : u[k] = d[k]
  BY <1>1, Zenon DEF Joins
<1>3. Len(d) \in Nat /\ Len(e) \in Nat /\ Len(s) \in Nat /\ off \in Nat
      /\ off + Len(s) <= Len(d)
  BY SequenceFacts DEF Stands
<1>4. \A j \in 1 .. Len(s) : off + j \in 1 .. Len(d)
  BY <1>3
<1>5. \A j \in 1 .. Len(s) : u[off + j] = s[j]
  BY <1>2, <1>4, Zenon DEF Stands
<1>6. off + Len(s) <= Len(u)
  BY <1>2, <1>3
<1>. QED  BY <1>5, <1>6, Zenon DEF Stands, u

\* What is appended stands at the end.
LEMMA StandsLast ==
  ASSUME NEW d, NEW s, IsSequence(d), IsSequence(s)
  PROVE  Stands(d \o s, Len(d), s)
<1>. DEFINE u == d \o s
<1>1. Joins(d, s, u)
  BY Joined, Zenon
<1>. HIDE DEF u
<1>2. Len(u) = Len(d) + Len(s) /\ \A k \in 1 .. Len(s) : u[Len(d) + k] = s[k]
  BY <1>1, Zenon DEF Joins
<1>3. Len(d) \in Nat /\ Len(s) \in Nat
  BY SequenceFacts
<1>4. Len(d) + Len(s) <= Len(u)
  BY <1>2, <1>3
<1>. QED  BY <1>2, <1>3, <1>4, Zenon DEF Stands, u

\* Where two sequences stand joined, each of them stands.
LEMMA StandsBoth ==
  ASSUME NEW d, NEW s, NEW t, IsSequence(s), IsSequence(t), NEW off, Stands(d, off, s \o t),
         Len(d) \in Nat
  PROVE  Stands(d, off, s) /\ Stands(d, off + Len(s), t)
<1>. DEFINE u == s \o t
<1>1. Joins(s, t, u) /\ Stands(d, off, u)
  BY Joined, Zenon
<1>. HIDE DEF u
<1>2. /\ Len(u) = Len(s) + Len(t)
      /\ \A k \in 1 .. Len(s) : u[k] = s[k]
      /\ \A k \in 1 .. Len(t) : u[Len(s) + k] = t[k]
  BY <1>1, Zenon DEF Joins
<1>3. off \in Nat /\ off + Len(u) <= Len(d) /\ \A j \in 1 .. Len(u) : d[off + j] = u[j]
  BY <1>1, Zenon DEF Stands
<1>4. Len(s) \in Nat /\ Len(t) \in Nat
  BY SequenceFacts
<1>5. /\ off + Len(s) \in Nat /\ off + Len(s) <= Len(d)
      /\ off + Len(s) + Len(t) <= Len(d)
  BY <1>2, <1>3, <1>4
<1>6. \A j \in 1 .. Len(s) : j \in 1 .. Len(u)
  BY <1>2, <1>4
<1>7. ASSUME NEW j \in 1 .. Len(t) PROVE d[off + Len(s) + j] = t[j]
  <2>1. Len(s) + j \in 1 .. Len(u) /\ off + (Len(s) + j) = off + Len(s) + j
    BY <1>2, <1>3, <1>4
  <2>2. d[off + (Len(s) + j)] = u[Len(s) + j] /\ u[Len(s) + j] = t[j]
    BY <1>2, <1>3, <2>1, Zenon
  <2>. QED  BY <2>1, <2>2
<1>8. \A j \in 1 .. Len(s) : d[off + j] = s[j]
  BY <1>2, <1>3, <1>6, Zenon
<1>. QED  BY <1>3, <1>5, <1>7, <1>8, Zenon DEF Stands

\* What stands somewhere is what is read there.
LEMMA StandsCells ==
  ASSUME NEW d, IsSequence(d), NEW s, NEW off, Stands(d, off, s)
  PROVE  SubSeq(d, off + 1, off + Len(s)) = s
<1>. DEFINE u == SubSeq(d, off + 1, off + Len(s))
            D == {d[k] : k \in DOMAIN d}
<1>1. /\ Len(d) \in Nat /\ Len(s) \in Nat /\ off \in Nat /\ off + Len(s) <= Len(d)
      /\ \A j \in 1 .. Len(s) : d[off + j] = s[j]
      /\ IsSequence(s)
  BY SequenceFacts DEF Stands
<1>2. d \in Seq(D)
  BY DEF IsSequence
<1>. HIDE DEF D
<1>3. /\ u \in Seq(D) /\ Len(u) = Len(s)
      /\ \A j \in 1 .. Len(s) : u[j] = d[off + j]
  <2>1. off + 1 \in 1 .. Len(d) + 1 /\ off + Len(s) \in 0 .. Len(d) /\ off + 1 <= off + Len(s) + 1
    BY <1>1
  <2>. QED  BY <1>1, <1>2, <2>1
<1>. HIDE DEF u
<1>4. IsSequence(u)
  BY <1>3, SequenceIs
<1>5. \A j \in 1 .. Len(u) : u[j] = s[j]
  BY <1>1, <1>3
<1>6. u = s
  BY <1>1, <1>3, <1>4, <1>5, SameSequence, Zenon
<1>. QED  BY <1>6 DEF u

\* A single cell that stands somewhere.
LEMMA StandsOne ==
  ASSUME NEW d, NEW off, NEW x, Stands(d, off, <<x>>), Len(d) \in Nat
  PROVE  off \in Nat /\ off < Len(d) /\ d[off + 1] = x
<1>1. /\ off \in Nat /\ off + Len(<<x>>) <= Len(d)
      /\ \A j \in 1 .. Len(<<x>>) : d[off + j] = <<x>>[j]
  BY Zenon DEF Stands
<1>2. Len(<<x>>) = 1 /\ <<x>>[1] = x
  BY OneIsSequence
<1>3. \A j \in 1 .. 1 : d[off + j] = <<x>>[j]
  BY <1>1, <1>2
<1>4. 1 \in 1 .. 1
  OBVIOUS
<1>5. d[off + 1] = x
  BY <1>2, <1>3, <1>4, Zenon
<1>6. off < Len(d)
  BY <1>1, <1>2
<1>. QED  BY <1>1, <1>5, <1>6

\* What stands in a part stands in the whole.
LEMMA StandsWithin ==
  ASSUME NEW d, NEW e, NEW s, NEW off, NEW n, Len(d) \in Nat,
         Stands(d, off, e), Stands(e, n, s)
  PROVE  Stands(d, off + n, s)
<1>1. /\ off \in Nat /\ off + Len(e) <= Len(d) /\ Len(e) \in Nat
      /\ \A j \in 1 .. Len(e) : d[off + j] = e[j]
  BY SequenceFacts DEF Stands
<1>2. /\ n \in Nat /\ n + Len(s) <= Len(e) /\ Len(s) \in Nat /\ IsSequence(s)
      /\ \A j \in 1 .. Len(s) : e[n + j] = s[j]
  BY SequenceFacts DEF Stands
<1>3. off + n \in Nat /\ off + n + Len(s) <= Len(d)
  BY <1>1, <1>2
<1>4. ASSUME NEW j \in 1 .. Len(s) PROVE d[off + n + j] = s[j]
  <2>1. n + j \in 1 .. Len(e) /\ off + (n + j) = off + n + j
    BY <1>1, <1>2
  <2>. QED  BY <1>1, <1>2, <2>1
<1>. QED  BY <1>2, <1>3, <1>4, Zenon DEF Stands

\* Sequences written one behind the other.
IsParts(s, d) ==
  /\ IsSequence(d)
  /\ Len(Upto(s, 0)) = 0 /\ Len(Upto(s, Len(s))) = Len(d)
  /\ \A k \in 0 .. Len(s) - 1 :
       /\ Stands(d, Len(Upto(s, k)), s[k + 1])
       /\ Len(Upto(s, k + 1)) = Len(Upto(s, k)) + Len(s[k + 1])
  /\ \A j \in 1 .. Len(d) : \E k \in 1 .. Len(s) : \E i \in 1 .. Len(s[k]) : d[j] = s[k][i]

\* The parts of a flattened sequence stand in it, one behind the other.
LEMMA PartsStand ==
  ASSUME NEW s, IsSequence(s), \A k \in 1 .. Len(s) : IsSequence(s[k])
  PROVE  IsParts(s, FlattenSeq(s))
<1>. DEFINE d == FlattenSeq(s)
            Q == {s[p[1]][p[2]] : p \in {p \in (1 .. Len(s)) \X Nat : p[2] \in 1 .. Len(s[p[1]])}}
<1>0. Len(s) \in Nat /\ DOMAIN s = 1 .. Len(s)
  BY SequenceFacts
<1>1. ASSUME NEW k \in 1 .. Len(s) PROVE s[k] \in Seq(Q)
  <2>. DEFINE t == s[k]
              T == {t[i] : i \in DOMAIN t}
  <2>1. t \in Seq(T) /\ Len(t) \in Nat /\ DOMAIN t = 1 .. Len(t)
    BY <1>1, SequenceFacts DEF IsSequence
  <2>2. \A i \in 1 .. Len(t) : t[i] \in Q
    <3>1. ASSUME NEW i \in 1 .. Len(t) PROVE t[i] \in Q
      <4>1. i \in Nat
        BY <2>1
      <4>. DEFINE p == <<k, i>>
      <4>2. p \in (1 .. Len(s)) \X Nat /\ p[1] = k /\ p[2] = i
        BY <4>1
      <4>. HIDE DEF p
      <4>. QED  BY <4>2, Zenon
    <3>. QED  BY <3>1
  <2>3. T \subseteq Q
    BY <2>1, <2>2
  <2>. HIDE DEF T, Q
  <2>. QED  BY <2>1, <2>3, SeqMonotonic
<1>2. s \in Seq(Seq(Q))
  <2>. DEFINE S == {s[k] : k \in DOMAIN s}
  <2>1. s \in Seq(S)
    BY DEF IsSequence
  <2>2. S \subseteq Seq(Q)
    <3>. HIDE DEF Q
    <3>. QED  BY <1>0, <1>1
  <2>. HIDE DEF S, Q
  <2>. QED  BY <2>1, <2>2, SeqMonotonic
<1>. HIDE DEF Q
<1>3. d \in Seq(Q) /\ d = Upto(s, Len(s))
  <2>1. SubSeq(s, 1, Len(s)) = s
    BY <1>2
  <2>2. d = Upto(s, Len(s))
    BY <2>1, Zenon DEF Upto
  <2>3. CASE Len(s) = 0
    <3>1. d = <<>>
      BY <2>2, <2>3, UptoNone
    <3>. QED  BY <2>2, <3>1
  <2>4. CASE Len(s) # 0
    <3>1. Len(s) - 1 \in Nat /\ Len(s) - 1 + 1 = Len(s) /\ Len(s) \in 1 .. Len(s)
      BY <1>0, <2>4
    <3>2. Upto(s, Len(s) - 1) \in Seq(Q)
          /\ Upto(s, Len(s)) = Upto(s, Len(s) - 1) \o s[Len(s)]
      <4>1. Upto(s, Len(s) - 1) \in Seq(Q)
            /\ Upto(s, Len(s) - 1 + 1) = Upto(s, Len(s) - 1) \o s[Len(s) - 1 + 1]
        <5>1. Len(s) - 1 + 1 <= Len(s)
          BY <1>0
        <5>. QED  BY <1>2, <3>1, <5>1, UptoNext
      <4>. QED  BY <3>1, <4>1
    <3>. DEFINE a == Upto(s, Len(s) - 1)
                b == s[Len(s)]
    <3>3. a \in Seq(Q) /\ b \in Seq(Q) /\ d = a \o b
      BY <1>1, <2>2, <3>1, <3>2
    <3>. HIDE DEF a, b
    <3>4. a \o b \in Seq(Q)
      BY <3>3
    <3>. QED  BY <2>2, <3>3, <3>4
  <2>. QED  BY <2>3, <2>4
<1>. HIDE DEF d
<1>4. IsSequence(d)
  BY <1>3, SequenceIs
<1>5. Len(Upto(s, 0)) = 0
  BY UptoNone, NoneIsSequence
<1>6. ASSUME NEW k \in 0 .. Len(s) - 1
      PROVE  /\ Stands(d, Len(Upto(s, k)), s[k + 1])
             /\ Len(Upto(s, k + 1)) = Len(Upto(s, k)) + Len(s[k + 1])
  <2>1. k \in Nat /\ k + 1 <= Len(s) /\ k + 1 \in 1 .. Len(s)
    BY <1>0
  <2>. DEFINE a == Upto(s, k)
              b == Upto(s, k + 1)
              y == s[k + 1]
  <2>2. a \in Seq(Q) /\ b = a \o y /\ y \in Seq(Q)
    BY <1>1, <1>2, <2>1, UptoNext
  <2>3. Laid(s, d, k)
    <3>1. Len(s) \in 0 .. Len(s)
      BY <1>0
    <3>. QED  BY <1>2, <1>3, <3>1, LaidOut, Zenon
  <2>4. Len(b) <= Len(d) /\ \A j \in 1 .. Len(y) : d[Len(a) + j] = y[j]
    BY <2>3 DEF Laid
  <2>5. IsSequence(y)
    BY <2>1
  <2>. HIDE DEF a, b, y
  <2>6. Len(a) \in Nat /\ Len(y) \in Nat /\ Len(b) = Len(a) + Len(y)
    BY <2>2
  <2>7. Stands(d, Len(a), y)
    BY <2>4, <2>5, <2>6 DEF Stands
  <2>. QED  BY <2>6, <2>7 DEF a, b, y
<1>7. ASSUME NEW j \in 1 .. Len(d)
      PROVE  \E k \in 1 .. Len(s) : \E i \in 1 .. Len(s[k]) : d[j] = s[k][i]
  <2>1. d[j] \in Q
    BY <1>3
  <2>2. PICK p \in (1 .. Len(s)) \X Nat : p[2] \in 1 .. Len(s[p[1]]) /\ d[j] = s[p[1]][p[2]]
    BY <2>1 DEF Q
  <2>. QED  BY <2>2, Zenon
<1>. QED  BY <1>3, <1>4, <1>5, <1>6, <1>7, Zenon DEF IsParts, d

-----------------------------------------------------------------------------
(* Reading headers, each of which leads to the next.                       *)

\* One element more in front.
LEMMA OneBefore ==
  ASSUME NEW v, IsSequence(v), NEW k \in Nat, k + 1 <= Len(v)
  PROVE  <<v[k + 1]>> \o SubSeq(v, k + 2, Len(v)) = SubSeq(v, k + 1, Len(v))
<1>. DEFINE S == {v[i] : i \in DOMAIN v}
<1>1. v \in Seq(S)
  BY DEF IsSequence
<1>. HIDE DEF S
<1>. DEFINE x == <<v[k + 1]>>
            y == SubSeq(v, k + 2, Len(v))
            z == SubSeq(v, k + 1, Len(v))
            u == x \o y
<1>2. Len(v) \in Nat /\ k + 1 \in 1 .. Len(v) /\ v[k + 1] \in S
  BY <1>1
<1>3. IsSequence(x) /\ Len(x) = 1 /\ x[1] = v[k + 1]
  BY OneIsSequence
<1>4. /\ y \in Seq(S) /\ Len(y) = Len(v) - k - 1
      /\ \A j \in 1 .. Len(y) : y[j] = v[k + 1 + j]
  BY <1>1, <1>2
<1>5. /\ z \in Seq(S) /\ Len(z) = Len(v) - k
      /\ \A j \in 1 .. Len(z) : z[j] = v[k + j]
  BY <1>1, <1>2
<1>. HIDE DEF x, y, z
<1>6. IsSequence(y) /\ IsSequence(z)
  BY <1>4, <1>5, SequenceIs
<1>7. Joins(x, y, u)
  BY <1>3, <1>6, Joined, Zenon
<1>. HIDE DEF u
<1>8. /\ IsSequence(u) /\ Len(u) = 1 + Len(y) /\ u[1] = v[k + 1]
      /\ \A j \in 1 .. Len(y) : u[1 + j] = y[j]
  <2>1. /\ IsSequence(u) /\ Len(u) = Len(x) + Len(y)
        /\ \A j \in 1 .. Len(x) : u[j] = x[j]
        /\ \A j \in 1 .. Len(y) : u[Len(x) + j] = y[j]
    BY <1>7, Zenon DEF Joins
  <2>. QED  BY <1>3, <2>1
<1>9. Len(u) = Len(z)
  BY <1>2, <1>4, <1>5, <1>8
<1>10. ASSUME NEW j \in 1 .. Len(u) PROVE u[j] = z[j]
  <2>1. z[j] = v[k + j]
    BY <1>5, <1>9
  <2>2. CASE j = 1
    BY <1>8, <2>1, <2>2
  <2>3. CASE j # 1
    <3>1. j - 1 \in 1 .. Len(y) /\ 1 + (j - 1) = j /\ k + 1 + (j - 1) = k + j
      BY <1>2, <1>4, <1>8, <2>3
    <3>. QED  BY <1>4, <1>8, <2>1, <3>1
  <2>. QED  BY <2>2, <2>3
<1>11. u = z
  BY <1>6, <1>8, <1>9, <1>10, SameSequence, Zenon
<1>. QED  BY <1>11 DEF u, x, y, z

After(header, rest) ==
  IF header.err # "none" THEN [err |-> header.err, files |-> <<>>]
  ELSE [err |-> rest[header.next].err,
        files |-> <<header.file>> \o rest[header.next].files]

\* What is read from each offset on, if f says it and h[off] is the header at off.
Follows(h, lo, N, f) == f = [off \in lo .. N |-> After(h[off], f)]

\* Each header leads on, and at most to N.
Onward(h, lo, N) ==
  \A off \in lo .. N : h[off].err # "none" \/ h[off].next \in off + 1 .. N

\* A header and those behind it depend on what is read behind it only.
LEMMA AfterSame ==
  ASSUME NEW h, NEW N, NEW lo \in Nat, Onward(h, lo, N), NEW off \in lo .. N,
         NEW f, NEW g, \A n \in off + 1 .. N : f[n] = g[n]
  PROVE  After(h[off], f) = After(h[off], g)
<1>1. CASE h[off].err # "none"
  BY <1>1, Zenon DEF After
<1>2. CASE h[off].err = "none"
  <2>1. f[h[off].next] = g[h[off].next]
    BY <1>2, Zenon DEF Onward
  <2>. QED  BY <2>1, Zenon DEF After
<1>. QED  BY <1>1, <1>2

\* Reading on is defined where every header leads on.
LEMMA FollowingExists ==
  ASSUME NEW h, NEW N \in Nat, NEW least \in Nat, least <= N, Onward(h, least, N)
  PROVE  \E f : Follows(h, least, N, f)
<1>. DEFINE R == {m \in Nat : m <= N - least + 1 => \E f : Follows(h, N + 1 - m, N, f)}
<1>0. N \in Nat
  OBVIOUS
<1>1. 0 \in R
  <2>. DEFINE f == [i \in N + 1 .. N |-> 0]
  <2>1. N + 1 - 0 = N + 1 /\ N + 1 .. N = {}
    BY <1>0
  <2>2. f = [i \in N + 1 .. N |-> After(h[i], f)]
    <3>. QED  BY <2>1, Zenon
  <2>. HIDE DEF f
  <2>3. Follows(h, N + 1 - 0, N, f)
    BY <2>1, <2>2 DEF Follows
  <2>. QED  BY <2>3
<1>2. ASSUME NEW m \in R PROVE m + 1 \in R
  <2>. SUFFICES ASSUME m + 1 <= N - least + 1 PROVE \E f : Follows(h, N + 1 - (m + 1), N, f)
    BY <1>2
  <2>0. m \in Nat /\ m <= N - least + 1
    BY <1>0, <1>2
  <2>1. PICK f : Follows(h, N + 1 - m, N, f)
    BY <2>0
  <2>2. PICK lo : lo = N + 1 - (m + 1)
    OBVIOUS
  <2>3. lo \in Nat /\ N + 1 - m = lo + 1 /\ lo <= N /\ least <= lo
    BY <1>0, <2>0, <2>2
  <2>. DEFINE g == [i \in lo .. N |->
                      IF i = lo THEN After(h[lo], f) ELSE f[i]]
  <2>4. \A i \in lo + 1 .. N : f[i] = After(h[i], f) /\ f[i] = g[i]
    <3>1. f = [i \in lo + 1 .. N |-> After(h[i], f)]
      BY <2>1, <2>3 DEF Follows
    <3>2. \A i \in lo + 1 .. N : i \in lo .. N /\ i # lo
      BY <2>3
    <3>. QED  BY <3>1, <3>2, Zenon
  <2>5. ASSUME NEW i \in lo .. N PROVE g[i] = After(h[i], g)
    <3>1. i \in Nat /\ i \in least .. N /\ \A n \in i + 1 .. N : n \in lo + 1 .. N
      BY <2>3
    <3>2. \A n \in i + 1 .. N : f[n] = g[n]
      <4>. HIDE DEF g
      <4>. QED  BY <2>4, <3>1
    <3>3. After(h[i], f) = After(h[i], g)
      <4>. HIDE DEF g
      <4>. QED  BY <3>1, <3>2, AfterSame
    <3>4. CASE i = lo
      <4>1. g[lo] = After(h[lo], f)
        <5>. QED  BY <3>4, Zenon
      <4>. HIDE DEF g
      <4>. QED  BY <3>3, <3>4, <4>1
    <3>5. CASE i # lo
      <4>1. i \in lo + 1 .. N
        BY <2>3, <3>5
      <4>. HIDE DEF g
      <4>. QED  BY <2>4, <3>3, <4>1
    <3>. QED  BY <3>4, <3>5
  <2>6. g = [i \in lo .. N |-> After(h[i], g)]
    <3>1. g = [i \in lo .. N |-> g[i]]
      <4>. QED  OBVIOUS
    <3>. HIDE DEF g
    <3>. QED  BY <2>5, <3>1, Zenon
  <2>. HIDE DEF g
  <2>7. Follows(h, lo, N, g)
    BY <2>6 DEF Follows
  <2>. QED  BY <2>2, <2>7
<1>3. R = Nat
  <2>. HIDE DEF R
  <2>1. R \subseteq Nat
    BY DEF R
  <2>. QED  BY <1>1, <1>2, <2>1, NatInductionSet
<1>4. PICK m \in Nat : m = N - least + 1 /\ N + 1 - m = least /\ m <= m
  BY <1>0
<1>5. \E f : Follows(h, N + 1 - m, N, f)
  <2>1. m \in R
    <3>. HIDE DEF R
    <3>. QED  BY <1>3, <1>4
  <2>. QED  BY <1>4, <2>1
<1>. QED  BY <1>4, <1>5

\* The headers of some files, and then something that is not a header.
Chain(h, N, off, files) ==
  /\ \A k \in 0 .. Len(files) - 1 :
       /\ off[k] \in Nat /\ off[k] <= N
       /\ h[off[k]]
            = [err |-> "none", next |-> off[k + 1], file |-> files[k + 1]]
  /\ off[Len(files)] \in Nat /\ off[Len(files)] <= N
  /\ h[off[Len(files)]] = [err |-> "ErrFormat"]
  /\ \A k \in 0 .. Len(files) : off[0] <= off[k]

FoundFiles(e, files) == [err |-> e, files |-> files]

\* Headers that stand one behind the other are read, each in its place, until
\* something else follows.
Reads(h, N, off, files, f) ==
  /\ N \in Nat /\ IsSequence(files)
  /\ Chain(h, N, off, files) /\ Onward(h, off[0], N) /\ Follows(h, off[0], N, f)

LEMMA FollowingIs ==
  ASSUME NEW h, NEW N, NEW off, NEW files, NEW f, Reads(h, N, off, files, f)
  PROVE  f[off[0]] = FoundFiles("ErrFormat", files)
<1>. USE DEF Reads
<1>0. PICK n \in Nat : n = Len(files)
  BY SequenceFacts
<1>1. /\ \A k \in 0 .. n - 1 :
           /\ off[k] \in Nat /\ off[k] <= N
           /\ h[off[k]]
                = [err |-> "none", next |-> off[k + 1], file |-> files[k + 1]]
      /\ off[n] \in Nat /\ off[n] <= N
      /\ h[off[n]] = [err |-> "ErrFormat"]
      /\ \A k \in 0 .. n : off[0] <= off[k]
  BY <1>0, Zenon DEF Chain
<1>2. off[0] \in Nat /\ off[0] <= N
  <2>1. n = 0 \/ 0 \in 0 .. n - 1
    BY <1>0
  <2>. QED  BY <1>1, <2>1
<1>4. \A i \in off[0] .. N : f[i] = After(h[i], f)
  BY Zenon DEF Follows
<1>. DEFINE Result(k) == FoundFiles("ErrFormat", SubSeq(files, k + 1, n))
            R == {m \in Nat : m <= n => f[off[n - m]] = Result(n - m)}
<1>5. 0 \in R
  <2>1. n - 0 = n /\ SubSeq(files, n + 1, n) = <<>>
    <3>. DEFINE S == {files[i] : i \in DOMAIN files}
    <3>1. files \in Seq(S)
      BY DEF IsSequence
    <3>. HIDE DEF S
    <3>. QED  BY <1>0, <3>1
  <2>2. off[n] \in off[0] .. N
    <3>1. n \in 0 .. n
      BY <1>0
    <3>. QED  BY <1>1, <1>2, <3>1
  <2>3. f[off[n]] = After([err |-> "ErrFormat"], f)
    BY <1>1, <1>4, <2>2, Zenon
  <2>4. After([err |-> "ErrFormat"], f) = [err |-> "ErrFormat", files |-> <<>>]
    BY DEF After
  <2>5. f[off[n]] = Result(n)
    BY <2>1, <2>3, <2>4, Zenon DEF FoundFiles
  <2>. HIDE DEF Result
  <2>. QED  BY <2>1, <2>5
<1>6. ASSUME NEW m \in R PROVE m + 1 \in R
  <2>1. m \in Nat /\ m + 1 \in Nat /\ (m <= n => f[off[n - m]] = Result(n - m))
    <3>. HIDE DEF Result
    <3>. QED  BY <1>6
  <2>2. ASSUME m + 1 <= n PROVE f[off[n - (m + 1)]] = Result(n - (m + 1))
    <3>1. PICK k : k = n - (m + 1)
      OBVIOUS
    <3>2. /\ m <= n /\ k \in 0 .. n - 1 /\ n - m = k + 1 /\ k \in Nat /\ k \in 0 .. n
          /\ k + 1 \in 1 .. n /\ k + 1 <= n /\ k + 1 + 1 = k + 2
      BY <1>0, <2>1, <2>2, <3>1
    <3>3. f[off[k + 1]] = Result(k + 1)
      <4>. HIDE DEF Result
      <4>. QED  BY <2>1, <3>2, Zenon
    <3>4. off[k] \in off[0] .. N
      <4>1. off[k] \in Nat /\ off[k] <= N /\ off[0] <= off[k]
        BY <1>1, <3>2, Zenon
      <4>. QED  BY <1>2, <4>1
    <3>. DEFINE x == [err |-> "none", next |-> off[k + 1], file |-> files[k + 1]]
    <3>5. f[off[k]] = After(x, f)
      BY <1>1, <1>4, <3>2, <3>4, Zenon
    <3>6. x.err = "none" /\ x.next = off[k + 1] /\ x.file = files[k + 1]
      OBVIOUS
    <3>. HIDE DEF x
    <3>7. f[off[k]] = [err |-> f[off[k + 1]].err,
                      files |-> <<files[k + 1]>> \o f[off[k + 1]].files]
      BY <3>5, <3>6, Zenon DEF After
    <3>8. Result(k + 1).err = "ErrFormat" /\ Result(k + 1).files = SubSeq(files, k + 2, n)
      BY <3>2 DEF FoundFiles
    <3>9. <<files[k + 1]>> \o SubSeq(files, k + 2, n) = SubSeq(files, k + 1, n)
      BY <1>0, <3>2, OneBefore
    <3>. HIDE DEF Result
    <3>10. f[off[k]] = [err |-> "ErrFormat", files |-> SubSeq(files, k + 1, n)]
      BY <3>3, <3>7, <3>8, <3>9, Zenon
    <3>. QED  BY <3>1, <3>10, Zenon DEF Result, FoundFiles
  <2>. HIDE DEF Result
  <2>. QED  BY <2>1, <2>2
<1>. HIDE DEF Result
<1>7. R = Nat
  <2>. HIDE DEF R
  <2>1. R \subseteq Nat
    BY DEF R
  <2>. QED  BY <1>5, <1>6, <2>1, NatInductionSet
<1>8. n - n = 0 /\ n <= n
  BY <1>0
<1>9. f[off[n - n]] = Result(n - n)
  <2>1. n \in R
    <3>. HIDE DEF R
    <3>. QED  BY <1>0, <1>7
  <2>. QED  BY <1>8, <2>1
<1>10. SubSeq(files, 0 + 1, n) = files
  <2>. DEFINE S == {files[i] : i \in DOMAIN files}
  <2>1. files \in Seq(S)
    BY DEF IsSequence
  <2>. HIDE DEF S
  <2>. QED  BY <1>0, <2>1
<1>11. f[off[0]] = Result(0)
  BY <1>8, <1>9, Zenon
<1>. QED  BY <1>10, <1>11, Zenon DEF Result

-----------------------------------------------------------------------------
(* The largest and the smallest number, and prefixes.                      *)

\* The largest of a set of numbers.
LEMMA MaxIs ==
  ASSUME NEW S, NEW x \in S, x \in Int, \A y \in S : y \in Int /\ y <= x
  PROVE  Max(S) = x
<1>1. \E y \in S : \A z \in S : y >= z
  BY Z3
<1>. DEFINE m == CHOOSE y \in S : \A z \in S : y >= z
<1>2. m \in S /\ \A z \in S : m >= z
  BY <1>1, Zenon
<1>3. Max(S) = m
  BY Zenon DEF Max
<1>. HIDE DEF m
<1>4. m = x
  BY <1>2
<1>. QED  BY <1>3, <1>4

\* The smallest of a set of numbers.
LEMMA MinIs ==
  ASSUME NEW S, NEW x \in S, x \in Int, \A y \in S : y \in Int /\ x <= y
  PROVE  Min(S) = x
<1>1. \E y \in S : \A z \in S : y =< z
  BY Z3
<1>. DEFINE m == CHOOSE y \in S : \A z \in S : y =< z
<1>2. m \in S /\ \A z \in S : m =< z
  BY <1>1, Zenon
<1>3. Min(S) = m
  BY Zenon DEF Min
<1>. HIDE DEF m
<1>4. m = x
  BY <1>2
<1>. QED  BY <1>3, <1>4

\* What comes first is a prefix.
LEMMA PrefixOf ==
  ASSUME NEW s, NEW t, IsSequence(s), IsSequence(t)
  PROVE  IsPrefix(s, s \o t) /\ IsPrefix(s, s)
<1>. DEFINE u == s \o t
            S == {s[k] : k \in DOMAIN s}
<1>1. s \in Seq(S)
  BY DEF IsSequence
<1>. HIDE DEF S
<1>2. Len(s) \in Nat /\ Len(t) \in Nat /\ SubSeq(s, 1, Len(s)) = s
  BY <1>1, SequenceFacts
<1>3. Joins(s, t, u)
  BY Joined, Zenon
<1>. HIDE DEF u
<1>4. /\ IsSequence(u) /\ Len(u) = Len(s) + Len(t)
      /\ \A k \in 1 .. Len(s) : u[k] = s[k]
  BY <1>3, Zenon DEF Joins
<1>5. Stands(u, 0, s)
  <2>1. \A k \in 1 .. Len(s) : u[0 + k] = s[k]
    BY <1>2, <1>4
  <2>2. 0 + Len(s) <= Len(u) /\ 0 \in Nat
    BY <1>2, <1>4
  <2>. QED  BY <2>1, <2>2, Zenon DEF Stands
<1>6. SubSeq(u, 0 + 1, 0 + Len(s)) = s
  BY <1>4, <1>5, StandsCells, Zenon
<1>7. 0 + 1 = 1 /\ 0 + Len(s) = Len(s) /\ Len(s) <= Len(u) /\ Len(s) <= Len(s)
  BY <1>2, <1>4
<1>8. SubSeq(u, 1, Len(s)) = s
  BY <1>6, <1>7
<1>. QED  BY <1>2, <1>7, <1>8, Zenon DEF IsPrefix, u

\* One element more.
IsLonger(s, x, t) ==
  /\ IsSequence(t) /\ Len(t) = Len(s) + 1 /\ t[Len(s) + 1] = x
  /\ \A k \in 1 .. Len(s) : t[k] = s[k]

LEMMA LongerIs ==
  ASSUME NEW s, IsSequence(s), NEW x PROVE IsLonger(s, x, Append(s, x))
<1>. DEFINE t == Append(s, x)
<1>1. t = s \o <<x>> /\ IsSequence(<<x>>)
  BY Added, OneIsSequence
<1>2. Joins(s, <<x>>, t)
  BY <1>1, Joined, Zenon
<1>. HIDE DEF t
<1>3. /\ IsSequence(t) /\ Len(t) = Len(s) + Len(<<x>>)
      /\ \A k \in 1 .. Len(s) : t[k] = s[k]
      /\ \A k \in 1 .. Len(<<x>>) : t[Len(s) + k] = <<x>>[k]
  BY <1>2, Zenon DEF Joins
<1>4. Len(<<x>>) = 1 /\ <<x>>[1] = x /\ 1 \in 1 .. 1
  BY OneIsSequence
<1>5. IsSequence(t) /\ Len(t) = Len(s) + 1 /\ t[Len(s) + 1] = x
  BY <1>3, <1>4
<1>. QED  BY <1>3, <1>5, Zenon DEF IsLonger, t

LEMMA PrefixAdded ==
  ASSUME NEW s, NEW x, IsSequence(s)
  PROVE  IsPrefix(s, Append(s, x)) /\ IsPrefix(s, s)
<1>1. Append(s, x) = s \o <<x>> /\ IsSequence(<<x>>)
  BY Added, OneIsSequence
<1>. QED  BY <1>1, PrefixOf

\* A function on the first numbers is a sequence.
LEMMA FunctionIs ==
  ASSUME NEW n \in Nat, NEW f, f = [k \in 1 .. n |-> f[k]]
  PROVE  IsSequence(f) /\ Len(f) = n
<1>. DEFINE T == {f[k] : k \in 1 .. n}
<1>1. f \in Seq(T) /\ Len(f) = n
  <2>1. \A k \in 1 .. n : f[k] \in T
    OBVIOUS
  <2>. HIDE DEF T
  <2>2. [k \in 1 .. n |-> f[k]] \in Seq(T) /\ Len([k \in 1 .. n |-> f[k]]) = n
    BY <2>1
  <2>. QED  BY <2>2
<1>. QED  BY <1>1, SequenceIs

\* So many elements behind others.
LEMMA SliceIs ==
  ASSUME NEW Z, NEW d \in Seq(Z), NEW m \in Nat, NEW n \in Nat, m + n <= Len(d)
  PROVE  LET u == SubSeq(d, m + 1, m + n)
         IN u \in Seq(Z) /\ Len(u) = n /\ \A q \in 1 .. n : u[q] = d[m + q]
<1>1. m + 1 \in 1 .. Len(d) + 1 /\ m + n \in 0 .. Len(d) /\ m + 1 <= m + n + 1
  OBVIOUS
<1>. QED  BY <1>1

-----------------------------------------------------------------------------
(* The places of a concatenation.                                          *)

LEMMA SingletonSequence ==
  ASSUME NEW x
  PROVE  IsSequence(<<x>>)
<1>1. <<x>>[1] = x /\ DOMAIN <<x>> = {1}
  OBVIOUS
<1>2. {<<x>>[n] : n \in DOMAIN <<x>>} = {x}
  BY <1>1
<1>3. <<x>> \in Seq({x})
  OBVIOUS
<1>. QED  BY <1>2, <1>3 DEF IsSequence

LEMMA EmptySequence == IsSequence(<<>>) /\ DOMAIN <<>> = {} /\ Len(<<>>) = 0
BY DEF IsSequence

LEMMA CommonSet ==
  ASSUME NEW s, NEW t, IsSequence(s), IsSequence(t)
  PROVE  \E Z : s \in Seq(Z) /\ t \in Seq(Z)
<1>. DEFINE A == {s[n] : n \in DOMAIN s}
            B == {t[n] : n \in DOMAIN t}
<1>1. s \in Seq(A) /\ t \in Seq(B)
  BY DEF IsSequence
<1>. HIDE DEF A, B
<1>2. s \in Seq(A \cup B) /\ t \in Seq(A \cup B)
  BY <1>1
<1>. QED  BY <1>2

LEMMA FunctionSequence ==
  ASSUME NEW n \in Nat, NEW g, g = [k \in 1 .. n |-> g[k]]
  PROVE  IsSequence(g) /\ Len(g) = n /\ DOMAIN g = 1 .. n
<1>. DEFINE Z == {g[k] : k \in DOMAIN g}
<1>1. DOMAIN g = 1 .. n
  OBVIOUS
<1>2. g \in [1 .. n -> Z]
  BY <1>1
<1>. HIDE DEF Z
<1>3. g \in Seq(Z)
  BY <1>2
<1>4. Len(g) = n
  BY <1>1, <1>3, LenProperties
<1>. QED  BY <1>1, <1>3, <1>4 DEF IsSequence, Z

\* A sequence of sequences, flattened.
LEMMA FlatIsSequence ==
  ASSUME NEW m \in Nat, NEW q, q = [n \in 1 .. m |-> q[n]],
         \A n \in 1 .. m : IsSequence(q[n])
  PROVE  IsSequence(FlattenSeq(q))
<1>1. IsSequence(q) /\ Len(q) = m
  BY FunctionSequence
<1>2. IsParts(q, FlattenSeq(q))
  BY <1>1, PartsStand
<1>. QED  BY <1>2 DEF IsParts

\* Len, for the provers, which do not keep apart what they know of it from what
\* they assume.
Size(s) == Len(s)
Together(s, t) == s \o t

LEMMA SizeOfSequence ==
  ASSUME NEW s, IsSequence(s)
  PROVE  Size(s) \in Nat /\ DOMAIN s = 1 .. Size(s)
BY SequenceFacts DEF Size

LEMMA PrefixByPlace ==
  ASSUME NEW s, IsSequence(s), NEW t, IsSequence(t)
  PROVE  IsPrefix(s, t) <=>
           Size(s) <= Size(t) /\ \A n \in 1 .. Size(s) : s[n] = t[n]
<1>1. PICK A : s \in Seq(A) /\ t \in Seq(A)
  BY CommonSet
<1>2. Len(s) \in Nat /\ Len(t) \in Nat
  BY <1>1
<1>. DEFINE a == SubSeq(s, 1, Len(s))
            b == SubSeq(t, 1, Len(s))
<1>3. Len(s) <= Len(t) =>
        /\ a \in Seq(A) /\ Len(a) = Len(s) /\ \A n \in 1 .. Len(s) : a[n] = s[n]
        /\ b \in Seq(A) /\ Len(b) = Len(s) /\ \A n \in 1 .. Len(s) : b[n] = t[n]
  BY <1>1, <1>2
<1>4. IsPrefix(s, t) <=> Len(s) <= Len(t) /\ a = b
  BY DEF IsPrefix
<1>. HIDE DEF a, b
<1>5. ASSUME Len(s) <= Len(t), \A n \in 1 .. Len(s) : s[n] = t[n]
      PROVE  a = b
  BY <1>3, <1>5, SeqEqual
<1>. QED  BY <1>2, <1>3, <1>4, <1>5 DEF Size

LEMMA SameBySize ==
  ASSUME NEW s, IsSequence(s), NEW t, IsSequence(t), Size(s) = Size(t),
         \A n \in 1 .. Size(s) : s[n] = t[n]
  PROVE  s = t
<1>1. PICK A : s \in Seq(A) /\ t \in Seq(A)
  BY CommonSet
<1>. QED  BY <1>1, SeqEqual DEF Size

\* What a concatenation has at each place.
LEMMA ConcatByPlace ==
  ASSUME NEW s, IsSequence(s), NEW t, IsSequence(t)
  PROVE  LET c == Together(s, t)
         IN  /\ IsSequence(c) /\ Size(c) = Size(s) + Size(t)
             /\ Size(s) \in Nat /\ Size(t) \in Nat
             /\ \A n \in 1 .. Size(s) : c[n] = s[n]
<1>. DEFINE c == Together(s, t)
            T == {c[n] : n \in DOMAIN c}
<1>1. PICK A : s \in Seq(A) /\ t \in Seq(A)
  BY CommonSet
<1>2. Len(s) \in Nat /\ Len(t) \in Nat
  BY <1>1
<1>3. /\ c \in Seq(A) /\ Len(c) = Len(s) + Len(t)
      /\ \A n \in 1 .. Len(s) + Len(t) :
           c[n] = IF n <= Len(s) THEN s[n] ELSE t[n - Len(s)]
  BY <1>1, ConcatProperties DEF Together
<1>. HIDE DEF c
<1>4. DOMAIN c = 1 .. Len(c) /\ \A n \in DOMAIN c : c[n] \in T
  BY <1>3
<1>5. c \in Seq(T)
  <2>. HIDE DEF T
  <2>. QED  BY <1>3, <1>4
<1>6. \A n \in 1 .. Len(s) : c[n] = s[n]
  BY <1>2, <1>3
<1>. QED  BY <1>2, <1>3, <1>5, <1>6 DEF IsSequence, Size, c

LEMMA ConcatSecond ==
  ASSUME NEW s, IsSequence(s), NEW t, IsSequence(t),
         NEW n \in 1 .. Size(t), NEW m, m = Size(s) + n
  PROVE  Together(s, t)[m] = t[n]
<1>. DEFINE c == Together(s, t)
<1>1. PICK A : s \in Seq(A) /\ t \in Seq(A)
  BY CommonSet
<1>2. Len(s) \in Nat /\ Len(t) \in Nat
  BY <1>1
<1>3. \A i_1 \in 1 .. Len(s) + Len(t) :
        c[i_1] = IF i_1 <= Len(s) THEN s[i_1] ELSE t[i_1 - Len(s)]
  BY <1>1, ConcatProperties DEF Together
<1>. HIDE DEF c
<1>4. m \in 1 .. Len(s) + Len(t) /\ ~(m <= Len(s)) /\ m - Len(s) = n
  BY <1>2 DEF Size
<1>. QED  BY <1>3, <1>4 DEF c

LEMMA ShortSequences ==
  /\ IsSequence(<<>>) /\ Size(<<>>) = 0
  /\ \A x : IsSequence(<<x>>) /\ Size(<<x>>) = 1 /\ <<x>>[1] = x
  /\ \A x, y : /\ IsSequence(<<x, y>>) /\ Size(<<x, y>>) = 2
               /\ <<x, y>>[1] = x /\ <<x, y>>[2] = y
<1>1. ASSUME NEW x, NEW y
      PROVE  IsSequence(<<x, y>>)
  <2>. DEFINE s == <<x, y>>
  <2>1. s \in Seq({x, y}) /\ s[1] = x /\ s[2] = y /\ DOMAIN s = {1, 2}
    OBVIOUS
  <2>2. {s[n] : n \in DOMAIN s} = {x, y}
    <3>. HIDE DEF s
    <3>. QED  BY <2>1
  <2>. QED  BY <2>1, <2>2 DEF IsSequence
<1>2. /\ Size(<<>>) = 0
      /\ \A x : Size(<<x>>) = 1 /\ <<x>>[1] = x
      /\ \A x, y : Size(<<x, y>>) = 2 /\ <<x, y>>[1] = x /\ <<x, y>>[2] = y
  BY DEF Size
<1>. QED  BY <1>1, <1>2, SingletonSequence, EmptySequence

LEMMA FirstPlace ==
  ASSUME NEW s, IsSequence(s)
  PROVE  /\ s # <<>> => 1 <= Size(s)
         /\ 1 <= Size(s) => 1 \in 1 .. Size(s)
<1>1. s # <<>> => 1 <= Size(s)
  BY DEF IsSequence, Size
<1>2. Size(s) \in Nat
  BY SizeOfSequence
<1>. QED  BY <1>1, <1>2

LEMMA TogetherFirst ==
  ASSUME NEW s, IsSequence(s), NEW t, IsSequence(t)
  PROVE  LET c == Together(s, t)
         IN  /\ IsSequence(c)
             /\ 1 <= Size(s) => 1 <= Size(c) /\ c[1] = s[1]
             /\ Size(s) = 0 /\ 1 <= Size(t) => 1 <= Size(c) /\ c[1] = t[1]
             /\ Size(s) = 0 /\ Size(t) = 0 => Size(c) = 0
<1>. DEFINE c == Together(s, t)
<1>1. /\ IsSequence(c) /\ Size(c) = Size(s) + Size(t)
      /\ Size(s) \in Nat /\ Size(t) \in Nat
      /\ \A n \in 1 .. Size(s) : c[n] = s[n]
  BY ConcatByPlace
<1>2. ASSUME Size(s) = 0, 1 <= Size(t) PROVE c[1] = t[1]
  <2>1. 1 \in 1 .. Size(t) /\ 1 = Size(s) + 1
    BY <1>1, <1>2
  <2>. QED  BY <2>1, ConcatSecond
<1>. HIDE DEF c
<1>3. ASSUME 1 <= Size(s) PROVE c[1] = s[1]
  <2>1. 1 \in 1 .. Size(s)
    BY <1>1, <1>3
  <2>. QED  BY <1>1, <2>1
<1>. QED  BY <1>1, <1>2, <1>3 DEF c

\* A path and the query behind it, which begins with a question mark.
LEMMA RestIsPrefix ==
  ASSUME NEW a, IsSequence(a), \A n \in DOMAIN a : a[n] # "?",
         NEW b, IsSequence(b), \A n \in DOMAIN b : b[n] # "?",
         NEW v, IsSequence(v), v # <<>> => v[1] = "?",
         NEW w, IsSequence(w), w # <<>> => w[1] = "?"
  PROVE  IsPrefix(Together(a, v), Together(b, w)) <=>
           IF v = <<>> THEN IsPrefix(a, b) ELSE a = b /\ IsPrefix(v, w)
<1>. DEFINE s == Together(a, v)
            t == Together(b, w)
<1>1. /\ Size(a) \in Nat /\ DOMAIN a = 1 .. Size(a)
      /\ Size(b) \in Nat /\ DOMAIN b = 1 .. Size(b)
  BY SizeOfSequence
<1>2. /\ Size(v) \in Nat /\ Size(w) \in Nat
      /\ v # <<>> => 1 \in 1 .. Size(v) /\ 1 <= Size(v)
      /\ w # <<>> => 1 \in 1 .. Size(w) /\ 1 <= Size(w)
      /\ v = <<>> => Size(v) = 0
      /\ w = <<>> => Size(w) = 0
  BY SizeOfSequence, FirstPlace, ShortSequences
<1>3. /\ IsSequence(s) /\ Size(s) = Size(a) + Size(v)
      /\ \A n \in 1 .. Size(a) : s[n] = a[n]
  BY ConcatByPlace
<1>4. /\ IsSequence(t) /\ Size(t) = Size(b) + Size(w)
      /\ \A n \in 1 .. Size(b) : t[n] = b[n]
  BY ConcatByPlace
<1>5. /\ \A n \in 1 .. Size(v) : s[Size(a) + n] = v[n]
      /\ \A n \in 1 .. Size(w) : t[Size(b) + n] = w[n]
  BY ConcatSecond
<1>6. /\ IsPrefix(s, t) <=> Size(s) <= Size(t) /\ \A n \in 1 .. Size(s) : s[n] = t[n]
      /\ IsPrefix(a, b) <=> Size(a) <= Size(b) /\ \A n \in 1 .. Size(a) : a[n] = b[n]
      /\ IsPrefix(v, w) <=> Size(v) <= Size(w) /\ \A n \in 1 .. Size(v) : v[n] = w[n]
  BY <1>3, <1>4, PrefixByPlace
<1>. HIDE DEF s, t
<1>7. ASSUME IsPrefix(s, t) PROVE Size(a) <= Size(b)
  <2>. SUFFICES ASSUME Size(b) < Size(a) PROVE FALSE
    BY <1>1
  <2>1. Size(b) + 1 \in 1 .. Size(a) /\ Size(b) + 1 \in 1 .. Size(s) /\ w # <<>>
    BY <1>1, <1>2, <1>3, <1>4, <1>6, <1>7
  <2>2. s[Size(b) + 1] # "?"
    BY <1>1, <1>3, <2>1
  <2>3. t[Size(b) + 1] = "?"
    BY <1>2, <1>5, <2>1
  <2>. QED  BY <1>6, <1>7, <2>1, <2>2, <2>3
<1>8. ASSUME IsPrefix(s, t) PROVE \A n \in 1 .. Size(a) : a[n] = b[n]
  <2>. SUFFICES ASSUME NEW n \in 1 .. Size(a) PROVE a[n] = b[n]
    OBVIOUS
  <2>1. n \in 1 .. Size(b) /\ n \in 1 .. Size(s)
    BY <1>1, <1>2, <1>3, <1>7, <1>8
  <2>. QED  BY <1>3, <1>4, <1>6, <1>8, <2>1
<1>9. CASE v = <<>>
  <2>1. ASSUME IsPrefix(a, b) PROVE IsPrefix(s, t)
    <3>1. Size(s) = Size(a) /\ Size(a) <= Size(b) /\ Size(s) <= Size(t)
      BY <1>1, <1>2, <1>3, <1>4, <1>6, <1>9, <2>1
    <3>2. ASSUME NEW n \in 1 .. Size(s) PROVE s[n] = t[n]
      <4>1. n \in 1 .. Size(a) /\ n \in 1 .. Size(b)
        BY <1>1, <3>1
      <4>. QED  BY <1>3, <1>4, <1>6, <2>1, <4>1
    <3>. QED  BY <1>6, <3>1, <3>2
  <2>. QED  BY <1>6, <1>7, <1>8, <1>9, <2>1 DEF s, t
<1>10. CASE v # <<>>
  <2>1. ASSUME IsPrefix(s, t) PROVE a = b /\ IsPrefix(v, w)
    <3>1. Size(a) = Size(b)
      <4>. SUFFICES ASSUME Size(a) < Size(b) PROVE FALSE
        BY <1>1, <1>7, <2>1
      <4>1. Size(a) + 1 \in 1 .. Size(b) /\ Size(a) + 1 \in 1 .. Size(s)
        BY <1>1, <1>2, <1>3, <1>10
      <4>2. s[Size(a) + 1] = "?"
        BY <1>2, <1>5, <1>10
      <4>3. t[Size(a) + 1] # "?"
        BY <1>1, <1>4, <4>1
      <4>. QED  BY <1>6, <2>1, <4>1, <4>2, <4>3
    <3>2. a = b
      BY <1>8, <2>1, <3>1, SameBySize
    <3>3. Size(v) <= Size(w)
      BY <1>1, <1>2, <1>3, <1>4, <1>6, <2>1, <3>1
    <3>4. ASSUME NEW n \in 1 .. Size(v) PROVE v[n] = w[n]
      <4>1. n \in 1 .. Size(w) /\ Size(a) + n \in 1 .. Size(s)
        BY <1>1, <1>2, <1>3, <3>3
      <4>2. s[Size(a) + n] = v[n] /\ t[Size(a) + n] = w[n]
        BY <1>5, <3>1, <4>1
      <4>. QED  BY <1>6, <2>1, <4>1, <4>2
    <3>. QED  BY <1>6, <3>2, <3>3, <3>4
  <2>2. ASSUME a = b, IsPrefix(v, w) PROVE IsPrefix(s, t)
    <3>1. Size(s) <= Size(t)
      BY <1>1, <1>2, <1>3, <1>4, <1>6, <2>2
    <3>2. ASSUME NEW n \in 1 .. Size(s) PROVE s[n] = t[n]
      <4>1. CASE n <= Size(a)
        <5>1. n \in 1 .. Size(a)
          BY <1>1, <4>1
        <5>. QED  BY <1>3, <1>4, <2>2, <5>1
      <4>2. CASE Size(a) < n
        <5>. DEFINE m == n - Size(a)
        <5>1. m \in 1 .. Size(v) /\ m \in 1 .. Size(w) /\ n = Size(a) + m
          BY <1>1, <1>2, <1>3, <1>6, <2>2, <4>2
        <5>. HIDE DEF m
        <5>2. s[Size(a) + m] = v[m] /\ t[Size(a) + m] = w[m]
          BY <1>5, <2>2, <5>1
        <5>3. v[m] = w[m]
          BY <1>6, <2>2, <5>1
        <5>. QED  BY <5>1, <5>2, <5>3
      <4>. QED  BY <1>1, <1>3, <4>1, <4>2
    <3>. QED  BY <1>6, <3>1, <3>2
  <2>. QED  BY <1>10, <2>1, <2>2 DEF s, t
<1>. QED  BY <1>9, <1>10
=============================================================================
