-------------------------- MODULE ZipPackageProofs --------------------------
(* The package httrack/internal/go/zip, for every value of the constants.  No  *)
(* two goroutines ever work with one flate reader.  An archive that is closed  *)
(* and read whole is read back as it was written: every file with its data,    *)
(* its times and the encoding of its texts.                                    *)
EXTENDS ZipPackage, SequenceLemmas

-----------------------------------------------------------------------------
(* The pools.                                                              *)

(* The invariant.  Between Put and SetNil a reader still refers to a flate      *)
(* reader that others may have taken from the pool: only the mutex keeps it     *)
(* from being used.  Every other reference is the only one.                     *)
Locked(p) == pc[p] \in {"read", "reading", "close", "closing", "put"}

\* The goroutine inside Read or Close holds the mutex.
Held == \A p \in Procs : Locked(p) => at[p] \in Readers /\ mu[at[p]] = p

\* Inside, after the test for nil, there is a flate reader.
Referred == \A p \in Procs : pc[p] \in {"reading", "closing", "put"} => fr[at[p]] # None

\* A goroutine between Get and Reset is alone with its new reader, and has a
\* flate reader that no other such goroutine has.
Acquired(p) == /\ at[p] \in Readers /\ got[p] \in Flates
               /\ where[got[p]] = "out"
               /\ fr[at[p]] = None /\ mu[at[p]] = None
               /\ \A q \in Procs \ {p} : at[q] # at[p] /\ (pc[q] = "reset" => got[q] # got[p])
Preparing == \A p \in Procs : pc[p] = "reset" => Acquired(p)

\* Of a reader whose flate reader has been put into the pool.
Returned(r) == mu[r] \in Procs /\ pc[mu[r]] = "put" /\ at[mu[r]] = r
Owns(r) == /\ where[fr[r]] = "out" /\ src[fr[r]] = r
           /\ \A q \in Procs : pc[q] = "reset" => got[q] # fr[r]
Owned == \A r \in Readers : fr[r] # None => Owns(r) \/ Returned(r)

Inv == PoolTypeOK /\ Held /\ Referred /\ Preparing /\ Owned

LEMMA InitInv == PoolInit => Inv
BY NoneAssumption DEF PoolInit, Inv, PoolTypeOK, Held, Locked, Referred, Preparing, Owned

\* The mutex tells goroutines apart.
LEMMA OneInside ==
  ASSUME Inv, NEW p \in Procs, NEW q \in Procs, Locked(p), Locked(q), at[p] = at[q]
  PROVE  p = q
BY DEF Inv, Held

LEMMA DropInv == ASSUME Inv, NEW f \in Flates, Drop(f) PROVE Inv'
BY DEF Drop, Inv, PoolTypeOK, Held, Locked, Referred, Preparing, Acquired, Owned, Owns, Returned

LEMMA GetInv ==
  ASSUME Inv, NEW p \in Procs, NEW r \in Readers, NEW f \in Flates, Get(p, r, f)
  PROVE  Inv'
<1>1. PoolTypeOK' BY DEF Get, Goto, Inv, PoolTypeOK
<1>2. Held' /\ Referred' BY DEF Get, Goto, Inv, PoolTypeOK, Held, Locked, Referred
<1>3. Preparing'
  <2> SUFFICES ASSUME NEW q \in Procs, pc'[q] = "reset" PROVE Acquired(q)'
    BY DEF Preparing
  <2>1. CASE q = p
    BY <2>1 DEF Get, Goto, Inv, PoolTypeOK, Preparing, Acquired
  <2>2. CASE q # p
    BY <2>2 DEF Get, Goto, Inv, PoolTypeOK, Preparing, Acquired
  <2> QED BY <2>1, <2>2
<1>4. Owned'
  BY NoneAssumption DEF Get, Goto, Inv, PoolTypeOK, Held, Locked, Owned, Owns, Returned
<1> QED BY <1>1, <1>2, <1>3, <1>4 DEF Inv

LEMMA ResetInv == ASSUME Inv, NEW p \in Procs, Reset(p) PROVE Inv'
<1>0. Acquired(p) BY DEF Inv, Preparing, Reset
<1>1. PoolTypeOK' BY <1>0 DEF Reset, Goto, Inv, PoolTypeOK, Acquired
<1>2. Held' /\ Referred'
  BY <1>0, NoneAssumption DEF Reset, Goto, Inv, PoolTypeOK, Held, Locked, Referred, Acquired
<1>3. Preparing'
  BY <1>0, NoneAssumption DEF Reset, Goto, Inv, PoolTypeOK, Preparing, Acquired
<1>4. Owned'
  <2> SUFFICES ASSUME NEW r \in Readers, fr'[r] # None PROVE Owns(r)' \/ Returned(r)'
    BY DEF Owned
  <2>1. CASE r = at[p]
    BY <1>0, <2>1 DEF Reset, Goto, Inv, PoolTypeOK, Acquired, Owns
  <2>2. CASE r # at[p]
    BY <1>0, <2>2 DEF Reset, Goto, Inv, PoolTypeOK, Acquired, Owned, Owns, Returned
  <2> QED BY <2>1, <2>2
<1> QED BY <1>1, <1>2, <1>3, <1>4 DEF Inv

LEMMA NewInv ==
  ASSUME Inv, NEW p \in Procs, NEW r \in Readers, NEW f \in Flates, New(p, r, f)
  PROVE  Inv'
<1>1. PoolTypeOK' BY DEF New, Inv, PoolTypeOK
<1>2. Held' /\ Referred'
  BY NoneAssumption DEF New, Inv, PoolTypeOK, Held, Locked, Referred
<1>3. Preparing' BY DEF New, Inv, PoolTypeOK, Preparing, Acquired
<1>4. Owned'
  <2> SUFFICES ASSUME NEW s \in Readers, fr'[s] # None PROVE Owns(s)' \/ Returned(s)'
    BY DEF Owned
  <2>1. CASE s = r
    BY <2>1 DEF New, Inv, PoolTypeOK, Preparing, Acquired, Owns
  <2>2. CASE s # r
    BY <2>2 DEF New, Inv, PoolTypeOK, Owned, Owns, Returned
  <2> QED BY <2>1, <2>2
<1> QED BY <1>1, <1>2, <1>3, <1>4 DEF Inv

LEMMA LockInv ==
  ASSUME Inv, NEW p \in Procs, NEW r \in Readers, NEW op \in {"read", "close"}, Lock(p, r, op)
  PROVE  Inv'
<1>1. PoolTypeOK' BY DEF Lock, Goto, Inv, PoolTypeOK
<1>2. Held' /\ Referred'
  BY NoneAssumption DEF Lock, Goto, Inv, PoolTypeOK, Held, Locked, Referred
<1>3. Preparing'
  BY DEF Lock, Goto, Inv, PoolTypeOK, Preparing, Acquired
<1>4. Owned'
  BY NoneAssumption DEF Lock, Goto, Inv, PoolTypeOK, Held, Locked, Owned, Owns, Returned
<1> QED BY <1>1, <1>2, <1>3, <1>4 DEF Inv

\* The steps of Read, and those of Close before Put.
LEMMA InsideInv ==
  ASSUME Inv, NEW p \in Procs,
         BeginRead(p) \/ ReadAfterClose(p) \/ EndRead(p) \/ BeginClose(p) \/ CloseAfterClose(p)
  PROVE  Inv'
<1> USE DEF BeginRead, ReadAfterClose, EndRead, BeginClose, CloseAfterClose, Goto, Unlock
<1>0. at[p] \in Readers /\ mu[at[p]] = p BY DEF Inv, Held, Locked
<1>1. PoolTypeOK' BY <1>0 DEF Inv, PoolTypeOK
<1>2. Held' /\ Referred'
  BY <1>0, NoneAssumption DEF Inv, PoolTypeOK, Held, Locked, Referred
<1>3. Preparing' BY <1>0, NoneAssumption DEF Inv, PoolTypeOK, Preparing, Acquired
<1>4. Owned'
  BY <1>0, NoneAssumption DEF Inv, PoolTypeOK, Held, Locked, Owned, Owns, Returned
<1> QED BY <1>1, <1>2, <1>3, <1>4 DEF Inv

LEMMA PutInv == ASSUME Inv, NEW p \in Procs, Put(p) PROVE Inv'
<1>0. at[p] \in Readers /\ mu[at[p]] = p /\ fr[at[p]] \in Flates /\ Owns(at[p])
  BY DEF Put, Inv, PoolTypeOK, Held, Locked, Referred, Owned, Returned
<1>1. PoolTypeOK' BY DEF Put, Goto, Inv, PoolTypeOK
<1>2. Held' /\ Referred' BY DEF Put, Goto, Inv, PoolTypeOK, Held, Locked, Referred
<1>3. Preparing' BY <1>0 DEF Put, Goto, Inv, PoolTypeOK, Preparing, Acquired, Owns
<1>4. Owned'
  <2> SUFFICES ASSUME NEW r \in Readers, fr'[r] # None PROVE Owns(r)' \/ Returned(r)'
    BY DEF Owned
  <2>1. CASE r = at[p]
    BY <1>0, <2>1 DEF Put, Goto, Inv, PoolTypeOK, Returned
  <2>2. CASE r # at[p]
    BY <1>0, <2>2 DEF Put, Goto, Inv, PoolTypeOK, Owned, Owns, Returned
  <2> QED BY <2>1, <2>2
<1> QED BY <1>1, <1>2, <1>3, <1>4 DEF Inv

LEMMA SetNilInv == ASSUME Inv, NEW p \in Procs, SetNil(p) PROVE Inv'
<1>0. at[p] \in Readers /\ mu[at[p]] = p BY DEF SetNil, Inv, Held, Locked
<1>1. PoolTypeOK' BY DEF SetNil, Goto, Unlock, Inv, PoolTypeOK
<1>2. Held' /\ Referred'
  BY <1>0, NoneAssumption, OneInside
     DEF SetNil, Goto, Unlock, Inv, PoolTypeOK, Held, Locked, Referred
<1>3. Preparing'
  BY <1>0, NoneAssumption DEF SetNil, Goto, Unlock, Inv, PoolTypeOK, Preparing, Acquired
<1>4. Owned'
  BY <1>0, NoneAssumption DEF SetNil, Goto, Unlock, Inv, PoolTypeOK, Owned, Owns, Returned
<1> QED BY <1>1, <1>2, <1>3, <1>4 DEF Inv

\* Every step of the pools keeps the invariant.
LEMMA StepInv == Inv /\ [PoolNext]_poolVars => Inv'
<1> SUFFICES ASSUME Inv, [PoolNext]_poolVars PROVE Inv' OBVIOUS
<1>1. ASSUME NEW p \in Procs, Step(p) PROVE Inv'
  BY <1>1, GetInv, ResetInv, NewInv, LockInv, InsideInv, PutInv, SetNilInv DEF Step
<1>2. CASE UNCHANGED poolVars
  BY <1>2
     DEF poolVars, Inv, PoolTypeOK, Held, Locked, Referred, Preparing, Acquired, Owned, Owns,
         Returned
<1> QED BY <1>1, <1>2, DropInv DEF PoolNext

\* A flate reader that the invariant gives an owner works for it alone.
LEMMA InvWorksAlone == Inv => WorksAlone
<1> SUFFICES ASSUME Inv, NEW p \in Procs, AtWork(p)
             PROVE  LET f == fr[at[p]]
                    IN /\ f # None /\ src[f] = at[p] /\ where[f] = "out"
                       /\ \A q \in Procs \ {p} : AtWork(q) => fr[at[q]] # f
                       /\ \A q \in Procs : pc[q] = "reset" => got[q] # f
  BY DEF WorksAlone
<1>1. ASSUME NEW q \in Procs, AtWork(q)
      PROVE  /\ at[q] \in Readers /\ fr[at[q]] # None
             /\ Owns(at[q])
  BY <1>1 DEF AtWork, Inv, PoolTypeOK, Held, Locked, Referred, Owned, Returned
<1>2. ASSUME NEW q \in Procs \ {p}, AtWork(q) PROVE fr[at[q]] # fr[at[p]]
  <2>1. at[q] # at[p] BY <1>2, OneInside DEF AtWork, Locked
  <2> QED BY <2>1, <1>1, <1>2 DEF Owns
<1> QED BY <1>1, <1>2 DEF Owns

\* Every variable of the pools keeps its type (register.go:28-102).
THEOREM TypeCorrectness == PoolSpec => []PoolTypeOK
<1>1. Inv => PoolTypeOK BY DEF Inv
<1> QED BY InitInv, StepInv, <1>1, PTL DEF PoolSpec

\* A flate reader at work is at the disposal of one goroutine and reads the
\* stream of the reader that was called, whatever the others do
\* (register.go:78-102).
THEOREM FlatesWorkAlone == PoolSpec => []WorksAlone
<1> QED BY InitInv, StepInv, InvWorksAlone, PTL DEF PoolSpec

-----------------------------------------------------------------------------
(* Reading a directory.                                                    *)

\* Each header leads on in the file.
LeadsOn(zip, lo) ==
  \A off \in lo .. Len(zip) :
    \/ readDirectoryHeader(zip, off).err # "none"
    \/ readDirectoryHeader(zip, off).next \in off + 1 .. Len(zip)

\* The headers of some files, and then something that is not a header.
Headers(zip, off, files) ==
  /\ \A k \in 0 .. Len(files) - 1 :
       /\ off[k] \in Nat /\ off[k] <= Len(zip)
       /\ readDirectoryHeader(zip, off[k])
            = [err |-> "none", next |-> off[k + 1], file |-> files[k + 1]]
  /\ off[Len(files)] \in Nat /\ off[Len(files)] <= Len(zip)
  /\ readDirectoryHeader(zip, off[Len(files)]) = [err |-> "ErrFormat"]
  /\ \A k \in 0 .. Len(files) : off[0] <= off[k]

\* Headers that stand one behind the other are read, each in its place, until
\* something else follows.
LEMMA DirectoryIs ==
  ASSUME NEW zip, Len(zip) \in Nat, NEW off, NEW files, IsSequence(files),
         Headers(zip, off, files), LeadsOn(zip, off[0])
  PROVE  DirectoryFrom(zip, off[0]) = FoundFiles("ErrFormat", files)
<1>0. PICK N \in Nat : N = Len(zip)
  OBVIOUS
<1>1. PICK n \in Nat : n = Len(files)
  BY SequenceFacts
<1>2. /\ \A k \in 0 .. n - 1 :
           /\ off[k] \in Nat /\ off[k] <= N
           /\ readDirectoryHeader(zip, off[k])
                = [err |-> "none", next |-> off[k + 1], file |-> files[k + 1]]
      /\ off[n] \in Nat /\ off[n] <= N
      /\ readDirectoryHeader(zip, off[n]) = [err |-> "ErrFormat"]
      /\ \A k \in 0 .. n : off[0] <= off[k]
  BY <1>0, <1>1, Zenon DEF Headers
<1>3. off[0] \in Nat /\ off[0] <= N
  <2>1. n = 0 \/ 0 \in 0 .. n - 1
    OBVIOUS
  <2>. QED  BY <1>2, <2>1
<1>4. PICK h : \A i \in off[0] .. N : h[i] = readDirectoryHeader(zip, i)
  <2>. DEFINE h == [i \in off[0] .. N |-> readDirectoryHeader(zip, i)]
  <2>1. \A i \in off[0] .. N : h[i] = readDirectoryHeader(zip, i)
    OBVIOUS
  <2>. QED  BY <2>1
<1>5. \A k \in 0 .. n : off[k] \in off[0] .. N
  <2>. SUFFICES ASSUME NEW k \in 0 .. n PROVE off[k] \in off[0] .. N
    OBVIOUS
  <2>1. off[k] \in Nat /\ off[k] <= N /\ off[0] <= off[k]
    <3>1. k = n \/ k \in 0 .. n - 1
      OBVIOUS
    <3>. QED  BY <1>2, <3>1, Zenon
  <2>. QED  BY <1>3, <2>1
<1>6. Chain(h, N, off, files)
  <2>1. \A k \in 0 .. n - 1 : k \in 0 .. n
    OBVIOUS
  <2>2. n \in 0 .. n
    OBVIOUS
  <2>. QED  BY <1>1, <1>2, <1>4, <1>5, <2>1, <2>2, Zenon DEF Chain
<1>7. Onward(h, off[0], N)
  BY <1>0, <1>4, Zenon DEF Onward, LeadsOn
<1>8. PICK r : /\ Follows(h, off[0], N, r)
               /\ DirectoryFrom(zip, off[0]) = r[off[0]]
  <2>. DEFINE P(f) == f = [i \in off[0] .. N |-> After(readDirectoryHeader(zip, i), f)]
              r == CHOOSE f : P(f)
  <2>1. ASSUME NEW g PROVE P(g) <=> Follows(h, off[0], N, g)
    BY <1>4 DEF Follows
  <2>. HIDE DEF P
  <2>2. \E g : Follows(h, off[0], N, g)
    BY <1>3, <1>7, FollowingExists
  <2>3. P(r)
    <3>1. \E g : P(g)
      BY <2>1, <2>2, Zenon
    <3>. QED  BY <3>1, Zenon
  <2>4. DirectoryFrom(zip, off[0]) = r[off[0]]
    BY <1>0, Zenon DEF DirectoryFrom, P, After
  <2>. HIDE DEF r
  <2>. QED  BY <2>1, <2>3, <2>4
<1>9. r[off[0]] = FoundFiles("ErrFormat", files)
  <2>1. Reads(h, N, off, files, r)
    BY <1>6, <1>7, <1>8 DEF Reads
  <2>. QED  BY <2>1, FollowingIs
<1>. QED  BY <1>8, <1>9

-----------------------------------------------------------------------------
(* A header of the directory.                                              *)

\* A number that fits in its field is not changed.
LEMMA NarrowIs ==
  ASSUME NEW n \in Nat
  PROVE  /\ Narrow16(n) \in Nat /\ (n <= uint16max => Narrow16(n) = n)
         /\ Narrow32(n) \in Nat /\ (n <= uint32max => Narrow32(n) = n)
<1>1. \A m \in Nat : n % (m + 1) \in Nat /\ (n <= m => n % (m + 1) = n)
  OBVIOUS
<1>. QED  BY <1>1, WidthsAssumption DEF Narrow16, Narrow32


IsFields(s) == IsSequence(s) /\ \A k \in DOMAIN s : s[k].cell = "extra" /\ s[k].tag # "zip64"

\* What is in a header when Close writes it.
Sized(h) ==
  /\ h.csize64 \in Nat /\ h.usize64 \in Nat /\ h.offset \in Nat
  /\ h.csize = IF isZip64(h.csize64, h.usize64) THEN uint32max ELSE Narrow32(h.csize64)
  /\ h.usize = IF isZip64(h.csize64, h.usize64) THEN uint32max ELSE Narrow32(h.usize64)

Fits(h) ==
  /\ IsTexts(h.name) /\ IsTexts(h.comment) /\ IsFields(h.extra)
  /\ Len(h.name) <= uint16max
  /\ Len(CentralExtra(h)) <= uint16max /\ Len(h.comment) <= uint16max
  /\ Sized(h)

CentralCell(h, extra) ==
  [cell |-> "central", method |-> h.method, utf8 |-> h.utf8, descriptor |-> h.descriptor,
   dos |-> h.dos, crc |-> h.crc,
   csize |-> IF NeedsZip64(h) THEN uint32max ELSE h.csize,
   usize |-> IF NeedsZip64(h) THEN uint32max ELSE h.usize,
   nameLen |-> Narrow16(Len(h.name)), extraLen |-> Narrow16(Len(extra)),
   commentLen |-> Narrow16(Len(h.comment)),
   offset |-> IF h.offset > uint32max THEN uint32max ELSE Narrow32(h.offset)]

Zip64Field(h) == Extra("zip64", <<h.usize64, h.csize64, h.offset>>)

\* The fields of a caller are none of zip64.
LEMMA FieldsOfNone ==
  ASSUME NEW s, IsFields(s)
  PROVE  FieldsOf(s, {"zip64"}) = {}
BY DEF FieldsOf, IsFields

\* A field that is added is seen by its tag, and only so.
LEMMA FieldsOfAdded ==
  ASSUME NEW s, NEW tag, NEW values, IsFields(s), NEW tags
  PROVE  LET t == Append(s, Extra(tag, values))
             n == Len(s) + 1
         IN /\ IsSequence(t) /\ Len(t) = n /\ t[n] = Extra(tag, values)
            /\ \A k \in 1 .. Len(s) : t[k] = s[k]
            /\ FieldsOf(t, tags) = FieldsOf(s, tags) \cup (IF tag \in tags THEN {n} ELSE {})
            /\ FieldsOf(s, tags) \subseteq 1 .. Len(s)
<1>. DEFINE x == Extra(tag, values)
            t == Append(s, x)
            n == Len(s) + 1
<1>1. Len(s) \in Nat /\ DOMAIN s = 1 .. Len(s) /\ IsSequence(s)
      /\ \A k \in 1 .. Len(s) : s[k].cell = "extra"
  BY SequenceFacts DEF IsFields
<1>2. x.cell = "extra" /\ x.tag = tag
  BY DEF Extra
<1>. HIDE DEF x
<1>3. IsSequence(t) /\ Len(t) = n /\ t[n] = x /\ \A k \in 1 .. Len(s) : t[k] = s[k]
  BY <1>1, LongerIs, ZenonT(30) DEF IsLonger
<1>. HIDE DEF t
<1>4. DOMAIN t = 1 .. Len(s) + 1
  BY <1>3, SequenceFacts
<1>5. \A k \in 1 .. Len(s) + 1 : t[k].cell = "extra"
  <2>1. ASSUME NEW k \in 1 .. Len(s) + 1 PROVE t[k].cell = "extra"
    <3>1. k = n \/ k \in 1 .. Len(s)
      BY <1>1
    <3>. QED  BY <1>1, <1>2, <1>3, <3>1
  <2>. QED  BY <2>1
<1>6. FieldsOf(s, tags) = {k \in 1 .. Len(s) : s[k].tag \in tags}
  <2>1. \A k \in 1 .. Len(s) : \A i \in 1 .. k : i \in 1 .. Len(s)
    BY <1>1
  <2>. QED  BY <1>1, <2>1 DEF FieldsOf
<1>7. FieldsOf(t, tags) = {k \in 1 .. Len(s) + 1 : t[k].tag \in tags}
  <2>1. \A k \in 1 .. Len(s) + 1 : \A i \in 1 .. k : i \in 1 .. Len(s) + 1
    BY <1>1
  <2>. QED  BY <1>4, <1>5, <2>1 DEF FieldsOf
<1>8. FieldsOf(t, tags) = FieldsOf(s, tags) \cup (IF tag \in tags THEN {n} ELSE {})
  <2>1. \A k \in 1 .. Len(s) + 1 : k = n \/ k \in 1 .. Len(s)
    BY <1>1
  <2>2. /\ n \in 1 .. Len(s) + 1 /\ n \notin 1 .. Len(s)
        /\ \A k \in 1 .. Len(s) : k \in 1 .. Len(s) + 1
    BY <1>1
  <2>3. t[n].tag = tag
    BY <1>2, <1>3
  <2>. QED  BY <1>3, <1>6, <1>7, <2>1, <2>2, <2>3
<1>9. FieldsOf(s, tags) \subseteq 1 .. Len(s)
  BY <1>6
<1>. QED  BY <1>3, <1>8, <1>9 DEF t, x

Numbers(h) == [err |-> "none", usize |-> h.usize64, csize |-> h.csize64, offset |-> h.offset]

\* The numbers of a header are read as they were, from the header itself or from
\* the zip64 field that Close has added (writer.go:101-118, 126-130, reader.go:351-394).
LEMMA NumbersRead ==
  ASSUME NEW h, Sized(h), IsFields(h.extra)
  PROVE  Zip64Numbers(CentralCell(h, CentralExtra(h)), CentralExtra(h)) = Numbers(h)
<1>. DEFINE x == CentralExtra(h)
            c == CentralCell(h, x)
            fields == FieldsOf(x, {"zip64"})
            values == x[Min(fields)].values
<1>0. uint32max \in Nat /\ uint32max > 0
  BY WidthsAssumption
<1>1. CASE ~NeedsZip64(h)
  <2>1. x = h.extra /\ fields = {}
    BY <1>1, FieldsOfNone DEF CentralExtra
  <2>2. ~isZip64(h.csize64, h.usize64) /\ h.offset < uint32max /\ h.offset \in Nat
        /\ h.csize64 < uint32max /\ h.usize64 < uint32max
        /\ h.csize64 \in Nat /\ h.usize64 \in Nat
    BY <1>0, <1>1 DEF NeedsZip64, isZip64, Sized
  <2>3. c.csize = h.csize64 /\ c.usize = h.usize64 /\ c.offset = h.offset
    <3>1. Narrow32(h.csize64) = h.csize64 /\ Narrow32(h.usize64) = h.usize64
          /\ Narrow32(h.offset) = h.offset /\ ~(h.offset > uint32max)
      BY <1>0, <2>2, NarrowIs
    <3>2. h.csize = h.csize64 /\ h.usize = h.usize64
      BY <2>2, <3>1 DEF Sized
    <3>. QED  BY <1>1, <3>1, <3>2 DEF CentralCell
  <2>4. c.csize # uint32max /\ c.usize # uint32max /\ c.offset # uint32max
    BY <1>0, <2>2, <2>3
  <2>. HIDE DEF x, c
  <2>5. c["csize"] = h.csize64 /\ c["usize"] = h.usize64 /\ c["offset"] = h.offset
        /\ c["csize"] # uint32max /\ c["usize"] # uint32max /\ c["offset"] # uint32max
    BY <2>3, <2>4
  <2>6. Zip64Numbers(c, x) = Numbers(h)
    BY <2>1, <2>5, Zenon DEF Zip64Numbers, Numbers
  <2>. QED  BY <2>6 DEF c, x
<1>2. CASE NeedsZip64(h)
  <2>1. x = Append(h.extra, Zip64Field(h))
    BY <1>2 DEF CentralExtra, Zip64Field
  <2>. DEFINE n == Len(h.extra) + 1
  <2>2. x[n] = Zip64Field(h) /\ fields = {n} /\ n \in Int
    <3>1. FieldsOf(h.extra, {"zip64"}) = {} /\ n \in Int
      BY FieldsOfNone, SequenceFacts DEF IsFields
    <3>2. /\ x[n] = Zip64Field(h)
          /\ fields = FieldsOf(h.extra, {"zip64"})
                        \cup (IF "zip64" \in {"zip64"} THEN {n} ELSE {})
      BY <2>1, FieldsOfAdded DEF Zip64Field
    <3>. QED  BY <3>1, <3>2
  <2>3. Min(fields) = n
    <3>. HIDE DEF fields, n
    <3>. QED  BY <2>2, MinIs
  <2>4. values = <<h.usize64, h.csize64, h.offset>>
    <3>1. values = Zip64Field(h).values
      <4>. HIDE DEF fields, n, x
      <4>. QED  BY <2>2, <2>3
    <3>. HIDE DEF values
    <3>. QED  BY <3>1 DEF Zip64Field, Extra
  <2>5. c.csize = uint32max /\ c.usize = uint32max
    BY <1>2 DEF CentralCell
  <2>6. c.offset = uint32max \/ c.offset = h.offset
    <3>1. c.offset = IF h.offset > uint32max THEN uint32max ELSE Narrow32(h.offset)
      BY DEF CentralCell
    <3>. HIDE DEF c
    <3>. QED  BY <1>0, <3>1, NarrowIs DEF Sized
  <2>7. fields # {}
    BY <2>2
  <2>. HIDE DEF x, c, fields
  <2>8. Len(values) = 3 /\ values[1] = h.usize64 /\ values[2] = h.csize64 /\ values[3] = h.offset
    BY <2>4
  <2>. DEFINE One(part) == IF c[part] = uint32max THEN 1 ELSE 0
  <2>11. c["csize"] = uint32max /\ c["usize"] = uint32max /\ c["offset"] = c.offset
    BY <2>5
  <2>9. One("usize") = 1 /\ One("csize") = 1 /\ 1 + 1 = 2
    BY <2>5
  <2>10. \/ c.offset = uint32max /\ One("offset") = 1 /\ 2 + 1 = 3 /\ ~(3 < 3)
         \/ /\ c.offset # uint32max /\ c.offset = h.offset
            /\ One("offset") = 0 /\ 2 + 0 = 2 /\ ~(3 < 2)
    BY <2>6
  <2>12. Zip64Numbers(c, x) = Numbers(h)
    BY <2>7, <2>8, <2>9, <2>10, <2>11, Zenon DEF Zip64Numbers, Numbers, fields, One
  <2>. QED  BY <2>12 DEF c, x
<1>. QED  BY <1>1, <1>2

\* A cell, and three sequences behind it.
Row(c, s, t, u) == <<c>> \o s \o t \o u

RowStands(d, off, c, s, t, u) ==
  /\ off \in Nat /\ off < Len(d) /\ d[off + 1] = c
  /\ Stands(d, off + 1, s)
  /\ Stands(d, off + 1 + Len(s), t)
  /\ Stands(d, off + 1 + Len(s) + Len(t), u)

\* The length of a row: its record, a name, fields and a comment.
LEMMA RowIs ==
  ASSUME NEW c, NEW s, NEW t, NEW u, IsSequence(s), IsSequence(t), IsSequence(u)
  PROVE  /\ IsSequence(Row(c, s, t, u))
         /\ Len(Row(c, s, t, u)) = 1 + Len(s) + Len(t) + Len(u)
<1>. DEFINE p == <<c>> \o s
            q == p \o t
            r == q \o u
<1>1. Len(s) \in Nat /\ Len(t) \in Nat /\ Len(u) \in Nat
      /\ IsSequence(<<c>>) /\ Len(<<c>>) = 1
  BY SequenceFacts, OneIsSequence
<1>2. IsSequence(p) /\ Len(p) = Len(<<c>>) + Len(s)
  BY <1>1, Joined, Zenon DEF Joins
<1>. HIDE DEF p
<1>3. IsSequence(q) /\ Len(q) = Len(p) + Len(t)
  BY <1>2, Joined, Zenon DEF Joins
<1>. HIDE DEF q
<1>4. IsSequence(r) /\ Len(r) = Len(q) + Len(u)
  BY <1>3, Joined, Zenon DEF Joins
<1>. HIDE DEF r
<1>5. Row(c, s, t, u) = r
  BY Zenon DEF Row, p, q, r
<1>6. Len(r) = 1 + Len(s) + Len(t) + Len(u)
  BY <1>1, <1>2, <1>3, <1>4
<1>. QED  BY <1>4, <1>5, <1>6

\* Where a row stands, each of its pieces stands.
LEMMA RowThere ==
  ASSUME NEW c, NEW s, NEW t, NEW u, IsSequence(s), IsSequence(t), IsSequence(u),
         NEW d, Len(d) \in Nat, NEW off, Stands(d, off, Row(c, s, t, u))
  PROVE  RowStands(d, off, c, s, t, u)
<1>. DEFINE p == <<c>> \o s
            q == p \o t
            r == q \o u
<1>1. Len(s) \in Nat /\ Len(t) \in Nat /\ Len(u) \in Nat
      /\ IsSequence(<<c>>) /\ Len(<<c>>) = 1
  BY SequenceFacts, OneIsSequence
<1>2. IsSequence(p) /\ Len(p) = Len(<<c>>) + Len(s)
  BY <1>1, Joined, Zenon DEF Joins
<1>3. IsSequence(q) /\ Len(q) = Len(p) + Len(t)
  <2>. HIDE DEF p
  <2>. QED  BY <1>2, Joined, Zenon DEF Joins
<1>4. Stands(d, off, q) /\ Stands(d, off + Len(q), u)
  <2>. HIDE DEF q
  <2>1. Row(c, s, t, u) = q \o u
    BY Zenon DEF Row, q
  <2>2. Stands(d, off, q \o u)
    BY <2>1
  <2>. QED  BY <1>3, <2>2, StandsBoth
<1>5. Stands(d, off, p) /\ Stands(d, off + Len(p), t)
  <2>. HIDE DEF p
  <2>. QED  BY <1>2, <1>4, StandsBoth
<1>6. Stands(d, off, <<c>>) /\ Stands(d, off + Len(<<c>>), s)
  BY <1>1, <1>5, StandsBoth
<1>7. off \in Nat /\ off < Len(d) /\ d[off + 1] = c
  BY <1>6, StandsOne
<1>. HIDE DEF p, q
<1>8. /\ off + Len(<<c>>) = off + 1 /\ off + Len(p) = off + 1 + Len(s)
      /\ off + Len(q) = off + 1 + Len(s) + Len(t)
  BY <1>1, <1>2, <1>3, <1>7
<1>9. Stands(d, off + 1, s)
  BY <1>6, <1>8
<1>10. Stands(d, off + 1 + Len(s), t)
  BY <1>5, <1>8
<1>11. Stands(d, off + 1 + Len(s) + Len(t), u)
  BY <1>4, <1>8
<1>. QED  BY <1>7, <1>9, <1>10, <1>11, Zenon DEF RowStands

LEMMA CellsStand ==
  ASSUME NEW d, IsSequence(d), NEW s, NEW off, Stands(d, off, s)
  PROVE  Cells(d, off, Len(s)) = s /\ off + Len(s) <= Len(d)
<1>1. SubSeq(d, off + 1, off + Len(s)) = s
  BY StandsCells
<1>. QED  BY <1>1, Zenon DEF Cells, Stands

CentralRow(h) == Row(CentralCell(h, CentralExtra(h)), h.name, CentralExtra(h), h.comment)

LEMMA CentralHeaderIs ==
  ASSUME NEW h PROVE CentralHeader(h, CentralExtra(h)) = CentralRow(h)
BY Zenon DEF CentralHeader, CentralRow, Row, CentralCell

\* Close only adds to the fields of a header.
LEMMA CentralExtraIs ==
  ASSUME NEW h, IsFields(h.extra)
  PROVE  /\ IsSequence(CentralExtra(h)) /\ IsPrefix(h.extra, CentralExtra(h))
         /\ \A k \in 1 .. Len(CentralExtra(h)) : CentralExtra(h)[k].cell = "extra"
<1>. DEFINE s == h.extra
            x == CentralExtra(h)
<1>1. /\ Len(s) \in Nat /\ DOMAIN s = 1 .. Len(s) /\ IsSequence(s)
      /\ \A k \in 1 .. Len(s) : s[k].cell = "extra"
  BY SequenceFacts DEF IsFields
<1>2. CASE ~NeedsZip64(h)
  <2>1. x = s
    BY <1>2 DEF CentralExtra
  <2>2. IsPrefix(s, s)
    BY <1>1, PrefixAdded
  <2>. HIDE DEF s, x
  <2>3. IsSequence(x) /\ IsPrefix(s, x) /\ \A k \in 1 .. Len(x) : x[k].cell = "extra"
    BY <1>1, <2>1, <2>2
  <2>. QED  BY <2>3 DEF s, x
<1>3. CASE NeedsZip64(h)
  <2>. DEFINE z == <<h.usize64, h.csize64, h.offset>>
  <2>1. x = Append(s, Extra("zip64", z))
    BY <1>3 DEF CentralExtra
  <2>2. IsPrefix(s, x)
    BY <1>1, <2>1, PrefixAdded
  <2>. HIDE DEF z
  <2>3. /\ IsSequence(x) /\ Len(x) = Len(s) + 1 /\ x[Len(s) + 1] = Extra("zip64", z)
        /\ \A k \in 1 .. Len(s) : x[k] = s[k]
    <3>. HIDE DEF s, x
    <3>1. IsLonger(s, Extra("zip64", z), x)
      BY <1>1, <2>1, LongerIs, Zenon
    <3>. QED  BY <3>1, Zenon DEF IsLonger
  <2>4. Extra("zip64", z).cell = "extra"
    BY DEF Extra
  <2>. HIDE DEF s, x
  <2>5. ASSUME NEW k \in 1 .. Len(x) PROVE x[k].cell = "extra"
    <3>1. k \in 1 .. Len(s) \/ k = Len(s) + 1
      BY <1>1, <2>3
    <3>. QED  BY <1>1, <2>3, <2>4, <3>1
  <2>6. IsSequence(x) /\ IsPrefix(s, x) /\ \A k \in 1 .. Len(x) : x[k].cell = "extra"
    BY <2>2, <2>3, <2>5
  <2>. QED  BY <2>6 DEF s, x
<1>. QED  BY <1>2, <1>3

\* What the reader makes of a header.
FileOf(h) ==
  [name |-> h.name, extra |-> CentralExtra(h), comment |-> h.comment,
   method |-> h.method, descriptor |-> h.descriptor, crc |-> h.crc,
   csize |-> h.csize64, usize |-> h.usize64, offset |-> h.offset,
   modified |-> Modified(h.dos, CentralExtra(h)),
   nonUTF8 |-> NonUTF8(detectUTF8(h.name), detectUTF8(h.comment), h.utf8)]

HeaderRead(next, f) == [err |-> "none", next |-> next, file |-> f]

\* A header of the directory is read as it was written.
LEMMA CentralRead ==
  ASSUME NEW h, Fits(h), NEW zip, IsSequence(zip), NEW off, Stands(zip, off, CentralRow(h))
  PROVE  readDirectoryHeader(zip, off) = HeaderRead(off + Len(CentralRow(h)), FileOf(h))
<1>. DEFINE x == CentralExtra(h)
            c == CentralCell(h, x)
            s == h.name
            u == h.comment
<1>1. /\ IsSequence(s) /\ IsSequence(x) /\ IsSequence(u)
      /\ Len(s) <= uint16max /\ Len(x) <= uint16max /\ Len(u) <= uint16max
  BY CentralExtraIs DEF Fits, IsTexts
<1>2. /\ c.cell = "central" /\ c.nameLen = Narrow16(Len(s)) /\ c.extraLen = Narrow16(Len(x))
      /\ c.commentLen = Narrow16(Len(u)) /\ c.method = h.method /\ c.utf8 = h.utf8
      /\ c.descriptor = h.descriptor /\ c.dos = h.dos /\ c.crc = h.crc
  BY DEF CentralCell
<1>3. Zip64Numbers(c, x) = Numbers(h)
  BY NumbersRead DEF Fits
<1>4. CentralRow(h) = Row(c, s, x, u)
  BY DEF CentralRow
<1>5. FileOf(h) =
        [name |-> s, extra |-> x, comment |-> u, method |-> c.method,
         descriptor |-> c.descriptor, crc |-> c.crc, csize |-> Numbers(h).csize,
         usize |-> Numbers(h).usize, offset |-> Numbers(h).offset,
         modified |-> Modified(c.dos, x),
         nonUTF8 |-> NonUTF8(detectUTF8(s), detectUTF8(u), c.utf8)]
  BY <1>2 DEF FileOf, Numbers
<1>. HIDE DEF x, c, s, u
<1>6. /\ Len(s) \in Nat /\ Len(x) \in Nat /\ Len(u) \in Nat /\ Len(zip) \in Nat
      /\ c.nameLen = Len(s) /\ c.extraLen = Len(x) /\ c.commentLen = Len(u)
  BY <1>1, <1>2, NarrowIs, SequenceFacts
<1>7. RowStands(zip, off, c, s, x, u)
  BY <1>1, <1>4, <1>6, RowThere
<1>8. /\ off \in Nat /\ off < Len(zip) /\ Cell(zip, off) = c
      /\ Stands(zip, off + 1, s) /\ Stands(zip, off + 1 + Len(s), x)
      /\ Stands(zip, off + 1 + Len(s) + Len(x), u)
  BY <1>7, Zenon DEF RowStands, Cell
<1>9. /\ Cells(zip, off + 1, Len(s)) = s /\ Cells(zip, off + 1 + Len(s), Len(x)) = x
      /\ Cells(zip, off + 1 + Len(s) + Len(x), Len(u)) = u
      /\ off + 1 + Len(s) + Len(x) + Len(u) <= Len(zip)
  BY <1>8, CellsStand
<1>10. Holds(zip, off) /\ IsCell(zip, off, "central")
  BY <1>2, <1>8 DEF Holds, IsCell
<1>11. off + Len(CentralRow(h)) = off + 1 + Len(s) + Len(x) + Len(u)
  <2>1. Len(CentralRow(h)) = 1 + Len(s) + Len(x) + Len(u)
    BY <1>1, <1>4, RowIs
  <2>. QED  BY <1>6, <1>8, <2>1
<1>12. ~(off + 1 + Len(s) + Len(x) + Len(u) > Len(zip))
  BY <1>6, <1>8, <1>9
<1>13. readDirectoryHeader(zip, off) =
         DirectoryHeader(c, s, x, u, Numbers(h), off + 1 + Len(s) + Len(x) + Len(u))
  BY <1>3, <1>6, <1>8, <1>9, <1>10, <1>12, Zenon DEF readDirectoryHeader
<1>14. Numbers(h).err = "none"
  BY DEF Numbers
<1>15. DirectoryHeader(c, s, x, u, Numbers(h), off + 1 + Len(s) + Len(x) + Len(u))
         = HeaderRead(off + 1 + Len(s) + Len(x) + Len(u), FileOf(h))
  BY <1>5, <1>14, Zenon DEF DirectoryHeader, HeaderRead
<1>. QED  BY <1>11, <1>13, <1>15, Zenon

-----------------------------------------------------------------------------
(* The directory.                                                          *)

LEMMA StandsItself ==
  ASSUME NEW s, IsSequence(s) PROVE Stands(s, 0, s)
<1>1. Len(s) \in Nat /\ 0 \in Nat /\ 0 + Len(s) <= Len(s) /\ \A j \in 1 .. Len(s) : 0 + j = j
  BY SequenceFacts
<1>. QED  BY <1>1, Zenon DEF Stands

Has(s, y) == \E j \in 1 .. Len(s) : y = s[j]

\* A cell of a sequence that stands somewhere.
LEMMA StandsHas ==
  ASSUME NEW d, NEW off, NEW s, Stands(d, off, s),
         NEW i \in Nat, off < i, i <= off + Len(s)
  PROVE  Has(s, d[i])
<1>1. off \in Nat /\ Len(s) \in Nat /\ \A j \in 1 .. Len(s) : d[off + j] = s[j]
  BY SequenceFacts DEF Stands
<1>2. i - off \in 1 .. Len(s) /\ off + (i - off) = i
  BY <1>1
<1>. QED  BY <1>1, <1>2 DEF Has

InRow(c, s, t, u, y) == y = c \/ Has(s, y) \/ Has(t, y) \/ Has(u, y)

\* A row consists of its record and the cells of its pieces.
LEMMA RowCells ==
  ASSUME NEW c, NEW s, NEW t, NEW u, IsSequence(s), IsSequence(t), IsSequence(u),
         NEW i \in 1 .. Len(Row(c, s, t, u))
  PROVE  InRow(c, s, t, u, Row(c, s, t, u)[i])
<1>. DEFINE r == Row(c, s, t, u)
<1>1. IsSequence(r) /\ Len(r) = 1 + Len(s) + Len(t) + Len(u) /\ i \in 1 .. Len(r)
  BY RowIs
<1>2. /\ Len(s) \in Nat /\ Len(t) \in Nat /\ Len(u) \in Nat /\ Len(r) \in Nat
  BY <1>1, SequenceFacts
<1>3. RowStands(r, 0, c, s, t, u)
  BY <1>1, <1>2, StandsItself, RowThere
<1>. HIDE DEF r
<1>4. /\ r[0 + 1] = c /\ Stands(r, 0 + 1, s) /\ Stands(r, 0 + 1 + Len(s), t)
      /\ Stands(r, 0 + 1 + Len(s) + Len(t), u)
  BY <1>3, Zenon DEF RowStands
<1>5. /\ i \in Nat /\ 0 + 1 = 1
      /\ \/ i = 1
         \/ 0 + 1 < i /\ i <= 0 + 1 + Len(s)
         \/ 0 + 1 + Len(s) < i /\ i <= 0 + 1 + Len(s) + Len(t)
         \/ 0 + 1 + Len(s) + Len(t) < i /\ i <= 0 + 1 + Len(s) + Len(t) + Len(u)
  BY <1>1, <1>2
<1>6. r[i] = c \/ Has(s, r[i]) \/ Has(t, r[i]) \/ Has(u, r[i])
  <2>1. CASE i = 1
    BY <1>4, <1>5, <2>1
  <2>2. CASE 0 + 1 < i /\ i <= 0 + 1 + Len(s)
    BY <1>4, <1>5, <2>2, StandsHas, Zenon
  <2>3. CASE 0 + 1 + Len(s) < i /\ i <= 0 + 1 + Len(s) + Len(t)
    BY <1>4, <1>5, <2>3, StandsHas, Zenon
  <2>4. CASE 0 + 1 + Len(s) + Len(t) < i /\ i <= 0 + 1 + Len(s) + Len(t) + Len(u)
    BY <1>4, <1>5, <2>4, StandsHas, Zenon
  <2>. QED  BY <1>5, <2>1, <2>2, <2>3, <2>4, Zenon
<1>. QED  BY <1>6 DEF r, InRow

\* What a cell of the directory may be.
DirectoryCell(x) ==
  \/ x.cell = "central" /\ x.nameLen \in Nat /\ x.extraLen \in Nat /\ x.commentLen \in Nat
  \/ x.cell = "text" \/ x.cell = "extra"

\* No cell of a header of the directory is an end record.
LEMMA CentralRowIs ==
  ASSUME NEW h, Fits(h)
  PROVE  /\ IsSequence(CentralRow(h)) /\ Len(CentralRow(h)) \in Nat \ {0}
         /\ \A i \in 1 .. Len(CentralRow(h)) : DirectoryCell(CentralRow(h)[i])
<1>. DEFINE x == CentralExtra(h)
            c == CentralCell(h, x)
            s == h.name
            u == h.comment
            r == CentralRow(h)
<1>1. /\ IsSequence(s) /\ IsSequence(x) /\ IsSequence(u)
      /\ \A k \in DOMAIN s : s[k].cell = "text"
      /\ \A k \in DOMAIN u : u[k].cell = "text"
      /\ \A k \in 1 .. Len(x) : x[k].cell = "extra"
  BY CentralExtraIs DEF Fits, IsTexts
<1>2. r = Row(c, s, x, u)
  BY DEF CentralRow
<1>3. /\ c.cell = "central" /\ c.nameLen = Narrow16(Len(s)) /\ c.extraLen = Narrow16(Len(x))
      /\ c.commentLen = Narrow16(Len(u))
  BY DEF CentralCell
<1>. HIDE DEF x, c, s, u, r
<1>4. /\ Len(s) \in Nat /\ DOMAIN s = 1 .. Len(s) /\ Len(x) \in Nat
      /\ Len(u) \in Nat /\ DOMAIN u = 1 .. Len(u)
  BY <1>1, SequenceFacts
<1>5. DirectoryCell(c)
  <2>1. c.nameLen \in Nat /\ c.extraLen \in Nat /\ c.commentLen \in Nat
    BY <1>3, <1>4, NarrowIs
  <2>. QED  BY <1>3, <2>1, Zenon DEF DirectoryCell
<1>6. ASSUME NEW i \in 1 .. Len(r) PROVE DirectoryCell(r[i])
  <2>0. InRow(c, s, x, u, r[i])
    <3>1. i \in 1 .. Len(Row(c, s, x, u))
      BY <1>2
    <3>2. InRow(c, s, x, u, Row(c, s, x, u)[i])
      BY <1>1, <3>1, RowCells, Zenon
    <3>. QED  BY <1>2, <3>2
  <2>1. r[i] = c \/ Has(s, r[i]) \/ Has(x, r[i]) \/ Has(u, r[i])
    BY <2>0, Zenon DEF InRow
  <2>2. r[i] = c \/ r[i].cell = "text" \/ r[i].cell = "extra"
    BY <1>1, <1>4, <2>1, Zenon DEF Has
  <2>. QED  BY <1>5, <2>2, Zenon DEF DirectoryCell
<1>7. IsSequence(r) /\ Len(r) \in Nat \ {0}
  <2>1. /\ IsSequence(Row(c, s, x, u))
        /\ Len(Row(c, s, x, u)) = 1 + Len(s) + Len(x) + Len(u)
    BY <1>1, RowIs
  <2>. QED  BY <1>2, <1>4, <2>1
<1>. QED  BY <1>6, <1>7 DEF r

DirectoryFits(headers) ==
  IsSequence(headers) /\ \A k \in 1 .. Len(headers) : Fits(headers[k])

PartsOf(headers) ==
  [k \in DOMAIN headers |-> CentralHeader(headers[k], CentralExtra(headers[k]))]

\* A function on 1 .. n is a sequence.
LEMMA FunctionIsSequence ==
  ASSUME NEW n \in Nat, NEW f, f = [k \in 1 .. n |-> f[k]]
  PROVE  IsSequence(f) /\ Len(f) = n
<1>. DEFINE R == {f[k] : k \in 1 .. n}
<1>1. \A k \in 1 .. n : f[k] \in R
  OBVIOUS
<1>2. f \in Seq(R) /\ Len(f) = n
  <2>. HIDE DEF R
  <2>. QED  BY <1>1
<1>. QED  BY <1>2, SequenceIs

\* The directory is made of its headers.
LEMMA PartsOfIs ==
  ASSUME NEW headers, DirectoryFits(headers)
  PROVE  /\ IsParts(PartsOf(headers), Directory(headers))
         /\ Len(PartsOf(headers)) = Len(headers)
         /\ \A k \in 1 .. Len(headers) : PartsOf(headers)[k] = CentralRow(headers[k])
<1>. DEFINE p == PartsOf(headers)
<1>1. PICK n \in Nat : n = Len(headers) /\ DOMAIN headers = 1 .. n
  BY SequenceFacts DEF DirectoryFits
<1>2. p = [k \in 1 .. n |-> p[k]] /\ \A k \in 1 .. n : p[k] = CentralRow(headers[k])
  BY <1>1, CentralHeaderIs DEF PartsOf
<1>3. Directory(headers) = FlattenSeq(p)
  BY Zenon DEF Directory, PartsOf
<1>. HIDE DEF p
<1>4. IsSequence(p) /\ Len(p) = n
  BY <1>2, FunctionIsSequence
<1>5. \A k \in 1 .. n : IsSequence(p[k])
  BY <1>1, <1>2, CentralRowIs, Zenon DEF DirectoryFits
<1>6. IsParts(p, Directory(headers))
  BY <1>3, <1>4, <1>5, PartsStand
<1>. QED  BY <1>1, <1>2, <1>4, <1>6 DEF p

\* No cell of the directory is an end record.
LEMMA DirectoryIsSequence ==
  ASSUME NEW headers, DirectoryFits(headers)
  PROVE  /\ IsSequence(Directory(headers)) /\ Len(Directory(headers)) \in Nat
         /\ \A j \in 1 .. Len(Directory(headers)) : DirectoryCell(Directory(headers)[j])
<1>. DEFINE p == PartsOf(headers)
            d == Directory(headers)
<1>1. /\ IsParts(p, d) /\ Len(p) = Len(headers)
      /\ \A k \in 1 .. Len(headers) : p[k] = CentralRow(headers[k])
  BY PartsOfIs
<1>. HIDE DEF p, d
<1>2. /\ IsSequence(d)
      /\ \A j \in 1 .. Len(d) : \E k \in 1 .. Len(p) : \E i \in 1 .. Len(p[k]) : d[j] = p[k][i]
  BY <1>1, Zenon DEF IsParts
<1>3. \A k \in 1 .. Len(headers) : \A i \in 1 .. Len(CentralRow(headers[k])) :
        DirectoryCell(CentralRow(headers[k])[i])
  BY CentralRowIs, Zenon DEF DirectoryFits
<1>4. \A j \in 1 .. Len(d) : DirectoryCell(d[j])
  <2>1. ASSUME NEW k \in 1 .. Len(p), NEW i \in 1 .. Len(p[k]) PROVE DirectoryCell(p[k][i])
    <3>1. k \in 1 .. Len(headers) /\ p[k] = CentralRow(headers[k])
      BY <1>1
    <3>2. i \in 1 .. Len(CentralRow(headers[k]))
      BY <3>1
    <3>. QED  BY <1>3, <3>1, <3>2
  <2>. QED  BY <1>2, <2>1, Zenon
<1>. QED  BY <1>2, <1>4, SequenceFacts DEF d

\* Behind the directory there are no more headers.
NoHeaders(zip, from) ==
  /\ from \in Nat /\ from < Len(zip)
  /\ \A i \in from + 1 .. Len(zip) : zip[i].cell # "central"

\* A header that is read is followed by something behind it.
LEMMA HeaderLeadsOn ==
  ASSUME NEW zip, Len(zip) \in Nat, NEW off \in Nat, DirectoryCell(zip[off + 1])
  PROVE  \/ readDirectoryHeader(zip, off).err # "none"
         \/ readDirectoryHeader(zip, off).next \in off + 1 .. Len(zip)
<1>. DEFINE c == Cell(zip, off)
            next == off + 1 + c.nameLen + c.extraLen + c.commentLen
<1>1. CASE ~Holds(zip, off)
  <2>1. readDirectoryHeader(zip, off) = [err |-> "EOF"]
    BY <1>1, Zenon DEF readDirectoryHeader
  <2>. QED  BY <2>1
<1>2. CASE Holds(zip, off) /\ ~IsCell(zip, off, "central")
  <2>1. readDirectoryHeader(zip, off) = [err |-> "ErrFormat"]
    BY <1>2, Zenon DEF readDirectoryHeader
  <2>. QED  BY <2>1
<1>3. CASE Holds(zip, off) /\ IsCell(zip, off, "central") /\ next > Len(zip)
  <2>1. \/ readDirectoryHeader(zip, off) = [err |-> "EOF"]
        \/ readDirectoryHeader(zip, off) = [err |-> "ErrUnexpectedEOF"]
    BY <1>3, Zenon DEF readDirectoryHeader
  <2>. QED  BY <2>1
<1>4. CASE Holds(zip, off) /\ IsCell(zip, off, "central") /\ ~(next > Len(zip))
  <2>1. c.nameLen \in Nat /\ c.extraLen \in Nat /\ c.commentLen \in Nat
    <3>1. c.cell = "central" /\ c = zip[off + 1]
      BY <1>4 DEF IsCell, Cell
    <3>2. DirectoryCell(c)
      BY <3>1
    <3>. HIDE DEF c
    <3>. QED  BY <3>1, <3>2 DEF DirectoryCell
  <2>. HIDE DEF c
  <2>2. next \in off + 1 .. Len(zip)
    BY <1>4, <2>1
  <2>3. \E m, f, e, o, g : readDirectoryHeader(zip, off) = DirectoryHeader(c, m, f, e, o, next)
    BY <1>4, Zenon DEF readDirectoryHeader, c
  <2>4. PICK m, f, e, o : readDirectoryHeader(zip, off) = DirectoryHeader(c, m, f, e, o, next)
    BY <2>3
  <2>5. CASE o.err # "none"
    BY <2>4, <2>5, Zenon DEF DirectoryHeader
  <2>6. CASE o.err = "none"
    <3>. DEFINE h == [err |-> "none", next |-> next,
                      file |-> [name |-> m, extra |-> f, comment |-> e,
                        method |-> c.method, descriptor |-> c.descriptor,
                        crc |-> c.crc, csize |-> o.csize, usize |-> o.usize,
                        offset |-> o.offset,
                        modified |-> Modified(c.dos, f),
                        nonUTF8 |-> NonUTF8(detectUTF8(m), detectUTF8(e), c.utf8)]]
    <3>1. readDirectoryHeader(zip, off) = h
      BY <2>4, <2>6, Zenon DEF DirectoryHeader
    <3>2. h.next = next
      <4>. HIDE DEF next
      <4>. QED  OBVIOUS
    <3>. HIDE DEF h
    <3>. QED  BY <2>2, <3>1, <3>2, Zenon
  <2>. QED  BY <2>5, <2>6
<1>. QED  BY <1>1, <1>2, <1>3, <1>4

FilesOf(headers) == [k \in 1 .. Len(headers) |-> FileOf(headers[k])]

\* Where each header of a directory at `base' begins.
Places(headers, base) ==
  [k \in 0 .. Len(headers) |-> base + Len(Upto(PartsOf(headers), k))]

\* Wherever reading begins in a directory, it leads on to the end of it.
LEMMA DirectoryLeadsOn ==
  ASSUME NEW zip, IsSequence(zip), NEW base, NEW d, Stands(zip, base, d),
         \A j \in 1 .. Len(d) : DirectoryCell(d[j]),
         NoHeaders(zip, base + Len(d))
  PROVE  LeadsOn(zip, base)
<1>1. /\ base \in Nat /\ Len(d) \in Nat /\ base + Len(d) \in Nat /\ Len(zip) \in Nat
      /\ \A i \in base + Len(d) + 1 .. Len(zip) : zip[i].cell # "central"
  BY SequenceFacts DEF Stands, NoHeaders
<1>2. SUFFICES ASSUME NEW off \in base .. Len(zip)
      PROVE  \/ readDirectoryHeader(zip, off).err # "none"
             \/ readDirectoryHeader(zip, off).next \in off + 1 .. Len(zip)
  BY DEF LeadsOn
<1>3. off \in Nat /\ base <= off /\ off <= Len(zip) /\ off + 1 \in Nat
  BY <1>1
<1>4. CASE off < base + Len(d)
  <2>1. base < off + 1 /\ off + 1 <= base + Len(d)
    BY <1>1, <1>3, <1>4
  <2>2. Has(d, zip[off + 1])
    BY <1>3, <2>1, StandsHas, Zenon
  <2>3. DirectoryCell(zip[off + 1])
    BY <2>2, Zenon DEF Has
  <2>. QED  BY <1>1, <1>3, <2>3, HeaderLeadsOn
<1>5. CASE ~(off < base + Len(d))
  <2>1. CASE ~Holds(zip, off)
    <3>1. readDirectoryHeader(zip, off) = [err |-> "EOF"]
      BY <2>1, Zenon DEF readDirectoryHeader
    <3>. QED  BY <3>1
  <2>2. CASE Holds(zip, off)
    <3>1. off + 1 \in base + Len(d) + 1 .. Len(zip)
      BY <1>1, <1>3, <1>5, <2>2 DEF Holds
    <3>2. ~IsCell(zip, off, "central")
      BY <1>1, <3>1, Zenon DEF IsCell, Cell
    <3>3. readDirectoryHeader(zip, off) = [err |-> "ErrFormat"]
      BY <2>2, <3>2, Zenon DEF readDirectoryHeader
    <3>. QED  BY <3>3
  <2>. QED  BY <2>1, <2>2
<1>. QED  BY <1>4, <1>5

\* The directory is read as it was written.
LEMMA DirectoryRead ==
  ASSUME NEW headers, DirectoryFits(headers), NEW zip, IsSequence(zip), NEW base,
         Stands(zip, base, Directory(headers)),
         NoHeaders(zip, base + Len(Directory(headers)))
  PROVE  DirectoryFrom(zip, base) = FoundFiles("ErrFormat", FilesOf(headers))
<1>. DEFINE d == Directory(headers)
            p == PartsOf(headers)
            off == Places(headers, base)
            files == FilesOf(headers)
<1>1. PICK n \in Nat : n = Len(headers)
  BY SequenceFacts DEF DirectoryFits
<1>2. /\ IsParts(p, d) /\ Len(p) = n
      /\ \A k \in 1 .. n : p[k] = CentralRow(headers[k])
  BY <1>1, PartsOfIs
<1>3. /\ IsSequence(d) /\ Len(d) \in Nat /\ \A j \in 1 .. Len(d) : DirectoryCell(d[j])
  BY DirectoryIsSequence
<1>4. LeadsOn(zip, base)
  <2>. HIDE DEF d
  <2>1. Stands(zip, base, d) /\ NoHeaders(zip, base + Len(d))
    BY DEF d
  <2>. QED  BY <1>3, <2>1, DirectoryLeadsOn, Zenon
<1>5. \A k \in 0 .. n : off[k] = base + Len(Upto(p, k))
  BY <1>1 DEF Places
<1>6. IsSequence(files) /\ Len(files) = n /\ \A k \in 1 .. n : files[k] = FileOf(headers[k])
  <2>1. files = [k \in 1 .. n |-> files[k]] /\ \A k \in 1 .. n : files[k] = FileOf(headers[k])
    BY <1>1 DEF FilesOf
  <2>. HIDE DEF files
  <2>. QED  BY <2>1, FunctionIsSequence
<1>7. Stands(zip, base, d) /\ NoHeaders(zip, base + Len(d)) /\ Len(zip) \in Nat
  BY SequenceFacts
<1>. HIDE DEF d, p, off, files
<1>8. /\ Len(Upto(p, 0)) = 0 /\ Len(Upto(p, n)) = Len(d)
      /\ \A k \in 0 .. n - 1 :
           /\ Stands(d, Len(Upto(p, k)), p[k + 1])
           /\ Len(Upto(p, k + 1)) = Len(Upto(p, k)) + Len(p[k + 1])
  BY <1>2, Zenon DEF IsParts
<1>9. base \in Nat /\ base + Len(d) <= Len(zip)
  BY <1>7, Zenon DEF Stands
<1>10. off[0] = base
  <2>1. 0 \in 0 .. n
    BY <1>1
  <2>2. off[0] = base + Len(Upto(p, 0))
    BY <1>5, <2>1, Zenon
  <2>3. base + 0 = base
    BY <1>9
  <2>. QED  BY <1>8, <2>2, <2>3
<1>11. ASSUME NEW k \in 0 .. n - 1
       PROVE  /\ off[k] \in Nat /\ off[k] <= Len(zip) /\ off[0] <= off[k]
              /\ readDirectoryHeader(zip, off[k])
                   = [err |-> "none", next |-> off[k + 1], file |-> files[k + 1]]
  <2>1. k \in 0 .. n /\ k + 1 \in 0 .. n /\ k + 1 \in 1 .. n
    BY <1>1
  <2>. DEFINE h == headers[k + 1]
              m == Len(Upto(p, k))
  <2>2. Fits(h) /\ p[k + 1] = CentralRow(h) /\ files[k + 1] = FileOf(h)
    BY <1>1, <1>2, <1>6, <2>1 DEF DirectoryFits
  <2>3. off[k] = base + m /\ off[k + 1] = base + Len(Upto(p, k + 1))
    BY <1>5, <2>1
  <2>4. Stands(d, m, CentralRow(h)) /\ Len(Upto(p, k + 1)) = m + Len(CentralRow(h))
    BY <1>8, <2>2
  <2>5. Len(CentralRow(h)) \in Nat
    BY <2>2, CentralRowIs
  <2>. HIDE DEF h, m
  <2>6. Stands(zip, base + m, CentralRow(h))
    BY <1>7, <2>4, StandsWithin, Zenon
  <2>7. m \in Nat /\ m + Len(CentralRow(h)) <= Len(d)
    BY <2>4, Zenon DEF Stands
  <2>8. off[k + 1] = off[k] + Len(CentralRow(h)) /\ off[k] \in Nat /\ off[k] <= Len(zip)
        /\ off[0] <= off[k]
    BY <1>3, <1>7, <1>9, <1>10, <2>3, <2>4, <2>5, <2>7
  <2>9. readDirectoryHeader(zip, base + m) = HeaderRead(base + m + Len(CentralRow(h)), FileOf(h))
    BY <2>2, <2>6, CentralRead, Zenon
  <2>10. readDirectoryHeader(zip, off[k])
           = [err |-> "none", next |-> off[k + 1], file |-> files[k + 1]]
    BY <2>2, <2>3, <2>8, <2>9, Zenon DEF HeaderRead
  <2>. QED  BY <2>8, <2>10
<1>12. off[n] = base + Len(d) /\ off[n] \in Nat /\ off[n] <= Len(zip) /\ off[0] <= off[n]
  <2>1. n \in 0 .. n
    BY <1>1
  <2>2. off[n] = base + Len(d)
    BY <1>5, <1>8, <2>1, Zenon
  <2>3. Len(d) \in Nat /\ base \in Nat /\ base + Len(d) <= Len(zip)
    BY <1>3, <1>9
  <2>. QED  BY <1>10, <2>2, <2>3
<1>13. readDirectoryHeader(zip, off[n]) = [err |-> "ErrFormat"]
  <2>1. off[n] < Len(zip) /\ \A i \in off[n] + 1 .. Len(zip) : zip[i].cell # "central"
    BY <1>7, <1>12, Zenon DEF NoHeaders
  <2>2. Holds(zip, off[n]) /\ off[n] + 1 \in off[n] + 1 .. Len(zip)
    BY <1>7, <1>12, <2>1 DEF Holds
  <2>3. ~IsCell(zip, off[n], "central")
    BY <2>1, <2>2, Zenon DEF IsCell, Cell
  <2>. QED  BY <2>2, <2>3, Zenon DEF readDirectoryHeader
<1>14. \A k \in 0 .. n : off[0] <= off[k]
  <2>1. \A k \in 0 .. n : k = n \/ k \in 0 .. n - 1
    BY <1>1
  <2>. QED  BY <1>11, <1>12, <2>1, Zenon
<1>15. Headers(zip, off, files)
  BY <1>6, <1>11, <1>12, <1>13, <1>14, Zenon DEF Headers
<1>16. LeadsOn(zip, off[0])
  BY <1>4, <1>10
<1>17. DirectoryFrom(zip, off[0]) = FoundFiles("ErrFormat", files)
  BY <1>6, <1>7, <1>15, <1>16, DirectoryIs, Zenon
<1>. QED  BY <1>10, <1>17 DEF files

-----------------------------------------------------------------------------
(* The end of an archive.                                                  *)

EndCell(records, size, offset) ==
  [cell |-> "end", records |-> Narrow16(records), size |-> Narrow32(size),
   offset |-> Narrow32(offset), commentLen |-> Narrow16(Len(comment))]

End64Cell(records, size, offset) ==
  [cell |-> "end64", records |-> records, size |-> size, offset |-> offset]
Loc64Cell(offset) == [cell |-> "loc64", offset |-> offset]

CommentFits == IsTexts(comment) /\ Len(comment) <= uint16max

\* The file ends with such an end record at p.
EndsWith(zip, p, c) ==
  /\ p \in Nat /\ p < Len(zip) /\ Cell(zip, p) = c
  /\ c.cell = "end" /\ c.commentLen = Len(comment)
  /\ p + 1 + Len(comment) = Len(zip)
  /\ \A i \in p + 2 .. Len(zip) : zip[i].cell = "text"
  /\ Cells(zip, p + 1, Len(comment)) = comment

\* What is read of an end record at the end of the file.
LEMMA EndThere ==
  ASSUME CommentFits, NEW records, NEW size, NEW offset, NEW zip, IsSequence(zip), NEW p,
         Stands(zip, p, End(records, size, offset)),
         p + Len(End(records, size, offset)) = Len(zip)
  PROVE  EndsWith(zip, p, EndCell(records, size, offset))
<1>. DEFINE c == EndCell(records, size, offset)
<1>1. End(records, size, offset) = <<c>> \o comment
  BY Zenon DEF End, EndCell
<1>2. IsSequence(comment) /\ Len(comment) \in Nat /\ DOMAIN comment = 1 .. Len(comment)
      /\ \A k \in DOMAIN comment : comment[k].cell = "text"
  BY SequenceFacts DEF CommentFits, IsTexts
<1>3. c.cell = "end" /\ c.commentLen = Len(comment)
  <2>1. c.cell = "end" /\ c.commentLen = Narrow16(Len(comment))
    BY DEF EndCell
  <2>. HIDE DEF c
  <2>. QED  BY <1>2, <2>1, NarrowIs DEF CommentFits
<1>. HIDE DEF c
<1>4. IsSequence(<<c>>) /\ Len(<<c>>) = 1 /\ Len(zip) \in Nat
  BY OneIsSequence, SequenceFacts
<1>5. Stands(zip, p, <<c>>) /\ Stands(zip, p + Len(<<c>>), comment)
  <2>1. Stands(zip, p, <<c>> \o comment)
    BY <1>1
  <2>. QED  BY <1>2, <1>4, <2>1, StandsBoth
<1>6. p \in Nat /\ p < Len(zip) /\ Cell(zip, p) = c
  BY <1>4, <1>5, StandsOne DEF Cell
<1>7. Stands(zip, p + 1, comment)
  BY <1>4, <1>5
<1>8. Cells(zip, p + 1, Len(comment)) = comment
  BY <1>7, CellsStand
<1>9. p + 1 + Len(comment) = Len(zip)
  <2>1. Joins(<<c>>, comment, <<c>> \o comment)
    BY <1>2, <1>4, Joined, Zenon
  <2>2. Len(<<c>> \o comment) = Len(<<c>>) + Len(comment)
    BY <2>1, Zenon DEF Joins
  <2>3. p + Len(<<c>> \o comment) = Len(zip)
    BY <1>1
  <2>. QED  BY <1>2, <1>4, <1>6, <2>2, <2>3
<1>10. ASSUME NEW i \in p + 2 .. Len(zip) PROVE zip[i].cell = "text"
  <2>1. i \in Nat /\ p + 1 < i /\ i <= p + 1 + Len(comment)
    BY <1>2, <1>6, <1>9
  <2>2. Has(comment, zip[i])
    BY <1>7, <2>1, StandsHas, Zenon
  <2>. QED  BY <1>2, <2>2, Zenon DEF Has
<1>. QED  BY <1>3, <1>6, <1>8, <1>9, <1>10, Zenon DEF EndsWith, c

EndFound(zip, p) ==
  DirectoryEnd(zip, p, IF SaysZip64(Cell(zip, p)) THEN findDirectory64End(zip, p) ELSE -1)

\* It is the one that the reader finds: what follows it is text.
LEMMA EndIsFound ==
  ASSUME CommentFits, NEW zip, Len(zip) \in Nat, NEW p, NEW c, EndsWith(zip, p, c)
  PROVE  readDirectoryEnd(zip) = EndFound(zip, p)
<1>1. /\ p \in Nat /\ p < Len(zip) /\ Cell(zip, p).cell = "end"
      /\ Cell(zip, p).commentLen = Len(comment) /\ p + 1 + Len(comment) = Len(zip)
      /\ \A i \in p + 2 .. Len(zip) : zip[i].cell = "text"
  BY Zenon DEF EndsWith
<1>2. Len(comment) \in Nat /\ Len(comment) <= uint16max
  BY SequenceFacts DEF CommentFits, IsTexts
<1>3. ASSUME NEW b, NEW q \in findSignatureInBlock(zip, b)
      PROVE  q \in Int /\ q <= p /\ q >= Len(zip) - b
  <2>1. q \in 0 .. Len(zip) - 1 /\ q >= Len(zip) - b /\ IsCell(zip, q, "end")
    BY Zenon DEF findSignatureInBlock
  <2>2. zip[q + 1].cell = "end"
    BY <2>1, Zenon DEF IsCell, Cell
  <2>3. q + 1 \notin p + 2 .. Len(zip)
    BY <1>1, <2>2
  <2>. QED  BY <1>1, <2>1, <2>3
<1>4. ASSUME NEW b, p >= Len(zip) - b
      PROVE  p \in findSignatureInBlock(zip, b) /\ Max(findSignatureInBlock(zip, b)) = p
  <2>1. p \in findSignatureInBlock(zip, b)
    <3>1. p \in 0 .. Len(zip) - 1 /\ Holds(zip, p)
      BY <1>1 DEF Holds
    <3>2. p + 1 + Cell(zip, p).commentLen <= Len(zip)
      BY <1>1, <1>2
    <3>. QED  BY <1>1, <1>4, <3>1, <3>2, Zenon DEF findSignatureInBlock, IsCell
  <2>2. p \in Int
    BY <1>1
  <2>. QED  BY <1>3, <2>1, <2>2, MaxIs, Zenon
<1>8. ASSUME NEW b, p >= Len(zip) - b
      PROVE  LastEnd(zip, findSignatureInBlock(zip, b)) = EndFound(zip, p)
  <2>1. PICK S : S = findSignatureInBlock(zip, b)
    OBVIOUS
  <2>2. S # {} /\ Max(S) = p
    BY <1>4, <1>8, <2>1
  <2>3. LastEnd(zip, S) = EndFound(zip, p)
    BY <2>2, Zenon DEF LastEnd, EndFound
  <2>. QED  BY <2>1, <2>3
<1>5. p >= Len(zip) - Far
  BY <1>1, <1>2, WidthsAssumption, WindowsAssumption
<1>6. CASE findSignatureInBlock(zip, Near) = {}
  <2>1. readDirectoryEnd(zip) = LastEnd(zip, findSignatureInBlock(zip, Far))
    BY <1>6, Zenon DEF readDirectoryEnd
  <2>. QED  BY <1>5, <1>8, <2>1, Zenon
<1>7. CASE findSignatureInBlock(zip, Near) # {}
  <2>1. readDirectoryEnd(zip) = LastEnd(zip, findSignatureInBlock(zip, Near))
    BY <1>7, Zenon DEF readDirectoryEnd
  <2>2. PICK q \in findSignatureInBlock(zip, Near) : TRUE
    BY <1>7
  <2>3. p >= Len(zip) - Near
    BY <1>1, <1>3, <2>2, WindowsAssumption
  <2>. QED  BY <1>8, <2>1, <2>3, Zenon
<1>. QED  BY <1>6, <1>7

EndFoundAt(records, offset) ==
  [err |-> "none", records |-> records, offset |-> offset, comment |-> comment]

\* What the end records say is read, whether it fits in them or not.
LEMMA EndIsRead ==
  ASSUME CommentFits, NEW n \in Nat, NEW s \in Nat, NEW b \in Nat,
         NEW zip, IsSequence(zip), Stands(zip, b + s, EndRecords(n, s, b)),
         b + s + Len(EndRecords(n, s, b)) = Len(zip),
         s > 0 => zip[b + s].cell # "loc64"
  PROVE  readDirectoryEnd(zip) = EndFoundAt(n, b) /\ NoHeaders(zip, b + s)
<1>0. Len(zip) \in Nat /\ b + s \in Nat /\ uint16max \in Nat /\ uint32max \in Nat
      /\ uint16max > 0 /\ uint16max < uint32max
  BY SequenceFacts, WidthsAssumption
<1>1. CASE ~(n >= uint16max \/ s >= uint32max \/ b >= uint32max)
  <2>. DEFINE c == EndCell(n, s, b)
  <2>1. EndRecords(n, s, b) = End(n, s, b)
    BY <1>1, Zenon DEF EndRecords
  <2>2. EndsWith(zip, b + s, c)
    BY <2>1, EndThere
  <2>3. readDirectoryEnd(zip) = EndFound(zip, b + s)
    BY <1>0, <2>2, EndIsFound
  <2>4. /\ b + s < Len(zip) /\ Cell(zip, b + s) = c /\ c.commentLen = Len(comment)
        /\ c.cell = "end"
        /\ \A i \in b + s + 2 .. Len(zip) : zip[i].cell = "text"
        /\ Cells(zip, b + s + 1, Len(comment)) = comment
    BY <2>2, Zenon DEF EndsWith
  <2>5. c.records = n /\ c.size = s /\ c.offset = b
    <3>1. Narrow16(n) = n /\ Narrow32(s) = s /\ Narrow32(b) = b
      BY <1>0, <1>1, NarrowIs
    <3>. QED  BY <3>1 DEF EndCell
  <2>. HIDE DEF c
  <2>6. SaysZip64(c) => findDirectory64End(zip, b + s) = -1
    <3>. SUFFICES ASSUME SaysZip64(c) PROVE findDirectory64End(zip, b + s) = -1
      OBVIOUS
    <3>1. s > 0
      BY <1>0, <1>1, <2>5 DEF SaysZip64
    <3>2. b + s - 1 + 1 = b + s
      OBVIOUS
    <3>3. ~IsCell(zip, b + s - 1, "loc64")
      BY <3>1, <3>2 DEF IsCell, Cell
    <3>. QED  BY <3>3 DEF findDirectory64End
  <2>7. EndFound(zip, b + s) = DirectoryEnd(zip, b + s, -1)
    BY <2>4, <2>6, Zenon DEF EndFound
  <2>8. ~(b >= Len(zip)) /\ ~(-1 >= 0)
    BY <1>0, <2>4
  <2>9. DirectoryEnd(zip, b + s, -1) = EndFoundAt(n, b)
    BY <2>4, <2>5, <2>8, Zenon DEF DirectoryEnd, EndFoundAt
  <2>10. NoHeaders(zip, b + s)
    <3>1. ASSUME NEW i \in b + s + 1 .. Len(zip) PROVE zip[i].cell # "central"
      <4>1. i = b + s + 1 \/ i \in b + s + 2 .. Len(zip)
        BY <1>0
      <4>2. zip[b + s + 1].cell = "end"
        BY <2>4 DEF Cell
      <4>. QED  BY <2>4, <4>1, <4>2
    <3>. QED  BY <1>0, <2>4, <3>1, Zenon DEF NoHeaders
  <2>. QED  BY <2>3, <2>7, <2>9, <2>10
<1>2. CASE n >= uint16max \/ s >= uint32max \/ b >= uint32max
  <2>. DEFINE e == End64Cell(n, s, b)
              l == Loc64Cell(b + s)
              end == End(uint16max, uint32max, uint32max)
              c == EndCell(uint16max, uint32max, uint32max)
              p == b + s + 2
  <2>1. EndRecords(n, s, b) = <<e, l>> \o end
    BY <1>2, Zenon DEF EndRecords, End64Cell, Loc64Cell
  <2>2. IsSequence(end)
    <3>1. end = <<c>> \o comment
      BY Zenon DEF End, EndCell
    <3>2. Joins(<<c>>, comment, <<c>> \o comment)
      BY OneIsSequence, Joined, Zenon DEF CommentFits, IsTexts
    <3>. QED  BY <3>1, <3>2, Zenon DEF Joins
  <2>3. c.records = uint16max
    <3>1. Narrow16(uint16max) = uint16max
      BY <1>0, NarrowIs
    <3>. QED  BY <3>1 DEF EndCell
  <2>4. e.cell = "end64" /\ e.records = n /\ e.offset = b /\ l.cell = "loc64" /\ l.offset = b + s
    BY DEF End64Cell, Loc64Cell
  <2>. HIDE DEF e, l, end
  <2>5. IsSequence(<<e, l>>) /\ Len(<<e, l>>) = 2 /\ <<e, l>>[1] = e /\ <<e, l>>[2] = l
    <3>1. <<e, l>> \in Seq({e, l}) /\ Len(<<e, l>>) = 2 /\ <<e, l>>[1] = e /\ <<e, l>>[2] = l
      OBVIOUS
    <3>. QED  BY <3>1, SequenceIs
  <2>6. Stands(zip, b + s, <<e, l>>) /\ Stands(zip, b + s + Len(<<e, l>>), end)
    <3>1. Stands(zip, b + s, <<e, l>> \o end)
      BY <2>1
    <3>. QED  BY <1>0, <2>2, <2>5, <3>1, StandsBoth
  <2>7. /\ zip[b + s + 1] = e /\ zip[b + s + 2] = l /\ Stands(zip, p, end)
    <3>1. \A j \in 1 .. 2 : zip[b + s + j] = <<e, l>>[j]
      BY <2>5, <2>6, Zenon DEF Stands
    <3>2. 1 \in 1 .. 2 /\ 2 \in 1 .. 2
      OBVIOUS
    <3>3. zip[b + s + 1] = <<e, l>>[1] /\ zip[b + s + 2] = <<e, l>>[2]
      BY <3>1, <3>2, Zenon
    <3>4. Stands(zip, p, end)
      BY <2>5, <2>6
    <3>. QED  BY <2>5, <3>3, <3>4, Zenon
  <2>8. p + Len(end) = Len(zip)
    <3>1. Joins(<<e, l>>, end, <<e, l>> \o end)
      BY <2>2, <2>5, Joined, Zenon
    <3>2. Len(<<e, l>> \o end) = Len(<<e, l>>) + Len(end)
      BY <3>1, Zenon DEF Joins
    <3>3. b + s + (2 + Len(end)) = Len(zip)
      BY <2>1, <2>5, <3>2
    <3>4. Len(end) \in Nat
      BY <2>2, SequenceFacts
    <3>. QED  BY <3>3, <3>4
  <2>9. EndsWith(zip, p, c)
    <3>. HIDE DEF p
    <3>1. Stands(zip, p, End(uint16max, uint32max, uint32max))
          /\ p + Len(End(uint16max, uint32max, uint32max)) = Len(zip)
      BY <2>7, <2>8 DEF end
    <3>. QED  BY <3>1, EndThere
  <2>10. readDirectoryEnd(zip) = EndFound(zip, p)
    <3>. HIDE DEF p, c
    <3>. QED  BY <1>0, <2>9, EndIsFound
  <2>. HIDE DEF c
  <2>11. /\ p \in Nat /\ p < Len(zip) /\ Cell(zip, p) = c /\ c.commentLen = Len(comment)
         /\ c.cell = "end"
         /\ \A i \in p + 2 .. Len(zip) : zip[i].cell = "text"
         /\ Cells(zip, p + 1, Len(comment)) = comment
    <3>. HIDE DEF p
    <3>. QED  BY <2>9, Zenon DEF EndsWith
  <2>12. p - 1 + 1 = b + s + 2 /\ 0 <= p - 1 /\ p - 1 < Len(zip)
    BY <2>11
  <2>13. Cell(zip, p - 1) = l /\ Holds(zip, p - 1)
    BY <2>7, <2>12 DEF Cell, Holds
  <2>14. SaysZip64(c)
    BY <2>3 DEF SaysZip64
  <2>15. findDirectory64End(zip, p) = b + s
    BY <2>4, <2>13, Zenon DEF findDirectory64End, IsCell
  <2>16. EndFound(zip, p) = DirectoryEnd(zip, p, b + s)
    BY <2>11, <2>14, <2>15, Zenon DEF EndFound
  <2>17. /\ b + s >= 0 /\ Holds(zip, b + s) /\ Cell(zip, b + s) = e /\ ~(b >= Len(zip))
    BY <1>0, <2>7, <2>11 DEF Holds, Cell
  <2>18. DirectoryEnd(zip, p, b + s) = EndFoundAt(n, b)
    <3>. HIDE DEF p
    <3>. QED  BY <2>4, <2>11, <2>17, Zenon DEF DirectoryEnd, EndFoundAt
  <2>19. NoHeaders(zip, b + s)
    <3>1. ASSUME NEW i \in b + s + 1 .. Len(zip) PROVE zip[i].cell # "central"
      <4>1. i = b + s + 1 \/ i = b + s + 2 \/ i = p + 1 \/ i \in p + 2 .. Len(zip)
        <5>1. PICK q \in Nat : q = b + s
          BY <1>0
        <5>2. PICK m \in Nat : m = Len(zip)
          BY <1>0
        <5>3. i \in q + 1 .. m
          BY <5>1, <5>2
        <5>4. i = q + 1 \/ i = q + 2 \/ i = q + 3 \/ i \in q + 4 .. m
          BY <5>3
        <5>5. p + 1 = q + 3 /\ p + 2 = q + 4
          BY <5>1
        <5>. QED  BY <5>1, <5>2, <5>4, <5>5
      <4>2. zip[p + 1].cell = "end"
        BY <2>11 DEF Cell
      <4>. QED  BY <2>4, <2>7, <2>11, <4>1, <4>2
    <3>2. b + s < Len(zip)
      BY <1>0, <2>11
    <3>. QED  BY <1>0, <3>1, <3>2, Zenon DEF NoHeaders
  <2>. QED  BY <2>10, <2>16, <2>18, <2>19
<1>. QED  BY <1>1, <1>2

\* The end records are a sequence, whatever the numbers.
LEMMA EndRecordsIs ==
  ASSUME CommentFits, NEW n, NEW s, NEW b
  PROVE  IsSequence(EndRecords(n, s, b))
<1>1. ASSUME NEW records, NEW size, NEW offset PROVE IsSequence(End(records, size, offset))
  <2>. DEFINE c == EndCell(records, size, offset)
  <2>1. End(records, size, offset) = <<c>> \o comment
    BY Zenon DEF End, EndCell
  <2>. HIDE DEF c
  <2>2. Joins(<<c>>, comment, <<c>> \o comment)
    BY OneIsSequence, Joined, Zenon DEF CommentFits, IsTexts
  <2>. QED  BY <2>1, <2>2, Zenon DEF Joins
<1>. DEFINE e == End64Cell(n, s, b)
            l == Loc64Cell(b + s)
            end == End(uint16max, uint32max, uint32max)
<1>2. EndRecords(n, s, b) = <<e, l>> \o end \/ EndRecords(n, s, b) = End(n, s, b)
  BY Zenon DEF EndRecords, End64Cell, Loc64Cell
<1>3. IsSequence(end) /\ IsSequence(End(n, s, b))
  BY <1>1
<1>. HIDE DEF e, l, end
<1>4. IsSequence(<<e, l>>)
  <2>1. <<e, l>> \in Seq({e, l})
    OBVIOUS
  <2>. QED  BY <2>1, SequenceIs
<1>5. IsSequence(<<e, l>> \o end)
  BY <1>3, <1>4, Joined, Zenon DEF Joins
<1>. QED  BY <1>2, <1>3, <1>5

\* The end of an archive: its directory and its end records.
Closes(zip, headers, base) ==
  LET end == EndRecords(Len(headers), Len(Directory(headers)), base)
  IN /\ Stands(zip, base, Directory(headers))
     /\ Stands(zip, base + Len(Directory(headers)), end)
     /\ base + Len(Directory(headers)) + Len(end) = Len(zip)

Reopened(headers) == [err |-> "none", files |-> FilesOf(headers), comment |-> comment]

\* An archive that ends with its directory and its end records is opened with
\* every header as it was written, wherever the archive begins in its file.
LEMMA ArchiveOpens ==
  ASSUME CommentFits, NEW headers, DirectoryFits(headers), NEW zip, IsSequence(zip),
         NEW base, Closes(zip, headers, base)
  PROVE  OpenReader(zip) = Reopened(headers)
<1>. DEFINE d == Directory(headers)
<1>0. PICK n \in Nat : n = Len(headers)
  BY SequenceFacts DEF DirectoryFits
<1>. DEFINE e == EndRecords(n, Len(d), base)
<1>1. IsSequence(d) /\ Len(d) \in Nat /\ \A j \in 1 .. Len(d) : DirectoryCell(d[j])
  BY DirectoryIsSequence
<1>2. IsSequence(e) /\ Len(e) \in Nat /\ Len(zip) \in Nat
  BY EndRecordsIs, SequenceFacts
<1>3. /\ Stands(zip, base, d) /\ Stands(zip, base + Len(d), e)
      /\ base + Len(d) + Len(e) = Len(zip)
  BY <1>0, Zenon DEF Closes
<1>. HIDE DEF d, e
<1>4. Stands(zip, base, d) /\ Stands(zip, base + Len(d), e)
  BY <1>3
<1>5. base \in Nat
  BY <1>4, Zenon DEF Stands
<1>6. base + Len(d) + Len(e) = Len(zip)
  BY <1>3
<1>7. Len(d) > 0 => zip[base + Len(d)].cell # "loc64"
  <2>. SUFFICES ASSUME Len(d) > 0 PROVE zip[base + Len(d)].cell # "loc64"
    OBVIOUS
  <2>1. base < base + Len(d) /\ base + Len(d) <= base + Len(d) /\ base + Len(d) \in Nat
    BY <1>1, <1>5
  <2>2. Has(d, zip[base + Len(d)])
    BY <1>4, <2>1, StandsHas, Zenon
  <2>3. DirectoryCell(zip[base + Len(d)])
    BY <1>1, <2>2, Zenon DEF Has
  <2>. QED  BY <2>3 DEF DirectoryCell
<1>8. readDirectoryEnd(zip) = EndFoundAt(n, base) /\ NoHeaders(zip, base + Len(d))
  BY <1>0, <1>1, <1>4, <1>5, <1>6, <1>7, EndIsRead DEF e
<1>9. DirectoryFrom(zip, base) = FoundFiles("ErrFormat", FilesOf(headers))
  BY <1>4, <1>8, DirectoryRead DEF d
<1>. DEFINE files == FilesOf(headers)
            end == EndFoundAt(n, base)
            found == FoundFiles("ErrFormat", files)
<1>10. Len(files) = n
  <2>1. files = [k \in 1 .. n |-> files[k]]
    BY <1>0 DEF FilesOf
  <2>. HIDE DEF files
  <2>. QED  BY <2>1, FunctionIsSequence
<1>. HIDE DEF files
<1>11. end.err = "none" /\ end.records = n /\ end.offset = base /\ end.comment = comment
  BY DEF EndFoundAt
<1>12. found.err = "ErrFormat" /\ found.files = files
  BY DEF FoundFiles
<1>. HIDE DEF end, found
<1>13. OpenReader(zip) = Opened(end, found)
  BY <1>8, <1>9, <1>11, Zenon DEF OpenReader, end, found, files
<1>14. "ErrFormat" # "EOF"
  OBVIOUS
<1>15. Opened(end, found) = [err |-> "none", files |-> files, comment |-> comment]
  BY <1>10, <1>11, <1>12, <1>14, Zenon DEF Opened
<1>. QED  BY <1>13, <1>15, Zenon DEF Reopened, files

-----------------------------------------------------------------------------
(* A file of the archive.                                                  *)

LocalCell(h) ==
  [cell |-> "local", method |-> h.method,
   nameLen |-> Narrow16(Len(h.name)), extraLen |-> Narrow16(Len(h.extra))]

DescriptorOf(csize, usize, content) ==
  [cell |-> "descriptor", crc |-> Crc32(content),
   csize |-> IF isZip64(csize, usize) THEN csize ELSE Narrow32(csize),
   usize |-> IF isZip64(csize, usize) THEN usize ELSE Narrow32(usize)]

\* What is in a header when its file has been closed.
Describes(h, content) ==
  /\ IsSequence(content) /\ IsSequence(Compressed(h.method, content))
  /\ h.csize64 = Len(Compressed(h.method, content)) /\ h.usize64 = Len(content)
  /\ h.crc = content
  /\ h.method \in Compressors /\ Len(h.extra) <= uint16max

\* The local header, and the data behind it.
HeaderThere(zip, h) == Stands(zip, h.offset, LocalHeader(h))
BodyAt(h) == h.offset + Len(LocalHeader(h))
BodyThere(zip, h, content) ==
  /\ Stands(zip, BodyAt(h), Compressed(h.method, content))
  /\ h.descriptor =>
       /\ BodyAt(h) + Len(Compressed(h.method, content)) < Len(zip)
       /\ zip[BodyAt(h) + Len(Compressed(h.method, content)) + 1].cell = "descriptor"
       /\ zip[BodyAt(h) + Len(Compressed(h.method, content)) + 1].crc = content

\* A local header: its record, the name and the fields.
LEMMA LocalHeaderIs ==
  ASSUME NEW h, IsSequence(h.name), IsSequence(h.extra),
         Len(h.name) <= uint16max, Len(h.extra) <= uint16max
  PROVE  /\ LocalHeader(h) = (<<LocalCell(h)>> \o h.name) \o h.extra
         /\ IsSequence(<<LocalCell(h)>> \o h.name) /\ IsSequence(LocalHeader(h))
         /\ Len(<<LocalCell(h)>> \o h.name) = 1 + Len(h.name)
         /\ Len(LocalHeader(h)) = 1 + Len(h.name) + Len(h.extra)
         /\ LocalCell(h).cell = "local"
         /\ LocalCell(h).nameLen = Len(h.name) /\ LocalCell(h).extraLen = Len(h.extra)
<1>. DEFINE c == LocalCell(h)
            s == h.name
            t == h.extra
            p == <<c>> \o s
            q == p \o t
<1>1. c.cell = "local" /\ c.nameLen = Narrow16(Len(s)) /\ c.extraLen = Narrow16(Len(t))
  BY DEF LocalCell
<1>2. Len(s) \in Nat /\ Len(t) \in Nat /\ IsSequence(<<c>>) /\ Len(<<c>>) = 1
  BY SequenceFacts, OneIsSequence
<1>3. LocalHeader(h) = q
  BY Zenon DEF LocalHeader, LocalCell
<1>. HIDE DEF c
<1>4. c.nameLen = Len(s) /\ c.extraLen = Len(t)
  BY <1>1, <1>2, NarrowIs
<1>5. IsSequence(s) /\ IsSequence(t)
  OBVIOUS
<1>. HIDE DEF s, t
<1>6. IsSequence(p) /\ Len(p) = Len(<<c>>) + Len(s)
  BY <1>2, <1>5, Joined, Zenon DEF Joins
<1>. HIDE DEF p
<1>7. IsSequence(q) /\ Len(q) = Len(p) + Len(t)
  BY <1>5, <1>6, Joined, Zenon DEF Joins
<1>8. Len(p) = 1 + Len(s) /\ Len(q) = 1 + Len(s) + Len(t)
  BY <1>2, <1>6, <1>7
<1>. QED  BY <1>1, <1>3, <1>4, <1>6, <1>7, <1>8 DEF p, c, s, t

\* What is read of a local header.
LEMMA LocalThere ==
  ASSUME NEW h, IsSequence(h.name), IsSequence(h.extra),
         Len(h.name) <= uint16max, Len(h.extra) <= uint16max,
         NEW zip, IsSequence(zip), HeaderThere(zip, h)
  PROVE  /\ h.offset \in Nat /\ h.offset < Len(zip) /\ Cell(zip, h.offset) = LocalCell(h)
         /\ Cells(zip, h.offset + 1 + Len(h.name), Len(h.extra)) = h.extra
         /\ h.offset + 1 + Len(h.name) + Len(h.extra) <= Len(zip)
<1>. DEFINE c == LocalCell(h)
            s == h.name
            t == h.extra
            p == <<c>> \o s
            o == h.offset
<1>1. /\ LocalHeader(h) = p \o t /\ IsSequence(p) /\ Len(p) = 1 + Len(s)
  BY LocalHeaderIs
<1>2. /\ Len(s) \in Nat /\ Len(t) \in Nat /\ IsSequence(<<c>>) /\ Len(<<c>>) = 1
      /\ Len(zip) \in Nat /\ IsSequence(s) /\ IsSequence(t)
  BY SequenceFacts, OneIsSequence
<1>3. Stands(zip, o, p \o t)
  BY <1>1 DEF HeaderThere
<1>. HIDE DEF c, s, t, o
<1>4. Stands(zip, o, p) /\ Stands(zip, o + Len(p), t)
  <2>. HIDE DEF p
  <2>. QED  BY <1>1, <1>2, <1>3, StandsBoth
<1>5. Stands(zip, o, <<c>>)
  BY <1>2, <1>4, StandsBoth
<1>6. o \in Nat /\ o < Len(zip) /\ zip[o + 1] = c
  BY <1>2, <1>5, StandsOne
<1>. HIDE DEF p
<1>7. Stands(zip, o + 1 + Len(s), t)
  <2>1. o + Len(p) = o + 1 + Len(s)
    BY <1>1, <1>2, <1>6
  <2>. QED  BY <1>4, <2>1
<1>8. Cells(zip, o + 1 + Len(s), Len(t)) = t /\ o + 1 + Len(s) + Len(t) <= Len(zip)
  BY <1>7, CellsStand
<1>. QED  BY <1>6, <1>8 DEF Cell, c, s, t, o

\* The local header leads to the fields and to the body of its file.
LEMMA LocalExtraRead ==
  ASSUME NEW h, Fits(h), NEW content, Describes(h, content),
         NEW zip, IsSequence(zip), HeaderThere(zip, h)
  PROVE  /\ LocalExtraField(zip, FileOf(h)) = [err |-> "none", extra |-> h.extra]
         /\ LocalError(zip, FileOf(h)) = "none"
         /\ findBodyOffset(zip, FileOf(h)) = BodyAt(h)
<1>. DEFINE c == LocalCell(h)
            f == FileOf(h)
<1>1. /\ IsSequence(h.name) /\ IsSequence(h.extra)
      /\ Len(h.name) <= uint16max /\ Len(h.extra) <= uint16max
  BY DEF Fits, IsTexts, IsFields, Describes
<1>2. /\ h.offset \in Nat /\ h.offset < Len(zip) /\ Cell(zip, h.offset) = c
      /\ Cells(zip, h.offset + 1 + Len(h.name), Len(h.extra)) = h.extra
      /\ h.offset + 1 + Len(h.name) + Len(h.extra) <= Len(zip)
  BY <1>1, LocalThere
<1>3. /\ c.cell = "local" /\ c.nameLen = Len(h.name) /\ c.extraLen = Len(h.extra)
      /\ Len(LocalHeader(h)) = 1 + Len(h.name) + Len(h.extra)
  BY <1>1, LocalHeaderIs
<1>4. f.offset = h.offset
  BY DEF FileOf
<1>5. Len(h.name) \in Nat /\ Len(h.extra) \in Nat /\ Len(zip) \in Nat
  BY <1>1, SequenceFacts
<1>. HIDE DEF c, f
<1>6. Holds(zip, f.offset) /\ IsCell(zip, f.offset, "local")
  BY <1>2, <1>3, <1>4 DEF Holds, IsCell
<1>7. LocalError(zip, f) = "none"
  BY <1>6, Zenon DEF LocalError
<1>8. ~(h.offset + 1 + Len(h.name) + Len(h.extra) > Len(zip))
  BY <1>2, <1>5
<1>9. LocalExtraField(zip, f) = [err |-> "none", extra |-> h.extra]
  BY <1>2, <1>3, <1>4, <1>7, <1>8, Zenon DEF LocalExtraField
<1>10. findBodyOffset(zip, f) = h.offset + 1 + Len(h.name) + Len(h.extra)
  BY <1>2, <1>3, <1>4, Zenon DEF findBodyOffset
<1>11. h.offset + 1 + Len(h.name) + Len(h.extra) = BodyAt(h)
  <2>. DEFINE o == h.offset
              m == Len(h.name)
              n == Len(h.extra)
              l == Len(LocalHeader(h))
  <2>1. o \in Nat /\ m \in Nat /\ n \in Nat /\ l = 1 + m + n
    BY <1>2, <1>3, <1>5
  <2>2. BodyAt(h) = o + l
    BY DEF BodyAt
  <2>. HIDE DEF o, m, n, l
  <2>3. o + 1 + m + n = o + l
    BY <2>1
  <2>. QED  BY <2>2, <2>3 DEF o, m, n
<1>. QED  BY <1>7, <1>9, <1>10, <1>11 DEF f

\* The body of a file is read as it was given: its size, its descriptor and its
\* checksum agree with the header (reader.go:223-258).
LEMMA BodyRead ==
  ASSUME NEW h, Fits(h), NEW content, Describes(h, content),
         NEW zip, IsSequence(zip), HeaderThere(zip, h), BodyThere(zip, h, content)
  PROVE  ReadAll(zip, FileOf(h)) = [err |-> "none", data |-> content]
<1>. DEFINE f == FileOf(h)
            off == BodyAt(h)
            cells == Compressed(h.method, content)
            read == [err |-> "none", data |-> content]
<1>1. LocalError(zip, f) = "none" /\ findBodyOffset(zip, f) = off
  BY LocalExtraRead
<1>2. /\ f.method = h.method /\ f.csize = Len(cells) /\ f.usize = Len(content)
      /\ f.crc = content /\ f.descriptor = h.descriptor
  BY DEF FileOf, Describes
<1>3. f.method \in Decompressors
  BY <1>2 DEF Describes, Decompressors, Compressors
<1>. HIDE DEF f, off
<1>4. /\ Stands(zip, off, cells) /\ IsSequence(cells)
      /\ h.descriptor => /\ off + Len(cells) < Len(zip)
                         /\ zip[off + Len(cells) + 1].cell = "descriptor"
                         /\ zip[off + Len(cells) + 1].crc = content
  BY Zenon DEF BodyThere, off, Describes
<1>5. Decompressed(h.method, cells) = read
  <2>1. CASE h.method = "Store"
    BY <2>1, Zenon DEF Decompressed, Compressed
  <2>2. CASE h.method = "Deflate"
    <3>1. cells = <<[cell |-> "deflated", content |-> content]>>
      BY <2>2 DEF Compressed
    <3>2. cells # <<>> /\ Head(cells).cell = "deflated" /\ Head(cells).content = content
      BY <3>1
    <3>3. h.method # "Store"
      BY <2>2
    <3>. HIDE DEF cells
    <3>. QED  BY <3>2, <3>3, Zenon DEF Decompressed
  <2>. QED  BY <2>1, <2>2 DEF Describes, Compressors
<1>. HIDE DEF cells
<1>6. /\ Len(zip) \in Nat /\ Len(cells) \in Nat /\ off \in Nat /\ off + Len(cells) <= Len(zip)
      /\ SubSeq(zip, off + 1, off + Len(cells)) = cells
  BY <1>4, SequenceFacts, StandsCells, Zenon DEF Stands
<1>7. Min({off + Len(cells), Len(zip)}) = off + Len(cells)
  <2>. DEFINE m == off + Len(cells)
              S == {m, Len(zip)}
  <2>1. m \in S /\ m \in Int /\ \A y \in S : y \in Int /\ m <= y
    BY <1>6
  <2>. HIDE DEF m, S
  <2>2. Min(S) = m
    BY <2>1, MinIs
  <2>. QED  BY <2>2 DEF S, m
<1>8. ReadAll(zip, f) = Checked(zip, f, read, off + Len(cells))
  BY <1>1, <1>2, <1>3, <1>5, <1>6, <1>7, Zenon DEF ReadAll, ReadBody
<1>9. read.err = "none" /\ read.data = content
  OBVIOUS
<1>. HIDE DEF read
<1>10. h.descriptor => /\ Holds(zip, off + Len(cells))
                       /\ IsCell(zip, off + Len(cells), "descriptor")
                       /\ Cell(zip, off + Len(cells)).crc = content
  BY <1>4, <1>6 DEF Holds, IsCell, Cell
<1>11. Checked(zip, f, read, off + Len(cells)) = read
  BY <1>2, <1>9, <1>10, Zenon DEF Checked, Crc32
<1>. QED  BY <1>8, <1>11 DEF f, read

-----------------------------------------------------------------------------
(* What the writer has written.                                            *)

\* A header that was prepared and accepted.
Prepares(h, fh) ==
  /\ IsHeader(fh)
  /\ h.name = fh.name /\ h.comment = fh.comment /\ h.utf8 = Utf8Flag(fh)
  /\ h.descriptor = ~IsDirectory(fh)
  /\ h.method = IF IsDirectory(fh) THEN "Store" ELSE fh.method
  /\ h.dos = IF fh.dated THEN timeToMsDosTime(fh.modified) ELSE 0
  /\ h.extra = IF fh.dated
               THEN Append(fh.extra, Extra("extTime", <<fh.modified.at % TimeWidth>>))
               ELSE fh.extra
  /\ h.method \in Compressors /\ ~TooLong(h)
  /\ h = [name |-> h.name, comment |-> h.comment, utf8 |-> h.utf8,
          descriptor |-> h.descriptor, method |-> h.method, dos |-> h.dos,
          extra |-> h.extra, crc |-> h.crc, csize |-> h.csize, usize |-> h.usize,
          csize64 |-> h.csize64, usize64 |-> h.usize64, offset |-> h.offset]

\* A file whose data is whole, in an archive o.
ClosedEntry(o, h, fh, content) ==
  /\ Prepares(h, fh) /\ Describes(h, content) /\ Sized(h)
  /\ HeaderThere(o, h) /\ BodyThere(o, h, content)

\* What has been written of the data b of the file that is open.
Written(h, b) == IF h.method = "Deflate" THEN <<>> ELSE b

OpenEntry(o, h, fh, content, b) ==
  /\ Prepares(h, fh) /\ h.descriptor /\ content = b /\ IsSequence(b)
  /\ HeaderThere(o, h)
  /\ Stands(o, BodyAt(h), Written(h, b))
  /\ Len(o) = BodyAt(h) + Len(Written(h, b))

\* What CreateHeader has made of a header and accepted fits in its fields.
LEMMA PreparedExtra ==
  ASSUME NEW h, NEW fh, Prepares(h, fh)
  PROVE  /\ IsFields(h.extra) /\ IsPrefix(fh.extra, h.extra)
         /\ IsTexts(h.name) /\ IsTexts(h.comment) /\ IsSequence(h.name)
         /\ Len(h.name) \in Nat /\ Len(h.extra) \in Nat
         /\ Len(h.name) <= uint16max /\ Len(h.extra) <= uint16max
<1>. DEFINE s == fh.extra
            t == h.extra
            x == Extra("extTime", <<fh.modified.at % TimeWidth>>)
<1>1. IsFields(s) /\ IsTexts(h.name) /\ IsTexts(h.comment)
  BY DEF Prepares, IsHeader, IsFields
<1>2. t = s \/ t = Append(s, x)
  BY DEF Prepares
<1>3. x.cell = "extra" /\ x.tag # "zip64"
  BY DEF Extra
<1>4. ~(Len(h.name) > uint16max \/ Len(t) > uint16max) /\ IsSequence(h.name)
  BY DEF Prepares, TooLong, IsHeader, IsTexts
<1>. HIDE DEF s, t, x
<1>5. IsFields(t) /\ IsPrefix(s, t)
  <2>1. /\ IsSequence(s) /\ DOMAIN s = 1 .. Len(s) /\ Len(s) \in Nat
        /\ \A k \in 1 .. Len(s) : s[k].cell = "extra" /\ s[k].tag # "zip64"
    BY <1>1, SequenceFacts DEF IsFields
  <2>2. CASE t = s
    BY <1>1, <2>1, <2>2, PrefixAdded
  <2>3. CASE t = Append(s, x)
    <3>1. IsPrefix(s, t)
      BY <2>1, <2>3, PrefixAdded
    <3>2. IsLonger(s, x, t)
      BY <2>1, <2>3, LongerIs, Zenon
    <3>3. /\ IsSequence(t) /\ Len(t) = Len(s) + 1 /\ t[Len(s) + 1] = x
          /\ \A k \in 1 .. Len(s) : t[k] = s[k]
      BY <3>2, Zenon DEF IsLonger
    <3>4. DOMAIN t = 1 .. Len(s) + 1
      BY <3>3, SequenceFacts
    <3>5. ASSUME NEW k \in 1 .. Len(s) + 1 PROVE t[k].cell = "extra" /\ t[k].tag # "zip64"
      <4>1. k \in 1 .. Len(s) \/ k = Len(s) + 1
        BY <2>1
      <4>. QED  BY <1>3, <2>1, <3>3, <4>1
    <3>. QED  BY <3>1, <3>3, <3>4, <3>5 DEF IsFields
  <2>. QED  BY <1>2, <2>2, <2>3
<1>6. Len(t) \in Nat /\ Len(h.name) \in Nat
  BY <1>4, <1>5, SequenceFacts DEF IsFields
<1>7. Len(h.name) <= uint16max /\ Len(t) <= uint16max
  BY <1>4, <1>6, WidthsAssumption
<1>. QED  BY <1>1, <1>4, <1>5, <1>6, <1>7 DEF s, t

LEMMA LocalHeaderFits ==
  ASSUME NEW h, NEW fh, Prepares(h, fh)
  PROVE  IsSequence(LocalHeader(h)) /\ Len(LocalHeader(h)) \in Nat \ {0}
<1>1. /\ IsSequence(h.name) /\ IsSequence(h.extra)
      /\ Len(h.name) \in Nat /\ Len(h.extra) \in Nat
      /\ Len(h.name) <= uint16max /\ Len(h.extra) <= uint16max
  BY PreparedExtra DEF IsFields
<1>2. IsSequence(LocalHeader(h)) /\ Len(LocalHeader(h)) = 1 + Len(h.name) + Len(h.extra)
  BY <1>1, LocalHeaderIs
<1>3. \A m, n \in Nat : 1 + m + n \in Nat \ {0}
  OBVIOUS
<1>. QED  BY <1>1, <1>2, <1>3

\* What is there stays there when more is written.
LEMMA ClosedEntryStays ==
  ASSUME NEW o, NEW e, IsSequence(o), IsSequence(e), NEW h, NEW fh, NEW content,
         ClosedEntry(o, h, fh, content)
  PROVE  ClosedEntry(o \o e, h, fh, content)
<1>. DEFINE u == o \o e
            n == BodyAt(h) + Len(Compressed(h.method, content))
<1>1. /\ Prepares(h, fh) /\ Describes(h, content) /\ Sized(h)
      /\ HeaderThere(o, h) /\ BodyThere(o, h, content)
  BY Zenon DEF ClosedEntry
<1>2. HeaderThere(u, h)
  BY <1>1, StandsStill, Zenon DEF HeaderThere
<1>3. Stands(u, BodyAt(h), Compressed(h.method, content))
  BY <1>1, StandsStill, Zenon DEF BodyThere
<1>4. Joins(o, e, u)
  BY Joined, Zenon
<1>. HIDE DEF u
<1>5. Len(u) = Len(o) + Len(e) /\ \A k \in 1 .. Len(o) : u[k] = o[k]
  BY <1>4, Zenon DEF Joins
<1>6. Len(o) \in Nat /\ Len(e) \in Nat
  BY SequenceFacts
<1>7. BodyAt(h) \in Nat /\ Len(Compressed(h.method, content)) \in Nat
  <2>1. BodyAt(h) \in Nat /\ IsSequence(Compressed(h.method, content))
    BY <1>3, Zenon DEF Stands
  <2>. QED  BY <2>1, SequenceFacts
<1>8. h.descriptor => n < Len(o) /\ o[n + 1].cell = "descriptor" /\ o[n + 1].crc = content
  BY <1>1, Zenon DEF BodyThere
<1>9. n \in Nat
  BY <1>7
<1>. HIDE DEF n
<1>10. h.descriptor => n < Len(u) /\ u[n + 1].cell = "descriptor" /\ u[n + 1].crc = content
  <2>. SUFFICES ASSUME h.descriptor
       PROVE n < Len(u) /\ u[n + 1].cell = "descriptor" /\ u[n + 1].crc = content
    OBVIOUS
  <2>1. n + 1 \in 1 .. Len(o) /\ n < Len(u)
    BY <1>5, <1>6, <1>8, <1>9
  <2>. QED  BY <1>5, <1>8, <2>1
<1>11. BodyThere(u, h, content)
  BY <1>3, <1>10, Zenon DEF BodyThere, n
<1>. QED  BY <1>1, <1>2, <1>11, Zenon DEF ClosedEntry, u

\* fileWriter.close, for a header.
HeaderWith(h, crc, csize, usize, csize64, usize64) ==
  [name |-> h.name, comment |-> h.comment, utf8 |-> h.utf8, descriptor |-> h.descriptor,
   method |-> h.method, dos |-> h.dos, extra |-> h.extra, crc |-> crc, csize |-> csize,
   usize |-> usize, csize64 |-> csize64, usize64 |-> usize64, offset |-> h.offset]

IsRecord(h) == h = HeaderWith(h, h.crc, h.csize, h.usize, h.csize64, h.usize64)

HeaderSet(h, crc, csize, usize, csize64, usize64) ==
  [h EXCEPT !.crc = crc, !.csize64 = csize64, !.usize64 = usize64,
            !.csize = csize, !.usize = usize]

\* Five fields of a header are set.
LEMMA HeaderClosed ==
  ASSUME NEW h, IsRecord(h),
         NEW crc, NEW csize, NEW usize, NEW csize64, NEW usize64
  PROVE  HeaderSet(h, crc, csize, usize, csize64, usize64)
         = HeaderWith(h, crc, csize, usize, csize64, usize64)
<1>. DEFINE h1 == [h EXCEPT !.crc = crc]
            h2 == [h1 EXCEPT !.csize64 = csize64]
            h3 == [h2 EXCEPT !.usize64 = usize64]
            h4 == [h3 EXCEPT !.csize = csize]
            h5 == [h4 EXCEPT !.usize = usize]
<1>0. h5 = HeaderSet(h, crc, csize, usize, csize64, usize64)
  BY DEF HeaderSet
<1>1. h1 = HeaderWith(h, crc, h.csize, h.usize, h.csize64, h.usize64)
  BY DEF IsRecord, HeaderWith
<1>. HIDE DEF h1
<1>2. h2 = HeaderWith(h, crc, h.csize, h.usize, csize64, h.usize64)
  BY <1>1 DEF HeaderWith
<1>. HIDE DEF h2
<1>3. h3 = HeaderWith(h, crc, h.csize, h.usize, csize64, usize64)
  BY <1>2 DEF HeaderWith
<1>. HIDE DEF h3
<1>4. h4 = HeaderWith(h, crc, csize, h.usize, csize64, usize64)
  BY <1>3 DEF HeaderWith
<1>. HIDE DEF h4
<1>5. h5 = HeaderWith(h, crc, csize, usize, csize64, usize64)
  BY <1>4 DEF HeaderWith
<1>. QED  BY <1>0, <1>5, Zenon

\* The header of a file that is closed with so many cells of data b.
Size32(csize, usize, n) == IF isZip64(csize, usize) THEN uint32max ELSE Narrow32(n)
ClosedHeader(h, csize, usize, b) ==
  HeaderSet(h, Crc32(b), Size32(csize, usize, csize), Size32(csize, usize, usize), csize, usize)

\* What closing a file does to its header.
HeaderKept(g, h, fh, b) ==
  /\ Prepares(g, fh) /\ Describes(g, b) /\ Sized(g) /\ g.offset = h.offset
  /\ g.name = h.name /\ g.extra = h.extra /\ g.method = h.method
  /\ g.descriptor = h.descriptor

LEMMA CompressedIs ==
  ASSUME NEW b, IsSequence(b), NEW method
  PROVE  IsSequence(Compressed(method, b))
BY OneIsSequence DEF Compressed

\* The header of a file that is closed describes its data.
LEMMA ClosedHeaderIs ==
  ASSUME NEW h, NEW fh, Prepares(h, fh), h.offset \in Nat, NEW b, IsSequence(b)
  PROVE  HeaderKept(ClosedHeader(h, Len(Compressed(h.method, b)), Len(b), b), h, fh, b)
<1>. DEFINE csize == Len(Compressed(h.method, b))
            usize == Len(b)
            c == Size32(csize, usize, csize)
            u == Size32(csize, usize, usize)
            g == ClosedHeader(h, csize, usize, b)
<1>1. IsRecord(h)
  BY Zenon DEF Prepares, HeaderWith, IsRecord
<1>2. IsSequence(Compressed(h.method, b)) /\ csize \in Nat /\ usize \in Nat
  BY CompressedIs, SequenceFacts
<1>. HIDE DEF csize, usize
<1>3. g = HeaderWith(h, b, c, u, csize, usize)
  <2>. HIDE DEF c, u
  <2>1. g = HeaderSet(h, b, c, u, csize, usize)
    BY Zenon DEF ClosedHeader, Crc32, c, u
  <2>. HIDE DEF g
  <2>2. HeaderSet(h, b, c, u, csize, usize) = HeaderWith(h, b, c, u, csize, usize)
    BY <1>1, HeaderClosed, Zenon
  <2>. QED  BY <2>1, <2>2
<1>. HIDE DEF g
<1>4. /\ g.name = h.name /\ g.comment = h.comment /\ g.utf8 = h.utf8
      /\ g.descriptor = h.descriptor /\ g.method = h.method /\ g.dos = h.dos
      /\ g.extra = h.extra /\ g.crc = b /\ g.csize = c /\ g.usize = u
      /\ g.csize64 = csize /\ g.usize64 = usize /\ g.offset = h.offset
  BY <1>3 DEF HeaderWith
<1>5. g = HeaderWith(g, g.crc, g.csize, g.usize, g.csize64, g.usize64)
  <2>. HIDE DEF c, u
  <2>. QED  BY <1>3, <1>4, Zenon DEF HeaderWith
<1>6. Prepares(g, fh)
  BY <1>4, <1>5, Zenon DEF Prepares, TooLong, HeaderWith
<1>7. Describes(g, b)
  <2>1. h.method \in Compressors /\ Len(h.extra) <= uint16max
    BY PreparedExtra DEF Prepares
  <2>. QED  BY <1>2, <1>4, <2>1, Zenon DEF Describes, csize, usize
<1>8. Sized(g)
  BY <1>2, <1>4, Zenon DEF Sized, Size32
<1>. QED  BY <1>4, <1>6, <1>7, <1>8, Zenon DEF HeaderKept, g, csize, usize

\* The descriptor is the last of a file; what precedes it is the data.
Descriptor(h, b) ==
  DescriptorOf(Len(Compressed(h.method, b)), Len(b), b)
Flushed(h, b) == IF h.method = "Deflate" THEN Compressed(h.method, b) ELSE <<>>

\* An open file becomes a closed one: what is compressed and the descriptor
\* follow what has been written.
LEMMA OpenEntryCloses ==
  ASSUME NEW o, IsSequence(o), NEW h, NEW fh, NEW content, NEW b, OpenEntry(o, h, fh, content, b)
  PROVE  ClosedEntry((o \o Flushed(h, b)) \o <<Descriptor(h, b)>>,
                     ClosedHeader(h, Len(Compressed(h.method, b)), Len(b), b), fh, content)
<1>. DEFINE g == ClosedHeader(h, Len(Compressed(h.method, b)), Len(b), b)
            d == Descriptor(h, b)
            cells == Compressed(h.method, b)
            p == o \o Flushed(h, b)
            u == p \o <<d>>
            off == BodyAt(h)
<1>1. /\ Prepares(h, fh) /\ h.descriptor /\ content = b /\ IsSequence(b)
      /\ Stands(o, h.offset, LocalHeader(h))
      /\ Stands(o, off, Written(h, b))
      /\ Len(o) = off + Len(Written(h, b))
  BY Zenon DEF OpenEntry, HeaderThere
<1>2. h.offset \in Nat /\ off \in Nat
  BY <1>1, Zenon DEF Stands
<1>3. HeaderKept(g, h, fh, b)
  BY <1>1, <1>2, ClosedHeaderIs
<1>. HIDE DEF g
<1>4. /\ Prepares(g, fh) /\ Describes(g, b) /\ Sized(g) /\ g.offset = h.offset
      /\ g.name = h.name /\ g.extra = h.extra /\ g.method = h.method
      /\ g.descriptor = h.descriptor
  BY <1>3, Zenon DEF HeaderKept
<1>5. LocalHeader(g) = LocalHeader(h) /\ BodyAt(g) = off
  BY <1>4, Zenon DEF LocalHeader, BodyAt
<1>6. IsSequence(cells) /\ IsSequence(Flushed(h, b)) /\ IsSequence(<<d>>) /\ Len(<<d>>) = 1
      /\ Len(o) \in Nat /\ Len(cells) \in Nat
  BY <1>1, CompressedIs, NoneIsSequence, OneIsSequence, SequenceFacts DEF Flushed
<1>7. d.cell = "descriptor" /\ d.crc = b
  BY DEF Descriptor, DescriptorOf, Crc32
<1>8. Joins(o, Flushed(h, b), p)
  BY <1>6, Joined, Zenon
<1>. HIDE DEF d, cells
<1>9. IsSequence(p) /\ Stands(p, h.offset, LocalHeader(h))
  <2>1. IsSequence(p)
    BY <1>8, Zenon DEF Joins
  <2>2. Stands(p, h.offset, LocalHeader(h))
    BY <1>1, <1>6, StandsStill, Zenon
  <2>. QED  BY <2>1, <2>2
<1>10. Stands(p, off, cells) /\ Len(p) = off + Len(cells)
  <2>1. CASE h.method = "Deflate"
    <3>1. Written(h, b) = <<>> /\ Flushed(h, b) = cells
      BY <2>1 DEF Written, Flushed, cells
    <3>2. Len(o) = off
      BY <1>1, <1>2, <3>1, NoneIsSequence
    <3>3. Stands(p, Len(o), cells)
      BY <1>6, <3>1, StandsLast, Zenon
    <3>4. Len(p) = Len(o) + Len(cells)
      BY <1>8, <3>1, Zenon DEF Joins
    <3>. QED  BY <3>2, <3>3, <3>4
  <2>2. CASE h.method # "Deflate"
    <3>1. Written(h, b) = cells /\ Flushed(h, b) = <<>>
      BY <2>2 DEF Written, Flushed, cells, Compressed
    <3>2. Stands(p, off, cells)
      BY <1>1, <1>6, <3>1, StandsStill, Zenon
    <3>3. Len(p) = Len(o) + Len(<<>>)
      BY <1>8, <3>1, Zenon DEF Joins
    <3>4. Len(p) = Len(o)
      BY <1>6, <3>3, NoneIsSequence
    <3>. QED  BY <1>1, <3>1, <3>2, <3>4
  <2>. QED  BY <2>1, <2>2
<1>. HIDE DEF p
<1>11. Stands(u, h.offset, LocalHeader(h)) /\ Stands(u, off, cells) /\ Stands(u, Len(p), <<d>>)
  <2>1. Stands(u, h.offset, LocalHeader(h))
    BY <1>6, <1>9, StandsStill, Zenon
  <2>2. Stands(u, off, cells)
    BY <1>6, <1>9, <1>10, StandsStill, Zenon
  <2>3. Stands(u, Len(p), <<d>>)
    BY <1>6, <1>9, StandsLast, Zenon
  <2>. QED  BY <2>1, <2>2, <2>3
<1>12. Len(u) \in Nat
  <2>1. IsSequence(u)
    BY <1>6, <1>9, Joined, Zenon DEF Joins
  <2>. QED  BY <2>1, SequenceFacts
<1>. HIDE DEF u
<1>13. off + Len(cells) < Len(u) /\ u[off + Len(cells) + 1] = d
  BY <1>10, <1>11, <1>12, StandsOne
<1>14. BodyThere(u, g, b)
  <2>1. Compressed(g.method, b) = cells
    BY <1>4 DEF cells
  <2>. QED  BY <1>5, <1>7, <1>11, <1>13, <2>1, Zenon DEF BodyThere
<1>15. HeaderThere(u, g)
  BY <1>4, <1>5, <1>11, Zenon DEF HeaderThere
<1>16. ClosedEntry(u, g, fh, content)
  BY <1>1, <1>4, <1>14, <1>15, Zenon DEF ClosedEntry
<1>. QED  BY <1>16 DEF u, p, d, g

-----------------------------------------------------------------------------
(* The writer's invariant.                                                 *)

IsGiven(g) == g = [header |-> g.header, content |-> g.content]

\* The archive o holds what was given for each header in d, but for what is
\* still to come of the file l, of which b was given.
Entries(o, d, l, b, g) ==
  /\ IsSequence(o) /\ IsSequence(d) /\ IsSequence(g) /\ Len(d) = Len(g)
  /\ l = 0 \/ (l # 0 /\ l = Len(d))
  /\ \A k \in 1 .. Len(d) : k # l => ClosedEntry(o, d[k], g[k].header, g[k].content)
  /\ \A k \in 1 .. Len(d) : k = l => OpenEntry(o, d[k], g[k].header, g[k].content, b)
  /\ \A k \in 1 .. Len(d) : IsGiven(g[k])

AllClosed(o, d, g) ==
  /\ IsSequence(o) /\ IsSequence(d) /\ IsSequence(g) /\ Len(d) = Len(g)
  /\ \A k \in 1 .. Len(d) : ClosedEntry(o, d[k], g[k].header, g[k].content)
  /\ \A k \in 1 .. Len(d) : IsGiven(g[k])

\* Entries of which none is open.
LEMMA AllClosedEntries ==
  ASSUME NEW o, NEW d, NEW g, AllClosed(o, d, g), NEW b
  PROVE  Entries(o, d, 0, b, g)
<1>1. Len(d) \in Nat
  BY SequenceFacts DEF AllClosed
<1>2. \A k \in 1 .. Len(d) : k # 0
  BY <1>1
<1>. QED  BY <1>2, Zenon DEF AllClosed, Entries

\* Writing more leaves the closed files alone.
LEMMA AllClosedStays ==
  ASSUME NEW o, NEW d, NEW g, AllClosed(o, d, g), NEW e, IsSequence(e)
  PROVE  AllClosed(o \o e, d, g)
<1>1. IsSequence(o \o e)
  BY Joined, Zenon DEF Joins, AllClosed
<1>2. \A k \in 1 .. Len(d) : ClosedEntry(o \o e, d[k], g[k].header, g[k].content)
  BY ClosedEntryStays, Zenon DEF AllClosed
<1>. QED  BY <1>1, <1>2, Zenon DEF AllClosed

\* Something in the middle of a sequence is replaced.
IsReplaced(s, l, x, t) ==
  /\ IsSequence(t) /\ Len(t) = Len(s) /\ t[l] = x
  /\ \A k \in 1 .. Len(s) : k # l => t[k] = s[k]

LEMMA ReplacedIs ==
  ASSUME NEW s, IsSequence(s), NEW l \in 1 .. Len(s), NEW x
  PROVE  IsReplaced(s, l, x, [s EXCEPT ![l] = x])
<1>. DEFINE t == [s EXCEPT ![l] = x]
            R == {s[k] : k \in DOMAIN s} \cup {x}
<1>1. s \in Seq({s[k] : k \in DOMAIN s})
  BY DEF IsSequence
<1>2. s \in Seq(R) /\ x \in R
  BY <1>1, SeqMonotonic
<1>. HIDE DEF R
<1>3. /\ t \in Seq(R) /\ Len(t) = Len(s) /\ t[l] = x
      /\ \A k \in 1 .. Len(s) : k # l => t[k] = s[k]
  BY <1>2
<1>. HIDE DEF t
<1>4. IsSequence(t)
  BY <1>3, SequenceIs
<1>. QED  BY <1>3, <1>4, Zenon DEF IsReplaced, t

Closing(o, h, b) == (o \o Flushed(h, b)) \o <<Descriptor(h, b)>>
Finished(h, b) == ClosedHeader(h, Len(Compressed(h.method, b)), Len(b), b)

\* fileWriter.close closes the last file and leaves the others alone.
LEMMA EntriesClose ==
  ASSUME NEW o, NEW d, NEW l, NEW b, NEW g, Entries(o, d, l, b, g), l # 0
  PROVE  AllClosed(Closing(o, d[l], b), [d EXCEPT ![l] = Finished(d[l], b)], g)
<1>. DEFINE u == Closing(o, d[l], b)
            x == Finished(d[l], b)
            t == [d EXCEPT ![l] = x]
<1>1. /\ IsSequence(o) /\ IsSequence(d) /\ IsSequence(g) /\ Len(d) = Len(g) /\ l = Len(d)
      /\ \A k \in 1 .. Len(d) : k # l => ClosedEntry(o, d[k], g[k].header, g[k].content)
      /\ \A k \in 1 .. Len(d) : k = l => OpenEntry(o, d[k], g[k].header, g[k].content, b)
      /\ \A k \in 1 .. Len(d) : IsGiven(g[k])
  BY Zenon DEF Entries
<1>2. l \in 1 .. Len(d)
  BY <1>1, SequenceFacts
<1>3. OpenEntry(o, d[l], g[l].header, g[l].content, b)
  BY <1>1, <1>2, Zenon
<1>4. ClosedEntry(u, x, g[l].header, g[l].content)
  BY <1>1, <1>3, OpenEntryCloses, Zenon DEF Closing, Finished
<1>5. /\ IsSequence(Flushed(d[l], b)) /\ IsSequence(<<Descriptor(d[l], b)>>)
  BY <1>3, CompressedIs, NoneIsSequence, OneIsSequence DEF Flushed, OpenEntry
<1>6. IsSequence(o \o Flushed(d[l], b))
  BY <1>1, <1>5, Joined, Zenon DEF Joins
<1>7. IsSequence(u)
  BY <1>5, <1>6, Joined, Zenon DEF Joins, Closing
<1>8. ASSUME NEW k \in 1 .. Len(d), k # l
      PROVE  ClosedEntry(u, d[k], g[k].header, g[k].content)
  <2>1. ClosedEntry(o, d[k], g[k].header, g[k].content)
    BY <1>1, <1>8, Zenon
  <2>2. ClosedEntry(o \o Flushed(d[l], b), d[k], g[k].header, g[k].content)
    BY <1>1, <1>5, <2>1, ClosedEntryStays, Zenon
  <2>. QED  BY <1>5, <1>6, <2>2, ClosedEntryStays, Zenon DEF Closing
<1>. HIDE DEF u, x
<1>9. /\ IsSequence(t) /\ Len(t) = Len(d) /\ t[l] = x
      /\ \A k \in 1 .. Len(d) : k # l => t[k] = d[k]
  <2>1. IsReplaced(d, l, x, t)
    BY <1>1, <1>2, ReplacedIs
  <2>. HIDE DEF t
  <2>. QED  BY <2>1, Zenon DEF IsReplaced
<1>. HIDE DEF t
<1>10. ASSUME NEW k \in 1 .. Len(d) PROVE ClosedEntry(u, t[k], g[k].header, g[k].content)
  <2>1. CASE k = l
    BY <1>4, <1>9, <2>1
  <2>2. CASE k # l
    BY <1>8, <1>9, <2>2
  <2>. QED  BY <2>1, <2>2
<1>11. AllClosed(u, t, g)
  BY <1>1, <1>7, <1>9, <1>10, Zenon DEF AllClosed
<1>. QED  BY <1>11 DEF u, t, x

\* ClosedFile is what the entries become.
LEMMA ClosedFileIs ==
  ASSUME Entries(out, dir, last, body, given)
  PROVE  AllClosed(ClosedFile.out, ClosedFile.dir, given)
<1>1. CASE last = 0
  <2>1. ClosedFile.out = out /\ ClosedFile.dir = dir
    BY <1>1 DEF ClosedFile
  <2>2. Len(dir) \in Nat
    BY SequenceFacts DEF Entries
  <2>3. \A k \in 1 .. Len(dir) : k # last
    BY <1>1, <2>2
  <2>4. AllClosed(out, dir, given)
    BY <2>3, Zenon DEF Entries, AllClosed
  <2>. QED  BY <2>1, <2>4
<1>2. CASE last # 0
  <2>. DEFINE h == dir[last]
              u == Closing(out, h, body)
              t == [dir EXCEPT ![last] = Finished(h, body)]
  <2>1. ClosedFile = ClosedWith(h, Len(Compressed(h.method, body)), Len(body))
    BY <1>2, Zenon DEF ClosedFile
  <2>2. ClosedWith(h, Len(Compressed(h.method, body)), Len(body)) = [out |-> u, dir |-> t]
    BY Zenon DEF ClosedWith, Closing, Finished, ClosedHeader, HeaderSet, Size32, Flushed,
                 Descriptor, DescriptorOf
  <2>3. AllClosed(u, t, given)
    BY <1>2, EntriesClose, Zenon
  <2>. HIDE DEF u, t
  <2>4. ClosedFile.out = u /\ ClosedFile.dir = t
    BY <2>1, <2>2
  <2>. QED  BY <2>3, <2>4
<1>. QED  BY <1>1, <1>2

-----------------------------------------------------------------------------
(* A file is created.                                                      *)

\* What CreateHeader makes of a header that it accepts.
LEMMA PreparedIs ==
  ASSUME NEW fh, IsHeader(fh), NEW offset, Prepared(fh, offset).method \in Compressors,
         ~TooLong(Prepared(fh, offset))
  PROVE  /\ Prepares(Prepared(fh, offset), fh) /\ Prepared(fh, offset).offset = offset
         /\ Prepared(fh, offset).crc = <<>>
         /\ Prepared(fh, offset).csize = 0 /\ Prepared(fh, offset).usize = 0
         /\ Prepared(fh, offset).csize64 = 0 /\ Prepared(fh, offset).usize64 = 0
<1>. DEFINE h == Prepared(fh, offset)
            note == fh.comment
            utf8 == Utf8Flag(fh)
            descriptor == ~IsDirectory(fh)
            method == IF IsDirectory(fh) THEN "Store" ELSE fh.method
            dos == IF fh.dated THEN timeToMsDosTime(fh.modified) ELSE 0
            extra == IF fh.dated
                     THEN Append(fh.extra, Extra("extTime", <<fh.modified.at % TimeWidth>>))
                     ELSE fh.extra
<1>1. h = [name |-> fh.name, comment |-> note, utf8 |-> utf8, descriptor |-> descriptor,
           method |-> method, dos |-> dos, extra |-> extra, crc |-> <<>>, csize |-> 0,
           usize |-> 0, csize64 |-> 0, usize64 |-> 0, offset |-> offset]
  BY DEF Prepared, Crc32
<1>. HIDE DEF h, note, utf8, descriptor, method, dos, extra
<1>2. /\ h.name = fh.name /\ h.comment = note /\ h.utf8 = utf8 /\ h.descriptor = descriptor
      /\ h.method = method /\ h.dos = dos /\ h.extra = extra /\ h.crc = <<>> /\ h.csize = 0
      /\ h.usize = 0 /\ h.csize64 = 0 /\ h.usize64 = 0 /\ h.offset = offset
  BY <1>1
<1>3. IsRecord(h)
  BY <1>1, <1>2 DEF IsRecord, HeaderWith
<1>4. h.method \in Compressors /\ ~TooLong(h)
  BY DEF h
<1>5. Prepares(h, fh)
  BY <1>2, <1>3, <1>4, Zenon
     DEF Prepares, note, utf8, descriptor, method, dos, extra, IsRecord, HeaderWith
<1>. QED  BY <1>2, <1>5 DEF h

\* Nothing stands anywhere.
LEMMA NothingStands ==
  ASSUME NEW o, NEW off \in Nat, off <= Len(o), Len(o) \in Nat PROVE Stands(o, off, <<>>)
<1>1. IsSequence(<<>>) /\ off + Len(<<>>) <= Len(o) /\ \A j \in 1 .. Len(<<>>) : FALSE
  BY NoneIsSequence
<1>. QED  BY <1>1, Zenon DEF Stands

\* A file is created: the local header stands at the offset that the directory
\* will give, and a directory is closed at once, having no data.
LEMMA EntryCreated ==
  ASSUME NEW o, NEW d, NEW g, AllClosed(o, d, g), NEW fh, IsHeader(fh),
         NEW h, h = Prepared(fh, Len(o)), h.method \in Compressors, ~TooLong(h),
         NEW l, l = IF IsDirectory(fh) THEN 0 ELSE Len(Append(d, h))
  PROVE  Entries(o \o LocalHeader(h), Append(d, h), l, <<>>,
                 Append(g, [header |-> fh, content |-> <<>>]))
<1>. DEFINE r == [header |-> fh, content |-> <<>>]
            o2 == o \o LocalHeader(h)
            d2 == Append(d, h)
            g2 == Append(g, r)
            off == BodyAt(h)
<1>1. /\ Prepares(h, fh) /\ h.offset = Len(o) /\ h.crc = <<>> /\ h.csize = 0 /\ h.usize = 0
      /\ h.csize64 = 0 /\ h.usize64 = 0
  BY PreparedIs
<1>2. /\ IsSequence(o) /\ IsSequence(d) /\ IsSequence(g) /\ Len(d) = Len(g)
      /\ \A k \in 1 .. Len(d) : ClosedEntry(o, d[k], g[k].header, g[k].content)
      /\ \A k \in 1 .. Len(d) : IsGiven(g[k])
  BY Zenon DEF AllClosed
<1>3. IsSequence(LocalHeader(h)) /\ Len(LocalHeader(h)) \in Nat
  BY <1>1, LocalHeaderFits
<1>4. r.header = fh /\ r.content = <<>> /\ IsGiven(r)
  BY DEF IsGiven
<1>. HIDE DEF r
<1>5. AllClosed(o2, d, g)
  BY <1>3, AllClosedStays
<1>6. Joins(o, LocalHeader(h), o2) /\ Stands(o2, Len(o), LocalHeader(h))
  BY <1>2, <1>3, Joined, StandsLast, Zenon
<1>7. IsSequence(o2) /\ Len(o2) = Len(o) + Len(LocalHeader(h))
  BY <1>6, Zenon DEF Joins
<1>8. HeaderThere(o2, h) /\ Len(o2) = off
  <2>. HIDE DEF o2
  <2>1. HeaderThere(o2, h)
    BY <1>1, <1>6, Zenon DEF HeaderThere
  <2>. QED  BY <1>1, <1>7, <2>1, Zenon DEF BodyAt
<1>. HIDE DEF o2
<1>9. Len(o2) \in Nat
  BY <1>7, SequenceFacts
<1>. HIDE DEF off
<1>10. Stands(o2, off, <<>>) /\ Len(o2) = off + Len(<<>>)
  <2>1. off <= Len(o2) /\ off \in Nat /\ Len(o2) = off + 0
    BY <1>8, <1>9
  <2>. QED  BY <1>9, <2>1, NothingStands, NoneIsSequence
<1>11. CASE IsDirectory(fh)
  <2>1. ~h.descriptor /\ h.method = "Store" /\ l = 0
    BY <1>1, <1>11 DEF Prepares
  <2>2. Compressed(h.method, <<>>) = <<>>
    BY <2>1 DEF Compressed
  <2>3. Describes(h, <<>>)
    <3>1. Len(h.extra) <= uint16max /\ h.method \in Compressors
      BY <1>1, PreparedExtra
    <3>. QED  BY <1>1, <2>2, <3>1, NoneIsSequence DEF Describes
  <2>4. Sized(h)
    <3>1. ~isZip64(0, 0) /\ Narrow32(0) = 0
      BY WidthsAssumption, NarrowIs DEF isZip64
    <3>2. Len(o) \in Nat
      BY <1>2, SequenceFacts
    <3>. QED  BY <1>1, <3>1, <3>2 DEF Sized
  <2>5. BodyThere(o2, h, <<>>)
    BY <1>10, <2>1, <2>2, Zenon DEF BodyThere, off
  <2>6. ClosedEntry(o2, h, fh, <<>>)
    BY <1>1, <1>8, <2>3, <2>4, <2>5, Zenon DEF ClosedEntry
  <2>7. IsLonger(d, h, d2) /\ IsLonger(g, r, g2)
    BY <1>2, LongerIs
  <2>. HIDE DEF d2, g2
  <2>8. /\ IsSequence(d2) /\ Len(d2) = Len(d) + 1 /\ d2[Len(d) + 1] = h
        /\ \A k \in 1 .. Len(d) : d2[k] = d[k]
        /\ IsSequence(g2) /\ Len(g2) = Len(d) + 1 /\ g2[Len(d) + 1] = r
        /\ \A k \in 1 .. Len(d) : g2[k] = g[k]
    BY <1>2, <2>7, Zenon DEF IsLonger
  <2>9. ASSUME NEW k \in 1 .. Len(d2)
        PROVE  ClosedEntry(o2, d2[k], g2[k].header, g2[k].content) /\ IsGiven(g2[k])
    <3>1. k \in 1 .. Len(d) \/ k = Len(d) + 1
      BY <1>2, <2>8, SequenceFacts
    <3>2. CASE k \in 1 .. Len(d)
      BY <1>2, <1>5, <2>8, <3>2, Zenon DEF AllClosed
    <3>3. CASE k = Len(d) + 1
      <4>1. d2[k] = h /\ g2[k] = r
        BY <2>8, <3>3
      <4>. QED  BY <1>4, <2>6, <4>1
    <3>. QED  BY <3>1, <3>2, <3>3
  <2>10. AllClosed(o2, d2, g2)
    BY <1>7, <2>8, <2>9, Zenon DEF AllClosed
  <2>11. Entries(o2, d2, 0, <<>>, g2)
    BY <2>10, AllClosedEntries
  <2>. QED  BY <2>1, <2>11 DEF o2, d2, g2, r
<1>12. CASE ~IsDirectory(fh)
  <2>1. h.descriptor /\ l = Len(d2) /\ Written(h, <<>>) = <<>>
    BY <1>1, <1>12 DEF Prepares, Written
  <2>2. OpenEntry(o2, h, fh, <<>>, <<>>)
    BY <1>1, <1>8, <1>10, <2>1, NoneIsSequence, Zenon DEF OpenEntry, off
  <2>7. IsLonger(d, h, d2) /\ IsLonger(g, r, g2)
    BY <1>2, LongerIs
  <2>. HIDE DEF d2, g2
  <2>8. /\ IsSequence(d2) /\ Len(d2) = Len(d) + 1 /\ d2[Len(d) + 1] = h
        /\ \A k \in 1 .. Len(d) : d2[k] = d[k]
        /\ IsSequence(g2) /\ Len(g2) = Len(d) + 1 /\ g2[Len(d) + 1] = r
        /\ \A k \in 1 .. Len(d) : g2[k] = g[k]
    BY <1>2, <2>7, Zenon DEF IsLonger
  <2>9. Len(d) \in Nat /\ l = Len(d) + 1 /\ l # 0
    BY <1>2, <2>1, <2>8, SequenceFacts
  <2>10. ASSUME NEW k \in 1 .. Len(d2)
         PROVE  /\ k # l => ClosedEntry(o2, d2[k], g2[k].header, g2[k].content)
                /\ k = l => OpenEntry(o2, d2[k], g2[k].header, g2[k].content, <<>>)
                /\ IsGiven(g2[k])
    <3>1. (k \in 1 .. Len(d) /\ k # l) \/ k = l
      BY <2>8, <2>9
    <3>2. CASE k \in 1 .. Len(d) /\ k # l
      BY <1>2, <1>5, <2>8, <3>2, Zenon DEF AllClosed
    <3>3. CASE k = l
      <4>1. d2[k] = h /\ g2[k] = r
        BY <2>8, <2>9, <3>3
      <4>. QED  BY <1>4, <2>2, <3>3, <4>1
    <3>. QED  BY <3>1, <3>2, <3>3
  <2>11. Len(d2) = Len(g2)
    BY <2>8
  <2>12. Entries(o2, d2, l, <<>>, g2)
    BY <1>7, <2>1, <2>8, <2>9, <2>10, <2>11, Zenon DEF Entries
  <2>. QED  BY <2>12 DEF o2, d2, g2, r
<1>. QED  BY <1>11, <1>12

-----------------------------------------------------------------------------
(* Data is written.                                                        *)

\* More behind what stands at the end.
LEMMA JoinedSame ==
  ASSUME NEW o, NEW s, NEW t, IsSequence(o), IsSequence(s), IsSequence(t), NEW off,
         Stands(o, off, s), Len(o) = off + Len(s)
  PROVE  Stands(o \o t, off, s \o t) /\ Len(o \o t) = off + Len(s \o t)
<1>. DEFINE u == o \o t
            v == s \o t
<1>1. Joins(o, t, u) /\ Joins(s, t, v)
  BY Joined, Zenon
<1>. HIDE DEF u, v
<1>2. /\ Len(u) = Len(o) + Len(t) /\ Len(v) = Len(s) + Len(t) /\ IsSequence(v)
      /\ \A k \in 1 .. Len(o) : u[k] = o[k]
      /\ \A k \in 1 .. Len(t) : u[Len(o) + k] = t[k]
      /\ \A k \in 1 .. Len(s) : v[k] = s[k]
      /\ \A k \in 1 .. Len(t) : v[Len(s) + k] = t[k]
  BY <1>1, Zenon DEF Joins
<1>3. /\ off \in Nat /\ Len(o) \in Nat /\ Len(s) \in Nat /\ Len(t) \in Nat
      /\ \A j \in 1 .. Len(s) : o[off + j] = s[j]
  BY SequenceFacts DEF Stands
<1>4. Len(u) = off + Len(v) /\ off + Len(v) <= Len(u)
  BY <1>2, <1>3
<1>5. ASSUME NEW j \in 1 .. Len(v) PROVE u[off + j] = v[j]
  <2>1. CASE j <= Len(s)
    <3>1. j \in 1 .. Len(s) /\ off + j \in 1 .. Len(o)
      BY <1>2, <1>3, <2>1
    <3>. QED  BY <1>2, <1>3, <3>1
  <2>2. CASE ~(j <= Len(s))
    <3>1. PICK i : i = j - Len(s)
      OBVIOUS
    <3>2. i \in 1 .. Len(t) /\ j = Len(s) + i /\ off + j = Len(o) + i
      BY <1>2, <1>3, <2>2, <3>1
    <3>. QED  BY <1>2, <3>2
  <2>. QED  BY <2>1, <2>2
<1>. QED  BY <1>2, <1>3, <1>4, <1>5, Zenon DEF Stands, u, v

\* More data for the file that is open.
LEMMA EntryWritten ==
  ASSUME NEW o, IsSequence(o), NEW h, NEW fh, NEW b, OpenEntry(o, h, fh, b, b),
         NEW chunk, IsSequence(chunk),
         NEW o2, o2 = IF h.method = "Deflate" THEN o ELSE o \o chunk
  PROVE  OpenEntry(o2, h, fh, b \o chunk, b \o chunk) /\ IsSequence(o2)
<1>. DEFINE c == b \o chunk
            off == BodyAt(h)
<1>1. /\ Prepares(h, fh) /\ h.descriptor /\ IsSequence(b) /\ HeaderThere(o, h)
      /\ Stands(o, off, Written(h, b)) /\ Len(o) = off + Len(Written(h, b))
  BY Zenon DEF OpenEntry
<1>2. IsSequence(c)
  BY <1>1, Joined, Zenon DEF Joins
<1>3. CASE h.method = "Deflate"
  <2>1. o2 = o /\ Written(h, c) = Written(h, b)
    BY <1>3 DEF Written
  <2>. HIDE DEF c
  <2>2. Stands(o2, off, Written(h, c)) /\ Len(o2) = off + Len(Written(h, c)) /\ HeaderThere(o2, h)
    BY <1>1, <2>1
  <2>3. OpenEntry(o2, h, fh, c, c)
    BY <1>1, <1>2, <2>2, Zenon DEF OpenEntry
  <2>. QED  BY <2>1, <2>3 DEF c
<1>4. CASE h.method # "Deflate"
  <2>1. o2 = o \o chunk /\ Written(h, c) = c /\ Written(h, b) = b
    BY <1>4 DEF Written
  <2>. HIDE DEF off
  <2>2. Stands(o \o chunk, off, c) /\ Len(o \o chunk) = off + Len(c)
    BY <1>1, <2>1, JoinedSame
  <2>3. HeaderThere(o \o chunk, h)
    BY <1>1, StandsStill, Zenon DEF HeaderThere
  <2>4. IsSequence(o \o chunk)
    BY Joined, Zenon DEF Joins
  <2>. HIDE DEF c
  <2>5. Stands(o2, off, Written(h, c)) /\ Len(o2) = off + Len(Written(h, c)) /\ HeaderThere(o2, h)
    BY <2>1, <2>2, <2>3
  <2>6. OpenEntry(o2, h, fh, c, c)
    BY <1>1, <1>2, <2>5, Zenon DEF OpenEntry, off
  <2>. QED  BY <2>1, <2>4, <2>6 DEF c
<1>. QED  BY <1>3, <1>4

\* The record of a file, with more data.
GivenWith(g, l, chunk) == [g EXCEPT ![l].content = @ \o chunk]
RecordWith(r, chunk) == [header |-> r.header, content |-> r.content \o chunk]
GivesMore(g, l, chunk) ==
  /\ GivenWith(g, l, chunk) = [g EXCEPT ![l] = RecordWith(g[l], chunk)]
  /\ IsGiven(RecordWith(g[l], chunk))
  /\ RecordWith(g[l], chunk).header = g[l].header
  /\ RecordWith(g[l], chunk).content = g[l].content \o chunk

\* Data is added to what was given for a file.
LEMMA GivenMore ==
  ASSUME NEW g, IsSequence(g), NEW l \in 1 .. Len(g), IsGiven(g[l]), NEW chunk
  PROVE  GivesMore(g, l, chunk)
<1>. DEFINE x == g[l].header
            y == g[l].content
            z == y \o chunk
            r == [header |-> x, content |-> z]
<1>1. g[l] = [header |-> x, content |-> y]
  BY DEF IsGiven
<1>2. IsGiven(r) /\ r.header = x /\ r.content = z
  <2>. HIDE DEF x, z
  <2>. QED  BY DEF IsGiven
<1>3. GivenWith(g, l, chunk) = [g EXCEPT ![l] = [g[l] EXCEPT !.content = z]]
  BY DEF GivenWith
<1>4. [g[l] EXCEPT !.content = z] = r
  <2>. HIDE DEF x, y, z
  <2>. QED  BY <1>1
<1>5. GivenWith(g, l, chunk) = [g EXCEPT ![l] = r]
  BY <1>3, <1>4, Zenon
<1>. QED  BY <1>2, <1>5, Zenon DEF GivesMore, RecordWith

-----------------------------------------------------------------------------
(* The steps of the writer.                                                *)

OpenInv ==
  /\ wpc = "open" /\ caller \in DOMAIN Plan /\ CommentFits
  /\ Entries(out, dir, last, body, given)

ClosedInv ==
  /\ wpc = "closed"
  /\ LengthsFit => /\ CommentFits /\ AllClosed(out, dir, given)
                   /\ \E base : Closes(out, dir, base)

\* What the writer has written is what it was given, and where dir says.
WriterInv == wpc = "failed" \/ OpenInv \/ ClosedInv

\* A writer has written nothing, and the invariant holds.
LEMMA WriterStarts == WInit => WriterInv
<1>. SUFFICES ASSUME WInit PROVE OpenInv
  BY DEF WriterInv
<1>1. /\ caller \in DOMAIN Plan /\ dir = <<>> /\ last = 0 /\ body = <<>> /\ comment = <<>>
      /\ wpc = "open" /\ given = <<>>
      /\ out \in {[k \in 1..n |-> Text("before")] : n \in Plan[caller].starts}
  BY DEF WInit
<1>2. IsSequence(out)
  <2>1. PICK n \in Plan[caller].starts : out = [k \in 1..n |-> Text("before")]
    BY <1>1
  <2>2. n \in Nat
    BY <1>1, PlanAssumption
  <2>3. out = [k \in 1..n |-> out[k]]
    BY <2>1, <2>2
  <2>. QED  BY <2>2, <2>3, FunctionIsSequence
<1>3. CommentFits
  <2>1. IsTexts(<<>>)
    BY NoneIsSequence DEF IsTexts
  <2>. QED  BY <1>1, <2>1, NoneIsSequence, WidthsAssumption DEF CommentFits
<1>4. \A k \in 1 .. Len(dir) : FALSE
  BY <1>1, NoneIsSequence
<1>5. IsSequence(dir) /\ IsSequence(given) /\ Len(dir) = Len(given)
  BY <1>1, NoneIsSequence
<1>6. Entries(out, dir, last, body, given)
  BY <1>1, <1>2, <1>4, <1>5, Zenon DEF Entries
<1>. QED  BY <1>1, <1>3, <1>6 DEF OpenInv

\* CreateHeader keeps the invariant, whether it accepts the header or not.
LEMMA CreateHeaderSteps ==
  ASSUME OpenInv, NEW fh, IsHeader(fh), CreateHeader(fh)
  PROVE  WriterInv'
<1>. DEFINE before == ClosedFile
            h == Prepared(fh, Len(before.out))
            r == [header |-> fh, content |-> <<>>]
<1>1. /\ Created(fh, h, before) /\ body' = <<>> /\ caller' = caller /\ comment' = comment
  BY Zenon DEF CreateHeader
<1>2. AllClosed(before.out, before.dir, given)
  BY ClosedFileIs DEF OpenInv
<1>3. caller' \in DOMAIN Plan /\ CommentFits' /\ wpc = "open"
  BY <1>1 DEF OpenInv, CommentFits
<1>. HIDE DEF before, h
<1>4. CASE /\ out' = before.out /\ dir' = before.dir /\ last' = 0
           /\ wpc' = wpc /\ given' = given
  <2>1. AllClosed(out', dir', given')
    BY <1>2, <1>4
  <2>2. Entries(out', dir', 0, body', given')
    BY <2>1, AllClosedEntries, Zenon
  <2>3. Entries(out', dir', last', body', given')
    BY <1>4, <2>2
  <2>. QED  BY <1>3, <1>4, <2>3 DEF OpenInv, WriterInv
<1>5. CASE wpc' = "failed"
  BY <1>5 DEF WriterInv
<1>6. CASE /\ h.method \in Compressors /\ ~TooLong(h)
           /\ out' = before.out \o LocalHeader(h)
           /\ dir' = Append(before.dir, h)
           /\ last' = IF IsDirectory(fh) THEN 0 ELSE Len(dir')
           /\ given' = Append(given, r)
           /\ wpc' = wpc
  <2>1. last' = IF IsDirectory(fh) THEN 0 ELSE Len(Append(before.dir, h))
    BY <1>6
  <2>2. Entries(before.out \o LocalHeader(h), Append(before.dir, h), last', <<>>,
                Append(given, r))
    BY <1>2, <1>6, <2>1, EntryCreated DEF h
  <2>3. Entries(out', dir', last', body', given')
    BY <1>1, <1>6, <2>2
  <2>. QED  BY <1>3, <1>6, <2>3 DEF OpenInv, WriterInv
<1>. QED  BY <1>1, <1>4, <1>5, <1>6, Zenon DEF Created

\* Write keeps the invariant.
LEMMA WriteSteps ==
  ASSUME OpenInv, NEW chunk \in Chunks, Write(chunk)
  PROVE  WriterInv'
<1>. DEFINE l == last
            h == dir[l]
            x == [header |-> given[l].header, content |-> given[l].content \o chunk]
<1>1. /\ last # 0 /\ body' = body \o chunk /\ last' = last /\ dir' = dir /\ wpc' = wpc
      /\ caller' = caller /\ comment' = comment
      /\ out' = IF h.method = "Deflate" THEN out ELSE out \o chunk
      /\ given' = [given EXCEPT ![Len(given)].content = @ \o chunk]
  BY DEF Write
<1>2. IsSequence(chunk)
  BY PlanAssumption
<1>3. /\ IsSequence(out) /\ IsSequence(dir) /\ IsSequence(given) /\ Len(dir) = Len(given)
      /\ l # 0 /\ l = Len(dir)
      /\ \A k \in 1 .. Len(dir) : k # l =>
           ClosedEntry(out, dir[k], given[k].header, given[k].content)
      /\ \A k \in 1 .. Len(dir) : k = l =>
           OpenEntry(out, dir[k], given[k].header, given[k].content, body)
      /\ \A k \in 1 .. Len(dir) : IsGiven(given[k])
  BY <1>1, Zenon DEF OpenInv, Entries
<1>4. l \in 1 .. Len(dir) /\ l \in 1 .. Len(given) /\ l = Len(given)
  BY <1>3, SequenceFacts
<1>5. OpenEntry(out, h, given[l].header, given[l].content, body) /\ IsGiven(given[l])
  BY <1>3, <1>4
<1>6. given[l].content = body
  BY <1>5, Zenon DEF OpenEntry
<1>7. /\ OpenEntry(out', h, given[l].header, body', body') /\ IsSequence(out')
  <2>1. OpenEntry(out, h, given[l].header, body, body)
    BY <1>5, <1>6
  <2>. HIDE DEF h
  <2>2. /\ OpenEntry(out', h, given[l].header, body \o chunk, body \o chunk) /\ IsSequence(out')
    BY <1>1, <1>2, <1>3, <2>1, EntryWritten, Zenon
  <2>. QED  BY <1>1, <2>2
<1>. HIDE DEF x
<1>8. given' = [given EXCEPT ![l] = x] /\ IsGiven(x) /\ x.header = given[l].header
      /\ x.content = body'
  <2>1. given' = GivenWith(given, l, chunk)
    BY <1>1, <1>4 DEF GivenWith
  <2>2. GivesMore(given, l, chunk)
    BY <1>3, <1>4, <1>5, GivenMore, Zenon
  <2>3. /\ GivenWith(given, l, chunk) = [given EXCEPT ![l] = x] /\ IsGiven(x)
        /\ x.header = given[l].header /\ x.content = given[l].content \o chunk
    BY <2>2, Zenon DEF GivesMore, RecordWith, x
  <2>. QED  BY <1>1, <1>6, <2>1, <2>3
<1>9. IsReplaced(given, l, x, given')
  BY <1>3, <1>4, <1>8, ReplacedIs
<1>10. /\ IsSequence(given') /\ Len(given') = Len(given) /\ given'[l] = x
       /\ \A k \in 1 .. Len(given) : k # l => given'[k] = given[k]
  BY <1>9, Zenon DEF IsReplaced
<1>11. ASSUME NEW k \in 1 .. Len(dir), k # l
       PROVE  ClosedEntry(out', dir[k], given[k].header, given[k].content)
  <2>1. ClosedEntry(out, dir[k], given[k].header, given[k].content)
    BY <1>3, <1>11, Zenon
  <2>2. out' = out \/ out' = out \o chunk
    BY <1>1
  <2>3. ClosedEntry(out \o chunk, dir[k], given[k].header, given[k].content)
    BY <1>2, <1>3, <2>1, ClosedEntryStays, Zenon
  <2>. QED  BY <2>1, <2>2, <2>3
<1>12. ASSUME NEW k \in 1 .. Len(dir')
       PROVE  /\ k # last' => ClosedEntry(out', dir'[k], given'[k].header, given'[k].content)
              /\ k = last' => OpenEntry(out', dir'[k], given'[k].header, given'[k].content, body')
              /\ IsGiven(given'[k])
  <2>0. k \in 1 .. Len(dir) /\ dir' = dir /\ last' = l
    BY <1>1
  <2>1. CASE k # l
    <3>1. given'[k] = given[k] /\ IsGiven(given[k])
      BY <1>3, <1>10, <2>0, <2>1
    <3>2. ClosedEntry(out', dir[k], given[k].header, given[k].content)
      BY <1>11, <2>0, <2>1
    <3>. QED  BY <2>0, <2>1, <3>1, <3>2
  <2>2. CASE k = l
    <3>1. given'[k] = x /\ IsGiven(x) /\ x.header = given[l].header /\ x.content = body'
      BY <1>8, <1>10, <2>2
    <3>2. OpenEntry(out', dir'[k], given'[k].header, given'[k].content, body')
      BY <1>7, <2>0, <2>2, <3>1
    <3>. QED  BY <2>0, <2>2, <3>1, <3>2
  <2>. QED  BY <2>1, <2>2
<1>13. /\ IsSequence(dir') /\ Len(dir') = Len(given') /\ last' # 0 /\ last' = Len(dir')
  BY <1>1, <1>3, <1>10
<1>14. Entries(out', dir', last', body', given')
  BY <1>7, <1>10, <1>12, <1>13, Zenon DEF Entries
<1>. QED  BY <1>1, <1>14 DEF OpenInv, WriterInv, CommentFits

SetsFit(d) ==
  \A k \in DOMAIN d : Len(CentralExtra(d[k])) <= uint16max /\ Len(d[k].comment) <= uint16max

\* Headers whose files are closed fit in the directory if their fields and
\* comments still do.
LEMMA ClosedFits ==
  ASSUME NEW o, NEW d, NEW g, AllClosed(o, d, g), SetsFit(d)
  PROVE  DirectoryFits(d)
<1>1. IsSequence(d) /\ DOMAIN d = 1 .. Len(d)
  BY SequenceFacts DEF AllClosed
<1>2. ASSUME NEW k \in 1 .. Len(d) PROVE Fits(d[k])
  <2>1. Prepares(d[k], g[k].header) /\ Sized(d[k])
    BY Zenon DEF AllClosed, ClosedEntry
  <2>2. /\ IsFields(d[k].extra) /\ IsTexts(d[k].name) /\ IsTexts(d[k].comment)
        /\ Len(d[k].name) <= uint16max
    BY <2>1, PreparedExtra
  <2>3. Len(CentralExtra(d[k])) <= uint16max /\ Len(d[k].comment) <= uint16max
    BY <1>1 DEF SetsFit
  <2>. QED  BY <2>1, <2>2, <2>3, Zenon DEF Fits
<1>. QED  BY <1>1, <1>2, Zenon DEF DirectoryFits

\* SetComment keeps the invariant.
LEMMA SetCommentSteps ==
  ASSUME OpenInv, NEW text \in Comments, SetComment(text)
  PROVE  WriterInv'
<1>1. /\ comment' = text /\ Len(text) <= uint16max
      /\ caller' = caller /\ out' = out /\ dir' = dir /\ last' = last /\ body' = body
      /\ wpc' = wpc /\ given' = given
  BY DEF SetComment
<1>2. IsTexts(text)
  BY PlanAssumption
<1>. QED  BY <1>1, <1>2 DEF OpenInv, WriterInv, CommentFits

\* Close writes the directory and the end records.
LEMMA CloseSteps ==
  ASSUME OpenInv, Close
  PROVE  WriterInv'
<1>. DEFINE o == ClosedFile.out
            d == ClosedFile.dir
            s == Directory(d)
            e == EndRecords(Len(d), Len(s), Len(o))
<1>1. /\ out' = (o \o s) \o e /\ dir' = d /\ wpc' = "closed" /\ comment' = comment
      /\ given' = given
  BY Zenon DEF Close
<1>2. AllClosed(o, d, given) /\ CommentFits
  BY ClosedFileIs DEF OpenInv
<1>. HIDE DEF o, d
<1>3. ASSUME LengthsFit'
      PROVE  /\ CommentFits' /\ AllClosed(out', dir', given')
             /\ (\E base : Closes(out, dir, base))'
  <2>1. SetsFit(d)
    BY <1>1, <1>3 DEF LengthsFit, SetsFit
  <2>2. DirectoryFits(d)
    BY <1>2, <2>1, ClosedFits
  <2>3. IsSequence(s) /\ IsSequence(e)
    BY <1>2, <2>2, DirectoryIsSequence, EndRecordsIs, Zenon
  <2>4. IsSequence(o)
    BY <1>2, Zenon DEF AllClosed
  <2>5. AllClosed(o \o s, d, given)
    BY <1>2, <2>3, AllClosedStays
  <2>6. AllClosed((o \o s) \o e, d, given)
    BY <2>3, <2>5, AllClosedStays
  <2>. HIDE DEF s
  <2>7. Joins(o, s, o \o s) /\ Stands(o \o s, Len(o), s)
    BY <2>3, <2>4, Joined, StandsLast, Zenon
  <2>8. IsSequence(o \o s) /\ Len(o \o s) = Len(o) + Len(s)
    BY <2>7, Zenon DEF Joins
  <2>9. /\ Joins(o \o s, e, (o \o s) \o e) /\ Stands((o \o s) \o e, Len(o \o s), e)
        /\ Stands((o \o s) \o e, Len(o), s)
    BY <2>3, <2>7, <2>8, Joined, StandsLast, StandsStill, Zenon
  <2>10. /\ Stands(out', Len(o), s) /\ Stands(out', Len(o) + Len(s), e)
         /\ Len(o) + Len(s) + Len(e) = Len(out')
    BY <1>1, <2>8, <2>9, Zenon DEF Joins
  <2>11. PICK n, m, b : n = Len(d) /\ m = Len(s) /\ b = Len(o)
    OBVIOUS
  <2>12. EndRecords(n, m, b)' = EndRecords(n, m, b)
    BY <1>1 DEF EndRecords, End
  <2>13. Len(dir') = n /\ Len(Directory(dir')) = m
    BY <1>1, <2>11 DEF s
  <2>14. Stands(out', b, Directory(dir'))
    BY <1>1, <2>10, <2>11 DEF s
  <2>15. /\ Stands(out', b + Len(Directory(dir')), EndRecords(n, m, b)')
         /\ b + Len(Directory(dir')) + Len(EndRecords(n, m, b)') = Len(out')
    BY <2>10, <2>11, <2>12, <2>13
  <2>16. Closes(out, dir, b)'
    BY <2>13, <2>14, <2>15, Zenon DEF Closes
  <2>. QED  BY <1>1, <1>2, <2>6, <2>16, Zenon DEF CommentFits
<1>. QED  BY <1>1, <1>3, Zenon DEF ClosedInv, WriterInv

LEMMA WriterStands == WriterInv /\ UNCHANGED wvars => WriterInv'
BY DEF WriterInv, OpenInv, ClosedInv, CommentFits, LengthsFit, Closes, EndRecords, End, wvars

\* Every step of the writer keeps the invariant.
LEMMA WriterSteps == WriterInv /\ WNext => WriterInv'
<1>. SUFFICES ASSUME WriterInv, WNext PROVE WriterInv'
  OBVIOUS
<1>1. wpc = "open"
  BY Zenon DEF WNext, CreateHeader, Write, SetComment, Close
<1>2. OpenInv
  BY <1>1 DEF WriterInv, ClosedInv
<1>3. ASSUME Len(given) < Len(Plan[caller].headers),
             NEW fh \in Plan[caller].headers[Len(given) + 1], CreateHeader(fh)
      PROVE  WriterInv'
  <2>1. caller \in DOMAIN Plan /\ IsSequence(given)
    BY <1>2, Zenon DEF OpenInv, Entries
  <2>. DEFINE headers == Plan[caller].headers
  <2>2. IsSequence(headers) /\ \A n \in DOMAIN headers : \A g \in headers[n] : IsHeader(g)
    BY <2>1, PlanAssumption, Zenon
  <2>3. Len(given) \in Nat /\ Len(headers) \in Nat /\ DOMAIN headers = 1 .. Len(headers)
    BY <2>1, <2>2, SequenceFacts
  <2>4. Len(given) + 1 \in DOMAIN headers
    <3>1. \A m, n \in Nat : m < n => m + 1 \in 1 .. n
      OBVIOUS
    <3>. QED  BY <1>3, <2>3, <3>1
  <2>5. IsHeader(fh)
    BY <1>3, <2>2, <2>4, Zenon
  <2>. QED  BY <1>2, <1>3, <2>5, CreateHeaderSteps
<1>. QED  BY <1>2, <1>3, WriteSteps, SetCommentSteps, CloseSteps, Zenon DEF WNext

\* The file that is read whole is the one that was written.
FileInv ==
  fate = "whole" => wpc = "closed" /\ file = out /\ opened = OpenReader(file)

ArchiveInv == WriterInv /\ FileInv

LEMMA ArchiveStarts == PackageInit => ArchiveInv
BY WriterStarts DEF PackageInit, Init, ArchiveInv, FileInv

\* A file that reaches the disk whole is what is read.
LEMMA FileOpened ==
  ASSUME Open PROVE FileInv'
<1>1. wpc' = "closed" /\ out' = out /\ opened' = OpenReader(file')
  BY DEF Open, wvars
<1>2. fate' = "whole" => file' = out
  BY Zenon DEF Open, Keep, Cut, Damage
<1>3. OpenReader(file)' = OpenReader(file')
  OBVIOUS
<1>. QED  BY <1>1, <1>2, <1>3 DEF FileInv

\* Every step of the package keeps the invariant.
LEMMA ArchiveSteps == ArchiveInv /\ [PackageNext]_<<side, vars, poolVars>> => ArchiveInv'
<1>. SUFFICES ASSUME ArchiveInv, [PackageNext]_<<side, vars, poolVars>> PROVE ArchiveInv'
  OBVIOUS
<1>1. CASE WNext /\ UNCHANGED <<file, fate, opened>>
  <2>1. fate # "whole"
    BY <1>1, Zenon DEF ArchiveInv, FileInv, WNext, CreateHeader, Write, SetComment, Close
  <2>. QED  BY <1>1, <2>1, WriterSteps DEF ArchiveInv, FileInv
<1>2. CASE Open
  <2>1. UNCHANGED wvars
    BY <1>2 DEF Open
  <2>. QED  BY <1>2, <2>1, FileOpened, WriterStands DEF ArchiveInv
<1>3. CASE UNCHANGED vars
  <2>1. UNCHANGED <<wvars, file, fate, opened>>
    BY <1>3 DEF vars
  <2>2. wpc' = wpc /\ out' = out
    BY <2>1 DEF wvars
  <2>. QED  BY <2>1, <2>2, WriterStands DEF ArchiveInv, FileInv
<1>. QED  BY <1>1, <1>2, <1>3, Zenon DEF PackageNext, Next, Ended

-----------------------------------------------------------------------------
(* What is read of an archive that is whole.                               *)

\* A file of the archive, and what was given for it.
ReadEntry(k) ==
  /\ opened.files[k] = FileOf(dir[k]) /\ Fits(dir[k])
  /\ ClosedEntry(file, dir[k], given[k].header, given[k].content)

\* An archive that was closed and is whole is opened with an entry for every
\* file that was given.
LEMMA WholeIsRead ==
  ASSUME ArchiveInv, fate = "whole", LengthsFit
  PROVE  /\ opened.err = "none" /\ opened.comment = comment /\ IsSequence(file)
         /\ Len(opened.files) = Len(given)
         /\ \A k \in DOMAIN given : ReadEntry(k)
<1>1. file = out /\ opened = OpenReader(file) /\ wpc = "closed"
  BY DEF ArchiveInv, FileInv
<1>2. ClosedInv
  BY <1>1 DEF ArchiveInv, WriterInv, OpenInv
<1>3. CommentFits /\ AllClosed(file, dir, given)
  BY <1>1, <1>2 DEF ClosedInv
<1>4. PICK base : Closes(file, dir, base)
  BY <1>1, <1>2 DEF ClosedInv
<1>5. SetsFit(dir)
  BY DEF SetsFit, LengthsFit
<1>6. DirectoryFits(dir)
  BY <1>3, <1>5, ClosedFits
<1>7. IsSequence(file) /\ IsSequence(given) /\ IsSequence(dir) /\ Len(dir) = Len(given)
  BY <1>3, Zenon DEF AllClosed
<1>8. opened = Reopened(dir)
  BY <1>1, <1>3, <1>4, <1>6, <1>7, ArchiveOpens
<1>. DEFINE files == FilesOf(dir)
            n == Len(dir)
<1>9. opened.err = "none" /\ opened.files = files /\ opened.comment = comment
  BY <1>8, Zenon DEF Reopened
<1>10. n \in Nat /\ DOMAIN given = 1 .. n
  BY <1>7, SequenceFacts
<1>11. files = [k \in 1 .. n |-> FileOf(dir[k])]
  BY DEF FilesOf
<1>. HIDE DEF n, files
<1>12. /\ files = [k \in 1 .. n |-> files[k]]
       /\ \A k \in 1 .. n : files[k] = FileOf(dir[k])
  BY <1>11
<1>13. Len(files) = n
  BY <1>10, <1>12, FunctionIsSequence
<1>14. ASSUME NEW k \in 1 .. n PROVE ReadEntry(k)
  <2>1. Fits(dir[k]) /\ ClosedEntry(file, dir[k], given[k].header, given[k].content)
    BY <1>3, <1>6, <1>14, Zenon DEF AllClosed, DirectoryFits, n
  <2>. QED  BY <1>9, <1>12, <1>14, <2>1 DEF ReadEntry
<1>. QED  BY <1>7, <1>9, <1>10, <1>13, <1>14 DEF n

LEMMA PrefixOfPrefix ==
  ASSUME NEW s, NEW t, NEW u, IsPrefix(s, t), IsPrefix(t, u), IsSequence(t)
  PROVE  IsPrefix(s, u)
BY DEF IsPrefix

\* An entry is read back as it was given.
LEMMA EntryReadBack ==
  ASSUME IsSequence(file), NEW h, NEW r, Fits(h), ClosedEntry(file, h, r.header, r.content)
  PROVE  IsReadBack(FileOf(h), r)
<1>. DEFINE f == FileOf(h)
            fh == r.header
            content == r.content
            local == [err |-> "none", extra |-> h.extra]
<1>1. /\ Prepares(h, fh) /\ Describes(h, content)
      /\ HeaderThere(file, h) /\ BodyThere(file, h, content)
  BY Zenon DEF ClosedEntry
<1>2. ReadAll(file, f) = [err |-> "none", data |-> content] /\ LocalExtraField(file, f) = local
  BY <1>1, BodyRead, LocalExtraRead
<1>3. /\ f.name = h.name /\ f.comment = h.comment /\ f.method = h.method
      /\ f.extra = CentralExtra(h) /\ f.usize = h.usize64
  BY DEF FileOf
<1>4. IsPrefix(fh.extra, h.extra) /\ IsPrefix(h.extra, f.extra) /\ IsSequence(h.extra)
  BY <1>1, <1>3, PreparedExtra, CentralExtraIs DEF IsFields
<1>5. IsPrefix(fh.extra, f.extra)
  BY <1>4, PrefixOfPrefix
<1>6. local.err = "none" /\ local.extra = h.extra
  OBVIOUS
<1>. HIDE DEF f, local
<1>7. /\ f.name = fh.name /\ f.comment = fh.comment
      /\ f.method = IF IsDirectory(fh) THEN "Store" ELSE fh.method
      /\ f.usize = Len(content)
  BY <1>1, <1>3, Zenon DEF Prepares, Describes
<1>. QED  BY <1>2, <1>4, <1>5, <1>6, <1>7, Zenon DEF IsReadBack, f

\* An archive that is whole is read back.
LEMMA WholeIsReadBack == ArchiveInv => ClosedIsReadBack
<1>. SUFFICES ASSUME ArchiveInv, fate = "whole", LengthsFit PROVE ReadBackWhole
  BY DEF ClosedIsReadBack
<1>1. /\ opened.err = "none" /\ opened.comment = comment /\ IsSequence(file)
      /\ Len(opened.files) = Len(given)
      /\ \A k \in DOMAIN given : ReadEntry(k)
  BY WholeIsRead
<1>2. ASSUME NEW k \in DOMAIN given PROVE IsReadBack(opened.files[k], given[k])
  <2>1. /\ opened.files[k] = FileOf(dir[k]) /\ Fits(dir[k])
        /\ ClosedEntry(file, dir[k], given[k].header, given[k].content)
    BY <1>1, <1>2, Zenon DEF ReadEntry
  <2>2. IsReadBack(FileOf(dir[k]), given[k])
    BY <1>1, <2>1, EntryReadBack
  <2>. QED  BY <2>1, <2>2
<1>. QED  BY <1>1, <1>2, Zenon DEF ReadBackWhole

\* The encodings survive: the flag of a header says what its texts do not.
LEMMA WholeHasEncodings == ArchiveInv => EncodingSurvives
<1>. SUFFICES ASSUME ArchiveInv, fate = "whole", LengthsFit, NEW k \in DOMAIN given
     PROVE  LET fh == given[k].header
                parts == {detectUTF8(fh.name), detectUTF8(fh.comment)}
            IN opened.files[k].nonUTF8 =
                 (\/ \E part \in parts : ~part.valid
                  \/ fh.nonUTF8 /\ \E part \in parts : part.require)
  BY DEF EncodingSurvives
<1>. DEFINE h == dir[k]
            fh == given[k].header
            name == detectUTF8(fh.name)
            note == detectUTF8(fh.comment)
<1>1. opened.files[k] = FileOf(h) /\ Prepares(h, fh)
  BY WholeIsRead, Zenon DEF ReadEntry, ClosedEntry
<1>2. h.name = fh.name /\ h.comment = fh.comment /\ h.utf8 = Utf8Flag(fh) /\ IsHeader(fh)
  BY <1>1, Zenon DEF Prepares
<1>3. opened.files[k].nonUTF8 = NonUTF8(name, note, Utf8Flag(fh))
  BY <1>1, <1>2 DEF FileOf
<1>4. fh.utf8 \in BOOLEAN /\ fh.nonUTF8 \in BOOLEAN
  BY <1>2 DEF IsHeader
<1>5. name.valid \in BOOLEAN /\ name.require \in BOOLEAN
      /\ note.valid \in BOOLEAN /\ note.require \in BOOLEAN
  BY DEF detectUTF8
<1>6. (name.require => name.valid) /\ (note.require => note.valid)
  BY DEF detectUTF8
<1>7. Utf8Flag(fh) = IF fh.nonUTF8 THEN FALSE
                     ELSE fh.utf8 \/ ((name.require \/ note.require) /\ name.valid /\ note.valid)
  BY Zenon DEF Utf8Flag
<1>8. NonUTF8(name, note, Utf8Flag(fh)) =
        (\/ ~name.valid \/ ~note.valid
         \/ (name.require \/ note.require) /\ ~Utf8Flag(fh))
  BY Zenon DEF NonUTF8
<1>. HIDE DEF name, note, fh, h
<1>9. (\E part \in {name, note} : ~part.valid) = (~name.valid \/ ~note.valid)
  OBVIOUS
<1>10. (\E part \in {name, note} : part.require) = (name.require \/ note.require)
  BY <1>5
<1>11. NonUTF8(name, note, Utf8Flag(fh)) =
         (\/ ~name.valid \/ ~note.valid
          \/ fh.nonUTF8 /\ (name.require \/ note.require))
  BY <1>4, <1>5, <1>6, <1>7, <1>8
<1>. QED  BY <1>3, <1>9, <1>10, <1>11, Zenon DEF name, note, fh

-----------------------------------------------------------------------------
(* The time of a file.                                                     *)

\* Whole quotients.
LEMMA QuotientIs ==
  ASSUME NEW n \in Int, NEW d \in Nat \ {0}
  PROVE  /\ n \div d \in Int /\ n % d \in 0 .. d - 1 /\ n = d * (n \div d) + (n % d)
         /\ n \in Nat => n \div d \in Nat
         /\ n \in 0 .. d - 1 => n % d = n
OBVIOUS

\* A quotient is known by its bounds.
LEMMA QuotientOf ==
  ASSUME NEW n \in Int, NEW d \in Nat \ {0}, NEW q \in Int, d * q <= n, n < d * (q + 1)
  PROVE  n \div d = q
<1>1. PICK r : r = n - d * q
  OBVIOUS
<1>2. r \in 0 .. d - 1 /\ n = d * q + r
  BY <1>1
<1>. QED  BY <1>2

\* What an MS-DOS time lacks of the time of a zone does not change the zone.
LEMMA ZoneRounded ==
  ASSUME NEW zone \in Int, zone % Alias = 0, NEW r \in 0 .. Resolution - 1
  PROVE  RoundedToAlias(zone - r) = zone
<1>1. Alias \in Nat \ {0} /\ Resolution \in Nat \ {0} /\ 2 * Resolution <= Alias
  BY TimesAssumption
<1>2. PICK m \in Int : zone = Alias * m
  <2>. DEFINE q == zone \div Alias
  <2>1. q \in Int /\ zone = Alias * q + (zone % Alias)
    BY <1>1, QuotientIs
  <2>. HIDE DEF q
  <2>2. zone = Alias * q
    <3>1. PICK k \in Int : k = Alias * q
      BY <1>1, <2>1
    <3>. QED  BY <2>1, <3>1
  <2>. QED  BY <2>1, <2>2
<1>3. PICK p \in Int : p = 2 * r
  BY <1>1
<1>4. 0 <= p /\ p < Alias
  BY <1>1, <1>3
<1>5. CASE zone - r >= 0
  <2>. DEFINE n == 2 * (zone - r) + Alias
              d == 2 * Alias
  <2>1. PICK k \in Int : k = Alias * m
    BY <1>1
  <2>2. n = 2 * k - p + Alias /\ d * m = 2 * k /\ d * (m + 1) = 2 * k + 2 * Alias
    BY <1>1, <1>2, <1>3, <2>1
  <2>3. d * m <= n /\ n < d * (m + 1) /\ n \in Int /\ d \in Nat \ {0}
    BY <1>1, <1>4, <2>1, <2>2
  <2>4. n \div d = m
    <3>. HIDE DEF n, d
    <3>. QED  BY <2>3, QuotientOf
  <2>5. RoundedToAlias(zone - r) = m * Alias
    BY <1>5, <2>4 DEF RoundedToAlias
  <2>. QED  BY <1>1, <1>2, <2>5
<1>6. CASE ~(zone - r >= 0)
  <2>. DEFINE n == 2 * (-(zone - r)) + Alias
              d == 2 * Alias
  <2>1. PICK k \in Int : k = Alias * m
    BY <1>1
  <2>2. n = p - 2 * k + Alias /\ d * (-m) = -(2 * k) /\ d * (-m + 1) = 2 * Alias - 2 * k
    BY <1>1, <1>2, <1>3, <2>1
  <2>3. d * (-m) <= n /\ n < d * (-m + 1) /\ n \in Int /\ d \in Nat \ {0}
    BY <1>1, <1>4, <2>1, <2>2
  <2>4. n \div d = -m
    <3>. HIDE DEF n, d
    <3>. QED  BY <2>3, QuotientOf
  <2>5. RoundedToAlias(zone - r) = -((-m) * Alias)
    BY <1>6, <2>4 DEF RoundedToAlias
  <2>. QED  BY <1>1, <1>2, <2>5
<1>. QED  BY <1>5, <1>6

\* The MS-DOS time of an instant is not the one without a date, and lacks less
\* than a step if it can hold the year.
LEMMA DosTimeIs ==
  ASSUME NEW t, t.at \in Int, t.zone \in Int, NEW dos, dos = timeToMsDosTime(t)
  PROVE  /\ dos \in Nat \ {0}
         /\ t.at + t.zone \in DosFirst .. DosFirst + DosSpan - 1 =>
              \E r \in 0 .. Resolution - 1 : msDosTimeToTime(dos) - t.at = t.zone - r
<1>. DEFINE x == t.at + t.zone - DosFirst
            y == x % DosSpan
            q == y \div Resolution
<1>1. /\ DosSpan \in Nat \ {0} /\ Resolution \in Nat \ {0} /\ DosFirst \in Int
  BY TimesAssumption
<1>2. x \in Int
  BY <1>1
<1>3. dos = 1 + q
  BY DEF timeToMsDosTime
<1>. HIDE DEF x
<1>4. y \in Nat /\ (x \in 0 .. DosSpan - 1 => y = x)
  <2>1. y \in 0 .. DosSpan - 1 /\ (x \in 0 .. DosSpan - 1 => y = x)
    BY <1>1, <1>2, QuotientIs
  <2>. HIDE DEF y
  <2>. QED  BY <1>1, <2>1
<1>. HIDE DEF y
<1>5. q \in Nat /\ y % Resolution \in 0 .. Resolution - 1 /\ y = Resolution * q + (y % Resolution)
  <2>1. y \in Int
    BY <1>4
  <2>. QED  BY <1>1, <1>4, <2>1, QuotientIs
<1>. HIDE DEF q
<1>6. dos \in Nat \ {0}
  BY <1>3, <1>5
<1>7. ASSUME t.at + t.zone \in DosFirst .. DosFirst + DosSpan - 1
      PROVE  \E r \in 0 .. Resolution - 1 : msDosTimeToTime(dos) - t.at = t.zone - r
  <2>1. y = x
    BY <1>1, <1>4, <1>7 DEF x
  <2>2. PICK r \in 0 .. Resolution - 1 : y = Resolution * q + r
    BY <1>5
  <2>3. PICK k \in Int : k = Resolution * q
    BY <1>1, <1>5
  <2>4. msDosTimeToTime(dos) = DosFirst + k
    BY <1>1, <1>3, <1>5, <2>3 DEF msDosTimeToTime
  <2>5. t.at + t.zone - DosFirst = k + r
    BY <2>1, <2>2, <2>3 DEF x
  <2>6. msDosTimeToTime(dos) - t.at = t.zone - r
    BY <1>1, <2>3, <2>4, <2>5
  <2>. QED  BY <2>6
<1>. QED  BY <1>6, <1>7

TimeTags == {"extTime", "unix", "ntfs"}
TimeOf(extra) == extra[Max(FieldsOf(extra, TimeTags))].values[1]

\* The timestamp that the writer adds is the last field that holds a time.
LEMMA TimeField ==
  ASSUME NEW h, NEW fh, Prepares(h, fh), fh.dated
  PROVE  /\ FieldsOf(CentralExtra(h), TimeTags) # {}
         /\ TimeOf(CentralExtra(h)) = fh.modified.at % TimeWidth
<1>. DEFINE s == fh.extra
            t == h.extra
            u == CentralExtra(h)
            off == fh.modified.at % TimeWidth
            x == Extra("extTime", <<off>>)
            v == <<h.usize64, h.csize64, h.offset>>
            n == Len(s) + 1
            sFields == FieldsOf(s, TimeTags)
            tFields == FieldsOf(t, TimeTags)
            uFields == FieldsOf(u, TimeTags)
<1>1. IsFields(s) /\ IsFields(t) /\ t = Append(s, x)
  BY PreparedExtra DEF Prepares, IsHeader, IsFields
<1>2. /\ Len(t) = n /\ t[n] = x /\ tFields = sFields \cup {n} /\ sFields \subseteq 1 .. Len(s)
  <2>1. "extTime" \in TimeTags
    BY DEF TimeTags
  <2>. HIDE DEF off
  <2>. QED  BY <1>1, <2>1, FieldsOfAdded
<1>3. u[n] = x /\ uFields = tFields
  <2>1. CASE NeedsZip64(h)
    <3>1. u = Append(t, Extra("zip64", v))
      BY <2>1 DEF CentralExtra
    <3>2. "zip64" \notin TimeTags
      BY DEF TimeTags
    <3>3. uFields = tFields /\ \A k \in 1 .. Len(t) : u[k] = t[k]
      <4>0. IsFields(t)
        BY <1>1
      <4>. HIDE DEF v, t
      <4>1. /\ FieldsOf(Append(t, Extra("zip64", v)), TimeTags)
                 = FieldsOf(t, TimeTags) \cup (IF "zip64" \in TimeTags THEN {Len(t) + 1} ELSE {})
            /\ \A k \in 1 .. Len(t) : Append(t, Extra("zip64", v))[k] = t[k]
        BY <4>0, FieldsOfAdded
      <4>. HIDE DEF u
      <4>. QED  BY <3>1, <3>2, <4>1
    <3>4. n \in 1 .. Len(t)
      BY <1>1, <1>2, SequenceFacts DEF IsFields
    <3>. QED  BY <1>2, <3>3, <3>4
  <2>2. CASE ~NeedsZip64(h)
    BY <1>2, <2>2 DEF CentralExtra
  <2>. QED  BY <2>1, <2>2
<1>4. Len(s) \in Nat
  BY <1>1, SequenceFacts DEF IsFields
<1>5. x.values[1] = off
  BY DEF Extra
<1>. HIDE DEF s, t, u, x, off, sFields, tFields, uFields
<1>6. n \in uFields /\ n \in Int /\ \A y \in uFields : y \in Int /\ y <= n
  BY <1>2, <1>3, <1>4
<1>. HIDE DEF n
<1>7. Max(uFields) = n
  BY <1>6, MaxIs
<1>. QED  BY <1>3, <1>5, <1>6, <1>7 DEF TimeOf, u, uFields, off

\* The time of a file is read as it was given.
LEMMA TimeRead ==
  ASSUME NEW h, NEW fh, Prepares(h, fh), fh.dated, fh.modified.at \in 0 .. TimeWidth - 1
  PROVE  LET was == fh.modified
             now == FileOf(h).modified
             local == was.at + was.zone
         IN /\ now.at = was.at /\ now.fixed
            /\ /\ local \in DosFirst .. DosFirst + DosSpan - 1
               /\ was.zone % Alias = 0 /\ was.zone \in MinOffset .. MaxOffset
               => now.zone = was.zone
<1>. DEFINE was == fh.modified
            now == FileOf(h).modified
            dos == h.dos
            zone == was.zone
<1>1. dos = timeToMsDosTime(was) /\ was.at \in Int /\ zone \in Int
  BY DEF Prepares, IsHeader
<1>2. /\ dos \in Nat \ {0}
      /\ was.at + zone \in DosFirst .. DosFirst + DosSpan - 1 =>
           \E r \in 0 .. Resolution - 1 : msDosTimeToTime(dos) - was.at = zone - r
  BY <1>1, DosTimeIs
<1>3. /\ FieldsOf(CentralExtra(h), TimeTags) # {}
      /\ TimeOf(CentralExtra(h)) = was.at
  <2>1. was.at % TimeWidth = was.at
    BY <1>1, QuotientIs, TimesAssumption
  <2>. QED  BY <2>1, TimeField
<1>4. now = Modified(dos, CentralExtra(h))
  BY DEF FileOf
<1>. HIDE DEF was, now, dos, zone
<1>5. dos # 0
  BY <1>2
<1>6. now = [at |-> was.at, fixed |-> dos # 0,
             zone |-> IF dos = 0 THEN 0 ELSE timeZone(msDosTimeToTime(dos) - was.at)]
  BY <1>3, <1>4, Zenon DEF Modified, TimeOf, TimeTags
<1>7. now.at = was.at /\ now.fixed /\ now.zone = timeZone(msDosTimeToTime(dos) - was.at)
  BY <1>5, <1>6
<1>8. ASSUME was.at + zone \in DosFirst .. DosFirst + DosSpan - 1,
             zone % Alias = 0, zone \in MinOffset .. MaxOffset
      PROVE  now.zone = zone
  <2>1. PICK r \in 0 .. Resolution - 1 : msDosTimeToTime(dos) - was.at = zone - r
    BY <1>2, <1>8
  <2>2. RoundedToAlias(zone - r) = zone
    BY <1>1, <1>8, ZoneRounded
  <2>3. ~(zone < MinOffset \/ MaxOffset < zone)
    BY <1>1, <1>8, TimesAssumption
  <2>4. timeZone(zone - r) = zone
    BY <2>2, <2>3, Zenon DEF timeZone
  <2>. QED  BY <1>7, <2>1, <2>4
<1>. QED  BY <1>7, <1>8 DEF was, now, zone

\* The times survive.
LEMMA WholeHasTimes == ArchiveInv => TimesSurvive
<1>. SUFFICES ASSUME ArchiveInv, fate = "whole", LengthsFit, NEW k \in DOMAIN given,
                     given[k].header.dated, given[k].header.modified.at \in 0 .. TimeWidth - 1
     PROVE  LET was == given[k].header.modified
                now == opened.files[k].modified
                local == was.at + was.zone
            IN /\ now.at = was.at /\ now.fixed
               /\ /\ local \in DosFirst..DosFirst + DosSpan - 1
                  /\ was.zone % Alias = 0 /\ was.zone \in MinOffset..MaxOffset
                  => now.zone = was.zone
  BY DEF TimesSurvive
<1>1. opened.files[k] = FileOf(dir[k]) /\ Prepares(dir[k], given[k].header)
  BY WholeIsRead, Zenon DEF ReadEntry, ClosedEntry
<1>. QED  BY <1>1, TimeRead

\* An archive that was closed is read back exactly, whatever overflowed a field
\* on the way and wherever it begins in its file (writer.go:76-206 against
\* reader.go:96-131, 299-467, 509-563).
THEOREM ArchivesAreReadBack == PackageSpec => []ClosedIsReadBack
<1>1. PackageInit => ArchiveInv
  BY ArchiveStarts
<1>2. ArchiveInv /\ [PackageNext]_<<side, vars, poolVars>> => ArchiveInv'
  BY ArchiveSteps
<1>3. ArchiveInv => ClosedIsReadBack
  BY WholeIsReadBack
<1>. QED  BY <1>1, <1>2, <1>3, PTL DEF PackageSpec

\* The instant a file was modified at, and its zone where an MS-DOS date can hold
\* the year, survive (writer.go:295-320 against reader.go:405-449).
THEOREM TimesAreReadBack == PackageSpec => []TimesSurvive
<1>1. PackageInit => ArchiveInv
  BY ArchiveStarts
<1>2. ArchiveInv /\ [PackageNext]_<<side, vars, poolVars>> => ArchiveInv'
  BY ArchiveSteps
<1>3. ArchiveInv => TimesSurvive
  BY WholeHasTimes
<1>. QED  BY <1>1, <1>2, <1>3, PTL DEF PackageSpec

\* A name and a comment are taken for UTF-8 exactly if they are and the caller
\* did not say otherwise (writer.go:266-289, reader.go:333-349).
THEOREM EncodingsAreReadBack == PackageSpec => []EncodingSurvives
<1>1. PackageInit => ArchiveInv
  BY ArchiveStarts
<1>2. ArchiveInv /\ [PackageNext]_<<side, vars, poolVars>> => ArchiveInv'
  BY ArchiveSteps
<1>3. ArchiveInv => EncodingSurvives
  BY WholeHasEncodings
<1>. QED  BY <1>1, <1>2, <1>3, PTL DEF PackageSpec
=============================================================================
