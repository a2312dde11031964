------------------------------- MODULE ZipPool -------------------------------
(* The pools of decompressors and of compressors                               *)
(* (httrack/internal/go/zip/register.go:28-102).  A flate reader that a         *)
(* pooledFlateReader is done with is put into a sync.Pool and reset to another  *)
(* stream by the next newFlateReader.  Goroutines may share a pooledFlateReader *)
(* and call Read and Close at once: its mutex guards its field fr.  The pool of *)
(* flate writers is the same with Write for Read.                               *)
EXTENDS Integers, FiniteSets

CONSTANTS Procs,   \* goroutines
          Readers, \* the pooledFlateReaders there can be, each with a stream of its own
          Flates,  \* the flate readers there can be
          None     \* nil

ASSUME NoneAssumption == None \notin Procs \cup Readers \cup Flates

VARIABLES where, \* of each flate reader: "unused", "pool" or "out"
          src,   \* the reader whose stream a flate reader was last set to
          fr,    \* the field fr of each reader, None for nil
          mu,    \* the goroutine that holds the mutex of a reader
          pc,    \* what each goroutine is at
          at,    \* the reader it is at
          got    \* the flate reader it got from the pool

poolVars == <<where, src, fr, mu, pc, at, got>>

PoolInit ==
  /\ where = [f \in Flates |-> "unused"] /\ src = [f \in Flates |-> None]
  /\ fr = [r \in Readers |-> None] /\ mu = [r \in Readers |-> None]
  /\ pc = [p \in Procs |-> "idle"] /\ at = [p \in Procs |-> None]
  /\ got = [p \in Procs |-> None]

Goto(p, step) == pc' = [pc EXCEPT ![p] = step]
Unlock(p) == Goto(p, "idle") /\ mu' = [mu EXCEPT ![at[p]] = None]

---------------------------------------------------------------------------
\* The garbage collector takes flate readers out of the pool.
Drop(f) == /\ where[f] = "pool"
           /\ where' = [where EXCEPT ![f] = "unused"]
           /\ UNCHANGED <<src, fr, mu, pc, at, got>>

\* newFlateReader: a flate reader from the pool, to be reset, or a new one.
\* No other goroutine knows the reader before it is returned.
Get(p, r, f) == /\ pc[p] = "idle" /\ where[f] = "pool"
                /\ fr[r] = None /\ mu[r] = None /\ \A q \in Procs : at[q] # r
                /\ where' = [where EXCEPT ![f] = "out"]
                /\ Goto(p, "reset")
                /\ at' = [at EXCEPT ![p] = r] /\ got' = [got EXCEPT ![p] = f]
                /\ UNCHANGED <<src, fr, mu>>

Reset(p) == /\ pc[p] = "reset"
            /\ src' = [src EXCEPT ![got[p]] = at[p]]
            /\ fr' = [fr EXCEPT ![at[p]] = got[p]]
            /\ Goto(p, "idle") /\ got' = [got EXCEPT ![p] = None]
            /\ UNCHANGED <<where, mu, at>>

New(p, r, f) == /\ pc[p] = "idle" /\ where[f] = "unused"
                /\ fr[r] = None /\ mu[r] = None /\ \A q \in Procs : at[q] # r
                /\ where' = [where EXCEPT ![f] = "out"]
                /\ src' = [src EXCEPT ![f] = r] /\ fr' = [fr EXCEPT ![r] = f]
                /\ UNCHANGED <<mu, pc, at, got>>

---------------------------------------------------------------------------
\* Read and Close lock the reader; op is "read" or "close".
Lock(p, r, op) == /\ pc[p] = "idle" /\ mu[r] = None
                  /\ fr[r] # None \/ at[p] = r
                  /\ mu' = [mu EXCEPT ![r] = p] /\ at' = [at EXCEPT ![p] = r]
                  /\ Goto(p, op)
                  /\ UNCHANGED <<where, src, fr, got>>

\* Read: "Read after Close" if fr is nil, else the flate reader is at work
\* until the goroutine unlocks.
BeginRead(p) == /\ pc[p] = "read" /\ fr[at[p]] # None
                /\ Goto(p, "reading")
                /\ UNCHANGED <<where, src, fr, mu, at, got>>
ReadAfterClose(p) == /\ pc[p] = "read" /\ fr[at[p]] = None
                     /\ Unlock(p)
                     /\ UNCHANGED <<where, src, fr, at, got>>
EndRead(p) == /\ pc[p] = "reading"
              /\ Unlock(p)
              /\ UNCHANGED <<where, src, fr, at, got>>

\* Close: fr is closed, put into the pool and set to nil; a second Close finds
\* it nil.
BeginClose(p) == /\ pc[p] = "close" /\ fr[at[p]] # None
                 /\ Goto(p, "closing")
                 /\ UNCHANGED <<where, src, fr, mu, at, got>>
CloseAfterClose(p) == /\ pc[p] = "close" /\ fr[at[p]] = None
                      /\ Unlock(p)
                      /\ UNCHANGED <<where, src, fr, at, got>>
Put(p) == /\ pc[p] = "closing"
          /\ where' = [where EXCEPT ![fr[at[p]]] = "pool"]
          /\ Goto(p, "put")
          /\ UNCHANGED <<src, fr, mu, at, got>>
\* Mutant: the reader keeps what it has put into the pool.
KeepPut(p) == /\ pc[p] = "put"
              /\ Unlock(p)
              /\ UNCHANGED <<where, src, fr, at, got>>
SetNil(p) == /\ pc[p] = "put"
             /\ fr' = [fr EXCEPT ![at[p]] = None]
             /\ Unlock(p)
             /\ UNCHANGED <<where, src, at, got>>

Step(p) == \/ Reset(p)
           \/ \E r \in Readers : \/ \E f \in Flates : Get(p, r, f) \/ New(p, r, f)
                                 \/ \E op \in {"read", "close"} : Lock(p, r, op)
           \/ BeginRead(p) \/ ReadAfterClose(p) \/ EndRead(p)
           \/ BeginClose(p) \/ CloseAfterClose(p) \/ Put(p) \/ SetNil(p)

PoolNext == (\E p \in Procs : Step(p)) \/ (\E f \in Flates : Drop(f))
PoolSpec == PoolInit /\ [][PoolNext]_poolVars
---------------------------------------------------------------------------
PoolTypeOK ==
  /\ where \in [Flates -> {"unused", "pool", "out"}]
  /\ src \in [Flates -> Readers \cup {None}]
  /\ fr \in [Readers -> Flates \cup {None}] /\ mu \in [Readers -> Procs \cup {None}]
  /\ pc \in [Procs -> {"idle", "reset", "read", "reading", "close", "closing", "put"}]
  /\ at \in [Procs -> Readers \cup {None}] /\ got \in [Procs -> Flates \cup {None}]

AtWork(p) == pc[p] \in {"reading", "closing"}

\* A flate reader at work works for one goroutine, on the stream of the reader
\* that was called, and is not in the pool; whatever other goroutines read,
\* close or get from the pool (register.go:78-102: "guards Close and Read").
WorksAlone ==
  \A p \in Procs : AtWork(p) =>
    LET f == fr[at[p]]
    IN /\ f # None /\ src[f] = at[p] /\ where[f] = "out"
       /\ \A q \in Procs \ {p} : AtWork(q) => fr[at[q]] # f
       /\ \A q \in Procs : pc[q] = "reset" => got[q] # f
=============================================================================
