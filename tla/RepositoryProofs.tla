-------------------------- MODULE RepositoryProofs --------------------------
(***************************************************************************)
(* Proofs about Repository, for any keys, writers, readers, faults and     *)
(* sizes of bodies.                                                        *)
(***************************************************************************)
EXTENDS Repository, TLAPS

(***************************************************************************)
(* The inductive invariant.  That readers never fail is not inductive: it  *)
(* rests on what a temporary file holds when it is renamed, and so on what *)
(* each earlier step of its writer has made of it.                         *)
(***************************************************************************)

States ==
  {"new", "copy", "json", "header", "close", "rename", "remove"} \cup Ended

\* The temporary file of writer w is f when the writer is at s and has counted
\* n chunks.
FileAt(w, s, f, n) ==
  /\ s = "new" => n = 0
  /\ s \in {"new", "stored", "failed"} => f = None
  /\ s \in {"copy", "json", "header", "close", "rename"} =>
       f \in Contents /\ f.writer = w /\ f.body = n
  /\ s \in {"header", "close", "rename"} => f.jsonAt = n
  /\ s \in {"close", "rename"} => f.header \in Headers /\ f.header.size = n

WriterInv(w) ==
  written[w] <= hashed[w] /\ FileAt(w, wpc[w], dir[w], written[w])

\* The file of a key is a whole document.
KeyInv(k) == dir[k] # None => Opens(dir[k])

\* What was listed is still there.
ReaderInv(r) ==
  ~readFailed[r] /\ \A n \in todo[r] : n \in Keys /\ dir[n] # None

IInv ==
  /\ TypeOK
  /\ \A w \in Writers : WriterInv(w)
  /\ \A k \in Keys : KeyInv(k)
  /\ \A r \in Readers : ReaderInv(r)

-----------------------------------------------------------------------------
(* Steps that change one writer and its temporary file.                    *)

LEMMA OneWriter ==
  ASSUME IInv, NEW w \in Writers,
         NEW s \in States, NEW f \in Contents \cup {None},
         NEW h \in Sizes, NEW n \in Sizes, n <= h,
         FileAt(w, s, f, n),
         dir' = [dir EXCEPT ![w] = f],
         wpc' = [wpc EXCEPT ![w] = s],
         hashed' = [hashed EXCEPT ![w] = h],
         written' = [written EXCEPT ![w] = n],
         UNCHANGED readerVars
  PROVE  IInv'
<1>1. TypeOK'
  BY DEF IInv, TypeOK, States, Names, readerVars
<1>2. ASSUME NEW v \in Writers
      PROVE  WriterInv(v)'
  <2>1. CASE v = w
    <3>1. /\ wpc'[v] = s /\ dir'[v] = f
          /\ hashed'[v] = h /\ written'[v] = n
      BY <2>1 DEF IInv, TypeOK, Names
    <3>. QED  BY <2>1, <3>1 DEF WriterInv
  <2>2. CASE v # w
    <3>1. /\ wpc'[v] = wpc[v] /\ dir'[v] = dir[v]
          /\ hashed'[v] = hashed[v] /\ written'[v] = written[v]
      BY <2>2 DEF IInv, TypeOK, Names
    <3>2. WriterInv(v)
      BY DEF IInv
    <3>. QED  BY <3>1, <3>2 DEF WriterInv
  <2>. QED  BY <2>1, <2>2
<1>3. \A k \in Keys : dir'[k] = dir[k]
  BY KeysAssumption DEF IInv, TypeOK, Names
<1>4. \A k \in Keys : KeyInv(k)'
  BY <1>3 DEF IInv, KeyInv
<1>5. \A r \in Readers : ReaderInv(r)'
  BY <1>3 DEF IInv, ReaderInv, readerVars
<1>. QED  BY <1>1, <1>2, <1>4, <1>5 DEF IInv

\* Writing nothing is writing what is there.
LEMMA Same ==
  ASSUME TypeOK, NEW w \in Writers
  PROVE  /\ dir = [dir EXCEPT ![w] = dir[w]]
         /\ wpc = [wpc EXCEPT ![w] = wpc[w]]
         /\ hashed = [hashed EXCEPT ![w] = hashed[w]]
         /\ written = [written EXCEPT ![w] = written[w]]
         /\ dir[w] \in Contents \cup {None}
         /\ hashed[w] \in Sizes /\ written[w] \in Sizes
BY DEF TypeOK, Names

\* The same when nothing is counted; and when the file does not change either.
LEMMA Moves ==
  ASSUME IInv, NEW w \in Writers,
         NEW s \in States, NEW f \in Contents \cup {None},
         FileAt(w, s, f, written[w]),
         dir' = [dir EXCEPT ![w] = f],
         Goto(w, s),
         UNCHANGED <<hashed, written, readerVars>>
  PROVE  IInv'
<1>1. TypeOK /\ WriterInv(w)
  BY DEF IInv
<1>2. hashed[w] \in Sizes /\ written[w] \in Sizes /\ written[w] <= hashed[w]
  BY <1>1, Same DEF WriterInv
<1>3. /\ wpc' = [wpc EXCEPT ![w] = s]
      /\ hashed' = [hashed EXCEPT ![w] = hashed[w]]
      /\ written' = [written EXCEPT ![w] = written[w]]
  BY <1>1, Same DEF Goto
<1>. QED  BY <1>2, <1>3, OneWriter

LEMMA Stays ==
  ASSUME IInv, NEW w \in Writers, NEW s \in States,
         FileAt(w, s, dir[w], written[w]),
         Goto(w, s),
         UNCHANGED <<dir, hashed, written, readerVars>>
  PROVE  IInv'
<1>1. dir[w] \in Contents \cup {None} /\ dir' = [dir EXCEPT ![w] = dir[w]]
  BY Same DEF IInv
<1>. QED  BY <1>1, Moves

\* What is known of a writer that is at a place.
LEMMA At ==
  ASSUME IInv, NEW w \in Writers
  PROVE  /\ FileAt(w, wpc[w], dir[w], written[w])
         /\ dir[w] \in Contents \cup {None}
         /\ hashed[w] \in Sizes /\ written[w] \in Sizes
         /\ written[w] <= hashed[w]
BY Same DEF IInv, WriterInv

-----------------------------------------------------------------------------
(* The invariant is inductive.                                             *)

LEMMA InvInit == Init => IInv
<1>. SUFFICES ASSUME Init PROVE IInv
  OBVIOUS
<1>1. 0 \in Sizes
  BY KeysAssumption DEF Sizes
<1>2. TypeOK
  BY <1>1 DEF Init, TypeOK, Ended
<1>3. \A w \in Writers : WriterInv(w)
  BY <1>1 DEF Init, WriterInv, FileAt, Names, Sizes
<1>. QED  BY <1>2, <1>3 DEF Init, IInv, KeyInv, ReaderInv, Names

LEMMA NewWriterInv ==
  ASSUME IInv, NEW w \in Writers, NewWriter(w)
  PROVE  IInv'
<1>. DEFINE f == [writer |-> w, body |-> 0, jsonAt |-> None, header |-> None]
<1>1. wpc[w] = "new" /\ UNCHANGED <<hashed, written, readerVars>>
  BY DEF NewWriter
<1>2. written[w] = 0 /\ dir[w] = None
  BY <1>1, At DEF FileAt
<1>3. f \in Contents
  BY KeysAssumption DEF Sizes, Contents
<1>4. CASE dir' = [dir EXCEPT ![w] = f] /\ Goto(w, "copy")
  <2>1. FileAt(w, "copy", f, written[w])
    BY <1>2, <1>3 DEF FileAt
  <2>. QED  BY <1>1, <1>3, <1>4, <2>1, Moves DEF States
<1>5. CASE dir' = [dir EXCEPT ![w] = f] /\ Goto(w, "remove")
  <2>1. FileAt(w, "remove", f, written[w])
    BY DEF FileAt
  <2>. QED  BY <1>1, <1>3, <1>5, <2>1, Moves DEF States
<1>6. CASE UNCHANGED dir /\ Goto(w, "failed")
  <2>1. FileAt(w, "failed", dir[w], written[w])
    BY <1>2 DEF FileAt
  <2>. QED  BY <1>1, <1>6, <2>1, Stays DEF States, Ended
<1>. QED  BY <1>4, <1>5, <1>6 DEF NewWriter

LEMMA WriteInv ==
  ASSUME IInv, NEW w \in Writers, Write(w)
  PROVE  IInv'
<1>. DEFINE n == written[w] + 1
            f == [dir[w] EXCEPT !.body = dir[w].body + 1]
<1>1. /\ wpc[w] = "copy" /\ hashed[w] < MaxChunks
      /\ hashed' = [hashed EXCEPT ![w] = hashed[w] + 1]
      /\ UNCHANGED readerVars
  BY DEF Write
<1>2. FileAt(w, "copy", dir[w], written[w])
  BY <1>1, At
<1>3. hashed[w] + 1 \in Sizes /\ n \in Sizes /\ n <= hashed[w] + 1
  BY <1>1, At, KeysAssumption DEF Sizes
<1>4. CASE /\ written' = [written EXCEPT ![w] = n]
           /\ dir' = [dir EXCEPT ![w] = f]
           /\ UNCHANGED wpc
  <2>1. f \in Contents /\ f.writer = w /\ f.body = n
    BY <1>2, <1>3 DEF FileAt, Contents
  <2>2. FileAt(w, "copy", f, n)
    BY <2>1 DEF FileAt
  <2>3. wpc' = [wpc EXCEPT ![w] = "copy"]
    BY <1>1, <1>4, Same DEF IInv
  <2>. QED  BY <1>1, <1>3, <1>4, <2>1, <2>2, <2>3, OneWriter DEF States
<1>5. CASE Goto(w, "json") /\ UNCHANGED <<dir, written>>
  <2>1. FileAt(w, "json", dir[w], written[w])
    BY <1>2 DEF FileAt
  <2>2. /\ wpc' = [wpc EXCEPT ![w] = "json"]
        /\ dir' = [dir EXCEPT ![w] = dir[w]]
        /\ written' = [written EXCEPT ![w] = written[w]]
    BY <1>5, Same DEF IInv, Goto
  <2>3. written[w] <= hashed[w] + 1
    BY At DEF Sizes
  <2>. QED  BY <1>1, <1>3, <2>1, <2>2, <2>3, At, OneWriter DEF States
<1>. QED  BY <1>4, <1>5 DEF Write

LEMMA BeginCloseInv ==
  ASSUME IInv, NEW w \in Writers, BeginClose(w)
  PROVE  IInv'
<1>1. FileAt(w, "json", dir[w], written[w])
  BY At DEF BeginClose, FileAt
<1>. QED  BY <1>1, Stays DEF BeginClose, States

\* To give up is to remove the file, whatever it holds.
LEMMA GiveUp ==
  ASSUME IInv, NEW w \in Writers, NEW s \in {"remove", "abandoned"},
         Goto(w, s), UNCHANGED <<dir, hashed, written, readerVars>>
  PROVE  IInv'
<1>1. FileAt(w, s, dir[w], written[w]) /\ s \in States
  BY DEF FileAt, States, Ended
<1>. QED  BY <1>1, Stays

LEMMA WriteJSONInv ==
  ASSUME IInv, NEW w \in Writers, WriteJSON(w)
  PROVE  IInv'
<1>. DEFINE f == [dir[w] EXCEPT !.jsonAt = dir[w].body]
<1>1. FileAt(w, "json", dir[w], written[w])
  BY At DEF WriteJSON
<1>2. CASE dir' = [dir EXCEPT ![w] = f] /\ Goto(w, "header")
  <2>1. f \in Contents /\ f.writer = w /\ f.body = written[w] /\ f.jsonAt = written[w]
    BY <1>1 DEF FileAt, Contents
  <2>2. FileAt(w, "header", f, written[w])
    BY <2>1 DEF FileAt
  <2>. QED  BY <1>2, <2>1, <2>2, Moves DEF WriteJSON, States
<1>. QED  BY <1>2, GiveUp DEF WriteJSON

LEMMA WriteHeaderInv ==
  ASSUME IInv, NEW w \in Writers, WriteHeader(w)
  PROVE  IInv'
<1>. DEFINE h == [size |-> written[w], hashed |-> hashed[w]]
            f == [dir[w] EXCEPT !.header = h]
<1>1. FileAt(w, "header", dir[w], written[w])
  BY At DEF WriteHeader
<1>2. h \in Headers
  BY At DEF Headers
<1>3. CASE dir' = [dir EXCEPT ![w] = f] /\ Goto(w, "close")
  <2>1. /\ f \in Contents /\ f.writer = w /\ f.body = written[w]
        /\ f.jsonAt = written[w] /\ f.header = h
    BY <1>1, <1>2 DEF FileAt, Contents
  <2>2. FileAt(w, "close", f, written[w])
    BY <1>2, <2>1 DEF FileAt
  <2>. QED  BY <1>3, <2>1, <2>2, Moves DEF WriteHeader, States
<1>. QED  BY <1>3, GiveUp DEF WriteHeader

LEMMA CloseFileInv ==
  ASSUME IInv, NEW w \in Writers, CloseFile(w)
  PROVE  IInv'
<1>1. FileAt(w, "rename", dir[w], written[w])
  BY At DEF CloseFile, FileAt
<1>2. CASE Goto(w, "rename")
  BY <1>1, <1>2, Stays DEF CloseFile, States
<1>. QED  BY <1>2, GiveUp DEF CloseFile

LEMMA RemoveInv ==
  ASSUME IInv, NEW w \in Writers, Remove(w)
  PROVE  IInv'
<1>1. CASE dir' = [dir EXCEPT ![w] = None] /\ Goto(w, "failed")
  <2>1. FileAt(w, "failed", None, written[w])
    BY DEF FileAt
  <2>. QED  BY <1>1, <2>1, Moves DEF Remove, States, Ended
<1>. QED  BY <1>1, GiveUp DEF Remove

\* A file that is renamed is a whole document.
LEMMA RenamedOpens ==
  ASSUME IInv, NEW w \in Writers, wpc[w] = "rename"
  PROVE  /\ dir[w] \in Contents /\ dir[w].writer = w
         /\ dir[w].header \in Headers /\ Opens(dir[w])
<1>1. FileAt(w, "rename", dir[w], written[w])
  BY At
<1>. QED  BY <1>1, NoneAssumption DEF FileAt, Opens

LEMMA RenameInv ==
  ASSUME IInv, NEW w \in Writers, Rename(w)
  PROVE  IInv'
<1>. DEFINE k == KeyOfWriter[w]
<1>1. wpc[w] = "rename" /\ UNCHANGED <<hashed, written, readerVars>>
  BY DEF Rename
<1>2. k \in Keys /\ k \notin Writers
  BY KeysAssumption
<1>3. dir[w] \in Contents /\ Opens(dir[w])
  BY <1>1, RenamedOpens
<1>4. CASE /\ dir' = [dir EXCEPT ![k] = dir[w], ![w] = None]
           /\ Goto(w, "stored")
  <2>1. TypeOK'
    BY <1>1, <1>2, <1>3, <1>4
    DEF IInv, TypeOK, Goto, Ended, Names, readerVars
  <2>2. ASSUME NEW v \in Writers
        PROVE  WriterInv(v)'
    <3>1. dir'[v] = IF v = w THEN None ELSE dir[v]
      BY <1>2, <1>4 DEF IInv, TypeOK, Names
    <3>2. wpc'[v] = IF v = w THEN "stored" ELSE wpc[v]
      BY <1>4 DEF IInv, TypeOK, Goto
    <3>3. WriterInv(v)
      BY DEF IInv
    <3>. QED  BY <1>1, <3>1, <3>2, <3>3 DEF WriterInv, FileAt
  <2>3. \A l \in Keys : dir'[l] = IF l = k THEN dir[w] ELSE dir[l]
    BY <1>2, <1>4, KeysAssumption DEF IInv, TypeOK, Names
  <2>4. \A l \in Keys : KeyInv(l)'
    BY <1>3, <2>3 DEF IInv, KeyInv
  <2>5. \A r \in Readers : ReaderInv(r)'
    BY <1>1, <1>3, <2>3 DEF IInv, ReaderInv, readerVars, Opens
  <2>. QED  BY <2>1, <2>2, <2>4, <2>5 DEF IInv
<1>. QED  BY <1>1, <1>4, GiveUp DEF Rename

LEMMA KillInv == ASSUME IInv, Kill PROVE IInv'
<1>1. UNCHANGED <<dir, hashed, written, todo, readFailed>>
  BY DEF Kill, readerVars
<1>2. /\ wpc' \in [Writers -> States]
      /\ \A w \in Writers : wpc'[w] = wpc[w] \/ wpc'[w] = "abandoned"
  BY DEF Kill, IInv, TypeOK, States, Ended
<1>3. TypeOK'
  BY <1>1, <1>2 DEF IInv, TypeOK, States
<1>4. \A w \in Writers : WriterInv(w)'
  BY <1>1, <1>2 DEF IInv, WriterInv, FileAt
<1>. QED  BY <1>1, <1>3, <1>4 DEF IInv, KeyInv, ReaderInv

LEMMA ListInv == ASSUME IInv, NEW r \in Readers, List(r) PROVE IInv'
<1>1. UNCHANGED <<dir, wpc, hashed, written, readFailed>>
  BY DEF List, writerVars
<1>2. todo' = [todo EXCEPT ![r] = {k \in Keys : dir[k] # None}]
  BY DEF List
<1>3. TypeOK'
  BY <1>1, <1>2 DEF IInv, TypeOK, Names
<1>4. \A o \in Readers : ReaderInv(o)'
  BY <1>1, <1>2 DEF IInv, TypeOK, ReaderInv
<1>. QED  BY <1>1, <1>3, <1>4 DEF IInv, WriterInv, KeyInv

LEMMA OpenInv ==
  ASSUME IInv, NEW r \in Readers, NEW n \in Names, Open(r, n)
  PROVE  IInv'
<1>1. UNCHANGED <<dir, wpc, hashed, written>>
  BY DEF Open, writerVars
<1>2. /\ todo' = [todo EXCEPT ![r] = todo[r] \ {n}]
      /\ readFailed' = [readFailed EXCEPT ![r] = ~Opens(dir[n])]
  BY DEF Open
<1>3. Opens(dir[n])
  BY DEF Open, IInv, ReaderInv, KeyInv
<1>4. TypeOK'
  BY <1>1, <1>2, <1>3 DEF IInv, TypeOK
<1>5. \A o \in Readers : ReaderInv(o)'
  BY <1>1, <1>2, <1>3 DEF IInv, TypeOK, ReaderInv
<1>. QED  BY <1>1, <1>4, <1>5 DEF IInv, WriterInv, KeyInv

LEMMA InvStep == IInv /\ [Next]_vars => IInv'
<1>. SUFFICES ASSUME IInv, [Next]_vars PROVE IInv'
  OBVIOUS
<1>1. ASSUME NEW w \in Writers, WriterStep(w) PROVE IInv'
  BY <1>1, NewWriterInv, WriteInv, BeginCloseInv, WriteJSONInv, WriteHeaderInv,
     CloseFileInv, RenameInv, RemoveInv DEF WriterStep
<1>2. ASSUME NEW r \in Readers, List(r) \/ \E n \in Names : Open(r, n)
      PROVE  IInv'
  BY <1>2, ListInv, OpenInv
<1>3. CASE UNCHANGED vars
  BY <1>3 DEF vars, writerVars, readerVars, IInv, TypeOK, WriterInv, KeyInv,
              ReaderInv
<1>. QED  BY <1>1, <1>2, <1>3, KillInv DEF Next

THEOREM Invariance == Spec => []IInv
BY InvInit, InvStep, PTL DEF Spec

-----------------------------------------------------------------------------
(* Theorems.                                                               *)

\* Every variable keeps its type; a body never outgrows what was hashed.
THEOREM TypeCorrectness == Spec => []TypeOK
<1>1. IInv => TypeOK
  BY DEF IInv
<1>. QED  BY <1>1, Invariance, PTL

\* Every entry that List returned opens, whatever other processes have done in
\* between and whatever has failed (repository.go:173-275).
THEOREM ReadersAreSafe == Spec => []ReadersNeverFail
<1>1. IInv => ReadersNeverFail
  BY DEF IInv, ReaderInv, ReadersNeverFail
<1>. QED  BY <1>1, Invariance, PTL

\* A writer that has stored its document, or has given up and cleaned up, leaves
\* no temporary file (repository.go:79-84, 118-125).
THEOREM NoLitterHolds == Spec => []NoLitter
<1>1. IInv => NoLitter
  BY DEF IInv, WriterInv, FileAt, NoLitter
<1>. QED  BY <1>1, Invariance, PTL

-----------------------------------------------------------------------------
(* The directory implements the atomic store.                              *)

LEMMA StoreInit == Init => Store!Init
BY DEF Init, Store!Init, DocumentAt, Opens, Names

\* A step that changes no key's file and stores no document is not seen.
LEMMA Unseen ==
  ASSUME \A k \in Keys : dir'[k] = dir[k],
         \A v \in Writers : wpc'[v] = "stored" <=> wpc[v] = "stored"
  PROVE  UNCHANGED Store!vars
<1>1. \A k \in Keys : DocumentAt(k)' = DocumentAt(k)
  BY DEF DocumentAt
<1>. QED  BY <1>1 DEF Store!vars

LEMMA UnseenSteps ==
  ASSUME IInv, NEW w \in Writers,
         NewWriter(w) \/ Write(w) \/ BeginClose(w) \/ WriteJSON(w)
         \/ WriteHeader(w) \/ CloseFile(w) \/ Remove(w)
  PROVE  UNCHANGED Store!vars
<1>1. \/ UNCHANGED dir
      \/ \E f : dir' = [dir EXCEPT ![w] = f]
  BY DEF NewWriter, Write, BeginClose, WriteJSON, WriteHeader, CloseFile, Remove
<1>2. \A k \in Keys : dir'[k] = dir[k]
  BY <1>1, KeysAssumption DEF IInv, TypeOK, Names
<1>3. /\ wpc[w] # "stored"
      /\ \/ UNCHANGED wpc
         \/ \E s \in States \ {"stored"} : wpc' = [wpc EXCEPT ![w] = s]
  BY DEF NewWriter, Write, BeginClose, WriteJSON, WriteHeader, CloseFile, Remove,
         Goto, States, Ended
<1>4. \A v \in Writers : wpc'[v] = "stored" <=> wpc[v] = "stored"
  BY <1>3 DEF IInv, TypeOK
<1>. QED  BY <1>2, <1>4, Unseen

\* A rename publishes the document, or nothing.
LEMMA RenamePublishes ==
  ASSUME IInv, NEW w \in Writers, Rename(w)
  PROVE  Store!Next \/ UNCHANGED Store!vars
<1>. DEFINE k == KeyOfWriter[w]
            d == [writer |-> w, size |-> dir[w].header.size,
                  hashed |-> dir[w].header.hashed]
<1>1. wpc[w] = "rename"
  BY DEF Rename
<1>2. k \in Keys /\ k \notin Writers
  BY KeysAssumption
<1>3. /\ dir[w] \in Contents /\ dir[w].writer = w
      /\ dir[w].header \in Headers /\ Opens(dir[w])
  BY <1>1, RenamedOpens
<1>4. CASE /\ dir' = [dir EXCEPT ![k] = dir[w], ![w] = None]
           /\ Goto(w, "stored")
  <2>1. \A l \in Keys : dir'[l] = IF l = k THEN dir[w] ELSE dir[l]
    BY <1>2, <1>4, KeysAssumption DEF IInv, TypeOK, Names
  <2>2. \A l \in Keys : DocumentAt(l)' = IF l = k THEN d ELSE DocumentAt(l)
    BY <1>3, <2>1 DEF DocumentAt
  <2>3. [l \in Keys |-> DocumentAt(l)]'
          = [[l \in Keys |-> DocumentAt(l)] EXCEPT ![k] = d]
    BY <1>2, <2>2
  <2>4. \A v \in Writers : wpc'[v] = IF v = w THEN "stored" ELSE wpc[v]
    BY <1>4 DEF IInv, TypeOK, Goto
  <2>5. {v \in Writers : wpc[v] = "stored"}'
          = {v \in Writers : wpc[v] = "stored"} \cup {w}
    BY <2>4
  <2>6. w \notin {v \in Writers : wpc[v] = "stored"}
    BY <1>1
  <2>7. d \in [writer : Writers, size : Sizes, hashed : Sizes] /\ d.writer = w
    BY <1>3 DEF Headers
  <2>8. PICK e \in [writer : Writers, size : Sizes, hashed : Sizes] : e = d
    BY <2>7
  <2>9. Store!Publish(w, e)
    BY <2>3, <2>5, <2>6, <2>7, <2>8 DEF Store!Publish
  <2>. QED  BY <2>9 DEF Store!Next
<1>5. CASE Goto(w, "abandoned") /\ UNCHANGED dir
  <2>1. \A v \in Writers : wpc'[v] = "stored" <=> wpc[v] = "stored"
    BY <1>1, <1>5 DEF IInv, TypeOK, Goto
  <2>. QED  BY <1>5, <2>1, Unseen
<1>. QED  BY <1>4, <1>5 DEF Rename

LEMMA StoreStep == IInv /\ [Next]_vars => [Store!Next]_(Store!vars)
<1>. SUFFICES ASSUME IInv, [Next]_vars
              PROVE  Store!Next \/ UNCHANGED Store!vars
  OBVIOUS
<1>1. ASSUME NEW w \in Writers, WriterStep(w)
      PROVE  Store!Next \/ UNCHANGED Store!vars
  BY <1>1, UnseenSteps, RenamePublishes DEF WriterStep
<1>2. CASE Kill
  <2>1. \A v \in Writers : wpc'[v] = "stored" <=> wpc[v] = "stored"
    BY <1>2 DEF Kill, Ended
  <2>. QED  BY <1>2, <2>1, Unseen DEF Kill
<1>3. ASSUME NEW r \in Readers, List(r) \/ \E n \in Names : Open(r, n)
      PROVE  UNCHANGED Store!vars
  BY <1>3, Unseen DEF List, Open, writerVars
<1>4. CASE UNCHANGED vars
  BY <1>4, Unseen DEF vars, writerVars
<1>. QED  BY <1>1, <1>2, <1>3, <1>4 DEF Next

\* Documents appear and are replaced whole and are never lost, under failing
\* system calls and kills (repository.go:117-163).
THEOREM Refinement == Spec => ImplementsStore
BY Invariance, StoreInit, StoreStep, PTL DEF Spec, ImplementsStore, Store!Spec
=============================================================================
