----------------------------- MODULE Repository -----------------------------
(***************************************************************************)
(* Package repository: DocumentWriter writes a document to a temporary     *)
(* file and renames it to the name of its key; List and Entry.Open read    *)
(* the directory while other processes write.  Every system call is a step *)
(* of its own, the ones named in Faults may fail, and the process may be   *)
(* killed between any two.                                                 *)
(*                                                                         *)
(* A body is counted in chunks, one per Write, and its content is not      *)
(* told apart: a file is what has been written to it so far.  The writer   *)
(* of a document stands for its content.  The metadata's JSON starts where *)
(* the last write to the body ended, as the file's offset says; checksums  *)
(* hold unless the two positions differ.                                   *)
(***************************************************************************)
EXTENDS Integers, FiniteSets

CONSTANTS
  Keys,
  LongKeys,       \* keys whose file name the file system refuses
  Writers,        \* the DocumentWriters; each is used once
  KeyOfWriter,    \* metadata.Key of each writer's document
  MaxChunks,      \* bound: chunks of a body
  Readers,        \* processes that list the repository
  Faults,         \* what may fail
  None            \* no file, no header, no JSON, no document

ASSUME KeysAssumption ==
  /\ LongKeys \subseteq Keys
  /\ KeyOfWriter \in [Writers -> Keys]
  /\ Keys \cap Writers = {}
  /\ MaxChunks \in Nat
ASSUME FaultsAssumption ==
  Faults \subseteq {"create", "seek", "write", "json", "header", "close",
                    "rename", "remove", "kill"}

\* The names in the directory: a document's name is its key, the temporary
\* file's (prefix "tmp-", never reused: it is created with O_EXCL) its writer.
Names == Keys \cup Writers

Sizes == 0 .. MaxChunks
Headers == [size : Sizes, hashed : Sizes]
Contents ==
  [writer : Writers, body : Sizes, jsonAt : Sizes \cup {None},
   header : Headers \cup {None}]

ASSUME NoneAssumption == None \notin Sizes \cup Headers \cup Contents

VARIABLES
  dir,            \* what each name holds, or None
  wpc,            \* where each writer is
  hashed,         \* chunks passed to bodyHasher
  written,        \* bodyWrittenBytes, in chunks
  todo,           \* the entries a reader has listed and not opened yet
  readFailed      \* a reader's Open of a listed entry has failed

writerVars == <<wpc, hashed, written>>
readerVars == <<todo, readFailed>>
vars == <<dir, writerVars, readerVars>>

Init ==
  /\ dir = [n \in Names |-> None]
  /\ wpc = [w \in Writers |-> "new"]
  /\ hashed = [w \in Writers |-> 0]
  /\ written = [w \in Writers |-> 0]
  /\ todo = [r \in Readers |-> {}]
  /\ readFailed = [r \in Readers |-> FALSE]

\* A writer has stored its document, has failed and cleaned up, or has not had
\* the chance to.
Ended == {"stored", "failed", "abandoned"}

Goto(w, s) == wpc' = [wpc EXCEPT ![w] = s]

-----------------------------------------------------------------------------
(* DocumentWriter.                                                         *)

\* TempFile, then Seek past the header; if that fails the file is removed.
NewWriter(w) ==
  /\ wpc[w] = "new"
  /\ \/ /\ dir' = [dir EXCEPT ![w] = [writer |-> w, body |-> 0,
                                      jsonAt |-> None, header |-> None]]
        /\ \/ Goto(w, "copy")
           \/ "seek" \in Faults /\ Goto(w, "remove")
     \/ /\ "create" \in Faults
        /\ Goto(w, "failed")
        /\ UNCHANGED dir
  /\ UNCHANGED <<hashed, written, readerVars>>

\* Write hashes all it is given and counts what the file took; after an error
\* io.Copy gives up and the caller goes on to Close.
Write(w) ==
  /\ wpc[w] = "copy"
  /\ hashed[w] < MaxChunks
  /\ hashed' = [hashed EXCEPT ![w] = @ + 1]
  /\ \/ /\ written' = [written EXCEPT ![w] = @ + 1]
        /\ dir' = [dir EXCEPT ![w].body = @ + 1]
        /\ UNCHANGED wpc
     \/ /\ "write" \in Faults
        /\ Goto(w, "json")
        /\ UNCHANGED <<dir, written>>
  /\ UNCHANGED readerVars

\* The caller calls Close, when the body has ended or could not be read.
BeginClose(w) ==
  /\ wpc[w] = "copy"
  /\ Goto(w, "json")
  /\ UNCHANGED <<dir, hashed, written, readerVars>>

WriteJSON(w) ==
  /\ wpc[w] = "json"
  /\ \/ /\ dir' = [dir EXCEPT ![w].jsonAt = dir[w].body]
        /\ Goto(w, "header")
     \/ /\ "json" \in Faults
        /\ Goto(w, "remove")
        /\ UNCHANGED dir
  /\ UNCHANGED <<hashed, written, readerVars>>

\* Mutants: the header gives a size one too large; the size of what was hashed.
WriteHeaderOffByOne(w) ==
  /\ wpc[w] = "header"
  /\ dir' = [dir EXCEPT ![w].header = [size |-> written[w] + 1, hashed |-> hashed[w]]]
  /\ Goto(w, "close")
  /\ UNCHANGED <<hashed, written, readerVars>>
WriteHeaderOfHashed(w) ==
  /\ wpc[w] = "header"
  /\ dir' = [dir EXCEPT ![w].header = [size |-> hashed[w], hashed |-> hashed[w]]]
  /\ Goto(w, "close")
  /\ UNCHANGED <<hashed, written, readerVars>>

WriteHeader(w) ==
  /\ wpc[w] = "header"
  /\ \/ /\ dir' = [dir EXCEPT ![w].header =
                     [size |-> written[w], hashed |-> hashed[w]]]
        /\ Goto(w, "close")
     \/ /\ "header" \in Faults
        /\ Goto(w, "remove")
        /\ UNCHANGED dir
  /\ UNCHANGED <<hashed, written, readerVars>>

\* closed is set whether or not closing the file succeeds, so a failure skips
\* the deferred removal: the temporary file is abandoned.
CloseFile(w) ==
  /\ wpc[w] = "close"
  /\ \/ Goto(w, "rename")
     \/ "close" \in Faults /\ Goto(w, "abandoned")
  /\ UNCHANGED <<dir, hashed, written, readerVars>>

\* The document replaces whatever its key's name held.  A name too long for
\* the file system never gets there.
Rename(w) ==
  /\ wpc[w] = "rename"
  /\ \/ /\ KeyOfWriter[w] \notin LongKeys
        /\ dir' = [dir EXCEPT ![KeyOfWriter[w]] = dir[w], ![w] = None]
        /\ Goto(w, "stored")
     \/ /\ KeyOfWriter[w] \in LongKeys \/ "rename" \in Faults
        /\ Goto(w, "abandoned")
        /\ UNCHANGED dir
  /\ UNCHANGED <<hashed, written, readerVars>>

\* Mutant: the deferred function closes the file and does not remove it.
RemoveNothing(w) ==
  /\ wpc[w] = "remove"
  /\ Goto(w, "failed")
  /\ UNCHANGED <<dir, hashed, written, readerVars>>

\* The deferred clean-up of NewWriter and Close; its errors are ignored.
Remove(w) ==
  /\ wpc[w] = "remove"
  /\ \/ dir' = [dir EXCEPT ![w] = None] /\ Goto(w, "failed")
     \/ "remove" \in Faults /\ Goto(w, "abandoned") /\ UNCHANGED dir
  /\ UNCHANGED <<hashed, written, readerVars>>

\* The process is killed: no writer at work goes on.  Writers that are still
\* "new" are those of a later run.
Kill ==
  /\ "kill" \in Faults
  /\ \E w \in Writers : wpc[w] \notin {"new"} \cup Ended
  /\ wpc' = [w \in Writers |->
               IF wpc[w] \in {"new"} \cup Ended THEN wpc[w] ELSE "abandoned"]
  /\ UNCHANGED <<dir, hashed, written, readerVars>>

-----------------------------------------------------------------------------
(* Readers: List, then Open of each entry.                                 *)

\* openDocument succeeds: there is a header, and the JSON is where it says.
Opens(c) == c # None /\ c.header # None /\ c.jsonAt = c.header.size

\* Mutant: List does not leave out the temporary files.
ListAll(r) ==
  /\ todo[r] = {}
  /\ ~readFailed[r]
  /\ todo' = [todo EXCEPT ![r] = {n \in Names : dir[n] # None}]
  /\ UNCHANGED <<dir, writerVars, readFailed>>

\* The names that end in ".bin" and do not begin with "tmp-".
List(r) ==
  /\ todo[r] = {}
  /\ ~readFailed[r]
  /\ todo' = [todo EXCEPT ![r] = {k \in Keys : dir[k] # None}]
  /\ UNCHANGED <<dir, writerVars, readFailed>>

\* A failure ends the reader (main.go:552-555).
Open(r, n) ==
  /\ n \in todo[r]
  /\ ~readFailed[r]
  /\ todo' = [todo EXCEPT ![r] = @ \ {n}]
  /\ readFailed' = [readFailed EXCEPT ![r] = ~Opens(dir[n])]
  /\ UNCHANGED <<dir, writerVars>>

-----------------------------------------------------------------------------

WriterStep(w) ==
  \/ NewWriter(w) \/ Write(w) \/ BeginClose(w)
  \/ WriteJSON(w) \/ WriteHeader(w) \/ CloseFile(w) \/ Rename(w)
  \/ Remove(w)

Next ==
  \/ \E w \in Writers : WriterStep(w)
  \/ Kill
  \/ \E r \in Readers : List(r) \/ \E n \in Names : Open(r, n)

Spec == Init /\ [][Next]_vars

-----------------------------------------------------------------------------
(* Properties.                                                             *)

TypeOK ==
  /\ dir \in [Names -> Contents \cup {None}]
  /\ wpc \in [Writers -> {"new", "copy", "json", "header", "close", "rename",
                          "remove"} \cup Ended]
  /\ hashed \in [Writers -> Sizes]
  /\ written \in [Writers -> Sizes]
  /\ todo \in [Readers -> SUBSET Names]
  /\ readFailed \in [Readers -> BOOLEAN]

\* Whatever the writers, faults and kills in between, every entry that List
\* returned opens (repository.go:173-275): a reader never meets a file that is
\* not there, not finished or not a document.
ReadersNeverFail == \A r \in Readers : ~readFailed[r]

\* The document the file of a key holds, as openDocument returns it.
DocumentAt(k) ==
  IF ~Opens(dir[k]) THEN None
  ELSE [writer |-> dir[k].writer, size |-> dir[k].header.size,
        hashed |-> dir[k].header.hashed]

Store ==
  INSTANCE AtomicStore WITH
    Documents <- [writer : Writers, size : Sizes, hashed : Sizes],
    NoDocument <- None,
    store <- [k \in Keys |-> DocumentAt(k)],
    stored <- {w \in Writers : wpc[w] = "stored"}

\* Documents appear and are replaced whole and are never lost, under failing
\* system calls and kills (repository.go:117-163).
ImplementsStore == Store!Spec

\* The temporary files are those of the writers at work and of those whose
\* process was killed or whose last step, closing, renaming or removing the
\* file, failed: a failure of an earlier step leaves none, and nor does a
\* document that is stored (repository.go:79-84, 118-125).
NoLitter ==
  \A w \in Writers : wpc[w] \in {"new", "stored", "failed"} => dir[w] = None
=============================================================================
