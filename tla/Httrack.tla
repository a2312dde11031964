------------------------------- MODULE Httrack -------------------------------
(* The cache of httrack, read by the commands list and show                    *)
(* (httrack/httrack.go, main.go:298-308, 614-645).  A cache is a zip archive    *)
(* that httrack has written: for each URL it downloaded a file named by the     *)
(* URL, with the response's header in the extra field of the local header and   *)
(* the body, or nothing if the body is not kept in the cache, as the data.      *)
(*                                                                              *)
(* httrack writes a cache while it downloads: the file may end anywhere, and    *)
(* one cell may have been overwritten, by what nothing recognises or by what    *)
(* could be read in its place.  Only the bodies have a checksum.                *)
EXTENDS ZipReader, SequencesExt

CONSTANTS Stored,  \* the caches: sequences of [url, response, body, method]
          AskedNames,   \* the URLs that may be asked for
          CacheFaults, \* a subset of {"cut", "damaged"}
          Blots         \* what a damaged cell may read as, besides Junk

(* A response, as far as loadCache tells responses apart: whether it can be    *)
(* parsed, and the values of two of its header's fields, "" for none.          *)
Response(parses, xSize, size, inCache) ==
  [cell |-> "response", parses |-> parses, xSize |-> xSize, size |-> size, inCache |-> inCache]

VARIABLES stored,  \* history: the cache as httrack meant it
          file,    \* the file that is opened
          zipFiles, \* zip.Reader.File
          cached,  \* Cache.Entries
          handle,  \* the operating system's file: "none", "open" or "closed"
          listed,  \* what list has printed
          shown,   \* what show has printed: <<>>, or <<[url, err, ...]>>
          hpc      \* "start", "loading", "loaded", "failed", "done"

vars == <<stored, file, zipFiles, cached, handle, listed, shown, hpc>>

---------------------------------------------------------------------------
(* What httrack writes: no descriptors, and no extra fields in the directory.  *)

LocalPart(e) ==
  <<[cell |-> "local", method |-> e.method, nameLen |-> 1, extraLen |-> 1],
    Text(e.url), e.response>>
  \o (IF e.method = "Deflate" THEN <<[cell |-> "deflated", content |-> e.body]>> ELSE e.body)

CentralPart(e, offset) ==
  <<[cell |-> "central", method |-> e.method, utf8 |-> FALSE, descriptor |-> FALSE, dos |-> 1,
     crc |-> Crc32(e.body), csize |-> Len(LocalPart(e)) - 3, usize |-> Len(e.body),
     nameLen |-> 1, extraLen |-> 0, commentLen |-> 0, offset |-> offset],
    Text(e.url)>>

\* The first k files.
UpTo(cache, k) == FlattenSeq([n \in 1..k |-> LocalPart(cache[n])])

Archive(cache) ==
  LET directory ==
        FlattenSeq([n \in DOMAIN cache |-> CentralPart(cache[n], Len(UpTo(cache, n - 1)))])
      data == UpTo(cache, Len(cache))
  IN data \o directory
     \o <<[cell |-> "end", records |-> Narrow16(Len(cache)), size |-> Len(directory),
           offset |-> Len(data), commentLen |-> 0]>>

Remains(archive) ==
  {archive}
  \cup (IF "cut" \in CacheFaults THEN {SubSeq(archive, 1, n) : n \in 0..Len(archive) - 1} ELSE {})
  \cup (IF "damaged" \in CacheFaults
        THEN {[archive EXCEPT ![k] = c] : k \in DOMAIN archive, c \in Blots \cup {Junk}} ELSE {})

Init == /\ stored \in Stored /\ file \in Remains(Archive(stored))
        /\ zipFiles = <<>> /\ cached = <<>> /\ handle = "none"
        /\ listed = <<>> /\ shown = <<>> /\ hpc = "start"

---------------------------------------------------------------------------
(* OpenCache and loadCache *)

\* zip.OpenReader closes the file if it is not an archive.
Opening(r) ==
  \/ /\ r.err = "none"
     /\ zipFiles' = r.files /\ handle' = "open" /\ hpc' = "loading"
  \/ /\ r.err # "none"
     /\ handle' = "closed" /\ hpc' = "failed" /\ UNCHANGED zipFiles

Open == /\ hpc = "start"
        /\ Opening(OpenReader(file))
        /\ UNCHANGED <<stored, file, cached, listed, shown>>

\* The header of a response as an entry keeps it: x-size goes if it is a number.
Entry(f, response) ==
  [url |-> f.name, response |-> response,
   size |-> IF response.xSize = "number" THEN response.size ELSE 0,
   header |-> IF response.xSize = "other" THEN {"x-size"} ELSE {},
   inCache |-> response.inCache = "1",
   zf |-> f]

\* The extra field of the local header is a response that can be parsed.
IsResponse(extra) ==
  /\ extra.err = "none"
  /\ extra.extra # <<>>
  /\ Head(extra.extra).cell = "response" /\ Head(extra.extra).parses

Load ==
  /\ hpc = "loading" /\ Len(cached) < Len(zipFiles)
  /\ LET f == zipFiles[Len(cached) + 1]
         extra == LocalExtraField(file, f)
         response == Head(extra.extra)
         good == IsResponse(extra) /\ response.inCache \in {"", "0", "1"}
     IN \/ /\ good
           /\ cached' = Append(cached, Entry(f, response))
           /\ UNCHANGED <<handle, hpc>>
        \/ /\ ~good
           /\ handle' = "closed" /\ hpc' = "failed" /\ UNCHANGED cached
  /\ UNCHANGED <<stored, file, zipFiles, listed, shown>>

Loaded ==
  /\ hpc = "loading" /\ Len(cached) = Len(zipFiles)
  /\ hpc' = "loaded"
  /\ UNCHANGED <<stored, file, zipFiles, cached, handle, listed, shown>>

---------------------------------------------------------------------------
(* The commands.  The process ends after each.                                 *)

List == /\ hpc = "loaded" /\ shown = <<>> /\ Len(listed) < Len(cached)
        /\ listed' = Append(listed, cached[Len(listed) + 1].url)
        /\ UNCHANGED <<stored, file, zipFiles, cached, handle, shown, hpc>>

NoEntry == <<>>

\* Mutant: the last.
FindLastEntry(url) ==
  LET found == {k \in DOMAIN cached : cached[k].url = <<Text(url)>>}
  IN IF found = {} THEN NoEntry ELSE cached[Max(found)]

\* FindEntry: the first entry with the URL, as it is written.
FindEntry(url) ==
  LET found == {k \in DOMAIN cached : cached[k].url = <<Text(url)>>}
  IN IF found = {} THEN NoEntry ELSE cached[Min(found)]

\* httputil.DumpResponse copies as much of the body as ContentLength says and
\* fails if there is more or less; with 0 or -1 it copies what there is.
DumpFails(contentLength, body) ==
  contentLength \notin {0, -1} /\ contentLength # Len(body)

Show(url) ==
  /\ hpc = "loaded" /\ listed = <<>>
  /\ LET e == FindEntry(url)
         read == ReadAll(file, e.zf)
         err == IF e = NoEntry THEN "not found"
                ELSE IF read.err # "none" THEN read.err
                ELSE IF DumpFails(e.size, read.data) THEN "length" ELSE "none"
     IN \/ err # "none" /\ shown' = <<[url |-> url, err |-> err]>>
        \/ /\ err = "none"
           /\ shown' = <<[url |-> url, err |-> err, inCache |-> e.inCache, response |-> e.response,
                          header |-> e.header, body |-> read.data]>>
  /\ hpc' = "done"
  /\ UNCHANGED <<stored, file, zipFiles, cached, handle, listed>>

Next == Open \/ Load \/ Loaded \/ List \/ \E url \in AskedNames : Show(url)
Spec == Init /\ [][Next]_vars
---------------------------------------------------------------------------
IsWhole == file = Archive(stored)
IsCut == ~IsWhole /\ Len(file) < Len(Archive(stored))

Acceptable(e) == e.response.parses /\ e.response.inCache \in {"", "0", "1"}

\* A body holds the end record of an archive, as if a zip file had been
\* downloaded.  What is left of such a cache may be opened at that record.
HoldsArchive ==
  \E k \in DOMAIN stored : \E c \in DOMAIN stored[k].body : stored[k].body[c].cell = "end"

\* A cell was overwritten by a record that httrack did not write there.  The
\* records have no checksum: with other numbers they lead to something else.
Records == {"local", "central", "end", "end64", "loc64"}
BecameRecord ==
  LET archive == Archive(stored)
  IN \E k \in DOMAIN file : file[k].cell \in Records /\ file[k] # archive[k]

Readable == IsWhole \/ ~(HoldsArchive \/ BecameRecord)

\* What stands now where the response and, in the directory, the name of the
\* kth file were written.  They have no checksum either.
ResponseOf(k) == file[Len(UpTo(stored, k - 1)) + 3]
NameOf(k) == file[Len(UpTo(stored, Len(stored))) + 2 * k]

\* A cache is loaded whole, in its order, or not at all, and then its file is
\* closed: not when httrack was stopped while writing it (httrack.go:25-36,
\* 64-119).  Each entry has the name and the response at its own place in the
\* file, and from an intact file they are those that were stored.  Only behind a
\* damaged header of the directory may entries be missing, and then 65536 of
\* them or a multiple (reader.go:110-113, 125).
CacheIsWhole ==
  /\ Readable =>
       /\ hpc \in {"loaded", "done"} =>
            /\ ~IsCut
            /\ IsWhole => Len(cached) = Len(stored)
            /\ Narrow16(Len(cached)) = Narrow16(Len(stored))
       /\ \A k \in DOMAIN cached :
            /\ cached[k].url = <<NameOf(k)>> /\ cached[k].response = ResponseOf(k)
            /\ IsWhole => /\ NameOf(k) = Text(stored[k].url)
                          /\ ResponseOf(k) = stored[k].response
       /\ IsWhole /\ hpc = "failed" /\ Len(cached) < Len(stored) =>
            ~Acceptable(stored[Len(cached) + 1])
  /\ hpc = "failed" => handle = "closed"

\* Under the URL that show prints is a file of the cache, by the name that the
\* directory has now; it prints the response of that file as it is now and, even
\* after damage, the body that was stored with it and no other.  From an intact
\* file it is the first that was stored for the URL, and nothing but a body that
\* is not as long as the response says keeps it from being printed
\* (main.go:614-645).
ShownIsStored ==
  Readable =>
    \A n \in DOMAIN shown :
      LET x == shown[n]
          of == {k \in DOMAIN stored : stored[k].url = x.url}
          first == stored[Min(of)]
      IN /\ x.err = "none" =>
              \E k \in DOMAIN stored :
                /\ NameOf(k) = Text(x.url) /\ x.response = ResponseOf(k)
                /\ x.body = stored[k].body
         /\ IsWhole /\ of # {} =>
              \/ x.err = "none" /\ x.response = first.response /\ x.body = first.body
              \/ /\ x.err = "length"
                 /\ first.response.xSize = "number" /\ first.response.size # Len(first.body)
              \/ first.method \notin Decompressors
=============================================================================
