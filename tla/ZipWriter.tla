------------------------------ MODULE ZipWriter ------------------------------
(* The writer of zip archives (httrack/internal/go/zip/writer.go).  The        *)
(* archive is written front to back, one file after the other; what is known   *)
(* of a file only when its data has been written follows the data in a         *)
(* descriptor and is repeated in the central directory at the end.             *)
(*                                                                             *)
(* Writing can fail at any byte, which leaves a prefix of the file: see Zip.   *)
EXTENDS ZipFormat, SequencesExt

\* What a caller may do, by caller: headers[n] are those it may pass for the n-th
\* file and bodies[n] (a bound) the data that file may come to have; starts are
\* the lengths of what may precede the archive in its file.
CONSTANTS Plan,     \* the plan of each caller, a record [headers, bodies, starts, faults]
          Chunks,   \* the sequences of cells a caller may write at once
          Comments  \* the comments a caller may set

\* Names and comments are text.  The extra fields of a caller are whole fields,
\* and the field of zip64 is Close's to add.
IsHeader(fh) ==
  /\ IsTexts(fh.name) /\ IsTexts(fh.comment) /\ IsSequence(fh.extra)
  /\ \A k \in DOMAIN fh.extra : fh.extra[k].cell = "extra" /\ fh.extra[k].tag # "zip64"
  /\ {fh.utf8, fh.nonUTF8, fh.dated} \subseteq BOOLEAN
  /\ {fh.modified.at, fh.modified.zone} \subseteq Int

ASSUME PlanAssumption ==
  /\ \A c \in DOMAIN Plan :
       /\ Plan[c].starts \subseteq Nat /\ IsSequence(Plan[c].headers)
       /\ \A n \in DOMAIN Plan[c].headers : \A fh \in Plan[c].headers[n] : IsHeader(fh)
  /\ \A chunk \in Chunks : IsSequence(chunk)
  /\ \A text \in Comments : IsTexts(text)

VARIABLES caller, \* the caller of this writer
          out,    \* what was written, after what precedes the archive
          dir,    \* Writer.dir: the headers for the central directory
          last,   \* index in dir of the file being written, 0 for none
          body,   \* data of that file
          comment, \* Writer.comment
          wpc,    \* "open", "failed" (CreateHeader listed a file it refused) or "closed"
          given   \* history: what the caller asked for, [header, content] for each file

wvars == <<caller, out, dir, last, body, comment, wpc, given>>

IsDirectory(fh) == fh.name # <<>> /\ fh.name[Len(fh.name)] = Text("/")
Compressors == {"Store", "Deflate"}

\* SetOffset can only be called before anything is written.
WInit == /\ caller \in DOMAIN Plan
         /\ out \in {[k \in 1..n |-> Text("before")] : n \in Plan[caller].starts}
         /\ dir = <<>> /\ last = 0 /\ body = <<>> /\ comment = <<>>
         /\ wpc = "open" /\ given = <<>>

---------------------------------------------------------------------------
\* fileWriter.close: the compressor is flushed, the header gets its checksum
\* and sizes, and the descriptor is written.
Compressed(method, content) ==
  IF method = "Deflate" THEN <<[cell |-> "deflated", content |-> content]>> ELSE content

ClosedWith(h, csize, usize) ==
  LET wide == isZip64(csize, usize)
      size32(n) == IF wide THEN uint32max ELSE Narrow32(n)
  IN [out |-> out \o (IF h.method = "Deflate" THEN Compressed(h.method, body) ELSE <<>>)
              \o <<[cell |-> "descriptor", crc |-> Crc32(body),
                    csize |-> IF wide THEN csize ELSE Narrow32(csize),
                    usize |-> IF wide THEN usize ELSE Narrow32(usize)]>>,
      dir |-> [dir EXCEPT ![last] =
                [h EXCEPT !.crc = Crc32(body), !.csize64 = csize, !.usize64 = usize,
                          !.csize = size32(csize), !.usize = size32(usize)]]]

ClosedFile ==
  IF last = 0 THEN [out |-> out, dir |-> dir]
  ELSE ClosedWith(dir[last], Len(Compressed(dir[last].method, body)), Len(body))

---------------------------------------------------------------------------
\* CreateHeader, before anything is written: the flags, the time and its
\* extended timestamp.  A directory has no data and so no descriptor.
\* Mutant: only the name is looked at.
Utf8FlagOfName(fh) ==
  ~fh.nonUTF8 /\ (fh.utf8 \/ detectUTF8(fh.name).require)

Utf8Flag(fh) ==
  LET name == detectUTF8(fh.name)
      note == detectUTF8(fh.comment)
  IN IF fh.nonUTF8 THEN FALSE
     ELSE fh.utf8 \/ ((name.require \/ note.require) /\ name.valid /\ note.valid)

Prepared(fh, offset) ==
  [name |-> fh.name, comment |-> fh.comment,
   utf8 |-> Utf8Flag(fh),
   descriptor |-> ~IsDirectory(fh),
   method |-> IF IsDirectory(fh) THEN "Store" ELSE fh.method,
   dos |-> IF fh.dated THEN timeToMsDosTime(fh.modified) ELSE 0,
   extra |-> IF fh.dated THEN Append(fh.extra, Extra("extTime", <<fh.modified.at % TimeWidth>>))
                         ELSE fh.extra,
   crc |-> Crc32(<<>>), csize |-> 0, usize |-> 0, csize64 |-> 0, usize64 |-> 0,
   offset |-> offset]

TooLong(h) == Len(h.name) > uint16max \/ Len(h.extra) > uint16max

LocalHeader(h) ==
  <<[cell |-> "local", method |-> h.method,
     nameLen |-> Narrow16(Len(h.name)), extraLen |-> Narrow16(Len(h.extra))]>>
  \o h.name \o h.extra

\* The header is listed in dir before writeHeader looks at its lengths: a
\* caller that went on after errLongName or errLongExtra would write a
\* directory with a file that is not there.  Here the caller gives up.
Created(fh, h, before) ==
  \/ /\ h.method \notin Compressors \* ErrAlgorithm
     /\ out' = before.out /\ dir' = before.dir /\ last' = 0
     /\ UNCHANGED <<wpc, given>>
  \/ /\ h.method \in Compressors /\ TooLong(h)
     /\ out' = before.out /\ dir' = Append(before.dir, h) /\ last' = 0
     /\ wpc' = "failed" /\ UNCHANGED given
  \/ /\ h.method \in Compressors /\ ~TooLong(h)
     /\ out' = before.out \o LocalHeader(h)
     /\ dir' = Append(before.dir, h)
     /\ last' = IF IsDirectory(fh) THEN 0 ELSE Len(dir')
     /\ given' = Append(given, [header |-> fh, content |-> <<>>])
     /\ UNCHANGED wpc

CreateHeader(fh) ==
  /\ wpc = "open"
  /\ LET After(before) == Created(fh, Prepared(fh, Len(before.out)), before)
     IN After(ClosedFile)
  /\ body' = <<>> /\ UNCHANGED <<caller, comment>>

\* fileWriter.Write, for the file that is open: its predecessors are closed.
\* The compressor keeps what it is given until it is closed.
Write(chunk) ==
  /\ wpc = "open" /\ last # 0
  /\ body \o chunk \in Plan[caller].bodies[Len(given)]
  /\ body' = body \o chunk
  /\ out' = IF dir[last].method = "Deflate" THEN out ELSE out \o chunk
  /\ given' = [given EXCEPT ![Len(given)].content = @ \o chunk]
  /\ UNCHANGED <<caller, dir, last, comment, wpc>>

SetComment(text) ==
  /\ wpc = "open" /\ comment = <<>> /\ text # <<>>
  /\ Len(text) <= uint16max
  /\ comment' = text
  /\ UNCHANGED <<caller, out, dir, last, body, wpc, given>>

---------------------------------------------------------------------------
\* Close: the central directory, with a zip64 field for each file that needs
\* one, the zip64 end records if a number does not fit, and the end record.
\* Mutant: the offset may not fit.
NeedsZip64ForSizes(h) == isZip64(h.csize64, h.usize64)

NeedsZip64(h) == isZip64(h.csize64, h.usize64) \/ h.offset >= uint32max

CentralExtra(h) ==
  IF NeedsZip64(h) THEN Append(h.extra, Extra("zip64", <<h.usize64, h.csize64, h.offset>>))
                   ELSE h.extra

CentralHeader(h, extra) ==
  <<[cell |-> "central", method |-> h.method, utf8 |-> h.utf8, descriptor |-> h.descriptor,
     dos |-> h.dos, crc |-> h.crc,
     csize |-> IF NeedsZip64(h) THEN uint32max ELSE h.csize,
     usize |-> IF NeedsZip64(h) THEN uint32max ELSE h.usize,
     nameLen |-> Narrow16(Len(h.name)), extraLen |-> Narrow16(Len(extra)),
     commentLen |-> Narrow16(Len(h.comment)),
     offset |-> IF h.offset > uint32max THEN uint32max ELSE Narrow32(h.offset)]>>
  \o h.name \o extra \o h.comment

End(records, size, offset) ==
  <<[cell |-> "end", records |-> Narrow16(records), size |-> Narrow32(size),
     offset |-> Narrow32(offset), commentLen |-> Narrow16(Len(comment))]>> \o comment

EndRecords(records, size, offset) ==
  IF records >= uint16max \/ size >= uint32max \/ offset >= uint32max
  THEN <<[cell |-> "end64", records |-> records, size |-> size, offset |-> offset],
         [cell |-> "loc64", offset |-> offset + size]>>
       \o End(uint16max, uint32max, uint32max)
  ELSE End(records, size, offset)

Directory(headers) ==
  FlattenSeq([k \in DOMAIN headers |-> CentralHeader(headers[k], CentralExtra(headers[k]))])

Close ==
  /\ wpc = "open"
  /\ LET Finished(before, directory) ==
           /\ out' = before.out \o directory
                     \o EndRecords(Len(before.dir), Len(directory), Len(before.out))
           /\ dir' = before.dir
     IN Finished(ClosedFile, Directory(ClosedFile.dir))
  /\ last' = 0 /\ body' = <<>> /\ wpc' = "closed"
  /\ UNCHANGED <<caller, comment, given>>

WNext == \/ /\ Len(given) < Len(Plan[caller].headers)
            /\ \E fh \in Plan[caller].headers[Len(given) + 1] : CreateHeader(fh)
         \/ \E chunk \in Chunks : Write(chunk)
         \/ \E text \in Comments : SetComment(text)
         \/ Close
=============================================================================
