------------------------------ MODULE ZipReader ------------------------------
(* The reader of zip archives (httrack/internal/go/zip/reader.go), as          *)
(* functions of the file it reads: the file does not change while it is read,  *)
(* and reading keeps no state but the directory that is returned.              *)
(*                                                                             *)
(* An outcome is a record whose err is "none" or names the error.              *)
EXTENDS ZipFormat, SequencesExt

CONSTANTS Near, Far \* the windows at the end of a file, 1 KB and 65 KB

\* The farther window holds an end record with the longest comment.
ASSUME WindowsAssumption == Near \in Nat \ {0} /\ Far \in Nat /\ Far >= uint16max + 1

\* Reading cells at an offset of the file, the first of which is of one kind.
Holds(file, offset) == 0 <= offset /\ offset < Len(file)
Cell(file, offset) == file[offset + 1]
IsCell(file, offset, kind) == Holds(file, offset) /\ Cell(file, offset).cell = kind
Cells(file, offset, n) == SubSeq(file, offset + 1, offset + n)

---------------------------------------------------------------------------
\* The last end record in the last bLen cells whose comment fits in the file.
findSignatureInBlock(file, bLen) ==
  {p \in 0..Len(file) - 1 :
     /\ p >= Len(file) - bLen
     /\ IsCell(file, p, "end")
     /\ p + 1 + Cell(file, p).commentLen <= Len(file)}

\* The offset of the zip64 end record, if its locator is before the end record.
findDirectory64End(file, endOffset) ==
  IF IsCell(file, endOffset - 1, "loc64") THEN Cell(file, endOffset - 1).offset ELSE -1

\* The numbers of the directory are in the zip64 end record at p64, or in the
\* end record at p.
DirectoryEnd(file, p, p64) ==
  LET numbers == Cell(file, IF p64 >= 0 THEN p64 ELSE p)
  IN CASE p64 >= 0 /\ ~Holds(file, p64) -> [err |-> "EOF"]
       [] p64 >= 0 /\ Holds(file, p64) /\ numbers.cell # "end64" -> [err |-> "ErrFormat"]
       [] OTHER ->
            IF numbers.offset >= Len(file) THEN [err |-> "ErrFormat"]
            ELSE [err |-> "none", records |-> numbers.records, offset |-> numbers.offset,
                  comment |-> Cells(file, p + 1, Cell(file, p).commentLen)]

\* A number of the end record is at its limit (the size at that of 2 bytes).
SaysZip64(end) == end.records = uint16max \/ end.size = uint16max \/ end.offset = uint32max

LastEnd(file, ends) ==
  IF ends = {} THEN [err |-> "ErrFormat"]
  ELSE LET p == Max(ends)
       IN DirectoryEnd(file, p, IF SaysZip64(Cell(file, p)) THEN findDirectory64End(file, p)
                                                            ELSE -1)

\* The farther window, which holds the nearer one, if that has no end record.
readDirectoryEnd(file) ==
  LastEnd(file, IF findSignatureInBlock(file, Near) # {} THEN findSignatureInBlock(file, Near)
                                                        ELSE findSignatureInBlock(file, Far))

---------------------------------------------------------------------------
\* The places in an extra of the fields that have one of these tags; what
\* follows something that is not a field is not looked at.
FieldsOf(extra, tags) ==
  {k \in DOMAIN extra : /\ \A n \in 1..k : extra[n].cell = "extra"
                        /\ extra[k].tag \in tags}

\* The numbers of a header.  The first zip64 field has those that did not fit,
\* one behind the other; err if it is too short.
Zip64Numbers(central, extra) ==
  LET fields == FieldsOf(extra, {"zip64"})
      values == extra[Min(fields)].values
      Full(part) == central[part] = uint32max
      One(part) == IF Full(part) THEN 1 ELSE 0
      usizes == One("usize")
      csizes == usizes + One("csize")
      offsets == csizes + One("offset")
      Number(part, place) ==
        IF Full(part) /\ fields # {} THEN values[place] ELSE central[part]
  IN IF \/ fields = {} /\ (Full("csize") \/ Full("offset"))
        \/ fields # {} /\ Len(values) < offsets
     THEN [err |-> "ErrFormat"]
     ELSE [err |-> "none", usize |-> Number("usize", usizes),
           csize |-> Number("csize", csizes), offset |-> Number("offset", offsets)]

\* The last extra field that holds a time decides, and the MS-DOS time gives
\* its zone.  `fixed' is FALSE for a time in UTC proper.
Modified(dos, extra) ==
  LET times == FieldsOf(extra, {"extTime", "unix", "ntfs"})
      at == extra[Max(times)].values[1]
  IN IF times = {} THEN [at |-> msDosTimeToTime(dos), zone |-> 0, fixed |-> FALSE]
     ELSE [at |-> at, fixed |-> dos # 0,
           zone |-> IF dos = 0 THEN 0 ELSE timeZone(msDosTimeToTime(dos) - at)]

\* Whether Name and Comment, as detectUTF8 takes them, are something else than
\* UTF-8.
NonUTF8(name, note, utf8Flag) ==
  \/ ~name.valid \/ ~note.valid
  \/ (name.require \/ note.require) /\ ~utf8Flag

DirectoryHeader(central, name, extra, note, numbers, next) ==
  IF numbers.err # "none" THEN numbers
  ELSE [err |-> "none", next |-> next,
        file |-> [name |-> name, extra |-> extra, comment |-> note,
                  method |-> central.method, descriptor |-> central.descriptor,
                  crc |-> central.crc, csize |-> numbers.csize, usize |-> numbers.usize,
                  offset |-> numbers.offset,
                  modified |-> Modified(central.dos, extra),
                  nonUTF8 |-> NonUTF8(detectUTF8(name), detectUTF8(note), central.utf8)]]

\* readDirectoryHeader at an offset; next is the offset after the header.
\* A read that finds nothing at all is an EOF, one that stops short is not.
readDirectoryHeader(file, offset) ==
  IF ~Holds(file, offset) THEN [err |-> "EOF"]
  ELSE IF ~IsCell(file, offset, "central") THEN [err |-> "ErrFormat"]
  ELSE
    LET central == Cell(file, offset)
        extraAt == offset + 1 + central.nameLen
        noteAt == extraAt + central.extraLen
        extra == Cells(file, extraAt, central.extraLen)
    IN IF noteAt + central.commentLen > Len(file)
       THEN [err |-> IF offset + 1 = Len(file) THEN "EOF" ELSE "ErrUnexpectedEOF"]
       ELSE DirectoryHeader(central, Cells(file, offset + 1, central.nameLen), extra,
                            Cells(file, noteAt, central.commentLen),
                            Zip64Numbers(central, extra),
                            noteAt + central.commentLen)

\* Headers are read until one is bad.
DirectoryFrom(file, offset) ==
  LET After(header, rest) ==
        IF header.err # "none" THEN [err |-> header.err, files |-> <<>>]
        ELSE [err |-> rest[header.next].err,
              files |-> <<header.file>> \o rest[header.next].files]
      from[at \in offset..Len(file)] == After(readDirectoryHeader(file, at), from)
  IN from[offset]

\* Mutant: as many headers as there are.
OpenedUncounted(end, directory) ==
  IF end.err # "none" THEN end
  ELSE IF directory.err = "EOF" THEN [err |-> "EOF"]
  ELSE [err |-> "none", files |-> directory.files, comment |-> end.comment]

\* Reader.init: the number of headers only counts modulo the width of its field.
Opened(end, directory) ==
  IF end.err # "none" THEN end
  ELSE IF directory.err = "EOF" THEN [err |-> "EOF"]
  ELSE IF Narrow16(Len(directory.files)) # Narrow16(end.records) THEN [err |-> directory.err]
  ELSE [err |-> "none", files |-> directory.files, comment |-> end.comment]

OpenReader(file) ==
  LET Open(end) == Opened(end, DirectoryFrom(file, end.offset))
  IN Open(readDirectoryEnd(file))

---------------------------------------------------------------------------
\* The cells of a file that a local header must precede.
LocalError(file, f) ==
  IF ~Holds(file, f.offset) THEN "EOF"
  ELSE IF ~IsCell(file, f.offset, "local") THEN "ErrFormat" ELSE "none"

LocalExtraField(file, f) ==
  LET local == Cell(file, f.offset)
      at == f.offset + 1 + local.nameLen
  IN IF LocalError(file, f) # "none" THEN [err |-> LocalError(file, f)]
     ELSE IF at + local.extraLen > Len(file) THEN [err |-> "EOF"]
     ELSE [err |-> "none", extra |-> Cells(file, at, local.extraLen)]

findBodyOffset(file, f) ==
  f.offset + 1 + Cell(file, f.offset).nameLen + Cell(file, f.offset).extraLen

\* What the decompressor makes of the cells of a body.
Decompressors == {"Store", "Deflate"}
Decompressed(method, cells) ==
  IF method = "Store" THEN [err |-> "none", data |-> cells]
  ELSE IF cells = <<>> THEN [err |-> "ErrUnexpectedEOF"]
  ELSE IF Head(cells).cell # "deflated" THEN [err |-> "CorruptInput"]
  ELSE [err |-> "none", data |-> Head(cells).content]

\* checksumReader.Read, when the decompressor has no more: the size, the
\* descriptor (at an offset) and the checksum are looked at.
\* Mutant: only the size is.
CheckedForSize(file, f, body, after) ==
  IF body.err # "none" THEN body
  ELSE IF Len(body.data) # f.usize THEN [err |-> "ErrUnexpectedEOF"]
  ELSE body

Checked(file, f, body, after) ==
  IF body.err # "none" THEN body
  ELSE IF Len(body.data) # f.usize \/ (f.descriptor /\ ~Holds(file, after))
       THEN [err |-> "ErrUnexpectedEOF"]
  ELSE IF \/ f.descriptor /\ ~IsCell(file, after, "descriptor")
          \/ f.descriptor /\ IsCell(file, after, "descriptor") /\ Cell(file, after).crc # f.crc
          \/ (f.descriptor \/ f.crc # Crc32(<<>>)) /\ Crc32(body.data) # f.crc
       THEN [err |-> "ErrChecksum"]
  ELSE body

ReadBody(file, f, at) ==
  Checked(file, f,
          Decompressed(f.method, SubSeq(file, at + 1, Min({at + f.csize, Len(file)}))),
          at + f.csize)

\* Open, and Read to the end.
ReadAll(file, f) ==
  IF LocalError(file, f) # "none" THEN [err |-> LocalError(file, f)]
  ELSE IF f.method \notin Decompressors THEN [err |-> "ErrAlgorithm"]
  ELSE ReadBody(file, f, findBodyOffset(file, f))
=============================================================================
