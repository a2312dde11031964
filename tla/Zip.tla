--------------------------------- MODULE Zip ---------------------------------
(* An archive is written, reaches the disk whole, cut short or with one cell   *)
(* overwritten, by what nothing recognises or by what could be read in its     *)
(* place, and is read (ZipWriter, ZipReader).                                  *)
EXTENDS ZipWriter, ZipReader

CONSTANT Blots \* what a damaged cell may read as, besides Junk

\* What may happen to the file of a caller: a subset of {"cut", "damaged"}.
Faults == Plan[caller].faults

VARIABLES file,  \* the file that is read
          fate,  \* "unread", "whole", "cut" or "damaged"
          opened \* what OpenReader returned

vars == <<wvars, file, fate, opened>>

Unopened == [err |-> "unopened"]
Init == WInit /\ file = <<>> /\ fate = "unread" /\ opened = Unopened

\* The file of a writer that stopped, or was stopped, at some point.
Keep == fate' = "whole" /\ file' = out
Cut(n) == "cut" \in Faults /\ fate' = "cut" /\ file' = SubSeq(out, 1, n)
Damage(k, c) == "damaged" \in Faults /\ fate' = "damaged" /\ file' = [out EXCEPT ![k] = c]

Open == /\ wpc = "closed" /\ fate = "unread"
        /\ \/ Keep
           \/ \E n \in 0..Len(out) - 1 : Cut(n)
           \/ \E k \in DOMAIN out, c \in Blots \cup {Junk} : Damage(k, c)
        /\ opened' = OpenReader(file')
        /\ UNCHANGED wvars

Next == \/ WNext /\ UNCHANGED <<file, fate, opened>>
        \/ Open
Spec == Init /\ [][Next]_vars
---------------------------------------------------------------------------
\* What a reader must find for a file that was given to the writer.
IsReadBack(f, was) ==
  /\ f.name = was.header.name /\ f.comment = was.header.comment
  /\ f.method = IF IsDirectory(was.header) THEN "Store" ELSE was.header.method
  /\ IsPrefix(was.header.extra, f.extra)
  /\ f.usize = Len(was.content)
  /\ ReadAll(file, f) = [err |-> "none", data |-> was.content]
  /\ LET local == LocalExtraField(file, f)
     IN local.err = "none" /\ IsPrefix(local.extra, f.extra)

ReadBackWhole ==
  /\ opened.err = "none" /\ opened.comment = comment
  /\ Len(opened.files) = Len(given)
  /\ \A k \in DOMAIN given : IsReadBack(opened.files[k], given[k])

\* The extra of every file still fits in its field when Close has added the
\* zip64 numbers to it, and its comment fits in its own.  CreateHeader accepts
\* others (writer.go:124, 381), whose archives cannot be read.
LengthsFit ==
  \A k \in DOMAIN dir :
    Len(CentralExtra(dir[k])) <= uint16max /\ Len(dir[k].comment) <= uint16max

\* An archive that was closed is read back exactly: every file under its name,
\* with its extra fields and its data, whatever overflowed a 2- or 4-byte field
\* on the way and wherever the archive begins in its file (writer.go:76-206
\* against reader.go:96-131, 299-467, 509-563).
ClosedIsReadBack == fate = "whole" /\ LengthsFit => ReadBackWhole

\* Before the end record of the archive is another that says that there are no
\* files, as its field counts them, or that leads to a header: there is an
\* archive among the data.
HoldsArchive ==
  \E p \in DOMAIN file :
    /\ p < Len(out) - Len(comment) /\ file[p].cell \in {"end", "end64"}
    /\ Narrow16(file[p].records) = 0 \/ IsCell(file, file[p].offset, "central")

\* An archive that was cut short anywhere, as by a crash or a failed write, is
\* not opened as if it were one.  If what is left holds an archive among its
\* data, that one may be opened in its place (reader.go:96-131, 509-563).
CutIsRefused == fate = "cut" /\ ~HoldsArchive => opened.err # "none"

\* The header that the reader has for a file is the one that Close wrote.
IsHeaderOf(f, h) ==
  /\ f.name = h.name /\ f.method = h.method /\ f.offset = h.offset
  /\ f.descriptor = h.descriptor /\ f.crc = h.crc
  /\ f.csize = h.csize64 /\ f.usize = h.usize64

\* A file whose header in the directory is as Close wrote it, and which is read
\* to its end without an error, has the data that was given for it, whole,
\* whatever any other cell of the archive became (the size, the descriptor and
\* the checksum, reader.go:223-258).  The directory has no checksum: nothing is
\* said of a file behind a header that was overwritten by another.
DataIsAsWritten ==
  opened.err = "none" =>
    \A n \in DOMAIN opened.files, k \in DOMAIN given :
      LET read == ReadAll(file, opened.files[n])
      IN IsHeaderOf(opened.files[n], dir[k]) /\ read.err = "none" =>
           read.data = given[k].content

\* The instant a file was modified at is recovered if 4 bytes hold it, and its
\* zone if the zone is one and the year fits in an MS-DOS date: "an extended
\* timestamp is preferred over the legacy MS-DOS date field, and the offset
\* between the times is used as the timezone" (struct.go:120-122).
TimesSurvive ==
  fate = "whole" /\ LengthsFit =>
    \A k \in DOMAIN given :
      LET was == given[k].header.modified
          now == opened.files[k].modified
          local == was.at + was.zone
      IN given[k].header.dated /\ was.at \in 0..TimeWidth - 1 =>
           /\ now.at = was.at /\ now.fixed
           /\ /\ local \in DosFirst..DosFirst + DosSpan - 1
              /\ was.zone % Alias = 0 /\ was.zone \in MinOffset..MaxOffset
              => now.zone = was.zone

\* A name and a comment are taken for UTF-8 exactly if they are and, where that
\* could be doubted, the caller did not say otherwise (writer.go:266-289,
\* reader.go:333-349).
EncodingSurvives ==
  fate = "whole" /\ LengthsFit =>
    \A k \in DOMAIN given :
      LET fh == given[k].header
          parts == {detectUTF8(fh.name), detectUTF8(fh.comment)}
      IN opened.files[k].nonUTF8 =
           (\/ \E part \in parts : ~part.valid
            \/ fh.nonUTF8 /\ \E part \in parts : part.require)
=============================================================================
