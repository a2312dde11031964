------------------------------ MODULE ZipFormat ------------------------------
(* What the writer and the reader of zip archives share                       *)
(* (httrack/internal/go/zip/struct.go): the records of an archive, the widths *)
(* of their fields and the two encodings of a time.                           *)
(*                                                                            *)
(* A file is a sequence of cells, and offsets and lengths count cells.  Each  *)
(* record with fixed fields is one cell, whatever its length in bytes; so is  *)
(* each piece of a name or a comment, each extra field, each unit of stored   *)
(* data, and a whole deflated body.  The widths are constants: an archive of  *)
(* a few cells already reaches the largest number a field can hold.           *)
EXTENDS Integers, Sequences, FiniteSetsExt, AnySequences

CONSTANTS uint16max, uint32max, \* the largest value of a field of 2 and of 4 bytes
          MultiByte, \* text that is valid UTF-8 and not plain ASCII
          Invalid,   \* text that is not valid UTF-8
          Resolution, DosFirst, DosSpan, \* of MS-DOS times: the step, 1980, the years it can hold
          TimeWidth, \* 2^32 seconds: the range of an extended timestamp
          Alias, MinOffset, MaxOffset \* 15 minutes, -12 hours and 14 hours

ASSUME WidthsAssumption == /\ uint16max \in Nat \ {0}
                           /\ uint32max \in Nat /\ uint32max > uint16max
ASSUME TimesAssumption ==
  /\ {Resolution, DosSpan, TimeWidth, Alias} \subseteq Nat \ {0}
  /\ {DosFirst, MinOffset, MaxOffset} \subseteq Int
  /\ DosSpan % Resolution = 0 /\ 2 * Resolution <= Alias
  /\ MinOffset % Alias = 0 /\ MaxOffset % Alias = 0
  /\ DosSpan > MaxOffset - MinOffset + 2 * Alias
  /\ MultiByte \cap Invalid = {}

Narrow16(n) == n % (uint16max + 1)
Narrow32(n) == n % (uint32max + 1)

---------------------------------------------------------------------------
(* Cells *)

Text(t) == [cell |-> "text", text |-> t]
IsTexts(s) == IsSequence(s) /\ \A k \in DOMAIN s : s[k].cell = "text"
Junk == [cell |-> "junk"]
Extra(tag, values) == [cell |-> "extra", tag |-> tag, values |-> values]

\* A checksum that no two contents share.  As in the code, the checksum of
\* nothing is the zero that stands for "no checksum".
Crc32(content) == content

\* A file needs 8-byte sizes.
isZip64(csize, usize) == csize >= uint32max \/ usize >= uint32max

\* A string is valid UTF-8, and cannot be taken for anything else.
detectUTF8(string) ==
  LET pieces == {string[k] : k \in DOMAIN string}
  IN [valid |-> \A t \in Invalid : Text(t) \notin pieces,
      require |-> /\ \A t \in Invalid : Text(t) \notin pieces
                  /\ \E t \in MultiByte : Text(t) \in pieces]

---------------------------------------------------------------------------
(* Times.  A time is the instant `at', in seconds, and the offset `zone' of    *)
(* its location.  An MS-DOS time is the local time in steps of two seconds     *)
(* since 1980, counted from 1; 0 is the date whose fields are all zero.        *)

timeToMsDosTime(t) ==
  1 + ((t.at + t.zone - DosFirst) % DosSpan) \div Resolution

msDosTimeToTime(dos) == DosFirst + (dos - 1) * Resolution

\* Duration.Round(Alias): halves away from zero.
RoundedToAlias(offset) ==
  IF offset >= 0 THEN ((2 * offset + Alias) \div (2 * Alias)) * Alias
                 ELSE - (((2 * (-offset) + Alias) \div (2 * Alias)) * Alias)

\* Mutant: the two seconds that an MS-DOS time may lack stay in the zone.
timeZoneUnrounded(offset) ==
  IF offset < MinOffset \/ MaxOffset < offset THEN 0 ELSE offset

timeZone(offset) ==
  LET rounded == RoundedToAlias(offset)
  IN IF rounded < MinOffset \/ MaxOffset < rounded THEN 0 ELSE rounded
=============================================================================
