-------------------------------- MODULE MCZip --------------------------------
(* Archives of up to five files with fields so narrow (16-bit numbers end at   *)
(* 3, 32-bit ones at 7) that names, extra fields, sizes, offsets and the       *)
(* number of files all come to their ends; three goroutines, two readers and   *)
(* two flate readers.                                                          *)
EXTENDS ZipPackage

Texts(pieces) == [k \in DOMAIN pieces |-> Text(pieces[k])]

Header(name) ==
  [name |-> Texts(name), comment |-> <<>>, extra |-> <<>>, method |-> "Store",
   utf8 |-> FALSE, nonUTF8 |-> FALSE, dated |-> FALSE, modified |-> [at |-> 0, zone |-> 0]]
Noted(name, note) == [Header(name) EXCEPT !.comment = Texts(note)]
Dated(instant, zone) ==
  [Header(<<"a">>) EXCEPT !.dated = TRUE, !.modified = [at |-> instant, zone |-> zone]]
Deflated(fh) == [fh EXCEPT !.method = "Deflate"]
With(fh, extra) == [fh EXCEPT !.extra = extra]

A == Header(<<"a">>)
B == Header(<<"b">>)
Folder == Header(<<"c", "/">>)
Unix == Extra("unix", <<9>>)
Other == Extra("other", <<>>)

Encodings ==
  {Noted(name, note) : name \in {<<"a">>, <<"u">>, <<"x">>}, note \in {<<>>, <<"u">>, <<"x">>}}

\* Instants before, in and after what the two encodings hold; zones that are
\* multiples of the alias and others.
Times == {Dated(instant, zone) : instant \in {-2, 0, 9, 18, 19, 45, 59, 60}, zone \in {-16, -8, 0, 5, 12, 16}}

Rich ==
  Encodings \cup {[fh EXCEPT !.nonUTF8 = TRUE] : fh \in Encodings} \cup Times
  \cup {Deflated(A), Folder, [A EXCEPT !.method = "other"],
        [Folder EXCEPT !.method = "other"], [Noted(<<"u">>, <<>>) EXCEPT !.utf8 = TRUE],
        Header(<<>>), Header(<<"a", "b", "c">>), Header(<<"a", "b", "c", "d">>),
        Noted(<<"a">>, <<"n", "n", "n">>), Noted(<<"a">>, <<"n", "n", "n", "n">>),
        With(A, <<Unix>>), With(A, <<Other, Other>>), With(Deflated(A), <<Other, Other, Other>>),
        With(A, <<Other, Other, Other, Other>>), With(Dated(20, 0), <<Unix, Other>>),
        With(Dated(20, 0), <<Other, Other, Other>>)}

MCMinOffset == -8

D == Text("d")
Six == <<D, D, D, D, D, D>>
\* An archive of one file of no data, with the offsets of one that begins with
\* its file or of one that begins where the data of a first file does, and an
\* archive of none.
OneFileAt(n) ==
  <<[cell |-> "local", method |-> "Store", nameLen |-> 1, extraLen |-> 0], Text("b"),
    [cell |-> "descriptor", crc |-> <<>>, csize |-> 0, usize |-> 0],
    [cell |-> "central", method |-> "Store", utf8 |-> FALSE, descriptor |-> TRUE, dos |-> 0,
     crc |-> <<>>, csize |-> 0, usize |-> 0, nameLen |-> 1, extraLen |-> 0, commentLen |-> 0,
     offset |-> n],
    Text("b"), [cell |-> "end", records |-> 1, size |-> 2, offset |-> n + 3, commentLen |-> 0]>>
OneFile == OneFileAt(0)
Settled == OneFileAt(2)
NoFile == <<[cell |-> "end", records |-> 0, size |-> 0, offset |-> 0, commentLen |-> 0]>>

MCChunks == {<<D>>, Six, OneFile, Settled, NoFile}
MCComments == {Texts(<<"n">>), Texts(<<"n", "n", "n">>), Texts(<<"n", "n", "n", "n">>)}

\* Every kind of header first, and sizes around the largest number; the file is
\* read as it was written.
Careful ==
  [headers |-> <<Rich, {B, Deflated(B), Folder}, {Folder}, {Folder}, {Folder}>>,
   bodies |-> <<{<<D>>, Six, Six \o <<D>>, Six \o <<D, D>>}, {<<D>>, Six}, {}, {}, {}>>,
   starts |-> {0, 7}, faults |-> {}]

\* Archives among the data; the file is cut short or damaged.
Unlucky ==
  [headers |-> <<{A, Deflated(A), Dated(20, 4)}, {B, Deflated(B), Folder}, {Folder}, {Folder}>>,
   bodies |-> <<{<<D>>, Six, Six \o <<D>>, OneFile, OneFile \o <<D>>, Settled, NoFile},
                {<<D>>, OneFile}, {}, {}>>,
   starts |-> {0, 1}, faults |-> {"cut", "damaged"}]

\* Damage that is still read as something: another name, a local header without
\* a name, other numbers behind the data and at the end, and a header of the
\* directory that says that there is no checksum.
MCBlots ==
  {Text("b"), [cell |-> "local", method |-> "Store", nameLen |-> 0, extraLen |-> 0],
   [cell |-> "descriptor", crc |-> <<D>>, csize |-> 1, usize |-> 1],
   [cell |-> "central", method |-> "Store", utf8 |-> FALSE, descriptor |-> FALSE, dos |-> 0,
    crc |-> <<>>, csize |-> 1, usize |-> 1, nameLen |-> 1, extraLen |-> 0, commentLen |-> 0,
    offset |-> 0],
   [cell |-> "end", records |-> 1, size |-> 2, offset |-> 5, commentLen |-> 0]}

MCPlan == [careful |-> Careful, unlucky |-> Unlucky]
=============================================================================
