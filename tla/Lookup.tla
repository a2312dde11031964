-------------------------------- MODULE Lookup --------------------------------
(***************************************************************************)
(* The commands list, show and show-file of main.go on a native            *)
(* repository, one after the other: what list has printed is given to show. *)
(* For a cache of httrack see module Httrack.                              *)
(*                                                                         *)
(* A repository is a sequence of documents, in the order of Repository.List *)
(* and one for each key; a document that is not whole cannot be opened.    *)
(***************************************************************************)
EXTENDS URLs

CONSTANTS
  Holdings,     \* the repositories, sequences of [url, whole]
  AskedURLs,    \* URLs that nobody has printed
  ListFaults    \* a subset of {"print"}: standard output fails

VARIABLES
  docs,         \* the repository
  format,       \* the flag format: "native" or another
  canonical,    \* the flag canonical
  printed,      \* the URLs that list has printed
  lpc,          \* list: "listing", "listed" or "failed"
  answer        \* of show: <<>> or <<[asked, of]>>, the document shown or 0

vars == <<docs, format, canonical, printed, lpc, answer>>

Init ==
  /\ docs \in Holdings
  /\ format \in {"native", "other"}
  /\ canonical \in BOOLEAN
  /\ printed = <<>>
  /\ lpc = "listing"
  /\ answer = <<>>

\* An entry is opened, its URL printed and the document closed.
Printed(u) == IF canonical THEN Canonical(u) ELSE u

PrintNext ==
  /\ lpc = "listing"
  /\ format = "native"
  /\ Len(printed) < Len(docs)
  /\ docs[Len(printed) + 1].whole
  /\ printed' = Append(printed, Printed(docs[Len(printed) + 1].url))
  /\ UNCHANGED <<docs, format, canonical, lpc, answer>>

\* The command ends at the first entry that cannot be opened or printed.
ListFails ==
  /\ lpc = "listing"
  /\ format = "native"
  /\ Len(printed) < Len(docs)
  /\ ~docs[Len(printed) + 1].whole \/ "print" \in ListFaults
  /\ lpc' = "failed"
  /\ UNCHANGED <<docs, format, canonical, printed, answer>>

\* There are no more entries; of an unknown format nothing is said.
ListEnds ==
  /\ lpc = "listing"
  /\ format = "native" => Len(printed) = Len(docs)
  /\ lpc' = "listed"
  /\ UNCHANGED <<docs, format, canonical, printed, answer>>

-----------------------------------------------------------------------------

\* Mutant: the document is looked for under the canonical URL.
LoadCanonical(u) ==
  {n \in DOMAIN docs : Key(docs[n].url) = Canonical(u) /\ docs[n].whole}

\* Repository.Load: the document whose file is named by the key of a URL.
Load(u) == {n \in DOMAIN docs : Key(docs[n].url) = Key(u) /\ docs[n].whole}

\* show: a URL that is not absolute is refused.
Show(u) ==
  /\ lpc # "listing"
  /\ answer = <<>>
  /\ answer' = <<[asked |-> u, of |-> IF IsAbs(u) THEN Load(u) ELSE {}]>>
  /\ UNCHANGED <<docs, format, canonical, printed, lpc>>

\* show-file opens the file of the n-th document.
ShowFile(n) ==
  /\ lpc # "listing"
  /\ answer = <<>>
  /\ answer' = <<[asked |-> docs[n].url, of |-> IF docs[n].whole THEN {n} ELSE {}]>>
  /\ UNCHANGED <<docs, format, canonical, printed, lpc>>

Next ==
  \/ PrintNext \/ ListFails \/ ListEnds
  \/ \E u \in AskedURLs \cup {printed[n] : n \in DOMAIN printed} : Show(u)
  \/ \E n \in DOMAIN docs : ShowFile(n)

Spec == Init /\ [][Next]_vars

-----------------------------------------------------------------------------
(* Properties.                                                             *)

\* Each line that list prints is the n-th document's, and show finds that one
\* document when it is given the line: although the URL may have been brought
\* to its canonical form, and although the document is stored under a key in
\* which the URL has lost its fragment and some of its parameters; and when it
\* ends without an error, every document has its line, so that all that is
\* stored can be found (main.go:261-297, 599-613; key.go:11-45).
PrintedIsFound ==
  /\ \A n \in DOMAIN printed : \A k \in DOMAIN answer :
       answer[k].asked = printed[n] => answer[k].of = {n}
  /\ lpc = "listed" /\ format = "native" =>
       Len(printed) = Len(docs) /\ \A n \in DOMAIN docs : docs[n].whole
=============================================================================
