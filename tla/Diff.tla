-------------------------------- MODULE Diff --------------------------------
(***************************************************************************)
(* The command diff: the entries of two repositories are listed, sorted by *)
(* their canonical URLs, and walked side by side; what is printed is a     *)
(* sequence of reports.                                                    *)
(*                                                                         *)
(* A native repository holds one document per key.  An httrack cache may   *)
(* hold several entries of one canonical URL.  A body is a record with its *)
(* lines, how they end and whether there is a zero byte among them.        *)
(* The headers of a response are its lines in a dump, without the first.   *)
(***************************************************************************)
EXTENDS URLs, FiniteSets

CONSTANTS
  Pairs,          \* the pairs of repositories, each a sequence of entries
  Rank,           \* where each canonical URL stands in the order of strings
  IgnoreStatuses, \* the flag ignore-status
  Headers,        \* the flag headers
  LongLines,      \* the lines that are too long for a bufio.Scanner, 64 KB or more
  DiffFaults      \* "read" when reading an entry may fail

VARIABLES
  sideA, sideB,   \* the lists of entries, as listed, then sorted
  i, j,           \* the positions of the walk
  reports,
  diffpc

sideVars == <<sideA, sideB>>
diffVars == <<sideVars, i, j, reports, diffpc>>

Init ==
  /\ \E p \in Pairs : sideA = p[1] /\ sideB = p[2]
  /\ i = 1
  /\ j = 1
  /\ reports = <<>>
  /\ diffpc = "list"

CanonicalURL(x) == Canonical(x.url)
Before(x, y) == Rank[CanonicalURL(x)] < Rank[CanonicalURL(y)]

\* The orders that sort.Slice may leave s in: it is not stable.
Sorted(s) ==
  {[n \in DOMAIN s |-> s[p[n]]] :
     p \in {p \in [DOMAIN s -> DOMAIN s] :
              /\ IsInjective(p)
              /\ \A m, n \in DOMAIN s : m < n => ~Before(s[p[n]], s[p[m]])}}

\* Mutant: the second list is left as it was listed.
SortFirst ==
  /\ diffpc = "list"
  /\ sideA' \in Sorted(sideA)
  /\ diffpc' = "walk"
  /\ UNCHANGED <<sideB, i, j, reports>>

Sort ==
  /\ diffpc = "list"
  /\ sideA' \in Sorted(sideA)
  /\ sideB' \in Sorted(sideB)
  /\ diffpc' = "walk"
  /\ UNCHANGED <<i, j, reports>>

\* One of the lists cannot be read: the command ends there.
CannotList ==
  /\ diffpc = "list"
  /\ "read" \in DiffFaults
  /\ diffpc' = "failed"
  /\ UNCHANGED <<sideVars, i, j, reports>>

-----------------------------------------------------------------------------
(* The walk.                                                               *)

Walking == diffpc = "walk"
InA == i <= Len(sideA)
InB == j <= Len(sideB)

Report(r) == reports' = Append(reports, r)

Only(side, n) ==
  [side |-> side, a |-> IF side = "A" THEN n ELSE 0,
   b |-> IF side = "B" THEN n ELSE 0, body |-> "none", diff |-> FALSE,
   status |-> FALSE, headers |-> FALSE]

OnlyInA ==
  /\ Walking
  /\ InA
  /\ InB => Before(sideA[i], sideB[j])
  /\ Report(Only("A", i))
  /\ i' = i + 1
  /\ UNCHANGED <<sideVars, j, diffpc>>

OnlyInB ==
  /\ Walking
  /\ InB
  /\ InA => Before(sideB[j], sideA[i])
  /\ Report(Only("B", j))
  /\ j' = j + 1
  /\ UNCHANGED <<sideVars, i, diffpc>>

\* Mutant: a status to be ignored is ignored in one repository.
BodyReportEither(x, y) ==
  IF {x.status, y.status} \cap IgnoreStatuses # {} THEN "ignored"
  ELSE IF x.body = y.body THEN "equal"
  ELSE IF x.body.binary \/ y.body.binary THEN "binary"
  ELSE "text"

\* What is printed about two bodies.
BodyReport(x, y) ==
  IF x.status = y.status /\ x.status \in IgnoreStatuses THEN "ignored"
  ELSE IF x.body = y.body THEN "equal"
  ELSE IF x.body.binary \/ y.body.binary THEN "binary"
  ELSE "text"

\* The lines that a diff compares, without the line feeds and carriage returns
\* they end in: the scanner stops at a line that is too long, and nobody asks
\* for its error.
splitLines(lines) ==
  Restrict(lines, {n \in DOMAIN lines : \A m \in 1 .. n : lines[m] \notin LongLines})

Compare ==
  /\ Walking
  /\ InA /\ InB
  /\ CanonicalURL(sideA[i]) = CanonicalURL(sideB[j])
  /\ LET x == sideA[i]
         y == sideB[j]
         body == BodyReport(x, y)
     IN  Report([side |-> "both", a |-> i, b |-> j, body |-> body,
                 diff |-> body = "text" /\ splitLines(x.body.lines) # splitLines(y.body.lines),
                 status |-> x.status # y.status,
                 headers |-> Headers /\ body # "ignored"
                             /\ splitLines(x.headers) # splitLines(y.headers)])
  /\ i' = i + 1
  /\ j' = j + 1
  /\ UNCHANGED <<sideVars, diffpc>>

\* An entry cannot be read: the command ends there.
CannotRead ==
  /\ Walking
  /\ "read" \in DiffFaults
  /\ InA /\ InB
  /\ CanonicalURL(sideA[i]) = CanonicalURL(sideB[j])
  /\ diffpc' = "failed"
  /\ UNCHANGED <<sideVars, i, j, reports>>

EndOfWalk ==
  /\ Walking
  /\ ~InA /\ ~InB
  /\ diffpc' = "done"
  /\ UNCHANGED <<sideVars, i, j, reports>>

Next ==
  \/ Sort \/ CannotList
  \/ OnlyInA \/ OnlyInB \/ Compare \/ CannotRead \/ EndOfWalk

-----------------------------------------------------------------------------
(* Properties.                                                             *)

Positions(s, side) == {s[n][side] : n \in DOMAIN s} \ {0}

URLCount(s, P, u) == Cardinality({n \in P : CanonicalURL(s[n]) = u})

\* At any point of the walk every entry passed is in one report; in the end the
\* entries of a canonical URL have been paired as far as there are any in both
\* repositories, whatever order the equal ones were sorted in, and the rest
\* reported as being in one (main.go:418-500).
ReportsAreRight ==
  LET pairs == {n \in DOMAIN reports : reports[n].side = "both"}
  IN  /\ Positions(reports, "a") = 1 .. i - 1
      /\ Positions(reports, "b") = 1 .. j - 1
      /\ Len(reports) = (i - 1) + (j - 1) - Cardinality(pairs)
      /\ diffpc = "done" =>
           \A u \in DOMAIN Rank :
             LET inA == URLCount(sideA, DOMAIN sideA, u)
                 inB == URLCount(sideB, DOMAIN sideB, u)
                 pairedA == URLCount(sideA, {reports[n].a : n \in pairs}, u)
                 pairedB == URLCount(sideB, {reports[n].b : n \in pairs}, u)
             IN  /\ pairedA = pairedB
                 /\ pairedA = IF inA < inB THEN inA ELSE inB

\* Nothing but "equal" was printed.
NothingShown ==
  \A n \in DOMAIN reports :
    /\ reports[n].side = "both"
    /\ reports[n].body = "equal"
    /\ ~reports[n].status
    /\ ~reports[n].headers

Content(s) ==
  {[url |-> CanonicalURL(s[n]), status |-> s[n].status, body |-> s[n].body] : n \in DOMAIN s}

\* Nothing shows of a difference behind a line that is too long, or in it.
Hidden(s, t) ==
  \E k \in DOMAIN s \cup DOMAIN t :
    /\ \/ k \in DOMAIN s /\ s[k] \in LongLines
       \/ k \in DOMAIN t /\ t[k] \in LongLines
    /\ \A n \in 1 .. k - 1 : n \in DOMAIN s /\ n \in DOMAIN t /\ s[n] = t[n]

\* What the command is for (README.md:44-46): when it has ended and printed
\* nothing but "equal", the two repositories hold the same documents; and when
\* they differ in a document that both have, other than in a status to be
\* ignored in both or in line ends, a line says so.  A text diff of bodies that
\* differ in line ends, or from a line of 64 KB on, shows two empty lines,
\* without the URL; one of headers that do, nothing.
DifferencesShow ==
  diffpc = "done" =>
    /\ NothingShown => Content(sideA) = Content(sideB)
    /\ \A n \in DOMAIN reports :
         LET r == reports[n]
             x == sideA[r.a]
             y == sideB[r.b]
         IN  r.side = "both" =>
               /\ x.status # y.status => r.status
               /\ x.body # y.body => r.body # "equal"
               /\ r.body = "text" /\ ~r.diff =>
                    \/ x.body.ends # y.body.ends
                    \/ Hidden(x.body.lines, y.body.lines)
               /\ r.body = "ignored" => {x.status, y.status} \subseteq IgnoreStatuses
               /\ Headers /\ r.body # "ignored" /\ x.headers # y.headers =>
                    r.headers \/ Hidden(x.headers, y.headers)
=============================================================================
