------------------------------ MODULE Commands ------------------------------
(***************************************************************************)
(* The commands, as main.go starts them: each is a process of its own.     *)
(* Files writes a repository to a directory, Diff compares two, Lookup     *)
(* lists a repository and shows what it holds, Httrack does so with a      *)
(* cache of httrack, and Scope is what scrape makes of its flags.          *)
(***************************************************************************)
EXTENDS URLs, FiniteSets

CONSTANTS
  Repositories, OutDir, RawOf, Mappings, Plain, Nobody,
  FilesFaults, MaxRuns,                                         \* of Files
  Pairs, Rank, IgnoreStatuses, Headers, LongLines, DiffFaults,  \* of Diff
  Holdings, AskedURLs, ListFaults,                              \* of Lookup
  RootLists, Remaps, Requests, LabelsOf, ParameterOrder,        \* of Scope
  Stored, AskedNames, CacheFaults, Blots,                       \* of Httrack
  uint16max, uint32max, MultiByte, Invalid, Resolution, DosFirst, DosSpan,
  TimeWidth, Alias, MinOffset, MaxOffset, Near, Far             \* of its archives

VARIABLES
  command,
  entries, mappings, e, chunk, dirs, files, times, skipped, filespc, runs,
  sideA, sideB, i, j, reports, diffpc,
  docs, format, canonical, printed, lpc, answer,
  roots, remaps, strip, request, wire,
  stored, file, zipFiles, cached, handle, listed, shown, hpc

F == INSTANCE Files
D == INSTANCE Diff
L == INSTANCE Lookup
S == INSTANCE Scope
H == INSTANCE Httrack

\* The bases given to Rebase must be absolute URLs (rebase.go:17); that an old
\* one is matters to nothing, as no link is under a relative one.
ASSUME FilesAssumption ==
  /\ IsSequence(OutDir) /\ OutDir # <<>>
  /\ \A documents \in Repositories :
       /\ IsSequence(documents)
       /\ \A k \in DOMAIN documents :
            /\ IsSequence(documents[k].body)
            /\ \A c \in {documents[k].body[n] : n \in DOMAIN documents[k].body} :
                 c = Plain \/ IsURL(c)
  /\ \A bases \in Mappings :
       /\ IsSequence(bases)
       /\ \A k \in DOMAIN bases :
            /\ IsURL(bases[k].old)
            /\ IsURL(bases[k].new) /\ IsAbs(bases[k].new)

\* What bodies and headers are, and that every canonical URL has its place in the order.
ASSUME DiffAssumption ==
  /\ \A u \in DOMAIN Rank : Rank[u] \in Int
  /\ \A p \in Pairs : \A list \in {p[1], p[2]} :
       /\ IsSequence(list)
       /\ \A k \in DOMAIN list :
            /\ Canonical(list[k].url) \in DOMAIN Rank
            /\ IsSequence(list[k].body.lines) /\ IsSequence(list[k].headers)
            /\ \E binary \in BOOLEAN :
                 list[k].body = [lines |-> list[k].body.lines,
                                 ends |-> list[k].body.ends, binary |-> binary]

\* A repository holds one document for each key, of URLs that were requested.
ASSUME LookupAssumption ==
  \A documents \in Holdings :
    /\ IsSequence(documents)
    /\ \A k \in DOMAIN documents :
         /\ IsURL(documents[k].url) /\ IsAbs(documents[k].url)
         /\ \A m \in DOMAIN documents :
              Key(documents[k].url) = Key(documents[m].url) => k = m

\* A URL is requested of a host.  A root that does not name one, as the flag is
\* meant to (main.go:47), is not what a request begins with.
Sited(u) ==
  /\ IsURL(u) /\ IsAbs(u) /\ u.host # ""
  /\ u.path = <<>> \/ u.path[1] = "/"

\* In a string "/", "?", "&" and "=" are only written between names and values;
\* inside them they are escaped.
Plainly(u) ==
  /\ IsURL(u) /\ IsSequence(u.query)
  /\ "?" \notin Range(u.path)
  /\ \A k \in DOMAIN u.query :
       /\ u.query[k].name \in S!Tracking \cup Range(ParameterOrder)
       /\ u.query[k].value \in DOMAIN LabelsOf

ASSUME ScopeAssumption ==
  /\ IsSequence(ParameterOrder)
  /\ \A u \in Requests :
       Sited(u) /\ Plainly(u) /\ Lower(u.host) \in DOMAIN LabelsOf
  /\ \A given \in RootLists : \A n \in DOMAIN given :
       /\ Plainly(given[n])
       /\ given[n].host # "" => Lower(given[n].host) \in DOMAIN LabelsOf
       /\ Sited(given[n]) \/
            /\ ~IsAbs(given[n])
            /\ given[n].host = "" => given[n].path # <<>>
            /\ \A u \in Requests :
                 Lower(u.scheme) #
                   IF given[n].host = "" THEN given[n].path[1] ELSE "//"
  /\ \A name \in DOMAIN LabelsOf :
       /\ IsSequence(LabelsOf[name])
       /\ \A k \in DOMAIN LabelsOf[name] : LabelsOf[name][k] \notin {":", "/"}
       /\ \A other \in DOMAIN LabelsOf : LabelsOf[name] = LabelsOf[other] => name = other

\* httrack writes 4-byte numbers, so that what it writes is within their limits.
ASSUME HttrackAssumption ==
  /\ uint16max \in Nat \ {0} /\ uint32max \in Nat /\ uint32max > uint16max
  /\ Near \in Nat \ {0}
  /\ \A cache \in Stored :
       /\ IsSequence(cache)
       /\ \A k \in DOMAIN cache :
            LET r == cache[k].response
            IN  /\ \E parses \in BOOLEAN :
                     r = H!Response(parses, r.xSize, r.size, r.inCache)
                /\ IsSequence(cache[k].body)
       /\ Len(H!Archive(cache)) <= uint32max
  /\ \A c \in Blots : c.cell = "deflated" => IsSequence(c.content)

filesVars ==
  <<entries, mappings, e, chunk, dirs, files, times, skipped, filespc, runs>>
diffVars == <<sideA, sideB, i, j, reports, diffpc>>
lookupVars == <<docs, format, canonical, printed, lpc, answer>>
scopeVars == <<roots, remaps, strip, request, wire>>
httrackVars == <<stored, file, zipFiles, cached, handle, listed, shown, hpc>>
vars == <<command, filesVars, diffVars, lookupVars, scopeVars, httrackVars>>

\* The variables of the commands that do not run.
FilesIdle ==
  /\ entries = <<>> /\ mappings = <<>> /\ e = 1 /\ chunk = 1
  /\ dirs = {} /\ files = <<>> /\ times = <<>> /\ skipped = {}
  /\ filespc = "idle" /\ runs = 0
DiffIdle ==
  /\ sideA = <<>> /\ sideB = <<>> /\ i = 1 /\ j = 1
  /\ reports = <<>> /\ diffpc = "idle"
LookupIdle ==
  /\ docs = <<>> /\ format = "native" /\ canonical = FALSE
  /\ printed = <<>> /\ lpc = "idle" /\ answer = <<>>
ScopeIdle ==
  /\ roots = <<>> /\ remaps = <<>> /\ strip = FALSE
  /\ request = <<>> /\ wire = <<>>
HttrackIdle ==
  /\ stored = <<>> /\ file = <<>> /\ zipFiles = <<>> /\ cached = <<>>
  /\ handle = "none" /\ listed = <<>> /\ shown = <<>> /\ hpc = "idle"

Init ==
  \/ /\ command = "files" /\ F!Init
     /\ DiffIdle /\ LookupIdle /\ ScopeIdle /\ HttrackIdle
  \/ /\ command = "diff" /\ D!Init
     /\ FilesIdle /\ LookupIdle /\ ScopeIdle /\ HttrackIdle
  \/ /\ command = "lookup" /\ L!Init
     /\ FilesIdle /\ DiffIdle /\ ScopeIdle /\ HttrackIdle
  \/ /\ command = "scrape" /\ S!Init
     /\ FilesIdle /\ DiffIdle /\ LookupIdle /\ HttrackIdle
  \/ /\ command = "httrack" /\ H!Init
     /\ FilesIdle /\ DiffIdle /\ LookupIdle /\ ScopeIdle

Next ==
  \/ /\ command = "files" /\ F!Next
     /\ UNCHANGED <<command, diffVars, lookupVars, scopeVars, httrackVars>>
  \/ /\ command = "diff" /\ D!Next
     /\ UNCHANGED <<command, filesVars, lookupVars, scopeVars, httrackVars>>
  \/ /\ command = "lookup" /\ L!Next
     /\ UNCHANGED <<command, filesVars, diffVars, scopeVars, httrackVars>>
  \/ /\ command = "scrape" /\ S!Next
     /\ UNCHANGED <<command, filesVars, diffVars, lookupVars, httrackVars>>
  \/ /\ command = "httrack" /\ H!Next
     /\ UNCHANGED <<command, filesVars, diffVars, lookupVars, scopeVars>>

Spec == Init /\ [][Next]_vars

-----------------------------------------------------------------------------
(* Properties: those of the commands, while they run.                      *)

\* Every document that was not skipped is in its file, whole and with its time
\* (files.go:24-137).
DocumentsAreGenerated == F!DocumentsAreGenerated

\* The reverse of the mapping leads from a link in a file back to the one in
\* the document (main.go:708-724, rebase.go:18-52).
LinksCanBeTracedBack == F!LinksCanBeTracedBack

\* The output directory never mixes two runs (files.go:29-32).
OneRunPerDirectory == F!OneRunPerDirectory

\* main.go:130, "copy files to directory": a file is a copy of one document.
FilesAreCopies == F!FilesAreCopies

\* Every entry is reported, and paired if it can be (main.go:418-500).
ReportsAreRight == D!ReportsAreRight

\* The command prints only "equal" when the repositories hold the same
\* (main.go:438-495).
DifferencesShow == D!DifferencesShow

\* show finds the document of each URL that list prints, and list prints them
\* all (main.go:261-297, 599-613).
PrintedIsFound == L!PrintedIsFound

\* What is followed is under a root (main.go:164-172, 218-226).
FollowedIsUnderRoot == S!FollowedIsUnderRoot

\* The URLs of one document are asked of one server (main.go:189-206, 237-253).
OneServerPerKey == S!OneServerPerKey

\* A cache is loaded whole or not at all, and its file then closed
\* (httrack.go:25-36, 64-119).
CacheIsWhole == H!CacheIsWhole

\* What is shown under a URL is of one file that is named by it, with its whole
\* body (main.go:614-645).
ShownIsStored == H!ShownIsStored
=============================================================================
