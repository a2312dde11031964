-------------------------------- MODULE Files --------------------------------
(***************************************************************************)
(* The command files: Generate writes every document of a repository to a  *)
(* file of the output directory, and rebases its links on the way.         *)
(*                                                                         *)
(* A body is a sequence of chunks, each some text or a link; a file is a   *)
(* sequence of chunks too, each with the entry and the run it comes from.  *)
(* A path is a sequence of names from the root of the file system, a name  *)
(* a sequence of pieces; "." and ".." are a name's only piece.  A file     *)
(* that is there already is opened as it is (there is no O_TRUNC) and      *)
(* written over from its beginning.                                        *)
(***************************************************************************)
EXTENDS URLs, FiniteSets

CONSTANTS
  Repositories,   \* the lists of documents that List may return
  OutDir,         \* the output directory
  RawOf,          \* the value of each parameter as a URL has it, in pieces:
                  \* a slash need not be escaped there
  Mappings,       \* the lists of [old, new] URLs that rewrite-url may give
  Plain,          \* a chunk that is not a link
  Nobody,         \* the entry that has set a file's time, when none has
  FilesFaults,    \* what may fail or happen
  MaxRuns         \* bound: how often the command is run

VARIABLES
  entries, mappings,    \* what the command is given
  e,                    \* the entry being processed
  chunk,                \* the chunk of its body that is written next
  dirs, files,          \* in the file system, as far as the command makes them
  times,                \* whose time each file has
  skipped,              \* the entries whose errors have been counted
  filespc,
  runs

inputVars == <<entries, mappings>>
treeVars == <<dirs, files, times>>
filesVars == <<inputVars, e, chunk, treeVars, skipped, filespc, runs>>

Init ==
  /\ entries \in Repositories
  /\ mappings \in Mappings
  /\ e = 1
  /\ chunk = 1
  /\ dirs = Prefixes(Front(OutDir))
  /\ files = <<>>
  /\ times = <<>>
  /\ skipped = {}
  /\ filespc = "start"
  /\ runs = 1

-----------------------------------------------------------------------------
(* Where a document goes.                                                  *)

resolvePort(u) == IF u.port # "" THEN u.port ELSE DefaultPort(u.scheme)

Origin(u) ==
  LET uc == Canonical(u) IN <<uc.scheme, "-", uc.host, "-", resolvePort(uc)>>

RawQuery(query) ==
  FlattenSeq([i \in DOMAIN query |->
    (IF i = 1 THEN <<"?">> ELSE <<"&">>) \o <<query[i].name, "=">> \o RawOf[query[i].value]])

\* u.Path is the path as it was requested, not the canonical one, with its
\* escapes resolved.
FileName(d) ==
  LET path == d.url.path
      name == IF d.url.query # <<>> THEN path \o RawQuery(d.url.query)
              ELSE IF path = <<>> \/ EndsInSlash(path) THEN path \o <<"index">>
              ELSE path
  IN  IF d.type = "html" /\ Last(name) # ".html" THEN name \o <<".html">> ELSE name

\* The names between the slashes.
Names(pieces) ==
  FoldLeft(LAMBDA names, p : IF p = "/" THEN Append(names, <<>>)
                             ELSE [names EXCEPT ![Len(names)] = Append(@, p)],
           <<<<>>>>, pieces)

\* filepath.Join: ".." leads out of a directory, be it that of the origin or the
\* output directory.
Join(path, names) ==
  FoldLeft(LAMBDA clean, name :
             IF name \in {<<>>, <<".">>} THEN clean
             ELSE IF name = <<"..">> THEN Front(clean)
             ELSE Append(clean, name),
           path, names)

OriginPath(d) == Append(OutDir, Origin(d.url))
OutputPath(d) == Join(OriginPath(d), Names(FileName(d)))

\* The file is there, under the name of a directory that is needed.
Obstructed(path) == \E p \in Prefixes(Front(path)) : p \in DOMAIN files

\* A redirect to the same URL with a slash, which a file server makes itself.
isDirectoryRedirect(d) ==
  /\ d.url.query = <<>> /\ d.url.fragment = ""
  /\ Canonical(d.location)
       = [Canonical(d.url) EXCEPT !.path = Append(@, "/")]

-----------------------------------------------------------------------------
(* The link rewriter of doFiles.                                           *)

\* The first mapping whose old URL the link is under, or that is wrong.
Applicable(u) ==
  {i \in DOMAIN mappings :
     Rebase(u, mappings[i].old, mappings[i].new).result # "no base"}

Rewritten(u) ==
  IF Applicable(u) = {} THEN Moved(u)
  ELSE LET i == CHOOSE i \in Applicable(u) : \A j \in Applicable(u) : i <= j
       IN  Rebase(u, mappings[i].old, mappings[i].new)

\* Only pages and stylesheets are rewritten, and only if there is a mapping.
NewChunk(c, d) ==
  IF c = Plain \/ mappings = <<>> \/ d.type \notin {"html", "css"}
    THEN Moved(c) ELSE Rewritten(c)

-----------------------------------------------------------------------------
(* Generate.                                                               *)

\* Mutant: an output directory that is there already is used.
BeginAnyway ==
  /\ filespc = "start"
  /\ dirs' = dirs \cup {OutDir}
  /\ filespc' = "next"
  /\ UNCHANGED <<inputVars, e, chunk, files, times, skipped, runs>>

\* The output directory is made, and must not be there.
Begin ==
  /\ filespc = "start"
  /\ \/ OutDir \notin dirs /\ dirs' = dirs \cup {OutDir} /\ filespc' = "next"
     \/ OutDir \in dirs /\ UNCHANGED dirs /\ filespc' = "error"
     \/ "list" \in FilesFaults /\ UNCHANGED dirs /\ filespc' = "error"
  /\ UNCHANGED <<inputVars, e, chunk, files, times, skipped, runs>>

\* The entry is done with, well or with an error, which is counted.
Skip ==
  /\ skipped' = skipped \cup {e}
  /\ e' = e + 1
  /\ filespc' = "next"
Pass ==
  /\ e' = e + 1
  /\ filespc' = "next"
  /\ UNCHANGED skipped

\* Documents that have no file: a page not found, a redirect to a directory.
NoFile ==
  /\ filespc = "next"
  /\ e <= Len(entries)
  /\ entries[e].status # 200
  /\ IF \/ entries[e].status = 404
        \/ entries[e].status \in 300 .. 399 /\ isDirectoryRedirect(entries[e])
       THEN Pass ELSE Skip
  /\ UNCHANGED <<inputVars, chunk, treeVars, runs>>

CannotOpenEntry ==
  /\ filespc = "next"
  /\ e <= Len(entries)
  /\ "open" \in FilesFaults
  /\ Skip
  /\ UNCHANGED <<inputVars, chunk, treeVars, runs>>

\* The directory of the origin is made before anything else is known to be
\* wrong, unless a file has its name.  A path may be that of a directory.
OpenFile ==
  /\ filespc = "next"
  /\ e <= Len(entries)
  /\ entries[e].status = 200
  /\ LET d == entries[e]
         path == OutputPath(d)
         top == dirs \cup {OriginPath(d)}
     IN  \/ /\ OriginPath(d) \in DOMAIN files
            /\ Skip /\ UNCHANGED <<dirs, chunk, files, times>>
         \/ /\ OriginPath(d) \notin DOMAIN files
            /\ d.type = "bad" \/ Obstructed(path)
            /\ Skip /\ dirs' = top /\ UNCHANGED <<chunk, files, times>>
         \/ /\ OriginPath(d) \notin DOMAIN files
            /\ d.type # "bad" /\ ~Obstructed(path)
            /\ dirs' = top \cup Prefixes(Front(path))
            /\ IF path \in dirs'
                 THEN Skip /\ UNCHANGED <<chunk, files, times>>
                 ELSE /\ files' = [p \in DOMAIN files \cup {path} |->
                                     IF p \in DOMAIN files THEN files[p] ELSE <<>>]
                      /\ times' = [p \in DOMAIN files' |->
                                     IF p \in DOMAIN files THEN times[p] ELSE Nobody]
                      /\ chunk' = 1
                      /\ filespc' = "copy"
                      /\ UNCHANGED <<e, skipped>>
  /\ UNCHANGED <<inputVars, runs>>

\* The next chunk is written over what is there, or it cannot be read,
\* rewritten or written, and the file stays as it is.
CopyChunk ==
  /\ filespc = "copy"
  /\ chunk <= Len(entries[e].body)
  /\ LET d == entries[e]
         path == OutputPath(d)
         new == NewChunk(d.body[chunk], d)
         old == files[path]
     IN  \/ /\ new.result = "url"
            /\ files' = [files EXCEPT ![path] =
                 [n \in 1 .. IF chunk > Len(old) THEN chunk ELSE Len(old) |->
                    IF n = chunk THEN [entry |-> e, run |-> runs, holds |-> new.url] ELSE old[n]]]
            /\ chunk' = chunk + 1
            /\ UNCHANGED <<e, skipped, filespc>>
         \/ /\ new.result = "error" \/ "copy" \in FilesFaults
            /\ Skip
            /\ UNCHANGED <<chunk, files>>
  /\ UNCHANGED <<inputVars, dirs, times, runs>>

\* Mutant: a time that cannot be read is passed over, with the file's own.
FinishFileLeniently ==
  /\ filespc = "copy"
  /\ chunk > Len(entries[e].body)
  /\ Pass
  /\ UNCHANGED <<inputVars, chunk, dirs, files, times, runs>>

\* The file is closed and given the time the document has, which may not be
\* one: then the entry counts as skipped, and the file is there.
FinishFile ==
  /\ filespc = "copy"
  /\ chunk > Len(entries[e].body)
  /\ \/ /\ entries[e].modified # "bad"
        /\ Pass
        /\ times' = [times EXCEPT ![OutputPath(entries[e])] = e]
     \/ /\ entries[e].modified = "bad" \/ "close" \in FilesFaults
        /\ Skip
        /\ UNCHANGED times
  /\ UNCHANGED <<inputVars, chunk, dirs, files, runs>>

End ==
  /\ filespc = "next"
  /\ e > Len(entries)
  /\ filespc' = IF skipped = {} THEN "ok" ELSE "error"
  /\ UNCHANGED <<inputVars, e, chunk, treeVars, skipped, runs>>

\* The process is killed; the command is run again.
Kill ==
  /\ "kill" \in FilesFaults
  /\ filespc \in {"next", "copy"}
  /\ filespc' = "killed"
  /\ UNCHANGED <<inputVars, e, chunk, treeVars, skipped, runs>>

RunAgain ==
  /\ filespc \in {"ok", "error", "killed"}
  /\ runs < MaxRuns
  /\ runs' = runs + 1
  /\ e' = 1
  /\ chunk' = 1
  /\ skipped' = {}
  /\ filespc' = "start"
  /\ UNCHANGED <<inputVars, treeVars>>

Next ==
  \/ Begin \/ NoFile \/ CannotOpenEntry \/ OpenFile \/ CopyChunk \/ FinishFile
  \/ End \/ Kill \/ RunAgain

-----------------------------------------------------------------------------
(* Properties.                                                             *)

HasFile(i) == entries[i].status = 200

\* No other document goes to the same file.
Uncontested(i) ==
  \A j \in DOMAIN entries :
    j # i /\ HasFile(j) => OutputPath(entries[j]) # OutputPath(entries[i])

FileOf(i) == files[OutputPath(entries[i])]

\* When Generate has returned, every document that was not counted as skipped
\* is in its file, whole and with its time, if that is in the output directory
\* and no other document goes there, of that origin or another; and there is no
\* file but those of documents (files.go:24-137).
DocumentsAreGenerated ==
  /\ filespc \in {"ok", "error"} /\ runs = 1 /\ OutDir \in dirs =>
       \A i \in DOMAIN entries \ skipped :
         HasFile(i) /\ Uncontested(i) /\ IsPrefix(OutDir, OutputPath(entries[i])) =>
           /\ OutputPath(entries[i]) \in DOMAIN files
           /\ Len(FileOf(i)) = Len(entries[i].body)
           /\ \A n \in DOMAIN FileOf(i) : FileOf(i)[n].entry = i
           /\ times[OutputPath(entries[i])] = i
  /\ \A p \in DOMAIN files :
       \E i \in DOMAIN entries : HasFile(i) /\ OutputPath(entries[i]) = p

\* A link in a file leads where the first mapping that applies says, and the
\* reverse mapping leads back to the link of the original document, or is one
\* that Rebase refuses; a link under no mapping stays (main.go:708-724,
\* rebase.go:18-52).
LinksCanBeTracedBack ==
  \A p \in DOMAIN files : \A n \in DOMAIN files[p] :
    LET d == entries[files[p][n].entry]
        link == d.body[n]
        to == files[p][n].holds
        applies(i) == Rebase(link, mappings[i].old, mappings[i].new) # NoBase
    IN  IF \/ link = Plain
           \/ d.type \notin {"html", "css"}
           \/ \A i \in DOMAIN mappings : ~applies(i)
          THEN to = link
          ELSE \E i \in DOMAIN mappings :
                 LET old == Canonical(mappings[i].old)
                     new == Canonical(mappings[i].new)
                 IN  /\ applies(i) /\ \A j \in 1 .. i - 1 : ~applies(j)
                     /\ Rebase(to, new, old) =
                          IF EndsInSlash(new.path) /\ ~EndsInSlash(old.path)
                            THEN BadBase ELSE Moved(Canonical(link))

\* The output directory never mixes two runs, killed or not: what is in it was
\* written by one (files.go:29-32).
OneRunPerDirectory ==
  \A p, r \in DOMAIN files : \A m \in DOMAIN files[p], n \in DOMAIN files[r] :
    files[p][m].run = files[r][n].run

\* What main.go:130 says of the command, "copy files to directory": a file is a
\* copy of one document.
FilesAreCopies ==
  \A p \in DOMAIN files : \A m, n \in DOMAIN files[p] :
    files[p][m].entry = files[p][n].entry
=============================================================================
