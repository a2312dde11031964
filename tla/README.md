# A formal model of sitetostatic

sitetostatic scrapes a web site into a *repository* of original responses
(`scrape`), turns a repository into files that a plain web server can serve
(`files`), lists and shows what a repository or a cache of httrack holds
(`list`, `show`), and compares two of them (`diff`). This directory holds TLA+
models of it, the TLC configurations that check them on small instances, and
proofs of the theorems that hold for every instance.

Line numbers below are those of the repository's sources.

## 1. Inventory

| Part | Source | State it keeps | Operations |
|---|---|---|---|
| Task list | `scraper/queue.go:8-119` | a linked list of task objects | `pushLeft`, `pushRight`, `popLeft`, `toSlice` |
| Task queue | `scraper/queue.go:18-65` | `addedKeys`, `q`, `incompleteTasks`, `currentTask`; three unbuffered channels | one goroutine: loop over the initial tasks, then a three-way select |
| Worker pool | `scraper/scraper.go:36-71` | the goroutines, a WaitGroup | take a task from `out`, post links to `in`, report to `doneTask` |
| Scraper | `scraper/scraper.go:73-188` | a request and its redirects, a response | `scrapeTask`, `CheckRedirect`, `processResponse`, `storeResponse` |
| Repository | `repository/repository.go` | a directory of files `base32(key).bin` | `NewWriter`, `Write`, `Close`, `List`, `Open`, `Load` |
| Storage keys | `repository/key.go`, `urlnorm/` | none | `Key`, `Canonical` |
| Document rewriting | `rewrite/` | a lexer position, a base URL, a pushed-back token | `HTML5`, `CSS`, attribute handlers |
| URL rebasing | `urlrebase/rebase.go` | none | `Rebase` |
| Output files | `files/files.go` | the output directory | `Generate` |
| Comparison | `main.go:314-591` | two sorted lists of entries | `getEntries`, `doDiff` |
| httrack cache reader | `httrack/httrack.go` | a zip file's entries | `OpenCache`, `loadCache`, `FindEntry`, `Body` |
| Zip reader | `httrack/internal/go/zip/reader.go` | the directory | `OpenReader`, `File.Open`, `LocalExtraField` |
| Zip writer | `httrack/internal/go/zip/writer.go` | the directory so far, the file being written | `CreateHeader`, `Write`, `SetComment`, `Close` |
| Decompressor pools | `httrack/internal/go/zip/register.go` | a `sync.Pool`; of each reader a mutex and a flate reader | `newFlateReader`, `Read`, `Close` |
| Scrape options | `main.go:149-253` | roots, addresses | `FollowURL`, `DialContext`, `RoundTrip` |
| Command line | `main.go` | flags | `scrape`, `list`, `show`, `show-file`, `files`, `diff` |

### How the parts interact

`doScrape` (main.go) makes a `Scraper` and calls `Scrape` with the URLs of the
command line and ten workers. `Scrape` starts the queue goroutine and the
workers, which talk over three unbuffered channels:

```
              out (SendTask)                    Request / redirects
  queue  ------------------------->  worker  ------------------------>  server
 goroutine                             |  |
    ^ ^         in (ReceiveTask)       |  |  NewWriter, Write, Close
    | +---------------------- links ---+  +------------------------->  repository
    +----- doneTask (ReceiveDone) -----+                              (a directory)
                                                                          |
      list, show, files, diff, possibly while a scrape runs:  List, Open -+
```

A worker's task is one URL. The HTTP client follows redirects by itself and
calls back `CheckRedirect`, which processes the redirect's response like any
other. `processResponse` stores the response, then runs the rewriter over it
only for the callback it makes for each link, which posts the link to the
queue. `files` runs the same rewriter to change the links.

`list`, `show` and `diff` also read the cache of httrack: a zip archive with a
file for each URL, whose local extra field is the response's header. The
program has a copy of Go's `archive/zip` for that, because it needs the local
field; the writer came with it. httrack writes the archive while it
downloads, so that it may end anywhere.

### What is hard about it

* Three kinds of message meet one `select` in any order, while a task that
  could not be sent is put back each time round; one counter decides when the
  crawl is over, and so when the channels are closed.
* A document is several system calls, any of which may fail or be the last
  before the process is killed, while others list and open the directory.
* Redirects, error returns and links of one task interleave with those of
  others; the queue never sees a redirect's target.
* Documents arrive cut short, malformed, or under several URLs of one key.
* A cache may be cut short or damaged, and its records are found by numbers
  that have two widths each and a boundary where they change over.
* Goroutines that read two files of an archive share a pool of decompressors.
* A URL has three spellings (as given, canonical, key), and each of what scrape
  follows, stores, sends and dials goes by another.
* The list is linked by hand, and the rewriters keep a position, a base URL
  and a pushed-back token.

`PROJECT.json` lists each hazard at its line with the properties that cover it.

### What makes each part correct

* Task list: the pointers always spell the tasks pushed and not popped.
* Task queue and workers: nothing is lost or repeated, the counter is exact,
  nobody sends on a closed channel, `Scrape` returns, and not before all is
  done.
* Scraper: what is stored is closed under the links to be followed; nothing is
  requested that nobody asked for; a worker always reports.
* Repository: a map from keys to whole documents, whatever fails.
* Storage keys and rebasing: a key tells apart exactly what it should; rebasing
  can be undone.
* Rewriting: what is not a link comes out as it went in, and every link is
  offered to the callback, with its base if it is not in a stylesheet.
* Output files: a file holds one document.
* Comparison: every document is reported once, and a difference shows, or it is
  known where one may not.
* Zip: an archive that was closed is read back exactly; one that was cut short
  is refused, unless it holds another; a file whose directory header is sound
  has the data that was written, or an error.
* Pools: a decompressor works for one reader and one goroutine at a time.
* httrack reader: a cache is loaded whole or not at all, each entry with what
  stands at its own place in the file, and a body that is shown is one that was
  stored, whole.
* Listing: what `list` prints, `show` finds.
* Scrape options: what is followed is under a root, and the URLs of one
  document are asked of one server.

## 2. Plan

The modules, in the order they were written. The queue and the repository come
first: they are concurrent, persistent or both, and everything else relies on
them.

| | Modules | State |
|---|---|---|
| 1 | `LinkedQueue`, `LinkedQueueProofs` | modelled, checked, proved |
| 2 | `Crawl` (abstract), `TaskQueue`, `TaskQueueProofs` | modelled, checked, proved; liveness by TLC only |
| 3 | `AtomicStore` (abstract), `Repository`, `RepositoryProofs` | modelled, checked, proved |
| 4 | `Scraper` = `TaskQueue` + what a worker does, `ScraperProofs` | modelled, checked, proved; liveness by TLC only |
| 5 | `Rewrite` = `HTMLRewriter` + `CSSRewriter` + `CSSStrings`, `RewriteProofs` | modelled, checked, proved |
| 6 | `Commands` = `Files` + `Diff` + `Lookup` + `Scope` + `Httrack`, over `URLs`; `CommandsProofs` | modelled, checked, proved |
| 7 | `ZipPackage` = `Zip` (`ZipWriter` + `ZipReader`, over `ZipFormat`) + `ZipPool`, `ZipPackageProofs` | modelled, checked; the pool and a whole archive proved, a damaged one not |
| 8 | `SequenceLemmas`, on the sequences of `AnySequences` | the lemmas that the proofs about archives and caches share |

Not proved, only model-checked: `DataIsAsWritten` and `CutIsRefused` of `Zip`.
They speak of archives in which a caller's data may be anything and one cell may
have become anything, zip64 records included, and the reader then takes the
offset of the directory from a field that says only that it did not fit; the
lemmas about the reader (`ArchiveOpens` and what it rests on) are about archives
that are whole. Of a cache of httrack, which has no zip64 records, the like is
proved (`CacheHolds`, `ShownHolds`).

## 3. The modules and the code

### `LinkedQueue`: `scraper/queue.go:67-119`

`head`, `tail` and the `next` field of each task object are variables, `Nil` is
Go's `nil`; `pushLeft`, `pushRight` and `popLeft` are actions that assign the
pointers in the order of the code. `contents` is a history variable: the
sequence the pointers are meant to spell, which `toSlice` reads.

### `Crawl`, `TaskQueue`: `queue.go:18-65`, `scraper.go:36-76`

| Code | Model |
|---|---|
| `addedKeys`, `q`, `incompleteTasks`, `currentTask` | variables of these names; `q` is a sequence, as `LinkedQueue` justifies |
| the loop over `initialTasks` | `AddInitial`, then `EnterLoop` |
| the top of the loop | `PopTask` or `LeaveLoop` |
| the three cases of `select` | `SendTask(w)`, `ReceiveTask(w)`, `ReceiveDone(w)`: a channel is unbuffered, so a send and its receive are one step |
| the deferred `close` calls | three steps of `CloseChannel` |
| a worker | `wpc[w]`: idle (at `range outTasks`), running, posting (in `newTasks <- ...`), finishing (in `doneTasks <- t`), exited |

A task is its URL; `KeyOf` gives its key. What a worker posts is left open, so
whatever holds of `TaskQueue` holds for any site. `Crawl` says what the queue
promises: a line of tasks that only grows at its end, each started once, and
workers that leave when nothing is left.

### `AtomicStore`, `Repository`: `repository/repository.go`

Every system call of `NewWriter`, `Write` and `Close` is a step: create and
seek, write, write the JSON, write the header, close, rename, remove. Those
named in `Faults` may fail, and `Kill` ends all writers at work at once. A file
is how many chunks of the body it holds, where its JSON starts and what its
header says; `Opens` is `openDocument`'s test that they agree. `List` and `Open`
are steps of other processes. A name that is too long for the file system makes
the rename fail (`LongKeys`). `AtomicStore` is a map from keys to whole
documents with one action, `Publish`.

### `Scraper`: `scraper.go:73-188`

Extends each worker of `TaskQueue` with `phase`: limiter, request, response
(`storeResponse`), links (`rewrite.Document` with its callback), and `hop`, the
URL that the HTTP client is at. `TQ` is an instance of `TaskQueue` on the same
variables, so `SendTask` of the queue is also the worker's `TakeTask`, and the
deferred report is `TQ!Finish` in every return. `CheckRedirect` is the passage
from links to the next request. The site is a constant: the links of each
answer, and where it redirects to.

### `HTMLRewriter`, `CSSRewriter`, `CSSStrings`, `Rewrite`: `rewrite/`

A page and a stylesheet are the sequences of tokens that the lexers return; `pc`
is the function that reads. The callback's answers are constants of the tokens
(keep, change, refuse), and a writer may fail. What is written is recorded as
the position of a token and whether it came out as it was. `CSSStrings` goes
down to runes, because its hazards are there. `Rewrite` composes them as
`Document` does and adds the refusal of other media types; the strings are a job
of their own, since the other modules take from them only whether a string can
be unquoted.

### `URLs`, `Files`, `Diff`, `Commands`: `urlnorm/`, `repository/key.go`, `urlrebase/`, `files/`, `main.go`

`URLs` has the pure functions, on URLs that are records with a path (decoded,
as `url.URL.Path` is) and a query in pieces. `Files` is `Generate`: one action
per outcome of `processEntry`, a body copied chunk by chunk, each chunk in the
output marked with the entry and the run it came from. An output path is a
sequence of names from the root of the file system; `Join` cleans it as
`filepath.Join` does, so that a `..` in the path or the query (`RawOf`) leads to
another document's file, to the directory of another origin or out of the output
directory (`OutDir`). `Diff`
sorts the two lists (any order that an unstable sort may leave) and walks them;
each line that is printed is a report. `splitLines` gives the lines up to the
first that a Scanner cannot hold (`LongLines`); the headers go through it as
well. `Hidden` says which differences that swallows.
`Commands` composes the commands as processes of one program: the first state
chooses one, and the variables of the others stay as they are.

### `Lookup`, `Scope`: `main.go:149-312`, `593-690`

`Lookup` lists a repository document by document, with the flag `canonical` and
failures, and then shows a URL, which may be a line that was printed, or a
file. `Scope` has the three places where `doScrape` compares URLs: `FollowURL`
takes the key of a URL, its sorted query included, for a string and asks for a
prefix, `RoundTrip` changes the scheme, and `DialContext` replaces the address.
Host names and the values of parameters are sequences of pieces, since prefixes
of them matter; `wire` is where a request went. `Under` says of URLs what the
comparison of strings comes to: a root with parameters is the beginning only of
URLs of its own path.

### `ZipFormat`, `ZipWriter`, `ZipReader`, `Zip`: `httrack/internal/go/zip/`

An archive is a sequence of cells: a record of fixed length (a header, a
descriptor, an end record), an extra field, a piece of a name or a unit of data
is one cell each, so that offsets and lengths count cells, and the limits of
2- and 4-byte fields (`uint16max`, `uint32max`) are small. What a record says of
lengths and offsets is read as the code reads it: a number that was cut to its
field, or a file that was cut, leads the reader to another cell. `ZipWriter` has
the writer's calls as actions; a caller's plan says what it may pass. The
reader's functions are operators of the same names on the file, and `Zip`
composes them: an archive is written and reaches the disk whole, cut short
anywhere or with one cell overwritten, and is opened. What a cell is overwritten
with is `Junk`, which nothing recognises, or one of `Blots`, cells that are read
as something else: a name, a header, a descriptor, an end record.

`HoldsArchive` says that an end record which leads to a header, or says that
there are no files, stands before the archive's own: what is left of such an
archive when it is cut may be opened as another, and `CutIsRefused` leaves it
out. `DataIsAsWritten` is about a file whose header in the directory is as
`Close` wrote it: the directory has no checksum, and a header that became
another with a checksum of zero and no descriptor has the data it leads to read
without a check (`reader.go:247-253`).

### `ZipPool`, `ZipPackage`: `httrack/internal/go/zip/register.go`

Each goroutine's call of `newFlateReader`, `Read` or `Close` is taken apart at
the lock, the work on the flate reader, the `Put` and the assignment after it.
The pool may lose what it holds. `ZipPackage` puts the two sides of the package
into one specification; the pool is all that goroutines share of it.

### `Httrack`: `httrack/httrack.go`

The archive that httrack wrote is an input, as it was meant, cut short or with
one cell overwritten. `Open` reads its directory, each `Load` is one turn of the
loop in `loadCache`, and `List` and `Show` are the commands. `DumpFails` is what
`httputil.DumpResponse` does when the body is not as long as the response says.

A damaged cell is `Junk` or one of `Blots`, which here hold responses, names,
data and records that can be read. Only bodies have a checksum. `ResponseOf(k)`
and `NameOf(k)` are what stands now where the response and the name of the kth
file were written, and the properties say that an entry has those, and from an
intact file those that were stored; a body that is shown is always a stored one.

`HoldsArchive` says that a stored body has an end record among its data, as when
a zip file was downloaded and stored without compression: what is left of such a
cache may be opened at that record, as another archive. `BecameRecord` says that
a cell was overwritten by a record, whose numbers lead elsewhere. `Readable`
caches are those that are intact, whatever they hold, and the damaged ones of
which neither is true; the properties speak of them, and of any cache that a
refusal closes its file.

## 4. The runs

Bounds are constants of the cfg files. Deadlock is checked in all runs but those
of `Rewrite` and `Commands`, where a document or a command comes to its end and
nothing follows (`TaskQueue` and `Scraper` say with `Terminated` where they may
stop, `ZipPackage` with `Ended`; `WaitForServer` is the wait for a silent server).

| Run | Instance | What it shows |
|---|---|---|
| `linked_queue` | five task objects | in every order of pushes and pops the pointers spell the contents, and the list is neither cut nor cyclic. Four would do: a list has a head, a tail and an inner element. |
| `task_queue` | two workers, four URLs with three keys, two equal keys among three initial URLs | the counter, the closes, completeness and accounting in every interleaving; the refinement of `Crawl` with its fairness; `Scrape` returns. Two workers make every pair of channel operations meet; the theorems cover any number. |
| `repository` | two writers of one key, one of a key that is too long, one reader, two chunks | every system call failing and kills between any two: readers are safe, no litter where it is not excused, the atomic store. Two chunks tell a partial body from none and from all. |
| `scraper` | two workers, five URLs: a page, its second URL, a redirect off the site, a redirect loop, the other site | with all faults, silent servers included: closed mirror, no other way off the site, `TaskQueue` and its fairness implemented, and a silent server holds no more than its worker. `MaxRedirects` is 2 for the program's 10. |
| `rewrite` | pages of up to three of fifteen elements, cut at every token; stylesheets of up to four tokens; strings of up to three runes | three elements make a base, something between, and a link; four tokens make `@import`, space, string and one more; three runes an escape, what follows it, and one more. |
| `commands` | repositories of up to two of seventeen documents, or three of the six of one origin that have a file, and three lists of mappings for `files`; pairs of lists of up to three entries for `diff`; repositories of up to two documents for `list` and `show`; lists of roots and of addresses; caches of up to four entries | names that collide, also by way of `..`, that lead to the directory of another origin or out of the output directory, that are needed as a directory; failures at every step, kills and a second run; entries of one canonical URL in any order, bodies and headers with a line that is too long before, at or behind their difference; URLs with a fragment, a tracking parameter, a port or capitals; roots and links with parameters, the value of one of which begins with the other's; hosts one of which begins with the other's name; caches cut at every cell and with every cell overwritten by each of nine blots. With `uint16max` 3, four entries are as many as none to the reader. One entry has an end record for its body. |
| `zip` | two callers: one with every kind of name, time, extra field and encoding and bodies around the largest size; one with archives among the data, one of which has offsets that are right where it lies, cut at every cell and with every cell overwritten by each of five blots; up to five files; three goroutines, two readers and two flate readers | each field of 2 or 4 bytes is at, under and over its limit (3 and 7 cells), and archives begin at an offset within and beyond it; three goroutines are one in `Read`, one in `Close` and one that takes from the pool. |

Each property of these runs has in `PROJECT.json` a mutated definition that
breaks it, kept beside the definition it mutates and marked "Mutant".

Five more runs show the program doing otherwise than what its comments or
documentation say:

| Run | Property violated | What happens |
|---|---|---|
| `task_queue_dedupe` | `NoKeyHandedOutTwice` | the keys of the initial URLs are looked up and never entered, so a page that links to one has it fetched again |
| `scraper_truncated` | `StoredIsWhole` | a body that cannot be read to its end is stored as if it were whole |
| `rewrite_import` | `SheetIsWhole` | a token that cannot follow `@import` ends the stylesheet without an error |
| `rewrite_escapes` | `EscapesAreRead` | an escape with the digit f is read as another rune |
| `commands_mixed` | `FilesAreCopies` | two documents with one file name leave a file that is neither |

Other observations have no run:

* A digest may be that of a longer body after a failed write
  (`repository.go:108`); nothing reads it back.
* Redirects are never asked of `FollowURL` (`scraper.go:84`);
  `OffSiteOnlyByRedirect` says how far that goes.
* The URLs of a style element are offered without the page's base
  (`css.go:195`), although `rewrite.go:21-27` says that the callback is given
  it. `PageCallsFollow` does not compare the base of these.
* `diff` compares canonical URLs and not keys (`main.go:567`), so that two
  scrapes of one document may be "only in A" and "only in B"; and bodies that
  differ in their line ends alone, or only from a line of 64 KB on, print an
  empty diff, because the Scanner's error is not looked at (`main.go:513-529`).
* A path or a query with `..` in it is joined and cleaned, so that the file
  of a document may be in the directory of another origin, or outside the output
  directory (`files.go:92`). A document there is left out of the promise of
  `DocumentsAreGenerated`; one whose file is another's is contested like any.
* `diff` does not ask whether the body of a cache's entry is in the cache; the
  repository's README makes it a condition that it is.
* `Close` adds a zip64 field to extra fields whose length was checked before
  (`writer.go:116`), and nobody checks a comment's length (`writer.go:124`):
  such archives are written without an error and cannot be read.
* An archive cut short is opened as another if it holds one among its data whose
  end record leads to a header or says that there are no files (`HoldsArchive`).
* Responses, names and headers of a cache have no checksum: those that were
  damaged into others that can be read are loaded, listed and shown
  (`httrack.go:70-80`); and a header of the directory that became one with a
  checksum of zero and no descriptor has its data read unchecked
  (`reader.go:247-253`).

## 5. Fairness

`TaskQueue` assumes weak fairness of the queue goroutine: it runs when it can,
and Go's `select` picks any ready case, so no case in particular is promised.
It assumes weak fairness of a worker's leaving the loop, and strong fairness of
its finishing a task: a document has finitely many links, so a worker that
comes back from a post again and again does finish. `Scraper` does not assume
the latter: it has the links as a sequence, assumes only that a worker takes its
steps, and shows that `TaskQueue`'s fairness follows (`WorkersAreFair`) as long
as no server falls silent. A server's answer is a worker's step, which the
program waits for without a limit once it is connected (main.go:174-188); that a
server says nothing is the action `Silence`, which no fairness asks for and no
step follows. `SilenceIsContained` says what it costs: `Scrape` then does not
return, but every other task is still worked on while a worker is left, and
without such servers `Scrape` returns, whatever else fails.

The invariants and refinements of `Repository`, `Rewrite`, `Commands` and
`ZipPackage` need no fairness.

## 6. What is proved

TLAPS checks all proofs. They assume nothing but the named `ASSUME`s on the
constants, which TLC evaluates in the runs:

* there are finitely many workers and at least one, and finitely many task
  objects; the initial tasks and the tasks of a site's links have keys; names of
  files, `None`, `NoTask` and `NoDocument` are told apart from what they stand
  beside;
* `FilesAssumption`: the output directory is a sequence of names, the new base of
  a mapping is an absolute URL, as `main` requires, and a body is a sequence of
  links and of what is none;
* `DiffAssumption`, `LookupAssumption`: a repository is a list of documents whose
  URLs are ranked and whose bodies and headers are sequences of lines, and holds
  one document per key;
* `ScopeAssumption`: what is requested has a scheme, a host and a port or none;
  a root without a host (`example.com/x` without a scheme) is not a string that
  a key begins with; two host names, or two values, are equal if their pieces
  are, and the pieces hold neither `:` nor `/`; a path holds no `?`, since
  `URL.String` escapes it, and the parameters are those that `ParameterOrder`
  sorts or that are for tracking (`Plainly`);
* `HttrackAssumption`: a cache is a list of entries that httrack could write,
  that is one whose offsets and lengths fit in 4 bytes. The number of its entries
  need not fit in 2. Of `Blots`, what a damaged cell may become, only that what
  is decompressed is a sequence;
* `WidthsAssumption`, `WindowsAssumption`, `TimesAssumption`: 4 bytes hold more
  than 2, the places where the reader looks for the end record are not empty, and
  how MS-DOS dates and zones are cut; `PlanAssumption`: what a caller of the zip
  writer passes, fields, names and comments of cells of their kinds. Comments are
  text: one that holds the signature of an end record is outside;
* `RewriteAssumption`: what the lexers return (`DocumentsAssumption`,
  `TokensAssumption`: the types of tokens, one text in a style element, an
  attribute `href` that can be unquoted is a URL, perhaps empty) and what the
  callback answers.

### The queue, the workers and the repository

* `LinkedQueueProofs`: `RepresentationHolds`, `WalkHolds`. The invariant is the
  representation itself: `next` links consecutive tasks, the last one and every
  task outside the list has `Nil`. The latter is what `pushRight`, which does not
  reset `next`, relies on. `WalkHolds` shows by induction on the turns of the
  loop in `toSlice` that it has read the list's first tasks, and that it ends
  with the last.
* `TaskQueueProofs`: `TypeCorrectness`, `ConservationHolds`, `NoPanic`,
  `Completeness`, `EachKeyAccountedHolds`, `OnceWithoutInitial`, `Refinement`.
  The inductive invariant `IInv` joins the types, what the queue's place in its
  code says of its variables (`ControlInv`), what a worker's place says of what
  it holds (`WorkerInv`), and the counter's exact value from the loop to the exit
  (`CounterInv`). Conservation alone is not inductive: that a report meets a
  positive counter rests on `WorkerInv`, and that a counter of zero means an
  empty queue and no busy worker is what makes closing safe. `Completeness` adds
  that a known key waits, is being worked on, or has been handed out
  (`KnownInv`). `EachKeyAccountedHolds` counts: lemmas on how many times a key
  occurs in a sequence that is appended to or loses its head carry the sum of
  the tasks handed out and waiting through each step. `OnceWithoutInitial` draws
  from it what the code does promise where `NoKeyHandedOutTwice` fails: a key
  that no initial task has is handed out at most once. `Refinement` maps each
  step to one of `Crawl` or to none.
* `ScraperProofs`: `Refinement`, `OffSiteOnlyByRedirectHolds`, `MirrorHolds`,
  `SilenceHoldsUp`. The first needs no invariant: each step is one of
  `TaskQueue` or leaves its variables alone, so that what is proved of
  `TaskQueue` holds of every crawl. The second needs to know where tasks may be
  on their way (`TasksInv`: in the line, in the queue goroutine's hand, offered,
  held) and where a worker may be (`HopInv`). `MirrorHolds` joins to them
  that, unless something failed, a key that was handed out has its document or
  is being fetched (`FetchedInv`), and that each link to be followed of a
  document that is stored is known to the queue or still to be posted
  (`LinksInv`). When `Scrape` returns nobody is at work (`PlaceInv`), and by
  `Completeness` of the queue every key it knows has been handed out.
  `SilenceHoldsUp` is the safety half of `SilenceIsContained`: while
  one worker waits for a silent server, the channels stay open.
* `RepositoryProofs`: `TypeCorrectness`, `ReadersAreSafe`, `NoLitterHolds`,
  `Refinement`. The inductive invariant says for each place of a writer what
  its temporary file holds (`FileAt`), that every key's file is a whole
  document (`KeyInv`), and that what a reader has listed is still there
  (`ReaderInv`). A reader's safety rests on `KeyInv`, and that on what a file
  holds when it is renamed. Every step but a successful rename is invisible to
  `AtomicStore`; that one is `Publish`.

### The rewriters

`RewriteProofs`: `SheetHolds`, `SheetOffersHolds`, `PageHolds`, `PageCallsHold`,
`QuotedHolds`, for pages, stylesheets and strings of any length.

* A stylesheet: each place in the loop says of which kind the tokens just read
  are, and so whether a string is a link (`PlaceInv`); a token is pushed back only when the
  loop is about to end. What has been written is what stands before the
  position, and the links offered are those among it.
* A page (`PageInv`): where the rewriter is follows from the tokens it has read
  (`PlaceOK`); what it has read of a tag and not written (`pending`) is the
  tokens between what is written and the position, each as it was or with its
  link rewritten; the base is that of the next token to be written, and a base
  element's own URL takes effect behind that attribute (`BaseIs`). Every step writes
  the next token, keeps it for later, or fails. The reading ahead in a meta tag
  is why the calls are not in order of reading but of writing, and after a
  failure the calls are a beginning of those that the tokens read ask for.
* A string (`StringInv`): the text of a quoted value is the pieces of its runes,
  one behind the other (`Quoted`). `Unescape` is a recursion along the text; it
  has a solution because each step goes forward (`ReadsExist`), and a piece is
  read as its rune whatever follows it (`PieceRead`), a hexadecimal escape
  because of the blank behind it. `RoundTrip` joins them by induction from the
  end of the text.

### The commands

All of these are in `CommandsProofs`, each over the states of the one command it
is about.

* `files`: `OneRunHolds`, `GeneratedHolds`, `TracedBackHolds`. All chunks
  in the directory are of one run, and while a run writes, of that one, since it
  did not find the directory there (`RunInv`). In the first run an entry that has
  had its turn and contests its name with no other is in its file, and the file
  being written has the chunks so far (`FirstRunInv`); that no other entry
  writes there needs an owner for every file (`OwnersInv`). Each chunk of a file
  is that of a document, rewritten (`CellsInv`), and a URL that is taken from
  one base to another and back is itself, a fact about `URLs` alone.
* `list` and `show`: `PrintedHolds`; `scrape`: `OneServerHolds`,
  `FollowedHolds`. Canonical URLs and keys are functions, and what has to be
  proved is about them (`KeyOfCanonical`, `CanonicalTwice`). `FollowedHolds`
  shows that comparing the strings of two keys compares the URLs
  (`RootIsPrefix`): what follows a host name in such a string, a `:` or a `/`, is
  not a piece of a host name (`PrefixHasSite`); and a string of parameters begins
  with a `?`, which no path holds, so that a root with parameters is a prefix only
  where its path ends as the URL's does (`UnderIs`, `RestIsPrefix`).
* `diff`: `ReportsHold`, `DifferencesHold`. The invariant of the walk of two
  sorted lists (`Walked`) is that the reports are those of the entries passed
  (`Reports`) and that they pair the entries of one URL as far as both sides have
  any (`Pairing`); it rests on the lists being sorted and on no more. That what
  splitting swallows is `Hidden` (`SplitTells`) looks at the first line in which
  two sequences differ: what is behind it does not matter, and a line at or before
  it that is too long is what hides it.
* A cache of httrack: `CacheHolds`, `ShownHolds`, for caches of any number of
  entries and for any fault and blots. The inductive invariant (`HInv`) says that
  each entry loaded so far is what stands at its own places in the file
  (`IsEntry`), and that the files whose headers were read are those of the cache,
  as many of them as the end record says, counted modulo 65536 (`FilesRead`). What
  is left of a readable cache is either like it, cell by cell the same or
  overwritten by what is not a record (`Like`, `Blot`), or a beginning of it
  without an end record (`RemainsAre`, `NoEnd`). The latter is refused. In the
  former the end record that is found is the last cell or was overwritten, and the
  directory is a recursion over its headers, of which each leads to the next or,
  where it was overwritten, ends the list (`DirectoryIs`). A local header stands
  where the header says, or what stands there is not a header; the response that
  is found is the one that stands behind it now (`ResponseAt`), and a body that
  was overwritten, by other data too, does not have the length and the checksum of
  the one that was stored (`BodyAt`). `PlacesAre` says where responses and names
  were written.

### The archives

`ZipPackageProofs`, for archives of any number of files, any data and any widths.
`SequenceLemmas` has what it shares with the proofs about the commands: a sequence
that stands in another, what flattening leaves where, how headers of which each
leads to the next are read (`Follows`), and prefixes of concatenations.

* `TypeCorrectness`, `FlatesWorkAlone`: the inductive invariant says whom a flate
  reader belongs to at each step: one that is out belongs to one reader, or to
  the goroutine that is about to reset it, and the goroutine that has put it
  back but not yet set the field to nil holds the reader's lock.
* `ArchivesAreReadBack`, `TimesAreReadBack`, `EncodingsAreReadBack`. The
  inductive invariant (`WriterInv`) says of each header listed in `dir` that at
  its offset stands its local header, and behind it the data given for it and
  the descriptor, all of it for a file that is closed (`ClosedEntry`) and what
  has been written for the one that is open (`OpenEntry`); and of an archive
  that is closed that it ends with its directory and its end records
  (`Closes`). Appending leaves what stands where it is, which is all that
  `CreateHeader`, `Write` and `Close` do to a file. Closing a file is the one
  step that changes a header in `dir`, and it makes the header describe its data.
* That such an archive is opened with exactly its files (`ArchiveOpens`) takes
  three arguments. The end record that is found is the one that was written
  last, because a comment is text and the directory has no cell that is an end
  record (`EndIsRead`). The directory is a recursion over its headers, read from
  the end: each header leads to the next, and what follows the last is not a
  header (`DirectoryRead`). And a number of a header either fits in its field or
  is in the zip64 field, which is the only one of its kind because callers add
  none (`NumbersRead`). The hypothesis `LengthsFit` is used for the lengths of
  the extra fields and of the comments alone.
* For the times, the timestamp added by `CreateHeader` is the last field that
  holds a time (`TimeField`), and what an MS-DOS time lacks, less than a step, is
  less than half of what a zone is rounded to (`ZoneRounded`).

Recursive functions and induction are within reach if the induction is over a
set of numbers (`NatInductionSet` of `SequenceLemmas`) and not over a
predicate. A function with a condition that two guards of a CASE may meet is
written with IF, since CASE then leaves the choice open.

Only model-checked: liveness and the refinements with fairness (`ScrapeReturns`
and its like, `ImplementsFairCrawl`, `WorkersAreFair`, `SilenceIsContained`),
which the prover's temporal backend does not reach; and `CutIsRefused` and
`DataIsAsWritten` of `Zip`, as said at the end of section 2.

## 7. What is not modelled

* Bytes: percent-encoding, Unicode, MIME and header syntax, JSON and base32.
  What depends on them is a flag or a member of a small set. A path is the decoded
  one, which is what the program joins, so that an escaped slash is a slash there;
  keys are compared with the path as `URL.String` escapes it again. A query is its
  parameters: a bare `?` and parameters that cannot be parsed are left out.
* That the status line of a response, which heads its dump, is shorter than what a
  Scanner holds is taken for granted; without it `diff` fails with an error.
* A zip comment that holds the signature of an end record: comments are text.
* The lexers of HTML and CSS, `net/http`, `difflib` and the flate compressor:
  other projects' code. HTML tokens that the lexer cannot return at a place have
  no action there. `http.ReadResponse` either parses an entry of a cache or does
  not.
* Loss of power: the repository syncs nothing, and what remains is the file
  system's choice; the model keeps what was written.
* The rate of the limiter and the pace of anything: there is no time.
* Of the zip package: the view of an archive as a file system (`Reader.Open`,
  `ReadDir`, `reader.go` from 661 on) and the modes of files (`struct.go:266-390`),
  which nothing in the program calls; registering compressors, a map that is
  filled before it is used; that a caller passes one header twice
  (`writer.go:261`), headers being values here; and a caller that goes on after
  `CreateHeader` has refused a name (`writer.go:367`).
* The parsing of flags and the layout of what the commands print.
