------------------------------- MODULE Scraper -------------------------------
(***************************************************************************)
(* A whole crawl: the queue and the workers of module TaskQueue, with what *)
(* a worker does between two rendezvous (scrapeTask, processResponse and   *)
(* storeResponse of scraper/scraper.go) and the documents it leaves in the *)
(* repository, which stores them as module AtomicStore says.               *)
(*                                                                         *)
(* The site is a constant: every URL has one answer, a page with a         *)
(* sequence of links or a redirect.  The links of an answer are those its  *)
(* document is rewritten for, in order; a document of a type that is not   *)
(* rewritten has none.                                                     *)
(***************************************************************************)
EXTENDS Integers, Sequences, FiniteSets

CONSTANTS
  Workers, URLs, Keys, KeyOf, InitialTasks, NoTask,   \* as in TaskQueue
  FollowURL,      \* the URLs that Scraper.FollowURL accepts
  Links,          \* the links in a URL's answer
  RedirectTo,     \* where a URL's answer redirects to, or NoTask
  MaxRedirects,   \* 10 in the program
  Faults,         \* what may fail: "request", "body", "store", "parse",
                  \* or "silence", a server that never ends its answer
  NoDocument

ASSUME QueueAssumption ==
  /\ IsFiniteSet(Workers) /\ Workers # {}
  /\ KeyOf \in [URLs -> Keys]
  /\ InitialTasks \in Seq(URLs)
  /\ NoTask \notin URLs
ASSUME SiteAssumption ==
  /\ FollowURL \subseteq URLs
  /\ Links \in [URLs -> Seq(URLs)]
  /\ RedirectTo \in [URLs -> URLs \cup {NoTask}]
  /\ MaxRedirects \in Nat
  /\ Faults \subseteq {"request", "body", "store", "parse", "silence"}
  /\ NoDocument \notin [url : URLs, whole : BOOLEAN]

VARIABLES
  addedKeys, q, nextInitial, incompleteTasks, currentTask, qpc,
  wpc, held, offered, handedOut,      \* of TaskQueue
  phase,      \* where a worker is in scrapeTask
  hop,        \* the URL it requests: its task's, or where that redirected
  via,        \* how many requests it has made for its task
  links,      \* the links of the response it has not looked at yet
  docs,       \* the repository: the document stored under each key
  failed      \* history: something has failed

TQ == INSTANCE TaskQueue WITH Tasks <- URLs

tqVars ==
  <<addedKeys, q, nextInitial, incompleteTasks, currentTask, qpc,
    wpc, held, offered, handedOut>>
scrapeVars == <<phase, hop, via, links, docs, failed>>
vars == <<tqVars, scrapeVars>>

Documents == [url : URLs, whole : BOOLEAN]

Init ==
  /\ TQ!Init
  /\ phase = [w \in Workers |-> "idle"]
  /\ hop = [w \in Workers |-> NoTask]
  /\ via = [w \in Workers |-> 0]
  /\ links = [w \in Workers |-> <<>>]
  /\ docs = [k \in Keys |-> NoDocument]
  /\ failed = FALSE

Goto(w, p) == phase' = [phase EXCEPT ![w] = p]

-----------------------------------------------------------------------------
(* The queue's steps, and a worker's on its channels.                      *)

\* The worker is handed a task and waits for the rate limiter.
TakeTask(w) ==
  /\ TQ!SendTask(w)
  /\ Goto(w, "limiter")
  /\ hop' = [hop EXCEPT ![w] = currentTask]
  /\ via' = [via EXCEPT ![w] = 0]
  /\ UNCHANGED <<links, docs, failed>>

\* Mutant: a task that fails is given up without a word to the queue.
ReturnUnreported(w) ==
  /\ wpc[w] = "running"
  /\ wpc' = [wpc EXCEPT ![w] = "idle"]
  /\ held' = [held EXCEPT ![w] = NoTask]
  /\ UNCHANGED <<addedKeys, q, nextInitial, incompleteTasks, currentTask, qpc, offered, handedOut>>
  /\ Goto(w, "idle")
  /\ hop' = [hop EXCEPT ![w] = NoTask]
  /\ via' = [via EXCEPT ![w] = 0]
  /\ links' = [links EXCEPT ![w] = <<>>]

\* scrapeTask ends: whatever else happens, the deferred send comes next.
Return(w) ==
  /\ TQ!Finish(w)
  /\ Goto(w, "idle")
  /\ hop' = [hop EXCEPT ![w] = NoTask]
  /\ via' = [via EXCEPT ![w] = 0]
  /\ links' = [links EXCEPT ![w] = <<>>]

\* The same, with an error, which Scrape logs.
Fail(w, fault) ==
  /\ fault \in Faults
  /\ Return(w)
  /\ failed' = TRUE

-----------------------------------------------------------------------------
(* scrapeTask and the HTTP client.                                         *)

\* Mutant: the limiter lets one request through at a time; it is asked again.
PassLimiterAlone(w) ==
  /\ phase[w] = "limiter"
  /\ phase' = IF \A v \in Workers : phase[v] \in {"idle", "limiter"}
                THEN [phase EXCEPT ![w] = "request"] ELSE phase
  /\ UNCHANGED <<tqVars, hop, via, links, docs, failed>>

\* Limiter.Wait lets the worker go; only a task's first request waits for it.
PassLimiter(w) ==
  /\ phase[w] = "limiter"
  /\ Goto(w, "request")
  /\ UNCHANGED <<tqVars, hop, via, links, docs, failed>>

Request(w) ==
  /\ phase[w] = "request"
  /\ \/ /\ via' = [via EXCEPT ![w] = @ + 1]
        /\ Goto(w, "response")
        /\ UNCHANGED <<tqVars, hop, links, docs, failed>>
     \/ Fail(w, "request") /\ UNCHANGED docs

\* The server accepts the request and does not answer, or does not go on with
\* its answer: the client waits for it without a limit (main.go:174-188).
Silence(w) ==
  /\ "silence" \in Faults
  /\ phase[w] \in {"request", "response"}
  /\ Goto(w, "silent")
  /\ failed' = TRUE
  /\ UNCHANGED <<tqVars, hop, via, links, docs>>

Store(w, whole) ==
  docs' = [docs EXCEPT ![KeyOf[hop[w]]] = [url |-> hop[w], whole |-> whole]]

\* Mutant: the answer of a redirect is stored, its links are not read.
StoreResponseOfRedirect(w) ==
  /\ phase[w] = "response"
  /\ Store(w, TRUE)
  /\ links' = [links EXCEPT ![w] =
                 IF RedirectTo[hop[w]] = NoTask THEN Links[hop[w]] ELSE <<>>]
  /\ Goto(w, "links")
  /\ UNCHANGED <<tqVars, hop, via, failed>>

\* storeResponse, for the last response or, in CheckRedirect, for one that
\* redirects.  The writer is closed, which stores the document, even when the
\* body could not be read to its end; only then is that error returned.
StoreResponse(w) ==
  /\ phase[w] = "response"
  /\ \/ /\ Store(w, TRUE)
        /\ links' = [links EXCEPT ![w] = Links[hop[w]]]
        /\ Goto(w, "links")
        /\ UNCHANGED <<tqVars, hop, via, failed>>
     \/ Store(w, FALSE) /\ Fail(w, "body")
     \/ Fail(w, "store") /\ UNCHANGED docs

\* Mutants: every link is posted; the same link is posted again.
NextLinkUnfiltered(w) ==
  /\ phase[w] = "links"
  /\ wpc[w] = "running"
  /\ links[w] # <<>>
  /\ links' = [links EXCEPT ![w] = Tail(@)]
  /\ TQ!Post(w, Head(links[w]))
  /\ UNCHANGED <<phase, hop, via, docs, failed>>
NextLinkAgain(w) ==
  /\ phase[w] = "links"
  /\ wpc[w] = "running"
  /\ links[w] # <<>>
  /\ TQ!Post(w, Head(links[w]))
  /\ UNCHANGED <<phase, hop, via, links, docs, failed>>

\* The rewriter's callback for the next link: a URL that is not to be followed
\* is passed over, another is posted, and the worker waits for the queue.
NextLink(w) ==
  /\ phase[w] = "links"
  /\ wpc[w] = "running"
  /\ links[w] # <<>>
  /\ links' = [links EXCEPT ![w] = Tail(@)]
  /\ IF Head(links[w]) \in FollowURL
       THEN TQ!Post(w, Head(links[w]))
       ELSE UNCHANGED tqVars
  /\ UNCHANGED <<phase, hop, via, docs, failed>>

\* The rest of the document cannot be parsed.
ParseError(w) ==
  /\ phase[w] = "links"
  /\ Fail(w, "parse")
  /\ UNCHANGED docs

\* CheckRedirect returns nil: the client requests the new URL, without asking
\* FollowURL, the queue or the limiter.
FollowRedirect(w) ==
  /\ phase[w] = "links"
  /\ wpc[w] = "running"
  /\ links[w] = <<>>
  /\ RedirectTo[hop[w]] # NoTask
  /\ via[w] < MaxRedirects
  /\ hop' = [hop EXCEPT ![w] = RedirectTo[hop[w]]]
  /\ Goto(w, "request")
  /\ UNCHANGED <<tqVars, via, links, docs, failed>>

\* The last response has been processed, or there were too many redirects.
EndTask(w) ==
  /\ phase[w] = "links"
  /\ links[w] = <<>>
  /\ RedirectTo[hop[w]] = NoTask \/ via[w] >= MaxRedirects
  /\ Return(w)
  /\ UNCHANGED <<docs, failed>>

-----------------------------------------------------------------------------

QueueStep ==
  \/ TQ!QueueAlone /\ UNCHANGED scrapeVars
  \/ \E w \in Workers :
       \/ (TQ!ReceiveTask(w) \/ TQ!ReceiveDone(w)) /\ UNCHANGED scrapeVars
       \/ TakeTask(w)

WorkerStep(w) ==
  \/ PassLimiter(w) \/ Request(w) \/ StoreResponse(w)
  \/ NextLink(w) \/ ParseError(w) \/ FollowRedirect(w) \/ EndTask(w)

Exit(w) == TQ!Exit(w) /\ UNCHANGED scrapeVars

\* Everyone waits for a server that is silent, or for those who do.
WaitForServer ==
  /\ qpc = "select"
  /\ \E w \in Workers : phase[w] = "silent"
  /\ \A w \in Workers : phase[w] = "silent" \/ (wpc[w] = "idle" /\ currentTask = NoTask)
  /\ UNCHANGED vars

Next ==
  \/ QueueStep
  \/ \E w \in Workers : WorkerStep(w) \/ Silence(w) \/ Exit(w)
  \/ WaitForServer
  \/ TQ!Terminated /\ UNCHANGED scrapeVars

Spec == Init /\ [][Next]_vars

\* Every goroutine runs when it can.  For WorkerStep this says that servers
\* answer or fail, unless they fall silent, and that the limiter lets everyone
\* through.
Fairness ==
  /\ WF_vars(QueueStep)
  /\ \A w \in Workers : WF_vars(WorkerStep(w)) /\ WF_vars(Exit(w))

FairSpec == Spec /\ Fairness

-----------------------------------------------------------------------------
(* Properties.                                                             *)

Initial == {InitialTasks[i] : i \in DOMAIN InitialTasks}

Returned == \A w \in Workers : wpc[w] = "exited"

\* When Scrape returns and nothing has failed, the mirror is closed: the
\* initial URLs are stored, and so is every followed link of every stored
\* document, whichever worker found it and whoever overwrote what
\* (scraper.go:36-152).
MirrorIsClosed ==
  Returned /\ ~failed =>
    /\ \A u \in Initial : docs[KeyOf[u]] # NoDocument
    /\ \A k \in Keys :
         docs[k] # NoDocument =>
           \A i \in DOMAIN Links[docs[k].url] :
             Links[docs[k].url][i] \in FollowURL =>
               docs[KeyOf[Links[docs[k].url][i]]] # NoDocument

Allowed == Initial \cup FollowURL

\* A task is never one that was not asked for, and a document that is stored
\* from outside what was asked for is where some answer redirected: no other
\* path leads off the site.
OffSiteOnlyByRedirect ==
  /\ \A w \in Workers : held[w] # NoTask => held[w] \in Allowed
  /\ \A k \in Keys :
       docs[k] # NoDocument =>
         docs[k].url \in Allowed \cup {RedirectTo[u] : u \in URLs}

\* What README.md:11 says the repository is for: "to preserve original
\* responses".
StoredIsWhole == \A k \in Keys : docs[k] # NoDocument => docs[k].whole

\* The workers use the queue as TaskQueue lets them: whatever fails, each task
\* that was taken is reported, once (scraper.go:58-68, 73-79).
ImplementsQueue == TQ!Spec

Silent == {w \in Workers : phase[w] = "silent"}

\* As long as servers do not fall silent, the workers are as fair as TaskQueue
\* assumes them to be: one that posts link after link, or is redirected again
\* and again, does end its task.
WorkersAreFair == [](Silent = {}) => TQ!Fairness

\* A silent server costs its worker and no more (scraper.go:58-68, 73-111): as
\* long as another worker is left, every URL that is found is still requested, so
\* that in the end nothing waits and only the silent ones are being worked on;
\* with all of them silent the crawl goes nowhere, and with one it never returns.
\* With none Scrape returns, whatever else fails.
SilenceIsContained ==
  /\ <>(Returned \/ Silent # {})
  /\ <>[](\/ Silent = Workers
          \/ /\ q = <<>> /\ currentTask = NoTask
             /\ incompleteTasks = Cardinality(Silent))
  /\ [](Silent # {} => ~Returned)
=============================================================================
