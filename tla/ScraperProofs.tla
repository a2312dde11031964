---------------------------- MODULE ScraperProofs ----------------------------
(***************************************************************************)
(* Proofs about Scraper, for any site, any workers and any faults.         *)
(***************************************************************************)
EXTENDS Scraper, SequenceTheorems, TLAPS

(***************************************************************************)
(* The workers use the queue as TaskQueue lets them.  Nothing needs to be  *)
(* known of a state: each step is one of TaskQueue or leaves its variables *)
(* alone.  What TaskQueueProofs proves of any workers holds of these.      *)
(***************************************************************************)

LEMMA ReturnIsFinish ==
  ASSUME NEW w \in Workers, Return(w)
  PROVE  TQ!Next
BY DEF Return, TQ!Next

\* A worker's step is one that TaskQueue's worker takes, or none.
LEMMA WorkerStepIsOfTheQueue ==
  ASSUME NEW w \in Workers, WorkerStep(w) \/ Silence(w)
  PROVE  TQ!Next \/ UNCHANGED TQ!vars
<1>1. CASE PassLimiter(w) \/ Silence(w) \/ FollowRedirect(w)
  BY <1>1 DEF PassLimiter, Silence, FollowRedirect, tqVars, TQ!vars, TQ!queueVars,
              TQ!workerVars
<1>2. CASE Request(w) \/ StoreResponse(w) \/ ParseError(w) \/ EndTask(w)
  BY <1>2, ReturnIsFinish
  DEF Request, StoreResponse, ParseError, EndTask, Fail, tqVars, TQ!vars,
      TQ!queueVars, TQ!workerVars
<1>3. CASE NextLink(w)
  <2>1. CASE Head(links[w]) \in FollowURL
    <3>1. Head(links[w]) \in URLs
      BY <2>1, SiteAssumption
    <3>. QED
      BY <1>3, <2>1, <3>1 DEF NextLink, TQ!Next
  <2>2. CASE Head(links[w]) \notin FollowURL
    BY <1>3, <2>2 DEF NextLink, tqVars, TQ!vars, TQ!queueVars, TQ!workerVars
  <2>. QED
    BY <2>1, <2>2
<1>. QED
  BY <1>1, <1>2, <1>3 DEF WorkerStep

LEMMA QueueStepIsOfTheQueue ==
  ASSUME QueueStep
  PROVE  TQ!Next
BY DEF QueueStep, TakeTask, TQ!Next, TQ!QueueStep, TQ!Rendezvous

LEMMA StepIsOfTheQueue ==
  ASSUME [Next]_vars
  PROVE  [TQ!Next]_(TQ!vars)
<1>1. CASE QueueStep
  BY <1>1, QueueStepIsOfTheQueue
<1>2. ASSUME NEW w \in Workers, WorkerStep(w) \/ Silence(w)
      PROVE  [TQ!Next]_(TQ!vars)
  BY <1>2, WorkerStepIsOfTheQueue
<1>3. ASSUME NEW w \in Workers, Exit(w)
      PROVE  TQ!Next
  BY <1>3 DEF Exit, TQ!Next
<1>4. CASE WaitForServer \/ UNCHANGED vars
  BY <1>4 DEF WaitForServer, vars, tqVars, TQ!vars, TQ!queueVars, TQ!workerVars
<1>5. CASE TQ!Terminated
  BY <1>5 DEF TQ!Next
<1>. QED
  BY <1>1, <1>2, <1>3, <1>4, <1>5 DEF Next

\* Whatever fails, and whatever servers fall silent, what the queue goroutine
\* and the workers do together is what TaskQueue says they may.
THEOREM Refinement == Spec => ImplementsQueue
<1>1. Init => TQ!Init
  BY DEF Init
<1>2. [Next]_vars => [TQ!Next]_(TQ!vars)
  BY StepIsOfTheQueue
<1>. QED
  BY <1>1, <1>2, PTL DEF Spec, ImplementsQueue, TQ!Spec

-----------------------------------------------------------------------------
(***************************************************************************)
(* How far a crawl may get.  OffSiteOnlyByRedirect speaks of what a worker *)
(* holds and of what is stored; it rests on what waits, on what is posted  *)
(* and on the URL that a worker is at.                                     *)
(***************************************************************************)

Targets == {RedirectTo[u] : u \in URLs}

\* Every task, wherever it is on its way, was asked for.
TasksInv ==
  /\ nextInitial \in Nat \ {0}
  /\ q \in Seq(Allowed)
  /\ currentTask \in Allowed \cup {NoTask}
  /\ wpc \in [Workers -> {"idle", "running", "posting", "finishing", "exited"}]
  /\ held \in [Workers -> Allowed \cup {NoTask}]
  /\ offered \in [Workers -> Allowed \cup {NoTask}]
  /\ \A w \in Workers : wpc[w] = "posting" => offered[w] # NoTask

\* A worker is at a URL that was asked for or that an answer redirected to.
HopInv ==
  /\ phase \in [Workers -> {"idle", "limiter", "request", "response", "links", "silent"}]
  /\ hop \in [Workers -> Allowed \cup Targets \cup {NoTask}]
  /\ \A w \in Workers : phase[w] \notin {"idle", "silent"} => hop[w] # NoTask

\* So is what is stored.
DocsInv ==
  docs \in [Keys -> [url : (Allowed \cup Targets) \cap URLs, whole : BOOLEAN] \cup {NoDocument}]

SiteInv == TasksInv /\ HopInv /\ DocsInv

LEMMA AllowedAreURLs ==
  /\ Allowed \subseteq URLs /\ NoTask \notin Allowed
  /\ \A u \in URLs : RedirectTo[u] \in Targets /\ RedirectTo[u] \in URLs \cup {NoTask}
  /\ Targets \subseteq URLs \cup {NoTask}
  /\ \A n \in DOMAIN InitialTasks : InitialTasks[n] \in Allowed
<1>1. \A n \in DOMAIN InitialTasks : InitialTasks[n] \in URLs
  BY QueueAssumption, ElementOfSeq
<1>2. Initial \subseteq URLs
  BY <1>1 DEF Initial
<1>. QED
  BY <1>2, QueueAssumption, SiteAssumption DEF Allowed, Initial, Targets

\* The queue never makes up a task.
LEMMA RestoredAllowed ==
  ASSUME TasksInv
  PROVE  TQ!Restored \in Seq(Allowed)
BY DEF TasksInv, TQ!Restored

LEMMA InitSite == Init => SiteInv
BY DEF Init, TQ!Init, SiteInv, TasksInv, HopInv, DocsInv

LEMMA QueueAloneSite ==
  ASSUME SiteInv, TQ!QueueAlone, UNCHANGED scrapeVars
  PROVE  SiteInv'
<1>. USE DEF SiteInv, TasksInv, HopInv, DocsInv, scrapeVars, TQ!workerVars
<1>1. CASE TQ!AddInitial
  <2>1. nextInitial \in DOMAIN InitialTasks
    BY <1>1, QueueAssumption DEF TQ!AddInitial
  <2>2. InitialTasks[nextInitial] \in Allowed
    BY <2>1, AllowedAreURLs
  <2>. QED
    BY <1>1, <2>2 DEF TQ!AddInitial
<1>2. CASE TQ!PopTask
  <2>1. CASE q = <<>>
    BY <1>2, <2>1 DEF TQ!PopTask
  <2>2. CASE q # <<>>
    <3>1. Head(q) \in Allowed /\ Tail(q) \in Seq(Allowed)
      BY <2>2, HeadTailProperties
    <3>. QED
      BY <1>2, <2>2, <3>1 DEF TQ!PopTask
  <2>. QED
    BY <2>1, <2>2
<1>3. CASE TQ!EnterLoop \/ TQ!LeaveLoop \/ TQ!CloseChannel
  BY <1>3 DEF TQ!EnterLoop, TQ!LeaveLoop, TQ!CloseChannel
<1>. QED
  BY <1>1, <1>2, <1>3 DEF TQ!QueueAlone

LEMMA RendezvousSite ==
  ASSUME SiteInv, NEW w \in Workers,
         \/ (TQ!ReceiveTask(w) \/ TQ!ReceiveDone(w)) /\ UNCHANGED scrapeVars
         \/ TakeTask(w)
  PROVE  SiteInv'
<1>. USE DEF SiteInv, TasksInv, HopInv, DocsInv
<1>1. CASE TQ!ReceiveTask(w) /\ UNCHANGED scrapeVars
  <2>1. offered[w] \in Allowed /\ TQ!Restored \in Seq(Allowed)
    BY <1>1, RestoredAllowed DEF TQ!ReceiveTask
  <2>2. Append(TQ!Restored, offered[w]) \in Seq(Allowed)
    BY <2>1, AppendProperties
  <2>3. q' \in {TQ!Restored, Append(TQ!Restored, offered[w])}
    BY <1>1 DEF TQ!ReceiveTask, TQ!Enqueue
  <2>4. q' \in Seq(Allowed)
    BY <2>1, <2>2, <2>3
  <2>. QED
    BY <1>1, <2>4 DEF TQ!ReceiveTask, scrapeVars
<1>2. CASE TQ!ReceiveDone(w) /\ UNCHANGED scrapeVars
  BY <1>2, RestoredAllowed DEF TQ!ReceiveDone, scrapeVars
<1>3. CASE TakeTask(w)
  BY <1>3 DEF TakeTask, TQ!SendTask, Goto
<1>. QED
  BY <1>1, <1>2, <1>3

LEMMA ReturnSite ==
  ASSUME SiteInv, NEW w \in Workers, Return(w), DocsInv'
  PROVE  SiteInv'
BY DEF SiteInv, TasksInv, HopInv, Return, TQ!Finish, TQ!queueVars, Goto

LEMMA StoreSite ==
  ASSUME SiteInv, NEW w \in Workers, phase[w] = "response",
         NEW whole \in BOOLEAN, Store(w, whole)
  PROVE  DocsInv'
<1>1. hop[w] \in Allowed \cup Targets /\ hop[w] \in URLs
  BY AllowedAreURLs DEF SiteInv, HopInv
<1>. QED
  BY <1>1, QueueAssumption DEF SiteInv, DocsInv, Store

LEMMA WorkerStepSite ==
  ASSUME SiteInv, NEW w \in Workers, WorkerStep(w) \/ Silence(w)
  PROVE  SiteInv'
<1>. USE DEF tqVars
<1>1. CASE PassLimiter(w) \/ Silence(w)
  BY <1>1 DEF PassLimiter, Silence, Goto, SiteInv, TasksInv, HopInv, DocsInv
<1>2. CASE Request(w)
  <2>1. CASE Fail(w, "request") /\ UNCHANGED docs
    BY <2>1, ReturnSite DEF Fail, SiteInv, DocsInv
  <2>2. CASE Goto(w, "response") /\ UNCHANGED <<tqVars, hop, links, docs, failed>>
    BY <1>2, <2>2 DEF Request, Goto, SiteInv, TasksInv, HopInv, DocsInv
  <2>. QED
    BY <1>2, <2>1, <2>2 DEF Request
<1>3. CASE StoreResponse(w)
  <2>1. CASE Store(w, TRUE) /\ Goto(w, "links") /\ UNCHANGED <<tqVars, hop, via, failed>>
    <3>1. DocsInv'
      BY <1>3, <2>1, StoreSite DEF StoreResponse
    <3>. QED
      BY <1>3, <2>1, <3>1 DEF StoreResponse, Goto, SiteInv, TasksInv, HopInv
  <2>2. CASE Store(w, FALSE) /\ Fail(w, "body")
    <3>1. DocsInv'
      BY <1>3, <2>2, StoreSite DEF StoreResponse
    <3>. QED
      BY <2>2, <3>1, ReturnSite DEF Fail
  <2>3. CASE Fail(w, "store") /\ UNCHANGED docs
    BY <2>3, ReturnSite DEF Fail, SiteInv, DocsInv
  <2>. QED
    BY <1>3, <2>1, <2>2, <2>3 DEF StoreResponse
<1>4. CASE NextLink(w)
  <2>1. CASE Head(links[w]) \in FollowURL
    <3>1. Head(links[w]) \in Allowed /\ Head(links[w]) # NoTask
      BY <2>1, AllowedAreURLs DEF Allowed
    <3>. QED
      BY <1>4, <2>1, <3>1
      DEF NextLink, TQ!Post, TQ!queueVars, SiteInv, TasksInv, HopInv, DocsInv
  <2>2. CASE Head(links[w]) \notin FollowURL
    BY <1>4, <2>2 DEF NextLink, SiteInv, TasksInv, HopInv, DocsInv
  <2>. QED
    BY <2>1, <2>2
<1>5. CASE ParseError(w)
  BY <1>5, ReturnSite DEF ParseError, Fail, SiteInv, DocsInv
<1>6. CASE FollowRedirect(w)
  <2>1. hop[w] \in URLs
    BY <1>6, AllowedAreURLs DEF FollowRedirect, SiteInv, HopInv
  <2>2. RedirectTo[hop[w]] \in Targets
    BY <2>1, AllowedAreURLs
  <2>. QED
    BY <1>6, <2>2 DEF FollowRedirect, Goto, SiteInv, TasksInv, HopInv, DocsInv
<1>7. CASE EndTask(w)
  BY <1>7, ReturnSite DEF EndTask, SiteInv, DocsInv
<1>. QED
  BY <1>1, <1>2, <1>3, <1>4, <1>5, <1>6, <1>7 DEF WorkerStep

LEMMA StepSite ==
  ASSUME SiteInv, [Next]_vars
  PROVE  SiteInv'
<1>1. CASE QueueStep
  BY <1>1, QueueAloneSite, RendezvousSite DEF QueueStep
<1>2. ASSUME NEW w \in Workers, WorkerStep(w) \/ Silence(w)
      PROVE  SiteInv'
  BY <1>2, WorkerStepSite
<1>3. ASSUME NEW w \in Workers, Exit(w)
      PROVE  SiteInv'
  BY <1>3 DEF Exit, TQ!Exit, TQ!queueVars, scrapeVars, SiteInv, TasksInv, HopInv, DocsInv
<1>4. CASE WaitForServer \/ UNCHANGED vars
  BY <1>4 DEF WaitForServer, vars, tqVars, scrapeVars, SiteInv, TasksInv, HopInv, DocsInv
<1>5. CASE TQ!Terminated /\ UNCHANGED scrapeVars
  BY <1>5 DEF TQ!Terminated, TQ!vars, TQ!queueVars, TQ!workerVars, scrapeVars,
              SiteInv, TasksInv, HopInv, DocsInv
<1>. QED
  BY <1>1, <1>2, <1>3, <1>4, <1>5 DEF Next

\* On every site a crawl works on nothing but what it was given and what
\* FollowURL accepts, and stores nothing else but what an answer redirected to.
THEOREM OffSiteOnlyByRedirectHolds == Spec => []OffSiteOnlyByRedirect
<1>1. Init => SiteInv
  BY InitSite
<1>2. SiteInv /\ [Next]_vars => SiteInv'
  BY StepSite
<1>3. SiteInv => OffSiteOnlyByRedirect
  BY DEF SiteInv, TasksInv, DocsInv, OffSiteOnlyByRedirect, Targets
<1>. QED
  BY <1>1, <1>2, <1>3, PTL DEF Spec

-----------------------------------------------------------------------------
(***************************************************************************)
(* The mirror is closed.  What TaskQueueProofs proves of any workers holds *)
(* of these: in particular that they leave only when every known key has   *)
(* been handed out.  MirrorInv says how a key that was handed out becomes  *)
(* a document, and a document's links known keys; the two are conditional  *)
(* on nothing having failed.                                               *)
(***************************************************************************)

TQP == INSTANCE TaskQueueProofs WITH Tasks <- URLs

LEMMA QueueAssumptionsHold == TQP!WorkersAssumption /\ TQP!TasksAssumption
BY QueueAssumption
DEF TQP!WorkersAssumption, TQP!TasksAssumption, IsFiniteSet, TQP!IsFiniteSet

\* The two instances are of one specification.
LEMMA SameQueue ==
  /\ TQ!Init <=> TQP!Init
  /\ [TQ!Next]_(TQ!vars) <=> [TQP!Next]_(TQP!vars)
<1>1. TQ!Next <=> TQP!Next
  BY DEF TQ!Next, TQ!QueueStep, TQ!QueueAlone, TQ!AddInitial, TQ!Rendezvous,
         TQ!vars, TQ!queueVars, TQ!workerVars, TQ!EnterLoop, TQ!PopTask,
         TQ!LeaveLoop, TQ!CloseChannel, TQ!ReceiveTask, TQ!SendTask,
         TQ!ReceiveDone, TQ!Enqueue, TQ!Restored, TQ!Post, TQ!Finish, TQ!Exit,
         TQ!outClosed, TQ!Terminated,
         TQP!Next, TQP!QueueStep, TQP!QueueAlone, TQP!AddInitial, TQP!Rendezvous,
         TQP!vars, TQP!queueVars, TQP!workerVars, TQP!EnterLoop, TQP!PopTask,
         TQP!LeaveLoop, TQP!CloseChannel, TQP!ReceiveTask, TQP!SendTask,
         TQP!ReceiveDone, TQP!Enqueue, TQP!Restored, TQP!Post, TQP!Finish, TQP!Exit,
         TQP!outClosed, TQP!Terminated
<1>. QED
  BY <1>1 DEF TQ!Init, TQP!Init, TQ!vars, TQP!vars, TQ!queueVars, TQP!queueVars,
              TQ!workerVars, TQP!workerVars

\* What is used of the queue: the types, what a worker offers, and completeness.
QueueInv == TQP!TypeOK /\ TQP!WorkerInv /\ TQP!ReturnIsComplete

LEMMA QueueInvHolds == Spec => []QueueInv
<1>1. TQP!Spec => []TQP!IInv
  BY QueueAssumptionsHold, TQP!Invariance
<1>2. TQP!Spec => []TQP!ReturnIsComplete
  BY QueueAssumptionsHold, TQP!Completeness
<1>3. TQP!IInv /\ TQP!ReturnIsComplete => QueueInv
  BY DEF TQP!IInv, QueueInv
<1>4. Spec => TQ!Spec
  BY Refinement DEF ImplementsQueue
<1>. QED
  BY <1>1, <1>2, <1>3, <1>4, SameQueue, PTL DEF TQ!Spec, TQP!Spec

\* A worker outside scrapeTask is at no URL and has no links left; one that
\* waits for a silent server has failed.
PlaceInv ==
  /\ phase \in [Workers -> {"idle", "limiter", "request", "response", "links", "silent"}]
  /\ links \in [Workers -> Seq(URLs)]
  /\ \A w \in Workers :
       /\ wpc[w] \notin {"running", "posting"} => phase[w] = "idle"
       /\ phase[w] # "links" => links[w] = <<>>
       /\ phase[w] = "silent" => failed

\* A worker is about to store the answer of a URL with this key.
Fetching(k) ==
  \E w \in Workers :
    phase[w] \in {"limiter", "request", "response"} /\ KeyOf[hop[w]] = k

\* A key that was handed out has its document, or is being fetched.
FetchedInv ==
  ~failed => \A k \in Keys : handedOut[k] > 0 => docs[k] # NoDocument \/ Fetching(k)

\* A worker has still to look at this link, or is posting it.
ToPost(u) ==
  \E w \in Workers :
    offered[w] = u \/ \E i \in 1 .. Len(links[w]) : links[w][i] = u

\* A followed link of a document that is stored is known to the queue, or will be.
LinksInv ==
  ~failed =>
    \A k \in Keys :
      docs[k] # NoDocument =>
        \A i \in DOMAIN Links[docs[k].url] :
          Links[docs[k].url][i] \in FollowURL =>
            \/ KeyOf[Links[docs[k].url][i]] \in addedKeys
            \/ ToPost(Links[docs[k].url][i])

MirrorInv == PlaceInv /\ FetchedInv /\ LinksInv

LEMMA InitMirror == Init => MirrorInv
BY DEF Init, TQ!Init, MirrorInv, PlaceInv, FetchedInv, LinksInv

\* What MirrorInv needs to know of the state before a step.
LEMMA PlaceFacts ==
  ASSUME QueueInv, SiteInv, PlaceInv
  PROVE  /\ \A w \in Workers :
              /\ wpc[w] \notin {"running", "posting"} =>
                   phase[w] = "idle" /\ links[w] = <<>> /\ offered[w] = NoTask
              /\ wpc[w] # "posting" => offered[w] = NoTask
              /\ phase[w] \in {"request", "response", "links"} => hop[w] \in URLs
         /\ \A k \in Keys : docs[k] # NoDocument => docs[k].url \in URLs
         /\ \A u \in URLs :
              /\ Links[u] \in Seq(URLs) /\ Len(Links[u]) \in Nat
              /\ DOMAIN Links[u] = 1 .. Len(Links[u])
              /\ \A i \in DOMAIN Links[u] : Links[u][i] \in URLs
<1>1. \A u \in URLs :
        /\ Links[u] \in Seq(URLs) /\ Len(Links[u]) \in Nat
        /\ DOMAIN Links[u] = 1 .. Len(Links[u])
        /\ \A i \in DOMAIN Links[u] : Links[u][i] \in URLs
  BY SiteAssumption, LenProperties, ElementOfSeq
<1>2. \A w \in Workers : wpc[w] # "posting" => offered[w] = NoTask
  BY DEF QueueInv, TQP!WorkerInv
<1>3. \A w \in Workers : wpc[w] \notin {"running", "posting"} =>
        phase[w] = "idle" /\ links[w] = <<>>
  BY DEF PlaceInv
<1>4. \A w \in Workers : phase[w] \in {"request", "response", "links"} => hop[w] \in URLs
  BY AllowedAreURLs DEF SiteInv, HopInv
<1>5. \A k \in Keys : docs[k] # NoDocument => docs[k].url \in URLs
  <2>. SUFFICES ASSUME NEW k \in Keys, docs[k] # NoDocument
               PROVE  docs[k].url \in URLs
    OBVIOUS
  <2>1. docs[k] \in [url : (Allowed \cup Targets) \cap URLs, whole : BOOLEAN]
    BY DEF SiteInv, DocsInv
  <2>2. docs[k].url \in (Allowed \cup Targets) \cap URLs
    BY <2>1
  <2>. QED  BY <2>2
<1>. QED  BY <1>1, <1>2, <1>3, <1>4, <1>5

\* A step of the queue goroutine on its own knows no new key.
LEMMA QueueAloneMirror ==
  ASSUME MirrorInv, TQ!QueueAlone, UNCHANGED scrapeVars
  PROVE  MirrorInv'
<1>1. UNCHANGED <<wpc, offered, handedOut, phase, links, hop, docs, failed, addedKeys>>
  BY DEF TQ!QueueAlone, TQ!AddInitial, TQ!EnterLoop, TQ!PopTask, TQ!LeaveLoop,
         TQ!CloseChannel, TQ!workerVars, scrapeVars
<1>. QED
  BY <1>1 DEF MirrorInv, PlaceInv, FetchedInv, Fetching, LinksInv, ToPost

\* The queue takes a link that was offered, or a report.
LEMMA ReceiveMirror ==
  ASSUME QueueInv, SiteInv, MirrorInv, NEW v \in Workers,
         TQ!ReceiveTask(v) \/ TQ!ReceiveDone(v), UNCHANGED scrapeVars
  PROVE  MirrorInv'
<1>1. UNCHANGED <<handedOut, phase, links, hop, docs, failed>>
  BY DEF TQ!ReceiveTask, TQ!ReceiveDone, scrapeVars
<1>2. PlaceInv'
  BY <1>1 DEF MirrorInv, PlaceInv, TQ!ReceiveTask, TQ!ReceiveDone, QueueInv, TQP!TypeOK
<1>3. FetchedInv'
  BY <1>1 DEF MirrorInv, FetchedInv, Fetching
<1>4. \A u : ToPost(u) => ToPost(u)' \/ (KeyOf[u] \in addedKeys')
  <2>. SUFFICES ASSUME NEW u, NEW w \in Workers,
                       offered[w] = u \/ \E i \in 1 .. Len(links[w]) : links[w][i] = u
                PROVE  ToPost(u)' \/ KeyOf[u] \in addedKeys'
    BY DEF ToPost
  <2>1. CASE \E i \in 1 .. Len(links[w]) : links[w][i] = u
    BY <1>1, <2>1 DEF ToPost
  <2>2. CASE offered[w] = u /\ TQ!ReceiveTask(v) /\ w = v
    BY <2>2 DEF TQ!ReceiveTask, TQ!Enqueue
  <2>3. CASE offered[w] = u /\ TQ!ReceiveTask(v) /\ w # v
    <3>1. offered'[w] = offered[w]
      BY <2>3 DEF TQ!ReceiveTask, QueueInv, TQP!TypeOK
    <3>. QED  BY <2>3, <3>1 DEF ToPost
  <2>4. CASE offered[w] = u /\ TQ!ReceiveDone(v)
    BY <2>4 DEF TQ!ReceiveDone, ToPost
  <2>. QED  BY <2>1, <2>2, <2>3, <2>4
<1>5. addedKeys \subseteq addedKeys'
  BY DEF TQ!ReceiveTask, TQ!Enqueue, TQ!ReceiveDone
<1>6. LinksInv'
  BY <1>1, <1>4, <1>5 DEF MirrorInv, LinksInv
<1>. QED  BY <1>2, <1>3, <1>6 DEF MirrorInv

\* The key that is handed out is fetched from now on; whoever fetched before
\* still does, for the worker that takes the task was idle.
LEMMA TakeTaskMirror ==
  ASSUME QueueInv, SiteInv, MirrorInv, NEW v \in Workers, TakeTask(v)
  PROVE  MirrorInv'
<1>1. /\ UNCHANGED <<links, docs, failed, addedKeys, offered>>
      /\ wpc[v] = "idle" /\ wpc' = [wpc EXCEPT ![v] = "running"]
      /\ phase' = [phase EXCEPT ![v] = "limiter"]
      /\ hop' = [hop EXCEPT ![v] = currentTask]
      /\ handedOut' = [handedOut EXCEPT ![KeyOf[currentTask]] = @ + 1]
  BY DEF TakeTask, TQ!SendTask, Goto
<1>2. /\ phase \in [Workers -> {"idle", "limiter", "request", "response", "links", "silent"}]
      /\ wpc \in [Workers -> {"idle", "running", "posting", "finishing", "exited"}]
      /\ hop \in [Workers -> Allowed \cup Targets \cup {NoTask}]
      /\ handedOut \in [Keys -> Nat]
  BY DEF MirrorInv, PlaceInv, QueueInv, TQP!TypeOK, SiteInv, HopInv
<1>3. phase[v] = "idle" /\ links[v] = <<>>
  BY <1>1, PlaceFacts DEF MirrorInv
<1>4. PlaceInv'
  BY <1>1, <1>2, <1>3 DEF MirrorInv, PlaceInv
<1>5. FetchedInv'
  <2>. SUFFICES ASSUME ~failed, NEW k \in Keys, handedOut'[k] > 0
                PROVE  docs[k] # NoDocument \/ Fetching(k)'
    BY <1>1 DEF FetchedInv
  <2>1. CASE k = KeyOf[currentTask]
    <3>1. phase'[v] = "limiter" /\ hop'[v] = currentTask
      BY <1>1, <1>2
    <3>. QED  BY <2>1, <3>1 DEF Fetching
  <2>2. CASE k # KeyOf[currentTask]
    <3>1. handedOut[k] > 0
      BY <1>1, <1>2, <2>2
    <3>2. ASSUME Fetching(k) PROVE Fetching(k)'
      <4>1. PICK w \in Workers :
              phase[w] \in {"limiter", "request", "response"} /\ KeyOf[hop[w]] = k
        BY <3>2 DEF Fetching
      <4>2. w # v
        BY <1>3, <4>1
      <4>3. phase'[w] = phase[w] /\ hop'[w] = hop[w]
        BY <1>1, <1>2, <4>2
      <4>. QED  BY <4>1, <4>3 DEF Fetching
    <3>. QED  BY <3>1, <3>2 DEF MirrorInv, FetchedInv
  <2>. QED  BY <2>1, <2>2
<1>6. LinksInv'
  BY <1>1 DEF MirrorInv, LinksInv, ToPost
<1>. QED  BY <1>4, <1>5, <1>6 DEF MirrorInv

\* Once something has failed only the worker's place matters.
LEMMA ReturnPlace ==
  ASSUME QueueInv, PlaceInv, NEW v \in Workers, Return(v), failed => failed'
  PROVE  PlaceInv'
BY DEF QueueInv, TQP!TypeOK, PlaceInv, Return, TQ!Finish, Goto

LEMMA FailMirror ==
  ASSUME QueueInv, MirrorInv, NEW v \in Workers, NEW fault, Fail(v, fault)
  PROVE  MirrorInv'
<1>1. failed' /\ PlaceInv'
  BY ReturnPlace DEF Fail, MirrorInv
<1>. QED  BY <1>1 DEF MirrorInv, FetchedInv, LinksInv

\* A step that stores nothing, finds nothing and only moves a worker that is,
\* and goes on, fetching or reading links.
LEMMA MoveMirror ==
  ASSUME QueueInv, SiteInv, MirrorInv, NEW v \in Workers,
         UNCHANGED <<addedKeys, wpc, offered, handedOut, links, docs, failed>>,
         NEW p \in {"request", "response", "links"}, Goto(v, p),
         wpc[v] \in {"running", "posting"}, links[v] = <<>>,
         \/ phase[v] = "links"
         \/ p \in {"request", "response"} /\ UNCHANGED hop,
         \A w \in Workers : w # v => hop'[w] = hop[w]
  PROVE  MirrorInv'
<1>1. /\ phase \in [Workers -> {"idle", "limiter", "request", "response", "links", "silent"}]
      /\ phase' = [phase EXCEPT ![v] = p]
  BY DEF MirrorInv, PlaceInv, Goto
<1>2. PlaceInv'
  BY <1>1 DEF MirrorInv, PlaceInv
<1>3. ASSUME NEW k, Fetching(k) PROVE Fetching(k)'
  <2>1. PICK w \in Workers :
          phase[w] \in {"limiter", "request", "response"} /\ KeyOf[hop[w]] = k
    BY <1>3 DEF Fetching
  <2>2. phase'[w] \in {"limiter", "request", "response"} /\ hop'[w] = hop[w]
    BY <1>1, <2>1
  <2>. QED  BY <2>1, <2>2 DEF Fetching
<1>4. FetchedInv'
  BY <1>3 DEF MirrorInv, FetchedInv
<1>5. LinksInv'
  BY DEF MirrorInv, LinksInv, ToPost
<1>. QED  BY <1>2, <1>4, <1>5 DEF MirrorInv

\* What is stored is no longer being fetched, and each of its links is left to
\* be looked at.
LEMMA StoreMirror ==
  ASSUME QueueInv, SiteInv, MirrorInv, NEW v \in Workers,
         phase[v] = "response", Store(v, TRUE),
         links' = [links EXCEPT ![v] = Links[hop[v]]],
         Goto(v, "links"), UNCHANGED <<tqVars, hop, via, failed>>
  PROVE  MirrorInv'
<1>. DEFINE doc == [url |-> hop[v], whole |-> TRUE]
<1>1. /\ phase \in [Workers -> {"idle", "limiter", "request", "response", "links", "silent"}]
      /\ phase' = [phase EXCEPT ![v] = "links"]
      /\ links \in [Workers -> Seq(URLs)]
  BY DEF MirrorInv, PlaceInv, Goto
<1>2. /\ hop[v] \in URLs /\ Links[hop[v]] \in Seq(URLs)
      /\ DOMAIN Links[hop[v]] = 1 .. Len(Links[hop[v]])
      /\ links[v] = <<>>
      /\ wpc[v] \in {"running", "posting"}
  BY PlaceFacts DEF MirrorInv, PlaceInv
<1>3. /\ KeyOf[hop[v]] \in Keys
      /\ docs' = [docs EXCEPT ![KeyOf[hop[v]]] = doc]
      /\ DOMAIN docs = Keys
      /\ doc \in [url : URLs, whole : BOOLEAN]
  BY <1>2, QueueAssumption DEF Store, SiteInv, DocsInv
<1>4. doc # NoDocument /\ doc.url = hop[v]
  BY <1>3, SiteAssumption
<1>. HIDE DEF doc
<1>5. PlaceInv'
  BY <1>1, <1>2 DEF MirrorInv, PlaceInv, tqVars
<1>6. FetchedInv'
  <2>. SUFFICES ASSUME ~failed, NEW k \in Keys, handedOut[k] > 0
                PROVE  docs'[k] # NoDocument \/ Fetching(k)'
    BY DEF FetchedInv, tqVars
  <2>1. CASE k = KeyOf[hop[v]]
    BY <1>3, <1>4, <2>1
  <2>2. ASSUME k # KeyOf[hop[v]], Fetching(k) PROVE Fetching(k)'
    <3>1. PICK w \in Workers :
            phase[w] \in {"limiter", "request", "response"} /\ KeyOf[hop[w]] = k
      BY <2>2 DEF Fetching
    <3>2. w # v
      BY <2>2, <3>1
    <3>. QED  BY <1>1, <3>1, <3>2 DEF Fetching
  <2>3. k # KeyOf[hop[v]] => docs'[k] = docs[k]
    BY <1>3
  <2>. QED  BY <2>1, <2>2, <2>3 DEF MirrorInv, FetchedInv
<1>7. LinksInv'
  <2>. SUFFICES ASSUME ~failed, NEW k \in Keys, docs'[k] # NoDocument,
                       NEW i \in DOMAIN Links[docs'[k].url],
                       NEW u \in FollowURL, u = Links[docs'[k].url][i]
                PROVE  KeyOf[u] \in addedKeys \/ ToPost(u)'
    BY DEF LinksInv, tqVars, ToPost
  <2>1. CASE k = KeyOf[hop[v]]
    <3>1. docs'[k].url = hop[v]
      BY <1>3, <1>4, <2>1
    <3>2. links'[v] = Links[hop[v]]
      BY <1>1
    <3>. QED  BY <1>2, <3>1, <3>2 DEF ToPost
  <2>2. CASE k # KeyOf[hop[v]]
    <3>1. docs'[k] = docs[k]
      BY <1>3, <2>2
    <3>2. ASSUME ToPost(u) PROVE ToPost(u)'
      <4>1. PICK w \in Workers :
              offered[w] = u \/ \E j \in 1 .. Len(links[w]) : links[w][j] = u
        BY <3>2 DEF ToPost
      <4>2. CASE offered[w] = u
        BY <4>2 DEF ToPost, tqVars
      <4>3. CASE w # v
        BY <1>1, <4>1, <4>3 DEF ToPost, tqVars
      <4>4. CASE w = v /\ \E j \in 1 .. Len(links[w]) : links[w][j] = u
        <5>1. Len(links[v]) = 0
          BY <1>2
        <5>. QED  BY <4>4, <5>1
      <4>. QED  BY <4>1, <4>2, <4>3, <4>4
    <3>. QED  BY <3>1, <3>2 DEF MirrorInv, LinksInv
  <2>. QED  BY <2>1, <2>2
<1>. QED  BY <1>5, <1>6, <1>7 DEF MirrorInv

\* The first link is passed over or offered; the others are still to come.
LEMMA NextLinkMirror ==
  ASSUME QueueInv, SiteInv, MirrorInv, NEW v \in Workers, NextLink(v)
  PROVE  MirrorInv'
<1>1. /\ phase[v] = "links" /\ wpc[v] = "running" /\ links[v] # <<>>
      /\ links' = [links EXCEPT ![v] = Tail(links[v])]
      /\ UNCHANGED <<phase, hop, docs, failed, addedKeys, handedOut>>
  BY DEF NextLink, TQ!Post, TQ!queueVars, tqVars
<1>2. /\ links \in [Workers -> Seq(URLs)] /\ links[v] \in Seq(URLs)
      /\ wpc \in [Workers -> {"idle", "running", "posting", "finishing", "exited"}]
      /\ offered \in [Workers -> URLs \cup {NoTask}]
  BY DEF MirrorInv, PlaceInv, QueueInv, TQP!TypeOK
<1>3. /\ Tail(links[v]) \in Seq(URLs) /\ Head(links[v]) = links[v][1]
      /\ Len(links[v]) \in Nat /\ Len(Tail(links[v])) = Len(links[v]) - 1
      /\ \A j \in 1 .. Len(Tail(links[v])) : Tail(links[v])[j] = links[v][j + 1]
  BY <1>1, <1>2, HeadTailProperties, LenProperties
<1>4. /\ offered[v] = NoTask
      /\ wpc' = [wpc EXCEPT ![v] = wpc'[v]] /\ wpc'[v] \in {"running", "posting"}
      /\ offered' = [offered EXCEPT ![v] = offered'[v]]
      /\ Head(links[v]) \in FollowURL => offered'[v] = Head(links[v])
  <2>1. offered[v] = NoTask
    BY <1>1, PlaceFacts DEF MirrorInv
  <2>2. CASE Head(links[v]) \in FollowURL
    BY <1>2, <2>1, <2>2 DEF NextLink, TQ!Post
  <2>3. CASE Head(links[v]) \notin FollowURL
    BY <1>1, <1>2, <2>1, <2>3 DEF NextLink, tqVars
  <2>. QED  BY <2>1, <2>2, <2>3
<1>5. PlaceInv'
  BY <1>1, <1>2, <1>3, <1>4 DEF MirrorInv, PlaceInv
<1>6. FetchedInv'
  BY <1>1 DEF MirrorInv, FetchedInv, Fetching
<1>7. ASSUME NEW u \in FollowURL, ToPost(u) PROVE ToPost(u)'
  <2>1. PICK w \in Workers :
          offered[w] = u \/ \E j \in 1 .. Len(links[w]) : links[w][j] = u
    BY <1>7 DEF ToPost
  <2>2. CASE w # v
    BY <1>1, <1>2, <1>4, <2>1, <2>2 DEF ToPost
  <2>3. CASE w = v
    <3>1. u # NoTask
      BY QueueAssumption, SiteAssumption
    <3>2. PICK j \in 1 .. Len(links[v]) : links[v][j] = u
      BY <1>4, <2>1, <2>3, <3>1
    <3>3. CASE j = 1
      BY <1>3, <1>4, <3>2, <3>3 DEF ToPost
    <3>4. CASE j # 1
      <4>1. j - 1 \in 1 .. Len(links'[v]) /\ links'[v][j - 1] = u
        BY <1>1, <1>2, <1>3, <3>2, <3>4
      <4>. QED  BY <4>1 DEF ToPost
    <3>. QED  BY <3>3, <3>4
  <2>. QED  BY <2>2, <2>3
<1>8. LinksInv'
  BY <1>1, <1>7 DEF MirrorInv, LinksInv
<1>. QED  BY <1>5, <1>6, <1>8 DEF MirrorInv

\* A worker that has posted the last link can leave its task.
LEMMA EndTaskMirror ==
  ASSUME QueueInv, SiteInv, MirrorInv, NEW v \in Workers, EndTask(v)
  PROVE  MirrorInv'
<1>1. /\ phase[v] = "links" /\ links[v] = <<>> /\ Return(v)
      /\ UNCHANGED <<docs, failed>>
      /\ UNCHANGED <<offered, handedOut, addedKeys>>
  BY DEF EndTask, Return, TQ!Finish, TQ!queueVars
<1>2. links' = links
  BY <1>1 DEF Return, MirrorInv, PlaceInv
<1>3. PlaceInv'
  BY <1>1, ReturnPlace DEF MirrorInv
<1>4. ASSUME NEW k, Fetching(k) PROVE Fetching(k)'
  <2>1. PICK w \in Workers :
          phase[w] \in {"limiter", "request", "response"} /\ KeyOf[hop[w]] = k
    BY <1>4 DEF Fetching
  <2>2. w # v /\ phase'[w] = phase[w] /\ hop'[w] = hop[w]
    BY <1>1, <2>1 DEF Return, Goto, MirrorInv, PlaceInv, SiteInv, HopInv
  <2>. QED  BY <2>1, <2>2 DEF Fetching
<1>5. FetchedInv'
  BY <1>1, <1>4 DEF MirrorInv, FetchedInv
<1>6. LinksInv'
  BY <1>1, <1>2 DEF MirrorInv, LinksInv, ToPost
<1>. QED  BY <1>3, <1>5, <1>6 DEF MirrorInv

LEMMA WorkerStepMirror ==
  ASSUME QueueInv, SiteInv, MirrorInv, NEW v \in Workers, WorkerStep(v) \/ Silence(v)
  PROVE  MirrorInv'
<1>0. phase[v] \in {"limiter", "request", "response"} =>
        wpc[v] \in {"running", "posting"} /\ links[v] = <<>>
  BY DEF MirrorInv, PlaceInv
<1>1. CASE PassLimiter(v)
  BY <1>0, <1>1, MoveMirror DEF PassLimiter, tqVars
<1>2. CASE Request(v)
  <2>1. CASE Goto(v, "response") /\ UNCHANGED <<tqVars, hop, links, docs, failed>>
    BY <1>0, <1>2, <2>1, MoveMirror DEF Request, tqVars
  <2>. QED  BY <1>2, <2>1, FailMirror DEF Request
<1>3. CASE StoreResponse(v)
  <2>1. CASE \/ Store(v, FALSE) /\ Fail(v, "body")
             \/ Fail(v, "store") /\ UNCHANGED docs
    BY <2>1, FailMirror
  <2>. QED  BY <1>3, <2>1, StoreMirror DEF StoreResponse
<1>4. CASE NextLink(v)
  BY <1>4, NextLinkMirror
<1>5. CASE ParseError(v)
  BY <1>5, FailMirror DEF ParseError
<1>6. CASE FollowRedirect(v)
  <2>1. \A w \in Workers : w # v => hop'[w] = hop[w]
    BY <1>6 DEF FollowRedirect, SiteInv, HopInv
  <2>. QED  BY <1>6, <2>1, MoveMirror DEF FollowRedirect, tqVars
<1>7. CASE EndTask(v)
  BY <1>7, EndTaskMirror
<1>8. CASE Silence(v)
  <2>1. /\ failed' /\ UNCHANGED <<wpc, links>>
        /\ phase' = [phase EXCEPT ![v] = "silent"]
        /\ links[v] = <<>> /\ wpc[v] \in {"running", "posting"}
    BY <1>0, <1>8 DEF Silence, Goto, tqVars
  <2>. QED  BY <2>1 DEF MirrorInv, PlaceInv, FetchedInv, LinksInv
<1>. QED  BY <1>1, <1>2, <1>3, <1>4, <1>5, <1>6, <1>7, <1>8 DEF WorkerStep

LEMMA MirrorKept ==
  ASSUME MirrorInv, UNCHANGED <<handedOut, addedKeys, offered>>, UNCHANGED scrapeVars,
         \A w \in Workers : wpc'[w] \in {"running", "posting"} <=> wpc[w] \in {"running", "posting"}
  PROVE  MirrorInv'
BY DEF MirrorInv, PlaceInv, FetchedInv, Fetching, LinksInv, ToPost, scrapeVars

LEMMA StepMirror ==
  ASSUME QueueInv, SiteInv, MirrorInv, [Next]_vars
  PROVE  MirrorInv'
<1>1. CASE QueueStep
  BY <1>1, QueueAloneMirror, ReceiveMirror, TakeTaskMirror DEF QueueStep
<1>2. ASSUME NEW v \in Workers, WorkerStep(v) \/ Silence(v)
      PROVE  MirrorInv'
  BY <1>2, WorkerStepMirror
<1>3. ASSUME NEW v \in Workers, Exit(v)
      PROVE  MirrorInv'
  BY <1>3, MirrorKept DEF Exit, TQ!Exit, TQ!queueVars, QueueInv, TQP!TypeOK
<1>4. CASE WaitForServer \/ UNCHANGED vars \/ (TQ!Terminated /\ UNCHANGED scrapeVars)
  <2>1. UNCHANGED <<wpc, handedOut, addedKeys, offered>> /\ UNCHANGED scrapeVars
    BY <1>4 DEF WaitForServer, vars, tqVars, scrapeVars, TQ!Terminated, TQ!vars,
                TQ!queueVars, TQ!workerVars
  <2>. QED  BY <2>1, MirrorKept
<1>. QED  BY <1>1, <1>2, <1>3, <1>4 DEF Next

\* Nobody returns while something is still to be fetched or posted.
LEMMA ClosedAtTheEnd ==
  ASSUME QueueInv, SiteInv, MirrorInv
  PROVE  MirrorIsClosed
<1>. SUFFICES ASSUME Returned, ~failed
              PROVE  /\ \A u \in Initial : docs[KeyOf[u]] # NoDocument
                     /\ \A k \in Keys :
                          docs[k] # NoDocument =>
                            \A i \in DOMAIN Links[docs[k].url] :
                              Links[docs[k].url][i] \in FollowURL =>
                                docs[KeyOf[Links[docs[k].url][i]]] # NoDocument
  BY DEF MirrorIsClosed
<1>1. \A w \in Workers : wpc[w] = "exited"
  BY DEF Returned
<1>2. \A w \in Workers : phase[w] = "idle" /\ links[w] = <<>> /\ offered[w] = NoTask
  BY <1>1, PlaceFacts DEF MirrorInv
<1>3. /\ \A k \in addedKeys : handedOut[k] > 0
      /\ \A n \in DOMAIN InitialTasks : handedOut[KeyOf[InitialTasks[n]]] > 0
  BY <1>1, QueueAssumption DEF QueueInv, TQP!ReturnIsComplete
<1>4. \A k \in Keys : handedOut[k] > 0 => docs[k] # NoDocument
  BY <1>2 DEF MirrorInv, FetchedInv, Fetching
<1>5. \A u \in URLs : KeyOf[u] \in Keys
  BY QueueAssumption
<1>6. \A u \in Initial : docs[KeyOf[u]] # NoDocument
  BY <1>3, <1>4, <1>5, AllowedAreURLs DEF Initial
<1>7. \A u \in FollowURL : ~ToPost(u)
  <2>1. \A u \in FollowURL : u # NoTask
    BY QueueAssumption, SiteAssumption
  <2>2. \A w \in Workers : Len(links[w]) = 0
    BY <1>2
  <2>. QED  BY <1>2, <2>1, <2>2 DEF ToPost
<1>8. ASSUME NEW k \in Keys, docs[k] # NoDocument,
             NEW i \in DOMAIN Links[docs[k].url], Links[docs[k].url][i] \in FollowURL
      PROVE  docs[KeyOf[Links[docs[k].url][i]]] # NoDocument
  <2>1. KeyOf[Links[docs[k].url][i]] \in addedKeys
    BY <1>7, <1>8 DEF MirrorInv, LinksInv
  <2>. QED  BY <1>3, <1>4, <1>8, <2>1, SiteAssumption, <1>5
<1>. QED  BY <1>6, <1>8

LEMMA MirrorInvHolds == Spec => [](QueueInv /\ SiteInv /\ MirrorInv)
<1>1. QueueInv /\ SiteInv /\ MirrorInv /\ [Next]_vars => SiteInv' /\ MirrorInv'
  BY StepSite, StepMirror
<1>. QED  BY <1>1, QueueInvHolds, InitSite, InitMirror, PTL DEF Spec

\* When Scrape returns and nothing has failed, the mirror is closed, for every
\* site, number of workers and order of their steps: a key that was handed out
\* has its document, whoever overwrote it, and the links of the document that
\* was stored last have been handed out too.
THEOREM MirrorHolds == Spec => []MirrorIsClosed
<1>1. QueueInv /\ SiteInv /\ MirrorInv => MirrorIsClosed
  BY ClosedAtTheEnd
<1>. QED  BY <1>1, MirrorInvHolds, PTL

\* The safety half of SilenceIsContained: with one silent server Scrape never
\* returns.
THEOREM SilenceHoldsUp == Spec => [](Silent # {} => ~Returned)
<1>1. MirrorInv => (Silent # {} => ~Returned)
  BY DEF MirrorInv, PlaceInv, Silent, Returned
<1>. QED  BY <1>1, MirrorInvHolds, PTL
=============================================================================
