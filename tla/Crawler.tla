------------------------------ MODULE Crawler ------------------------------
(***************************************************************************)
(* TCrawler and its TSpiderWorker threads (libspider/Crawler.cpp).  The     *)
(* workers share the URL queue uriQue under uq_mutex and uq_cond, the three *)
(* URL lists and their files under ur_, uv_ and vu_mutex, the file sequence *)
(* number under seq_mutex, and fetch one page at a time under fetch_mutex.  *)
(*                                                                          *)
(* A step is what a worker does between two points where another thread can *)
(* see it: to acquire a mutex, or to do what it does under the mutex and    *)
(* release it.  lock[m] is the holder of mutex m.                           *)
(***************************************************************************)
EXTENDS CrawlEntry, FetchOutcome

CONSTANTS
  Links,        \* the http hyperlinks of a page, in page order
  Followed,     \* URLs whose path names a file with extension html, shtml or htm
  HostOf,       \* Uri::hostname of a URL
  Unparse,      \* Uri::unparse of a URL, which checkUrl looks up
  MaxSpurious,  \* bound on the spurious wake-ups of uq_cond
  Free          \* the holder of a mutex nobody holds

ASSUME CrawlerAssumption ==
  /\ Links \in [Url -> Seq(Url)]
  /\ Followed \subseteq Url
  /\ DOMAIN HostOf = Url
  /\ DOMAIN Unparse = Url
  /\ MaxSpurious \in Nat
  /\ Free \notin Worker

\* The lists of checkUrl, named as the prefix of their mutexes.
List == {"ur", "uv", "vu"}
Mutex == {"uq", "seq", "fetch"} \cup List

VARIABLES
  running,    \* m_running
  lock,       \* the holder of each mutex
  uriQue,     \* the URL queue
  pushed,     \* how many entries were ever pushed
  waiting,    \* the workers blocked in pthread_cond_wait(&uq_cond)
  spurious,   \* spurious wake-ups so far
  fseq,       \* the next file sequence number
  known,      \* what the in-memory vector of each list holds
  flushed,    \* the part of it that ur_pos, uv_pos and vu_pos have passed
  log,        \* the lines of each list's file
  saved,      \* the files in savedir: number, and URL of the page
  pc,         \* where each worker is
  cur,        \* the entry a worker works on
  num,        \* the file sequence number it got
  content,    \* the links in the HTML its THttpCli holds
  todo,       \* the links parseHyperlinks has still to look at
  late        \* entries a worker took after stop()

frontier == <<uriQue, pushed>>
wakeups == <<waiting, spurious>>
lists == <<known, flushed, log>>
files == <<fseq, saved, num>>
page == <<content, todo>>
vars == <<running, lock, frontier, wakeups, lists, files, page, pc, cur, late>>

PC == {"new", "top", "enter", "test", "wait", "seq", "fetch", "save_ur", "save_uv",
       "save_vu", "reparse", "parse", "bcast", "done"} \cup List

TypeOK ==
  /\ running \in BOOLEAN
  /\ lock \in [Mutex -> Worker \cup {Free}]
  /\ uriQue \in Seq(Entry)
  /\ pushed \in Nat
  /\ waiting \subseteq Worker
  /\ spurious \in 0 .. MaxSpurious
  /\ fseq \in Nat
  /\ pc \in [Worker -> PC]
  /\ cur \in [Worker -> Entry \cup {NoEntry}]
  /\ num \in [Worker -> Nat]
  /\ content \in [Worker -> Seq(Url)]
  /\ todo \in [Worker -> Seq(Url)]
  /\ late \in [Worker -> Nat]

-----------------------------------------------------------------------------
\* TCrawler::TCrawler and start() up to the loop that creates the workers.
Init ==
  /\ running = TRUE
  /\ lock = [m \in Mutex |-> Free]
  /\ uriQue = <<StartEntry>>
  /\ pushed = 1
  /\ waiting = {}
  /\ spurious = 0
  /\ fseq = 0
  /\ known = [l \in List |-> {}]
  /\ flushed = [l \in List |-> {}]
  /\ log = [l \in List |-> {}]
  /\ saved = {}
  /\ pc = [w \in Worker |-> "new"]
  /\ cur = [w \in Worker |-> NoEntry]
  /\ num = [w \in Worker |-> 0]
  /\ content = [w \in Worker |-> <<>>]
  /\ todo = [w \in Worker |-> <<>>]
  /\ late = [w \in Worker |-> 0]

At(w, p) == pc[w] = p
Goto(w, p) == pc' = [pc EXCEPT ![w] = p]

\* TMutex::Lock and Unlock, pthread_mutex_lock and unlock.
Acquire(w, m) == lock[m] = Free /\ lock' = [lock EXCEPT ![m] = w]
Release(m) == lock' = [lock EXCEPT ![m] = Free]

\* Back to while(m_running): the worker is done with its entry.
NextEntry(w) == Goto(w, "top") /\ cur' = [cur EXCEPT ![w] = NoEntry]

\* The loop of start() that creates the workers.
CreateWorker(w) ==
  /\ At(w, "new")
  /\ Goto(w, "top")
  /\ UNCHANGED <<running, lock, frontier, wakeups, lists, files, page, cur, late>>

\* Fault: the loop does not look at m_running.
LoopTopForever(w) ==
  /\ At(w, "top")
  /\ Goto(w, "enter")
  /\ UNCHANGED <<running, lock, frontier, wakeups, lists, files, page, cur, late>>

\* while(crawler->m_running) of TSpiderWorker::Run.
LoopTop(w) ==
  /\ At(w, "top")
  /\ Goto(w, IF running THEN "enter" ELSE "done")
  /\ UNCHANGED <<running, lock, frontier, wakeups, lists, files, page, cur, late>>

-----------------------------------------------------------------------------
\* fetchUrl: lock, wait while the queue is empty, pop the front, unlock.
EnterFetchUrl(w) ==
  /\ At(w, "enter")
  /\ Acquire(w, "uq")
  /\ Goto(w, "test")
  /\ UNCHANGED <<running, frontier, wakeups, lists, files, page, cur, late>>

WaitForEntry(w) ==
  /\ At(w, "test")
  /\ uriQue = <<>>
  /\ Release("uq")
  /\ waiting' = waiting \cup {w}
  /\ Goto(w, "wait")
  /\ UNCHANGED <<running, frontier, spurious, lists, files, page, cur, late>>

\* pthread_cond_wait returns, with the mutex, and the queue is tested again.
Wake(w) ==
  /\ At(w, "wait")
  /\ w \notin waiting
  /\ Acquire(w, "uq")
  /\ Goto(w, "test")
  /\ UNCHANGED <<running, frontier, wakeups, lists, files, page, cur, late>>

SpuriousWake(w) ==
  /\ w \in waiting
  /\ spurious < MaxSpurious
  /\ waiting' = waiting \ {w}
  /\ spurious' = spurious + 1
  /\ UNCHANGED <<running, lock, frontier, lists, files, page, pc, cur, late>>

\* Fault: the front is read and not popped.
TakeEntryKeep(w) ==
  /\ At(w, "test")
  /\ uriQue # <<>>
  /\ cur' = [cur EXCEPT ![w] = Head(uriQue)]
  /\ Release("uq")
  /\ Goto(w, "ur")
  /\ UNCHANGED <<running, frontier, wakeups, lists, files, page, late>>

TakeEntry(w) ==
  /\ At(w, "test")
  /\ uriQue # <<>>
  /\ cur' = [cur EXCEPT ![w] = Head(uriQue)]
  /\ uriQue' = Tail(uriQue)
  /\ Release("uq")
  /\ Goto(w, "ur")
  /\ late' = IF running THEN late ELSE [late EXCEPT ![w] = @ + 1]
  /\ UNCHANGED <<running, pushed, wakeups, lists, files, page>>

-----------------------------------------------------------------------------
\* checkUrl searches the lists in turn.  Run calls it for the entry a worker
\* took, parseHyperlinks for each link while it holds uq_mutex.
Parsing(w) == lock["uq"] = w
UrlChecked(w) == IF Parsing(w) THEN Head(todo[w]) ELSE cur[w].url
KeyIn(l, u) == IF l = "ur" THEN HostOf[u] ELSE Unparse[u]
NextList == [ur |-> "uv", uv |-> "vu"]

CheckBegin(w) ==
  /\ pc[w] \in List
  /\ Acquire(w, pc[w])
  /\ UNCHANGED <<running, frontier, wakeups, lists, files, page, pc, cur, late>>

\* The part of the vector not yet in the file is appended to it first.
Flush(l) ==
  /\ log' = [log EXCEPT ![l] = @ \cup {[id |-> 0, line |-> k] :
                                         k \in known[l] \ flushed[l]}]
  /\ flushed' = [flushed EXCEPT ![l] = known[l]]
  /\ UNCHANGED known

\* Fault: push_front.
PushLinkFront(w, u) ==
  /\ uriQue' = <<[id |-> pushed + 1, url |-> u, depth |-> cur[w].depth + 1]>> \o uriQue
  /\ pushed' = pushed + 1

\* push_back(uri) of parseHyperlinks, with uri.depth = depth + 1.
PushLink(w, u) ==
  /\ uriQue' = Append(uriQue, [id |-> pushed + 1, url |-> u,
                               depth |-> cur[w].depth + 1])
  /\ pushed' = pushed + 1

\* The URL is in the list: Run drops the entry, parseHyperlinks the link.
CheckFound(w) ==
  IF Parsing(w)
  THEN /\ todo' = [todo EXCEPT ![w] = Tail(@)]
       /\ Goto(w, "parse")
       /\ UNCHANGED <<frontier, cur>>
  ELSE NextEntry(w) /\ UNCHANGED <<frontier, todo>>

\* It is in none of them: Run goes on to fetch, parseHyperlinks pushes.
CheckPassed(w) ==
  /\ IF Parsing(w)
     THEN /\ PushLink(w, UrlChecked(w))
          /\ todo' = [todo EXCEPT ![w] = Tail(@)]
          /\ Goto(w, "parse")
     ELSE /\ Goto(w, "seq")
          /\ UNCHANGED <<frontier, todo>>
  /\ UNCHANGED cur

CheckEnd(w) ==
  /\ pc[w] \in List
  /\ lock[pc[w]] = w
  /\ Release(pc[w])
  /\ Flush(pc[w])
  /\ IF KeyIn(pc[w], UrlChecked(w)) \in known[pc[w]]
     THEN CheckFound(w)
     ELSE IF pc[w] \in DOMAIN NextList
     THEN Goto(w, NextList[pc[w]]) /\ UNCHANGED <<frontier, cur, todo>>
     ELSE CheckPassed(w)
  /\ UNCHANGED <<running, wakeups, files, content, late>>

-----------------------------------------------------------------------------
\* getfileseq: num = fseq++ under seq_mutex, a load and a store.
SeqBegin(w) ==
  /\ At(w, "seq")
  /\ Acquire(w, "seq")
  /\ num' = [num EXCEPT ![w] = fseq]
  /\ UNCHANGED <<running, frontier, wakeups, lists, fseq, saved, page, pc, cur, late>>

\* Fault: the number is not counted up.
SeqEndSame(w) ==
  /\ At(w, "seq")
  /\ lock["seq"] = w
  /\ Release("seq")
  /\ Goto(w, "fetch")
  /\ UNCHANGED <<running, frontier, wakeups, lists, files, page, cur, late>>

SeqEnd(w) ==
  /\ At(w, "seq")
  /\ lock["seq"] = w
  /\ fseq' = num[w] + 1
  /\ Release("seq")
  /\ Goto(w, "fetch")
  /\ UNCHANGED <<running, frontier, wakeups, lists, saved, num, page, cur, late>>

\* What Run does with the result; it goes on to the next entry after -3, -4.
AfterFetch(r) ==
  CASE r = -1 -> "save_ur"
    [] r = -2 -> "save_uv"
    [] r >= 0 -> "save_vu"
    [] OTHER  -> "top"

FetchBegin(w) ==
  /\ At(w, "fetch")
  /\ Acquire(w, "fetch")
  /\ UNCHANGED <<running, frontier, wakeups, lists, files, page, pc, cur, late>>

\* fopen(savefile, "wb") truncates the file, and htmlContent is cleared with it.
\* The page stored need not be the one asked for: the server may redirect.
StoreBody(w, body) ==
  IF body = "none"
  THEN UNCHANGED <<saved, content>>
  ELSE \E u \in Url :
         /\ saved' = {f \in saved : f.num # num[w]} \cup
                     {[num |-> num[w], url |-> u]}
         /\ \E k \in 0 .. Len(Links[u]) :
              /\ body = "whole" => k = Len(Links[u])
              /\ content' = [content EXCEPT ![w] = SubSeq(Links[u], 1, k)]

FetchEnd(w) ==
  /\ At(w, "fetch")
  /\ lock["fetch"] = w
  /\ Release("fetch")
  /\ \E o \in Outcome :
       /\ StoreBody(w, o.body)
       /\ IF AfterFetch(o.ret) = "top"
          THEN NextEntry(w)
          ELSE Goto(w, AfterFetch(o.ret)) /\ UNCHANGED cur
  /\ UNCHANGED <<running, frontier, wakeups, lists, fseq, num, todo, late>>

-----------------------------------------------------------------------------
\* saveUnreachHost, saveUnvisitedUrl and saveVisitedUrl append a line to the
\* file of their list under its mutex; the in-memory vector is not touched.
SaveTo == [save_ur |-> "ur", save_uv |-> "uv", save_vu |-> "vu"]
LineFor(l, u) == IF l = "ur" THEN HostOf[u] ELSE u

SaveBegin(w) ==
  /\ pc[w] \in DOMAIN SaveTo
  /\ Acquire(w, SaveTo[pc[w]])
  /\ UNCHANGED <<running, frontier, wakeups, lists, files, page, pc, cur, late>>

\* Fault: the list's mutex is not released before parseHyperlinks.
SaveEndHolding(w) ==
  /\ pc[w] \in DOMAIN SaveTo
  /\ lock[SaveTo[pc[w]]] = w
  /\ log' = [log EXCEPT ![SaveTo[pc[w]]] = @ \cup
                 {[id |-> cur[w].id, line |-> LineFor(SaveTo[pc[w]], cur[w].url)]}]
  /\ Goto(w, "reparse")
  /\ UNCHANGED <<running, lock, frontier, wakeups, known, flushed, files, page, cur, late>>

\* Fault: the depth is not tested.
SaveEndAnyDepth(w) ==
  /\ pc[w] \in DOMAIN SaveTo
  /\ lock[SaveTo[pc[w]]] = w
  /\ Release(SaveTo[pc[w]])
  /\ Goto(w, "reparse")
  /\ UNCHANGED <<running, frontier, wakeups, lists, files, page, cur, late>>

\* A page that was received is parsed, unless it is deeper than MaxDepth.
SaveEnd(w) ==
  /\ pc[w] \in DOMAIN SaveTo
  /\ LET l == SaveTo[pc[w]]
         expand == l = "vu" /\ ~ (cur[w].depth > MaxDepth)
     IN  /\ lock[l] = w
         /\ log' = [log EXCEPT ![l] = @ \cup {[id |-> cur[w].id,
                                               line |-> LineFor(l, cur[w].url)]}]
         /\ Release(l)
         /\ IF expand THEN Goto(w, "reparse") /\ UNCHANGED cur ELSE NextEntry(w)
  /\ UNCHANGED <<running, frontier, wakeups, known, flushed, files, page, late>>

-----------------------------------------------------------------------------
\* parseHyperlinks: under uq_mutex, every link to an html file that checkUrl
\* passes is pushed; then unlock and, in a step of its own, broadcast.
ParseBegin(w) ==
  /\ At(w, "reparse")
  /\ Acquire(w, "uq")
  /\ todo' = [todo EXCEPT ![w] = content[w]]
  /\ Goto(w, "parse")
  /\ UNCHANGED <<running, frontier, wakeups, lists, files, content, cur, late>>

ParseLink(w) ==
  /\ At(w, "parse")
  /\ todo[w] # <<>>
  /\ IF Head(todo[w]) \in Followed
     THEN Goto(w, "ur") /\ UNCHANGED todo
     ELSE todo' = [todo EXCEPT ![w] = Tail(@)] /\ UNCHANGED pc
  /\ UNCHANGED <<running, lock, frontier, wakeups, lists, files, content, cur, late>>

\* Fault: nobody is told of the new entries.
ParseEndSilent(w) ==
  /\ At(w, "parse")
  /\ todo[w] = <<>>
  /\ Release("uq")
  /\ NextEntry(w)
  /\ UNCHANGED <<running, frontier, wakeups, lists, files, page, late>>

\* Fault: uq_mutex is not released.
ParseEndHolding(w) ==
  /\ At(w, "parse")
  /\ todo[w] = <<>>
  /\ Goto(w, "bcast")
  /\ UNCHANGED <<running, lock, frontier, wakeups, lists, files, page, cur, late>>

ParseEnd(w) ==
  /\ At(w, "parse")
  /\ todo[w] = <<>>
  /\ Release("uq")
  /\ Goto(w, "bcast")
  /\ UNCHANGED <<running, frontier, wakeups, lists, files, page, cur, late>>

Broadcast(w) ==
  /\ At(w, "bcast")
  /\ waiting' = {}
  /\ NextEntry(w)
  /\ UNCHANGED <<running, lock, frontier, spurious, lists, files, page, late>>

-----------------------------------------------------------------------------
\* TCrawler::stop, which TRawServer::Exit calls when its event loop ends; the
\* server starts when start() has created the workers.
Stop ==
  /\ running
  /\ \A w \in Worker : ~ At(w, "new")
  /\ running' = FALSE
  /\ UNCHANGED <<lock, frontier, wakeups, lists, files, page, pc, cur, late>>

\* The steps a worker takes by itself.
WorkerStep(w) ==
  \/ LoopTop(w) \/ EnterFetchUrl(w) \/ WaitForEntry(w) \/ Wake(w) \/ TakeEntry(w)
  \/ CheckBegin(w) \/ CheckEnd(w) \/ SeqBegin(w) \/ SeqEnd(w)
  \/ FetchBegin(w) \/ FetchEnd(w) \/ SaveBegin(w) \/ SaveEnd(w)
  \/ ParseBegin(w) \/ ParseLink(w) \/ ParseEnd(w) \/ Broadcast(w)

\* Where the crawler rests: every worker has returned from Run or waits on the
\* empty queue.  At rest with entries in the queue, or with a worker blocked on
\* a mutex, it would be a deadlock.
Rest ==
  /\ \A w \in Worker : At(w, "done") \/ (w \in waiting /\ uriQue = <<>>)
  /\ UNCHANGED vars

Next ==
  \/ \E w \in Worker : CreateWorker(w) \/ WorkerStep(w) \/ SpuriousWake(w)
  \/ Stop
  \/ Rest

Spec == Init /\ [][Next]_vars

\* Threads that can run do run; stop() and spurious wake-ups need not happen.
Fairness == \A w \in Worker : WF_vars(CreateWorker(w) \/ WorkerStep(w))
FairSpec == Spec /\ Fairness

-----------------------------------------------------------------------------
\* The crawler implements the abstract frontier: only fetchUrl takes entries,
\* each goes to one worker, and only a worker that works on an entry pushes,
\* one level deeper (Crawler.cpp fetchUrl and parseHyperlinks).
F == INSTANCE Frontier WITH queue <- uriQue, hand <- cur
FrontierSpec == F!Spec

\* No entry is lost inside the queue, handed to two workers or handed out of
\* order, although every worker pops and pushes concurrently.
HandedOnce == F!HandedOnce

\* The mutex a worker waits for next, or Free when it waits for none.
Wanted(w) ==
  CASE pc[w] \in List /\ lock[pc[w]] # w -> pc[w]
    [] pc[w] \in {"seq", "fetch"} /\ lock[pc[w]] # w -> pc[w]
    [] pc[w] \in DOMAIN SaveTo /\ lock[SaveTo[pc[w]]] # w -> SaveTo[pc[w]]
    [] pc[w] \in {"enter", "reparse"} -> "uq"
    [] pc[w] = "wait" /\ w \notin waiting -> "uq"
    [] OTHER -> Free

Rank == [uq |-> 0, ur |-> 1, uv |-> 1, vu |-> 1, seq |-> 1, fetch |-> 1]

\* A worker that waits for a mutex holds only mutexes of lower rank, so that
\* workers never wait for each other in a cycle: checkUrl is called with
\* uq_mutex held by parseHyperlinks and without it by Run.
LockOrder ==
  \A w \in Worker, m \in Mutex :
    (lock[m] = w /\ Wanted(w) # Free) => Rank[m] < Rank[Wanted(w)]

\* While a worker sleeps in fetchUrl and the queue has entries, some worker is
\* still on its way to the broadcast that wakes the sleeper: parseHyperlinks
\* unlocks uq_mutex before it broadcasts, and no wake-up is lost between.
NoLostWakeup ==
  (waiting # {} /\ uriQue # <<>>) =>
    \E w \in Worker : At(w, "bcast") \/ (Parsing(w) /\ ~ At(w, "test"))

\* A page saved under a sequence number is never overwritten by another page,
\* and two workers never save under one number (getfileseq).
SavedKept == [][saved \subseteq saved']_vars

\* After stop() a worker takes one entry more at most: the one it was about to
\* take, or slept for, when m_running was cleared.
StopIsPrompt == \A w \in Worker : late[w] <= 1

\* Unless it is stopped, the crawl comes to its end: every entry is
\* taken and every worker sleeps on the empty queue (given that every fetch
\* returns).  This is what a lost wake-up or a deadlock would prevent.
CrawlDrains ==
  <>(~ running \/ (uriQue = <<>> /\ waiting = Worker))

\* After stop() every worker returns from Run, or sleeps in fetchUrl for good:
\* stop() does not broadcast uq_cond.
StopQuiesces ==
  ~ running ~> \A w \in Worker : At(w, "done") \/ w \in waiting

\* What libspider/HashTable.h:3 promises of the crawler: it does not crawl the
\* same URL twice.  Violated: nothing ever enters the lists checkUrl searches,
\* and the hash table is not consulted.
NeverCrawledTwice ==
  \A a, b \in log["vu"] : a.line = b.line => a = b

=============================================================================
