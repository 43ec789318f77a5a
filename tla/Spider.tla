------------------------------- MODULE Spider -------------------------------
(***************************************************************************)
(* The dspider process (build/dspider.cpp): start(), which reads the        *)
(* configuration and creates the workers, the status server whose end stops *)
(* them, and the handler of SIGTERM, SIGINT and SIGHUP, which exits.        *)
(* Started again, a process has nothing of the one before it but the files: *)
(* the pages, the lists, and crowdspider.conf, which start() itself writes   *)
(* again for every worker and once more at its end.                         *)
(***************************************************************************)
EXTENDS Crawler, FiniteSets

CONSTANTS
  Conn, Obj, Listener, MinSpare, MaxSpare, None,              \* of module RawServer
  NoUrl,        \* "", the start_url of a configuration that has none
  MaxRuns       \* bound on the processes started

ASSUME SpiderAssumption == MaxRuns \in Nat \ {0} /\ NoUrl \in Url

VARIABLES
  srv, pollable, made, spare, fd, canRead, canWrite, watched, batch, peer,
  backlog, orphans, \* of module RawServer, whose running is the one of module Crawler
  proc,         \* the process: up, in the signal handler, or down
  runs,         \* processes started so far
  old,          \* what savedir held when this process was started
  boot,         \* where TCrawler::start is, in the main thread
  conf,         \* what crowdspider.conf has of the configuration
  held,         \* what this process has read in it
  torn          \* whether a process ended while start() was writing the file

S == INSTANCE RawServer

ASSUME ServerAssumption ==
  /\ IsFiniteSet(Obj) /\ Cardinality(Obj) >= 2 * MinSpare + Cardinality(Conn)
  /\ IsFiniteSet(Conn) /\ None \notin Conn \cup S!Watch /\ Listener \notin Obj
  /\ MinSpare \in Nat /\ MaxSpare \in Nat /\ 2 * MinSpare <= MaxSpare

server == <<srv, pollable, made, spare, fd, canRead, canWrite, watched, batch, peer,
            backlog, orphans>>
memory == <<lock, frontier, wakeups, known, flushed, fseq, num, todo, pc, cur, late>>
crawler == <<memory, log, saved, content>>
process == <<proc, runs, old>>
config == <<boot, conf, held, torn>>
pvars == <<crawler, server, running, process, config>>

\* The file has spider_worker_num before start_url: neither of them, the first, or both.
Conf == {"none", "workers", "whole"}
Longer == [none |-> "workers", workers |-> "whole"]

-----------------------------------------------------------------------------
Start ==
  /\ Init /\ S!Init
  /\ proc = "up" /\ runs = 1 /\ old = {}
  /\ boot = "loop" /\ conf = "whole" /\ held = "whole" /\ torn = FALSE

-----------------------------------------------------------------------------
\* The loop of start().  A worker's THttpCli reads the configuration, and the destructor
\* of its IniFile truncates the file and writes again what was read.
MakeClient ==
  /\ boot = "loop" /\ \E w \in Worker : At(w, "new")
  /\ boot' = "client" /\ conf' = "none"
  /\ UNCHANGED <<crawler, running>>

WriteConf ==
  /\ boot \in {"client", "end"} /\ conf # held
  /\ conf' = Longer[conf]
  /\ UNCHANGED <<boot, crawler, running>>

CreateNext(w) ==
  /\ boot = "client" /\ conf = held
  /\ CreateWorker(w)
  /\ boot' = "loop"
  /\ UNCHANGED conf

\* After it start()'s own IniFile is destroyed, and writes the file too.
EndLoop ==
  /\ boot = "loop" /\ \A w \in Worker : ~ At(w, "new")
  /\ boot' = "end" /\ conf' = "none"
  /\ UNCHANGED <<crawler, running>>

\* Fault: start() returns while the file is being written.
EndStartEarly ==
  /\ boot = "end"
  /\ boot' = "done"
  /\ UNCHANGED <<conf, crawler, running>>

EndStart ==
  /\ boot = "end" /\ conf = held
  /\ boot' = "done"
  /\ UNCHANGED <<conf, crawler, running>>

StartUp ==
  /\ proc # "down"
  /\ MakeClient \/ WriteConf \/ EndLoop \/ EndStart \/ \E w \in Worker : CreateNext(w)
  /\ UNCHANGED <<server, process, held, torn>>

-----------------------------------------------------------------------------
\* A worker's step; the handler does not stop the other threads.
Thread(w) ==
  /\ proc # "down"
  /\ WorkerStep(w) \/ SpuriousWake(w)
  /\ UNCHANGED <<server, process, config>>

\* TRawServer::start: TCrawler::start first, then the server's thread.
Server(step) ==
  /\ proc # "down"
  /\ srv = "off" => boot = "done"
  /\ step
  /\ UNCHANGED <<crawler, process, config>>

Client(c) ==
  /\ proc # "down"
  /\ S!Connect(c) \/ S!Send(c) \/ S!Reset(c)
  /\ UNCHANGED <<crawler, process, config>>

\* shutdownCrowd is entered, in some thread.
Signal ==
  /\ proc = "up"
  /\ proc' = "stopping"
  /\ UNCHANGED <<crawler, server, running, runs, old, config>>

\* TRawServer::stop clears a flag of the server that nobody reads; then exit(0).
\* A page that is being fetched leaves what the file has so far, and so does the
\* configuration that is being written.
ExitProcess ==
  /\ proc = "stopping"
  /\ proc' = "down"
  /\ \/ UNCHANGED <<saved, content>>
     \/ \E w \in Worker : lock["fetch"] = w /\ StoreBody(w, "part")
  /\ torn' = (torn \/ (boot \in {"client", "end"} /\ conf # held))
  /\ UNCHANGED <<memory, log, server, running, runs, old, boot, conf, held>>

\* A new process: TCrawler::TCrawler and start() up to its loop, TRawServer::TRawServer.
\* Without a start_url the queue begins with "", without a number there is no worker: one
\* that is never created stands for nothing, like one that has returned.
BootCrawler ==
  /\ running' = TRUE /\ lock' = [m \in Mutex |-> Free]
  /\ uriQue' = <<[StartEntry EXCEPT !.url = IF conf = "whole" THEN @ ELSE NoUrl]>>
  /\ pushed' = 1
  /\ waiting' = {} /\ spurious' = 0
  /\ fseq' = 0 /\ num' = [w \in Worker |-> 0]
  /\ known' = [l \in List |-> {}] /\ flushed' = known'
  /\ pc' = [w \in Worker |-> IF conf = "none" THEN "done" ELSE "new"]
  /\ cur' = [w \in Worker |-> NoEntry]
  /\ content' = [w \in Worker |-> <<>>] /\ todo' = content'
  /\ late' = [w \in Worker |-> 0]
BootServer ==
  /\ srv' = "off" /\ pollable' \in BOOLEAN
  /\ made' = {} /\ spare' = <<>> /\ fd' = [o \in Obj |-> None]
  /\ canRead' = [o \in Obj |-> FALSE] /\ canWrite' = canRead'
  /\ watched' = [c \in Conn |-> None] /\ batch' = <<>>
  /\ peer' = [c \in Conn |-> "away"] /\ backlog' = <<>> /\ orphans' = {}

\* dspider is started again; TCrawler::start reads crowdspider.conf, and neither the
\* pages nor the lists.
Restart ==
  /\ proc = "down"
  /\ runs < MaxRuns
  /\ BootCrawler /\ BootServer
  /\ proc' = "up" /\ runs' = runs + 1 /\ old' = saved
  /\ boot' = "loop" /\ held' = conf
  /\ UNCHANGED <<log, saved, conf, torn>>

SpiderNext ==
  \/ StartUp
  \/ \E w \in Worker : Thread(w)
  \/ Server(S!ServerStep)
  \/ \E c \in Conn : Client(c)
  \/ Signal \/ ExitProcess \/ Restart

SpiderSpec == Start /\ [][SpiderNext]_pvars

\* Threads that can run do run.  Nothing makes a signal or a restart happen.
SpiderFairness ==
  /\ \A w \in Worker :
       WF_pvars(proc # "down" /\ WorkerStep(w) /\ UNCHANGED <<server, process, config>>)
  /\ WF_pvars(StartUp) /\ WF_pvars(Server(S!Work)) /\ WF_pvars(ExitProcess)
FairSpiderSpec == SpiderSpec /\ SpiderFairness

-----------------------------------------------------------------------------
\* Once the status server has ended, for whatever reason, a worker takes one more entry
\* at most, the one it had passed the test of m_running for: TRawServer::Exit reaches every
\* worker through m_running.
ServerEndsCrawl ==
  [][\A w \in Worker :
       (srv = "gone" /\ runs' = runs /\ cur[w] = NoEntry /\ cur'[w] # NoEntry) =>
         late[w] = 0 /\ late'[w] = 1]_pvars

\* Every process, also one started over the files of others, crawls from start_url to the
\* end of its frontier unless the server ends or a signal comes: files left by a process
\* that was cut off do not block the next one, with one exception.  When it was cut off
\* while start() was writing crowdspider.conf, the next one may find no start_url, and
\* crawls from "", or no number of workers either, and never crawls.
Crawled == uriQue = <<>> /\ waiting = Worker
EveryRunDrains ==
  []<>(\/ proc # "up" \/ ~ running
       \/ Crawled /\ held = "whole"
       \/ torn /\ (Crawled \/ held = "none"))

\* A page saved by this process is not overwritten while it lives or when it is
\* cut off; pages of the processes before are, since fseq begins at 0 again.
PagesOfRunKept == [][runs' = runs => saved \ old \subseteq saved']_pvars

\* What build/dspider.cpp:30 says of the handler: it waits for what it cancels.
\* Violated: it exits while workers are in the middle of a page.
ShutdownWaits ==
  proc = "down" => \A w \in Worker : cur[w] = NoEntry

=============================================================================
