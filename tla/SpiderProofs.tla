---------------------------- MODULE SpiderProofs ----------------------------
(***************************************************************************)
(* The dspider process for any crawl, any clients of its status server and  *)
(* any number of restarts.  Until it is cut off, a process is a crawler and *)
(* a status server, so that the invariants of both hold in it; from these   *)
(* follow how the end of the server stops the crawl and which pages survive *)
(* the end of the process.                                                  *)
(***************************************************************************)
EXTENDS Spider, CrawlerProofs

SP == INSTANCE RawServerProofs

\* What module Crawler promises of its workers.
CrawlInv == IInv /\ NoLostWakeup /\ LateInv

\* The server's thread is created when start() has created the workers, and stops them
\* when it ends.
LinkInv ==
  /\ srv # "off" => boot = "done"
  /\ boot \in {"end", "done"} => \A w \in Worker : ~ At(w, "new")
  /\ srv = "gone" => ~ running

ProcessInv ==
  /\ proc \in {"up", "stopping", "down"} /\ runs \in 1 .. MaxRuns
  /\ proc # "down" => NumInv(old)

\* Outside the writing the file is what was read.
ConfInv ==
  /\ conf = held \/ boot \in {"client", "end"}
  /\ torn \in BOOLEAN
  /\ ~ torn => held = "whole" /\ (proc = "down" => conf = held)

SpiderInv == CrawlInv /\ SP!IInv /\ LinkInv /\ ProcessInv /\ ConfInv

-----------------------------------------------------------------------------
\* The server of the process is the one whose proofs are used.
LEMMA SameServer ==
  /\ S!Init <=> SP!Init
  /\ S!Next <=> SP!Next
  /\ UNCHANGED S!svars <=> UNCHANGED SP!svars
  <1>1. /\ S!Create <=> SP!Create
        /\ S!Exit <=> SP!Exit
        /\ S!PollFails <=> SP!PollFails
    BY DEF S!Create, SP!Create, S!Exit, SP!Exit, S!PollFails, SP!PollFails, S!objects,
           SP!objects, S!clients, SP!clients
  <1>2. S!InitServer <=> SP!InitServer
    BY DEF S!InitServer, SP!InitServer, S!SetToAllKPermutations, SP!SetToAllKPermutations,
           S!SetToSeqs, SP!SetToSeqs, S!Cardinality, SP!Cardinality, S!clients, SP!clients
  <1>3. S!Poll <=> SP!Poll
    BY DEF S!Poll, SP!Poll, S!SetToAllKPermutations, SP!SetToAllKPermutations,
           S!SetToSeqs, SP!SetToSeqs, S!Cardinality, SP!Cardinality, S!Events, SP!Events,
           S!Ready, SP!Ready, S!objects, SP!objects, S!clients, SP!clients
  <1> USE DEF S!Handling, SP!Handling, S!Skp, SP!Skp, S!HandlingAccept, SP!HandlingAccept,
              S!objects, SP!objects, S!clients, SP!clients
  <1>4. S!HandleRead <=> SP!HandleRead
    BY DEF S!HandleRead, SP!HandleRead, S!Masked, SP!Masked
  <1>5. (S!Keep <=> SP!Keep) /\ (S!Delete <=> SP!Delete)
    BY DEF S!Keep, SP!Keep, S!Delete, SP!Delete, S!Hangup, SP!Hangup
  <1>6. (S!IgnoreError <=> SP!IgnoreError) /\ (S!AcceptFails <=> SP!AcceptFails)
    BY DEF S!IgnoreError, SP!IgnoreError, S!AcceptFails, SP!AcceptFails
  <1>7. S!Accept <=> SP!Accept
    BY DEF S!Accept, SP!Accept, S!Serve, SP!Serve, S!Masked, SP!Masked
  <1>8. S!ServerStep <=> SP!ServerStep
    BY <1>1, <1>2, <1>3, <1>4, <1>5, <1>6, <1>7 DEF S!ServerStep, SP!ServerStep, S!Work, SP!Work
  <1>9. S!Init <=> SP!Init
    BY DEF S!Init, SP!Init
  <1>10. ASSUME NEW c \in Conn
         PROVE  (S!Connect(c) \/ S!Send(c) \/ S!Reset(c)) <=>
                (SP!Connect(c) \/ SP!Send(c) \/ SP!Reset(c))
    BY DEF S!Connect, SP!Connect, S!Send, SP!Send, S!Reset, SP!Reset
  <1>11. UNCHANGED S!svars <=> UNCHANGED SP!svars
    BY DEF S!svars, SP!svars
  <1>12. S!Next <=> SP!Next
    BY <1>8, <1>10 DEF S!Next, SP!Next
  <1>13. QED
    BY <1>9, <1>11, <1>12

\* What RawServerProofs shows of the server holds of this one.
LEMMA ServerKept ==
  /\ S!Init => SP!IInv
  /\ SP!IInv /\ [S!Next]_(S!svars) => SP!IInv'
  /\ SP!IInv => S!TypeOK /\ S!OneOwner /\ S!BatchFresh
  <1> USE ServerAssumption
      DEF S!Watch, SP!Watch, S!Interest, SP!Interest, SP!IsFiniteSet, IsFiniteSet,
          SP!Cardinality, Cardinality
  <1>1. SP!Init => SP!IInv
    BY SP!InitInv
  <1>2. SP!IInv /\ [SP!Next]_(SP!svars) => SP!IInv'
    BY SP!StepInv
  <1>3. SP!IInv => SP!TypeOK /\ SP!OneOwner /\ SP!BatchFresh
    BY SP!Owned DEF SP!IInv
  <1>4. SP!TypeOK => S!TypeOK
    BY DEF SP!TypeOK, S!TypeOK, SP!Event, S!Event
  <1>5. (SP!OneOwner => S!OneOwner) /\ (SP!BatchFresh => S!BatchFresh)
    BY DEF SP!OneOwner, S!OneOwner, SP!Held, S!Held, SP!BatchFresh, S!BatchFresh
  <1>6. QED
    BY <1>1, <1>2, <1>3, <1>4, <1>5, SameServer

\* A server that begins again is as its invariant says.
LEMMA ServerReboots == S!Init' => SP!IInv'
  BY ServerKept, PTL

\* The server touches m_running only when it ends, and then clears it.
LEMMA ServerSteps ==
  ASSUME S!ServerStep
  PROVE  /\ srv # "gone"
         /\ \/ srv' # "gone" /\ running' = running
            \/ srv = "exit" /\ srv' = "gone" /\ running' = FALSE
  <1> USE DEF S!Handling, S!HandlingAccept
  <1>1. CASE S!Create \/ S!InitServer \/ S!Poll \/ S!PollFails \/ S!Exit
    BY <1>1 DEF S!Create, S!InitServer, S!Poll, S!PollFails, S!Exit
  <1>2. CASE S!HandleRead \/ S!Keep \/ S!Delete \/ S!IgnoreError
    BY <1>2 DEF S!HandleRead, S!Keep, S!Delete, S!IgnoreError
  <1>3. CASE S!Accept \/ S!AcceptFails
    BY <1>3 DEF S!Accept, S!AcceptFails
  <1>4. QED
    BY <1>1, <1>2, <1>3 DEF S!ServerStep, S!Work

-----------------------------------------------------------------------------
\* Every step of a process but its last is one of the crawler, or none, and one
\* of the server, or none: TRawServer::Exit is TCrawler::stop, called when start()
\* has created the workers.
LEMMA ProcessStep ==
  ASSUME SpiderInv, [SpiderNext]_pvars, ~ ExitProcess, ~ Restart
  PROVE  /\ [Next]_vars
         /\ [S!Next]_(S!svars)
         /\ UNCHANGED <<runs, old>>
         /\ \/ proc \in {"up", "stopping"} /\ proc' \in {"up", "stopping"}
            \/ UNCHANGED <<proc, crawler, server, running>>
  <1> USE DEF crawler, memory, server, frontier, wakeups, lists, files, page, vars,
              S!svars, S!objects, S!clients
  <1>0. srv = "exit" => \A w \in Worker : ~ At(w, "new")
    BY DEF SpiderInv, LinkInv
  <1>1. proc \in {"up", "stopping", "down"} /\ running \in BOOLEAN
    BY DEF SpiderInv, ProcessInv, CrawlInv, IInv, TypeOK
  <1>2. ASSUME NEW w \in Worker, Thread(w) PROVE Next /\ UNCHANGED S!svars
    <2>1. WorkerStep(w) \/ SpuriousWake(w)
      BY <1>2 DEF Thread
    <2>2. UNCHANGED <<server, running>>
      BY <1>2, <2>1, Moves DEF Thread
    <2>3. QED
      BY <2>1, <2>2 DEF Next
  <1>3. ASSUME Server(S!ServerStep) PROVE [Next]_vars /\ S!Next
    <2>1. S!ServerStep /\ UNCHANGED <<crawler, process>>
      BY <1>3 DEF Server
    <2>2. CASE running' = running
      BY <2>1, <2>2 DEF S!Next
    <2>3. CASE srv = "exit" /\ running' = FALSE /\ running
      <3>1. \A w \in Worker : ~ At(w, "new")
        BY <1>0, <2>3
      <3>2. Stop
        BY <2>1, <2>3, <3>1 DEF Stop
      <3>3. QED
        BY <2>1, <3>2 DEF S!Next, Next
    <2>4. QED
      BY <1>1, <2>1, <2>2, <2>3, ServerSteps
  <1>4. ASSUME NEW c \in Conn, Client(c) PROVE S!Next /\ UNCHANGED vars
    BY <1>4 DEF Client, S!Next, S!Connect, S!Send, S!Reset
  <1>5. CASE Signal
    BY <1>5 DEF Signal
  <1>6. CASE UNCHANGED pvars
    BY <1>6 DEF pvars, process
  <1>7. ASSUME StartUp PROVE [Next]_vars /\ UNCHANGED S!svars
    <2>1. CASE UNCHANGED <<crawler, running>>
      BY <1>7, <2>1 DEF StartUp
    <2>2. ASSUME NEW w \in Worker, CreateNext(w) PROVE Next /\ running' = running
      BY <2>2, Moves DEF CreateNext, Next
    <2>3. QED
      BY <1>7, <2>1, <2>2 DEF StartUp, MakeClient, WriteConf, EndLoop, EndStart
  <1>8. QED
    BY <1>1, <1>2, <1>3, <1>4, <1>5, <1>6, <1>7
    DEF SpiderNext, StartUp, Thread, Server, Client, Signal, process

-----------------------------------------------------------------------------
\* The invariant holds in the first process.
LEMMA StartInv == Start => SpiderInv
  <1> SUFFICES ASSUME Start PROVE SpiderInv
    OBVIOUS
  <1>1. /\ Init /\ S!Init /\ proc = "up" /\ runs = 1 /\ old = {}
        /\ boot = "loop" /\ conf = "whole" /\ held = "whole" /\ torn = FALSE
    BY DEF Start
  <1>2. CrawlInv
    BY <1>1, InitIInv DEF CrawlInv, Init, NoLostWakeup, LateInv, LateOK
  <1>3. SP!IInv
    BY <1>1, ServerKept
  <1>4. LinkInv
    BY <1>1 DEF LinkInv, S!Init
  <1>5. ProcessInv
    BY <1>1, SpiderAssumption, CrawlerAssumption DEF ProcessInv, Init, NumInv, NumOK
  <1>6. ConfInv
    BY <1>1 DEF ConfInv
  <1>7. QED
    BY <1>2, <1>3, <1>4, <1>5, <1>6 DEF SpiderInv

\* A process that is cut off, perhaps while a page is being stored.
LEMMA ExitInv ==
  ASSUME SpiderInv, ExitProcess
  PROVE  SpiderInv' /\ saved \ old \subseteq saved'
  <1>1. /\ UNCHANGED <<memory, log, server, running, runs, old, boot, conf, held>>
        /\ proc = "stopping" /\ proc' = "down"
        /\ torn' = (torn \/ (boot \in {"client", "end"} /\ conf # held))
    BY DEF ExitProcess
  <1>2. /\ content' \in [Worker -> Seq(Url)]
        /\ saved \ old \subseteq saved'
    <2>1. CASE UNCHANGED <<saved, content>>
      BY <2>1 DEF SpiderInv, CrawlInv, IInv, TypeOK
    <2>2. ASSUME NEW w \in Worker, lock["fetch"] = w, StoreBody(w, "part")
          PROVE  /\ content' \in [Worker -> Seq(Url)]
                 /\ saved \ old \subseteq saved'
      <3>1. pc[w] = "fetch" /\ content \in [Worker -> Seq(Url)]
        BY <2>2 DEF SpiderInv, CrawlInv, IInv, TypeOK, LockInv
      <3>2. PICK u \in Url :
              /\ saved' = {f \in saved : f.num # num[w]} \cup {[num |-> num[w], url |-> u]}
              /\ \E k \in 0 .. Len(Links[u]) :
                   content' = [content EXCEPT ![w] = SubSeq(Links[u], 1, k)]
        BY <2>2 DEF StoreBody
      <3>3. \A k \in Nat : k <= Len(Links[u]) => SubSeq(Links[u], 1, k) \in Seq(Url)
        BY CrawlerAssumption, SubSeqProperties
      <3>4. \A f \in saved \ old : f.num # num[w]
        BY <1>1, <3>1 DEF SpiderInv, ProcessInv, NumInv, NumOK
      <3>5. QED
        BY <3>1, <3>2, <3>3, <3>4
    <2>3. QED
      BY <2>1, <2>2 DEF ExitProcess
  <1>3. CrawlInv'
    BY <1>1, <1>2
    DEF SpiderInv, CrawlInv, IInv, TypeOK, LockInv, EntryInv, EntryOK, NoLostWakeup, LateInv,
        LateOK, At, Parsing, memory, frontier, wakeups
  <1>4. SP!IInv'
    <2>1. UNCHANGED S!svars
      BY <1>1 DEF server, S!svars, S!objects, S!clients
    <2>2. QED
      BY <2>1, ServerKept DEF SpiderInv
  <1>5. LinkInv' /\ ProcessInv'
    BY <1>1 DEF SpiderInv, LinkInv, ProcessInv, At, memory, server
  <1>6. ConfInv'
    BY <1>1 DEF SpiderInv, ConfInv
  <1>7. QED
    BY <1>2, <1>3, <1>4, <1>5, <1>6 DEF SpiderInv

\* A new process over the files of the old ones.
LEMMA RestartInv ==
  ASSUME SpiderInv, Restart
  PROVE  SpiderInv'
  <1>1. /\ BootCrawler /\ BootServer
        /\ proc = "down" /\ proc' = "up" /\ runs' = runs + 1 /\ runs < MaxRuns /\ old' = saved
        /\ boot' = "loop" /\ held' = conf
        /\ UNCHANGED <<saved, conf, torn>>
    BY DEF Restart
  <1>2. IInv'
    <2> USE EntryAssumption, NoEntryAssumption, CrawlerAssumption DEF BootCrawler
    <2>1. [StartEntry EXCEPT !.url = IF conf = "whole" THEN @ ELSE NoUrl] \in Entry
      BY SpiderAssumption DEF StartEntry, Entry
    <2>2. TypeOK'
      BY <1>1, <2>1 DEF TypeOK, PC, Mutex, List
    <2>3. LockInv'
      BY <1>1 DEF LockInv, Mutex, List
    <2>4. EntryInv'
      BY <1>1 DEF EntryInv, EntryOK, Idle, List
    <2>5. QED
      BY <2>2, <2>3, <2>4 DEF IInv
  <1>3. NoLostWakeup' /\ LateInv'
    BY <1>1 DEF BootCrawler, NoLostWakeup, LateInv, LateOK
  <1>4. SP!IInv'
    <2>1. S!Init'
      BY <1>1 DEF BootServer, BootCrawler, S!Init
    <2>2. QED
      BY <2>1, ServerReboots
  <1>5. LinkInv'
    BY <1>1 DEF BootServer, LinkInv
  <1>6. NumInv(old)'
    BY <1>1, CrawlerAssumption DEF BootCrawler, NumInv, NumOK, Mutex
  <1>7. ProcessInv'
    BY <1>1, <1>6, SpiderAssumption DEF ProcessInv, SpiderInv
  <1>8. ConfInv'
    BY <1>1 DEF SpiderInv, ConfInv
  <1>9. QED
    BY <1>2, <1>3, <1>4, <1>5, <1>7, <1>8 DEF SpiderInv, CrawlInv

\* start() writes the configuration, and nobody else.
LEMMA ConfKept ==
  ASSUME SpiderInv, [SpiderNext]_pvars, ~ ExitProcess, ~ Restart
  PROVE  ConfInv'
  <1>1. CASE StartUp
    BY <1>1 DEF SpiderInv, ConfInv, StartUp, MakeClient, WriteConf, CreateNext, EndLoop, EndStart,
                process
  <1>2. CASE UNCHANGED config
    <2>1. proc' = "down" => proc = "down"
      BY <1>2, ProcessStep DEF SpiderInv, ProcessInv
    <2>2. QED
      BY <1>2, <2>1 DEF SpiderInv, ConfInv, config
  <1>3. QED
    BY <1>1, <1>2 DEF SpiderNext, Thread, Server, Client, Signal, pvars

\* The server begins after the workers were created, and clears m_running when it ends.
LEMMA LinkKept ==
  ASSUME SpiderInv, [SpiderNext]_pvars, ~ ExitProcess, ~ Restart
  PROVE  LinkInv'
  <1>1. LinkInv /\ DOMAIN pc = Worker
    BY DEF SpiderInv, CrawlInv, IInv, TypeOK
  <1> USE DEF LinkInv, At, crawler, memory, server, config
  <1>2. ASSUME NEW w \in Worker, Thread(w) PROVE LinkInv'
    <2>1. WorkerStep(w) \/ SpuriousWake(w)
      BY <1>2 DEF Thread
    <2>2. srv' = srv /\ running' = running /\ boot' = boot
      BY <1>2, <2>1, Moves DEF Thread
    <2>3. \A v \in Worker : pc'[v] = "new" => pc[v] = "new"
      BY <2>1, MovesOf DEF SpiderInv, CrawlInv
    <2>4. QED
      BY <1>1, <2>2, <2>3
  <1>3. CASE Server(S!ServerStep)
    BY <1>1, <1>3, ServerSteps DEF Server
  <1>4. ASSUME NEW c \in Conn, Client(c) PROVE LinkInv'
    BY <1>1, <1>4 DEF Client, S!Connect, S!Send, S!Reset
  <1>5. CASE Signal \/ UNCHANGED pvars
    BY <1>1, <1>5 DEF Signal, pvars
  <1>6. CASE StartUp
    <2>1. srv' = srv
      BY <1>6 DEF StartUp
    <2>2. ASSUME NEW w \in Worker, CreateNext(w) PROVE LinkInv'
      <3>1. running' = running /\ boot = "client" /\ boot' = "loop"
        BY <2>2, Moves DEF CreateNext
      <3>2. QED
        BY <1>1, <2>1, <3>1
    <2>3. CASE MakeClient \/ WriteConf \/ EndLoop \/ EndStart
      BY <1>1, <2>1, <2>3 DEF MakeClient, WriteConf, EndLoop, EndStart
    <2>4. QED
      BY <1>6, <2>2, <2>3 DEF StartUp
  <1>7. QED
    BY <1>2, <1>3, <1>4, <1>5, <1>6 DEF SpiderNext

\* Every step keeps the invariant, and what this process has saved.
LEMMA StepSpiderInv ==
  ASSUME SpiderInv, [SpiderNext]_pvars
  PROVE  SpiderInv' /\ (runs' = runs => saved \ old \subseteq saved')
  <1>1. CASE ExitProcess
    BY <1>1, ExitInv
  <1>2. CASE Restart
    <2>1. runs' # runs
      BY <1>2, SpiderAssumption DEF Restart, SpiderInv, ProcessInv
    <2>2. QED
      BY <1>2, <2>1, RestartInv
  <1>3. CASE ~ ExitProcess /\ ~ Restart
    <2>1. /\ [Next]_vars /\ [S!Next]_(S!svars) /\ UNCHANGED <<runs, old>>
          /\ \/ proc \in {"up", "stopping"} /\ proc' \in {"up", "stopping"}
             \/ UNCHANGED <<proc, crawler, server, running>>
      BY <1>3, ProcessStep
    <2>2. CrawlInv'
      BY <2>1, StepTypeOK, StepLockInv, StepEntryInv, StepNoLostWakeup, StepLateInv
      DEF SpiderInv, CrawlInv, IInv
    <2>3. SP!IInv'
      BY <2>1, ServerKept DEF SpiderInv
    <2>4. LinkInv'
      BY <1>3, LinkKept
    <2>5. (proc # "down" => NumInv(old) /\ proc' # "down") /\ (proc' # "down" => proc # "down")
      BY <2>1 DEF SpiderInv, ProcessInv
    <2>6. (proc # "down" => NumInv(old)') /\ saved \ old \subseteq saved'
      <3>1. CASE proc = "down"
        BY <2>1, <3>1 DEF crawler
      <3>2. CASE proc # "down"
        <4>1. PICK base : base = old
          OBVIOUS
        <4>2. NumInv(base)' /\ saved \ base \subseteq saved'
          BY <2>1, <2>5, <3>2, <4>1, StepNumInv DEF SpiderInv, CrawlInv
        <4>3. old' = base
          BY <2>1, <4>1
        <4>4. QED
          BY <4>1, <4>2, <4>3 DEF NumInv, NumOK
      <3>3. QED
        BY <3>1, <3>2
    <2>7. ProcessInv'
      BY <2>1, <2>5, <2>6 DEF SpiderInv, ProcessInv
    <2>8. ConfInv'
      BY <1>3, ConfKept
    <2>9. QED
      BY <2>2, <2>3, <2>4, <2>6, <2>7, <2>8 DEF SpiderInv
  <1>4. QED
    BY <1>1, <1>2, <1>3

\* The invariant of the process holds always.
LEMMA SpiderInvariance == SpiderSpec => []SpiderInv
  BY StartInv, StepSpiderInv, PTL DEF SpiderSpec

-----------------------------------------------------------------------------
\* What is proved of the crawler by itself holds in a process that is signalled, cut
\* off and started again over its own files.
THEOREM CrawlerInProcess ==
  SpiderSpec => [](TypeOK /\ LockOrder /\ NoLostWakeup /\ StopIsPrompt)
  <1>1. SpiderInv => TypeOK /\ LockOrder /\ NoLostWakeup /\ StopIsPrompt
    BY Ranked DEF SpiderInv, CrawlInv, IInv, LateInv, LateOK, StopIsPrompt
  <1>2. QED
    BY <1>1, SpiderInvariance, PTL

\* So does what is proved of the status server, of every process anew.
THEOREM ServerInProcess == SpiderSpec => [](S!TypeOK /\ S!OneOwner /\ S!BatchFresh)
  <1>1. SpiderInv => S!TypeOK /\ S!OneOwner /\ S!BatchFresh
    BY ServerKept DEF SpiderInv
  <1>2. QED
    BY <1>1, SpiderInvariance, PTL

\* From its start to its end a process takes the steps of the crawler's module and
\* of the server's, with m_running between them: whoever proves something of one
\* of these steps has proved it of the process.
THEOREM ProcessIsBoth ==
  SpiderSpec => [][ExitProcess \/ Restart \/ ([Next]_vars /\ [S!Next]_(S!svars))]_pvars
  <1>1. SpiderInv /\ [SpiderNext]_pvars =>
          [ExitProcess \/ Restart \/ ([Next]_vars /\ [S!Next]_(S!svars))]_pvars
    BY ProcessStep
  <1>2. QED
    BY <1>1, SpiderInvariance, PTL DEF SpiderSpec

\* A worker that takes an entry has taken none since m_running was cleared.
LEMMA TakesOne ==
  ASSUME SpiderInv, NEW v \in Worker, WorkerStep(v) \/ SpuriousWake(v), ~ running,
         NEW w \in Worker, cur[w] = NoEntry, cur'[w] # NoEntry
  PROVE  late[w] = 0 /\ late'[w] = 1
  <1>1. /\ DOMAIN cur = Worker /\ late \in [Worker -> Nat]
        /\ late[w] # 0 => pc[w] \notin {"new", "enter", "test", "wait"}
    BY DEF SpiderInv, CrawlInv, IInv, TypeOK, LateInv, LateOK
  <1>2. CASE TakeEntry(v)
    BY <1>1, <1>2 DEF TakeEntry, At
  <1>3. cur' = cur \/ cur' = [cur EXCEPT ![v] = NoEntry] \/ TakeEntry(v)
    BY DEF WorkerStep, SpuriousWake, LoopTop, EnterFetchUrl, WaitForEntry, Wake, CheckBegin,
           CheckEnd, CheckFound, CheckPassed, SeqBegin, SeqEnd, FetchBegin, FetchEnd, SaveBegin,
           SaveEnd, ParseBegin, ParseLink, ParseEnd, Broadcast, NextEntry
  <1>4. QED
    BY <1>1, <1>2, <1>3

\* However the server's loop ends, and whatever the workers are doing then, each takes one
\* entry at most afterwards (TRawServer::Exit, TCrawler::stop, TSpiderWorker::Run).
THEOREM ServerEndsCrawlHolds == SpiderSpec => ServerEndsCrawl
  <1>1. ASSUME SpiderInv, SpiderNext, NEW w \in Worker,
               srv = "gone", runs' = runs, cur[w] = NoEntry, cur'[w] # NoEntry
        PROVE  late[w] = 0 /\ late'[w] = 1
    <2>1. ~ running /\ DOMAIN cur = Worker /\ runs \in Nat
      BY <1>1, SpiderAssumption DEF SpiderInv, LinkInv, CrawlInv, IInv, TypeOK, ProcessInv
    <2>2. ASSUME NEW v \in Worker, Thread(v) PROVE late[w] = 0 /\ late'[w] = 1
      <3>1. WorkerStep(v) \/ SpuriousWake(v)
        BY <2>2 DEF Thread
      <3>2. QED
        BY <1>1, <2>1, <3>1, TakesOne
    <2>3. ASSUME \/ Server(S!ServerStep) \/ Signal \/ ExitProcess \/ StartUp
                 \/ \E c \in Conn : Client(c)
          PROVE  cur' = cur
      BY <2>3 DEF Server, Signal, ExitProcess, Client, crawler, memory, StartUp, MakeClient, WriteConf,
             CreateNext, CreateWorker, EndLoop, EndStart
    <2>4. ~ Restart
      BY <1>1, <2>1 DEF Restart
    <2>5. QED
      BY <1>1, <2>2, <2>3, <2>4 DEF SpiderNext
  <1>2. SpiderInv /\ [SpiderNext]_pvars =>
          [\A w \in Worker :
             (srv = "gone" /\ runs' = runs /\ cur[w] = NoEntry /\ cur'[w] # NoEntry) =>
               late[w] = 0 /\ late'[w] = 1]_pvars
    BY <1>1
  <1>3. QED
    BY <1>2, SpiderInvariance, PTL DEF SpiderSpec, ServerEndsCrawl

\* A process finds the configuration whole unless one before it was ended while start() was
\* writing the file: being cut off at any other time, in a page or in a list, leaves it be
\* (TCrawler::start, THttpCli::THttpCli, IniFile::save_config).
THEOREM ConfigurationKept == SpiderSpec => [](torn \/ held = "whole")
  <1>1. SpiderInv => (torn \/ held = "whole")
    BY DEF SpiderInv, ConfInv
  <1>2. QED
    BY <1>1, SpiderInvariance, PTL

\* A page saved by a process outlives it, and no later page of that process takes
\* its name, although a process numbers its files from 0 and overwrites those of
\* the processes before (getfileseq, fetchHtml).
THEOREM PagesOfRunKeptHolds == SpiderSpec => PagesOfRunKept
  <1>1. SpiderInv /\ [SpiderNext]_pvars =>
          [runs' = runs => saved \ old \subseteq saved']_pvars
    BY StepSpiderInv
  <1>2. QED
    BY <1>1, SpiderInvariance, PTL DEF SpiderSpec, PagesOfRunKept

=============================================================================
