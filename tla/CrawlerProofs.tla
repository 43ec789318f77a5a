--------------------------- MODULE CrawlerProofs ---------------------------
(***************************************************************************)
(* Proofs about module Crawler for every set of workers, web and depth.     *)
(*                                                                          *)
(* The inductive invariant IInv says where a worker can be when it holds a  *)
(* mutex, when it sleeps and when it works on an entry.  Type correctness,  *)
(* the order in which mutexes are taken, the wake-up of sleeping workers,   *)
(* stop(), the numbers of saved files and the refinement of the frontier    *)
(* follow from it.                                                          *)
(***************************************************************************)
EXTENDS Crawler, TLAPS, SequenceTheorems

\* Where a worker is when it holds a mutex; it holds uq_mutex while it tests the
\* queue or parses, and sleeps only inside fetchUrl.
LockInv ==
  \A w \in Worker :
    /\ lock["uq"] = w => pc[w] \in {"test", "parse", "ur", "uv", "vu"}
    /\ lock["ur"] = w => pc[w] \in {"ur", "save_ur"}
    /\ lock["uv"] = w => pc[w] \in {"uv", "save_uv"}
    /\ lock["vu"] = w => pc[w] \in {"vu", "save_vu"}
    /\ lock["seq"] = w => pc[w] = "seq"
    /\ lock["fetch"] = w => pc[w] = "fetch"
    /\ pc[w] \in {"test", "parse"} => lock["uq"] = w
    /\ w \in waiting => pc[w] = "wait"

\* Between two entries a worker has none; one that parses has a page it may
\* expand, and a link when it calls checkUrl.
Idle == {"new", "top", "enter", "test", "wait", "done"}

EntryOK(w) ==
  /\ pc[w] \in Idle <=> cur[w] = NoEntry
  /\ pc[w] \in {"reparse", "parse"} => cur[w].depth <= MaxDepth
  /\ pc[w] \in List /\ lock["uq"] = w =>
       cur[w].depth <= MaxDepth /\ todo[w] # <<>>

EntryInv == \A w \in Worker : EntryOK(w)

IInv == TypeOK /\ LockInv /\ EntryInv

\* The invariant holds when main has created the crawler.
LEMMA InitIInv == Init => IInv
  <1> SUFFICES ASSUME Init PROVE IInv
    OBVIOUS
  <1> USE EntryAssumption, NoEntryAssumption, CrawlerAssumption DEF Init
  <1>1. StartEntry \in Entry
    BY DEF StartEntry, Entry
  <1>2. TypeOK
    BY <1>1 DEF TypeOK, PC, Mutex, List
  <1>3. LockInv
    BY DEF LockInv, Mutex, List
  <1>4. EntryInv
    BY DEF EntryInv, EntryOK, Idle, List
  <1>5. QED
    BY <1>2, <1>3, <1>4 DEF IInv

\* Taking the head of a non-empty sequence.
LEMMA HeadTail ==
  ASSUME NEW S, NEW s \in Seq(S), s # <<>>
  PROVE  Head(s) \in S /\ Tail(s) \in Seq(S)
  BY HeadTailProperties

\* The order in which checkUrl walks the lists.
LEMMA NextListValues ==
  /\ DOMAIN NextList = {"ur", "uv"}
  /\ NextList["ur"] = "uv"
  /\ NextList["uv"] = "vu"
  BY DEF NextList

\* The list that each of the save functions appends to.
LEMMA SaveToValues ==
  /\ DOMAIN SaveTo = {"save_ur", "save_uv", "save_vu"}
  /\ SaveTo["save_ur"] = "ur"
  /\ SaveTo["save_uv"] = "uv"
  /\ SaveTo["save_vu"] = "vu"
  BY DEF SaveTo

\* checkUrl, seen from its callers: it goes on to the next list, it lets
\* parseHyperlinks go on with the next link, or it ends Run's check.
LEMMA CheckCases ==
  ASSUME NEW w \in Worker, CheckEnd(w)
  PROVE  /\ pc[w] \in List /\ lock[pc[w]] = w
         /\ lock' = [lock EXCEPT ![pc[w]] = Free]
         /\ \/ /\ Parsing(w)
               /\ pc' = [pc EXCEPT ![w] = "parse"]
               /\ todo' = [todo EXCEPT ![w] = Tail(todo[w])]
               /\ UNCHANGED cur
               /\ UNCHANGED frontier \/ PushLink(w, UrlChecked(w))
            \/ /\ ~ Parsing(w)
               /\ \/ pc' = [pc EXCEPT ![w] = "top"] /\ cur' = [cur EXCEPT ![w] = NoEntry]
                  \/ pc' = [pc EXCEPT ![w] = "seq"] /\ UNCHANGED cur
               /\ UNCHANGED <<todo, frontier>>
            \/ /\ \/ pc[w] = "ur" /\ pc' = [pc EXCEPT ![w] = "uv"]
                  \/ pc[w] = "uv" /\ pc' = [pc EXCEPT ![w] = "vu"]
               /\ UNCHANGED <<todo, frontier, cur>>
         /\ UNCHANGED <<running, waiting, spurious, fseq, saved, num, content, late>>
  <1> USE DEF List
  <1>1. pc[w] \in List /\ lock[pc[w]] = w /\ lock' = [lock EXCEPT ![pc[w]] = Free]
    BY DEF CheckEnd, Release
  <1>2. UNCHANGED <<running, waiting, spurious, fseq, saved, num, content, late>>
    BY DEF CheckEnd, wakeups, files
  <1>3. CASE CheckFound(w)
    BY <1>1, <1>2, <1>3 DEF CheckFound, Goto, NextEntry, frontier
  <1>4. CASE CheckPassed(w)
    BY <1>1, <1>2, <1>4 DEF CheckPassed, Goto
  <1>5. CASE /\ pc[w] \in DOMAIN NextList
             /\ Goto(w, NextList[pc[w]])
             /\ UNCHANGED <<frontier, cur, todo>>
    BY <1>1, <1>2, <1>5, NextListValues DEF Goto
  <1>6. QED
    BY <1>3, <1>4, <1>5 DEF CheckEnd

\* A fetch ends in a save or in the next entry; a save ends in parseHyperlinks,
\* for a visited page that is not too deep, or in the next entry.
LEMMA FetchCases ==
  ASSUME NEW w \in Worker, FetchEnd(w)
  PROVE  /\ pc[w] = "fetch" /\ lock["fetch"] = w
         /\ lock' = [lock EXCEPT !["fetch"] = Free]
         /\ \/ pc' = [pc EXCEPT ![w] = "save_uv"] /\ UNCHANGED cur
            \/ pc' = [pc EXCEPT ![w] = "save_vu"] /\ UNCHANGED cur
            \/ pc' = [pc EXCEPT ![w] = "top"] /\ cur' = [cur EXCEPT ![w] = NoEntry]
         /\ UNCHANGED <<running, frontier, wakeups, todo, late>>
  BY DEF FetchEnd, At, Release, AfterFetch, Outcome, Goto, NextEntry

\* A save ends by releasing its list; only a page goes on to its links.
LEMMA SaveCases ==
  ASSUME NEW w \in Worker, SaveEnd(w)
  PROVE  /\ \/ pc[w] = "save_ur" /\ lock["ur"] = w /\ lock' = [lock EXCEPT !["ur"] = Free]
            \/ pc[w] = "save_uv" /\ lock["uv"] = w /\ lock' = [lock EXCEPT !["uv"] = Free]
            \/ pc[w] = "save_vu" /\ lock["vu"] = w /\ lock' = [lock EXCEPT !["vu"] = Free]
         /\ \/ /\ pc' = [pc EXCEPT ![w] = "reparse"]
               /\ ~ (cur[w].depth > MaxDepth)
               /\ UNCHANGED cur
            \/ pc' = [pc EXCEPT ![w] = "top"] /\ cur' = [cur EXCEPT ![w] = NoEntry]
         /\ UNCHANGED <<running, frontier, wakeups, page, late>>
  <1>1. pc[w] \in DOMAIN SaveTo
    BY DEF SaveEnd
  <1>2. CASE pc[w] = "save_ur"
    BY <1>2, SaveToValues DEF SaveEnd, Release, Goto, NextEntry
  <1>3. CASE pc[w] = "save_uv"
    BY <1>3, SaveToValues DEF SaveEnd, Release, Goto, NextEntry
  <1>4. CASE pc[w] = "save_vu"
    BY <1>4, SaveToValues DEF SaveEnd, Release, Goto, NextEntry
  <1>5. QED
    BY <1>1, <1>2, <1>3, <1>4, SaveToValues

\* Types are kept by every step.
LEMMA StepTypeOK == IInv /\ [Next]_vars => TypeOK'
  <1> SUFFICES ASSUME IInv, [Next]_vars PROVE TypeOK'
    OBVIOUS
  <1> USE EntryAssumption, NoEntryAssumption, CrawlerAssumption
      DEF IInv, TypeOK, At, frontier, wakeups, lists, files, page
  <1>1. ASSUME NEW w \in Worker, CreateWorker(w) PROVE TypeOK'
    BY <1>1 DEF CreateWorker, Goto, Mutex, List, PC
  <1>2. ASSUME NEW w \in Worker, LoopTop(w) PROVE TypeOK'
    BY <1>2 DEF LoopTop, Goto, Mutex, List, PC
  <1>3. ASSUME NEW w \in Worker, EnterFetchUrl(w) PROVE TypeOK'
    BY <1>3 DEF EnterFetchUrl, Goto, Acquire, Mutex, List, PC
  <1>4. ASSUME NEW w \in Worker, WaitForEntry(w) PROVE TypeOK'
    BY <1>4 DEF WaitForEntry, Goto, Release, Mutex, List, PC
  <1>5. ASSUME NEW w \in Worker, Wake(w) PROVE TypeOK'
    BY <1>5 DEF Wake, Goto, Acquire, Mutex, List, PC
  <1>6. ASSUME NEW w \in Worker, SpuriousWake(w) PROVE TypeOK'
    <2>1. spurious' \in 0 .. MaxSpurious
      BY <1>6, MaxSpurious \in Nat DEF SpuriousWake
    <2>2. QED
      BY <1>6, <2>1 DEF SpuriousWake
  <1>7. ASSUME NEW w \in Worker, TakeEntry(w) PROVE TypeOK'
    <2>1. Head(uriQue) \in Entry /\ Tail(uriQue) \in Seq(Entry)
      BY <1>7, HeadTail DEF TakeEntry
    <2>2. uriQue' \in Seq(Entry) /\ cur' \in [Worker -> Entry \cup {NoEntry}]
      BY <1>7, <2>1 DEF TakeEntry
    <2>3. lock' \in [Mutex -> Worker \cup {Free}] /\ pc' \in [Worker -> PC]
      BY <1>7 DEF TakeEntry, Goto, Release, Mutex, List, PC
    <2>4. late' \in [Worker -> Nat]
      BY <1>7 DEF TakeEntry
    <2>5. QED
      BY <1>7, <2>2, <2>3, <2>4 DEF TakeEntry
  <1>8. ASSUME NEW w \in Worker, CheckBegin(w) PROVE TypeOK'
    BY <1>8 DEF CheckBegin, Acquire, Mutex, List, PC
  <1>9. ASSUME NEW w \in Worker, CheckEnd(w) PROVE TypeOK'
    <2>1. lock' \in [Mutex -> Worker \cup {Free}]
      BY <1>9 DEF CheckEnd, Release, Mutex, List
    <2>2. pc' \in [Worker -> PC]
      <3>1. \E p \in PC : pc' = [pc EXCEPT ![w] = p]
        BY <1>9, CheckCases DEF PC, List
      <3>2. QED
        BY <3>1
    <2>3. Parsing(w) => todo[w] # <<>> /\ cur[w].depth <= MaxDepth
      BY <1>9 DEF CheckEnd, EntryInv, EntryOK, Parsing
    <2>4. todo' \in [Worker -> Seq(Url)]
      <3>1. Parsing(w) => Tail(todo[w]) \in Seq(Url)
        BY <2>3, HeadTail
      <3>2. QED
        BY <1>9, <3>1, CheckCases
    <2>5. cur' \in [Worker -> Entry \cup {NoEntry}]
      BY <1>9, CheckCases
    <2>6. pushed' \in Nat /\ uriQue' \in Seq(Entry)
      <3>1. CASE UNCHANGED frontier
        BY <3>1 DEF frontier
      <3>2. CASE Parsing(w) /\ PushLink(w, UrlChecked(w))
        <4>1. cur[w] # NoEntry
          BY <1>9 DEF CheckEnd, EntryInv, EntryOK, Idle, List
        <4>2. cur[w] \in Entry /\ cur[w].depth \in 0 .. MaxDepth
          BY <2>3, <3>2, <4>1 DEF Entry
        <4>3. UrlChecked(w) \in Url
          BY <2>3, <3>2, HeadTail DEF UrlChecked
        <4>4. [id |-> pushed + 1, url |-> UrlChecked(w), depth |-> cur[w].depth + 1] \in Entry
          BY <4>2, <4>3 DEF Entry
        <4>5. QED
          BY <3>2, <4>4, AppendProperties DEF PushLink
      <3>3. QED
        BY <1>9, <3>1, <3>2 DEF CheckEnd, CheckFound, CheckPassed
    <2>7. QED
      BY <1>9, <2>1, <2>2, <2>4, <2>5, <2>6 DEF CheckEnd, Flush
  <1>10. ASSUME NEW w \in Worker, SeqBegin(w) PROVE TypeOK'
    BY <1>10 DEF SeqBegin, Acquire, Mutex, List, PC
  <1>11. ASSUME NEW w \in Worker, SeqEnd(w) PROVE TypeOK'
    <2>1. lock' \in [Mutex -> Worker \cup {Free}]
      BY <1>11 DEF SeqEnd, Release, Mutex, List
    <2>2. pc' \in [Worker -> PC]
      <3>1. "fetch" \in PC /\ pc' = [pc EXCEPT ![w] = "fetch"]
        BY <1>11 DEF SeqEnd, Goto, PC
      <3>2. QED
        BY <3>1
    <2>3. fseq' \in Nat
      BY <1>11 DEF SeqEnd
    <2>4. QED
      BY <1>11, <2>1, <2>2, <2>3 DEF SeqEnd
  <1>12. ASSUME NEW w \in Worker, FetchBegin(w) PROVE TypeOK'
    BY <1>12 DEF FetchBegin, Acquire, Mutex, List, PC
  <1>13. ASSUME NEW w \in Worker, FetchEnd(w) PROVE TypeOK'
    <2>1. lock' \in [Mutex -> Worker \cup {Free}]
      BY <1>13 DEF FetchEnd, Release, Mutex, List
    <2>2. PICK o \in Outcome :
            /\ StoreBody(w, o.body)
            /\ IF AfterFetch(o.ret) = "top"
               THEN NextEntry(w)
               ELSE Goto(w, AfterFetch(o.ret)) /\ UNCHANGED cur
      BY <1>13 DEF FetchEnd
    <2>3. pc' \in [Worker -> PC]
      BY <2>2 DEF AfterFetch, Goto, NextEntry, PC, List, Outcome
    <2>4. cur' \in [Worker -> Entry \cup {NoEntry}]
      BY <2>2 DEF NextEntry
    <2>5. content' \in [Worker -> Seq(Url)]
      <3>1. \A u \in Url, k \in Nat : k <= Len(Links[u]) => SubSeq(Links[u], 1, k) \in Seq(Url)
        BY SubSeqProperties
      <3>2. CASE UNCHANGED content
        BY <3>2
      <3>3. CASE \E u \in Url : \E k \in 0 .. Len(Links[u]) :
                   content' = [content EXCEPT ![w] = SubSeq(Links[u], 1, k)]
        BY <3>1, <3>3
      <3>4. QED
        BY <2>2, <3>2, <3>3 DEF StoreBody
    <2>6. QED
      BY <1>13, <2>1, <2>3, <2>4, <2>5 DEF FetchEnd
  <1>14. ASSUME NEW w \in Worker, SaveBegin(w) PROVE TypeOK'
    BY <1>14, SaveToValues DEF SaveBegin, Acquire, Mutex, List, PC
  <1>15. ASSUME NEW w \in Worker, SaveEnd(w) PROVE TypeOK'
    <2>1. lock' \in [Mutex -> Worker \cup {Free}]
      BY <1>15, SaveCases DEF Mutex, List
    <2>2. pc' \in [Worker -> PC]
      <3>1. \E p \in PC : pc' = [pc EXCEPT ![w] = p]
        BY <1>15, SaveCases DEF PC
      <3>2. QED
        BY <3>1
    <2>3. cur' \in [Worker -> Entry \cup {NoEntry}]
      BY <1>15, SaveCases
    <2>4. QED
      BY <1>15, <2>1, <2>2, <2>3, SaveCases DEF SaveEnd
  <1>16. ASSUME NEW w \in Worker, ParseBegin(w) PROVE TypeOK'
    BY <1>16 DEF ParseBegin, Goto, Acquire, Mutex, List, PC
  <1>17. ASSUME NEW w \in Worker, ParseLink(w) PROVE TypeOK'
    <2>1. todo' \in [Worker -> Seq(Url)]
      <3>1. Tail(todo[w]) \in Seq(Url)
        BY <1>17, HeadTail DEF ParseLink
      <3>2. QED
        BY <1>17, <3>1 DEF ParseLink
    <2>2. pc' \in [Worker -> PC]
      BY <1>17 DEF ParseLink, Goto, PC, List
    <2>3. QED
      BY <1>17, <2>1, <2>2 DEF ParseLink
  <1>18. ASSUME NEW w \in Worker, ParseEnd(w) PROVE TypeOK'
    BY <1>18 DEF ParseEnd, Goto, Release, Mutex, List, PC
  <1>19. ASSUME NEW w \in Worker, Broadcast(w) PROVE TypeOK'
    BY <1>19 DEF Broadcast, Goto, NextEntry, Mutex, List, PC
  <1>20. CASE Stop
    BY <1>20 DEF Stop
  <1>21. CASE Rest \/ UNCHANGED vars
    BY <1>21 DEF Rest, vars
  <1>22. QED
    BY <1>1, <1>2, <1>3, <1>4, <1>5, <1>6, <1>7, <1>8, <1>9, <1>10, <1>11, <1>12, <1>13, <1>14, <1>15, <1>16, <1>17, <1>18, <1>19, <1>20, <1>21 DEF Next, WorkerStep

\* So is who holds which mutex where.
LEMMA StepLockInv == IInv /\ [Next]_vars => LockInv'
  <1> SUFFICES ASSUME IInv, [Next]_vars PROVE LockInv'
    OBVIOUS
  <1>0. /\ LockInv /\ pc \in [Worker -> PC] /\ lock \in [Mutex -> Worker \cup {Free}]
        /\ waiting \subseteq Worker
    BY DEF IInv, TypeOK
  <1> USE <1>0, CrawlerAssumption DEF LockInv, Mutex, List, PC, At, frontier, wakeups, lists, files, page
  <1>1. ASSUME NEW w \in Worker, CreateWorker(w) PROVE LockInv'
    BY <1>1 DEF CreateWorker, Goto
  <1>2. ASSUME NEW w \in Worker, LoopTop(w) PROVE LockInv'
    BY <1>2 DEF LoopTop, Goto
  <1>3. ASSUME NEW w \in Worker, EnterFetchUrl(w) PROVE LockInv'
    BY <1>3 DEF EnterFetchUrl, Goto, Acquire
  <1>4. ASSUME NEW w \in Worker, WaitForEntry(w) PROVE LockInv'
    BY <1>4 DEF WaitForEntry, Goto, Release
  <1>5. ASSUME NEW w \in Worker, Wake(w) PROVE LockInv'
    BY <1>5 DEF Wake, Goto, Acquire
  <1>6. ASSUME NEW w \in Worker, SpuriousWake(w) PROVE LockInv'
    BY <1>6 DEF SpuriousWake
  <1>7. ASSUME NEW w \in Worker, TakeEntry(w) PROVE LockInv'
    BY <1>7 DEF TakeEntry, Goto, Release
  <1>8. ASSUME NEW w \in Worker, CheckBegin(w) PROVE LockInv'
    BY <1>8 DEF CheckBegin, Acquire
  <1>9. ASSUME NEW w \in Worker, CheckEnd(w) PROVE LockInv'
    <2>1. /\ pc[w] \in List /\ lock[pc[w]] = w
          /\ lock' = [lock EXCEPT ![pc[w]] = Free]
          /\ UNCHANGED waiting
      BY <1>9, CheckCases
    <2>2. ASSUME NEW p \in {"parse", "top", "seq", "uv", "vu"},
                 pc' = [pc EXCEPT ![w] = p],
                 p = "parse" <=> Parsing(w) /\ p \notin {"uv", "vu"}
          PROVE  LockInv'
      BY <2>1, <2>2 DEF Parsing
    <2>3. QED
      BY <1>9, <2>2, CheckCases
  <1>10. ASSUME NEW w \in Worker, SeqBegin(w) PROVE LockInv'
    BY <1>10 DEF SeqBegin, Acquire
  <1>11. ASSUME NEW w \in Worker, SeqEnd(w) PROVE LockInv'
    BY <1>11 DEF SeqEnd, Goto, Release
  <1>12. ASSUME NEW w \in Worker, FetchBegin(w) PROVE LockInv'
    BY <1>12 DEF FetchBegin, Acquire
  <1>13. ASSUME NEW w \in Worker, FetchEnd(w) PROVE LockInv'
    <2>1. /\ pc[w] = "fetch" /\ lock["fetch"] = w
          /\ lock' = [lock EXCEPT !["fetch"] = Free]
          /\ UNCHANGED waiting
      BY <1>13, FetchCases
    <2>2. ASSUME NEW p \in {"save_uv", "save_vu", "top"}, pc' = [pc EXCEPT ![w] = p]
          PROVE  LockInv'
      <3>1. \A v \in Worker : pc'[v] = IF v = w THEN p ELSE pc[v]
        BY <2>2
      <3>2. QED
        BY <2>1, <3>1
    <2>3. QED
      BY <1>13, <2>2, FetchCases
  <1>14. ASSUME NEW w \in Worker, SaveBegin(w) PROVE LockInv'
    BY <1>14, SaveToValues DEF SaveBegin, Acquire
  <1>15. ASSUME NEW w \in Worker, SaveEnd(w) PROVE LockInv'
    <2>1. PICK p \in {"reparse", "top"} : pc' = [pc EXCEPT ![w] = p]
      BY <1>15, SaveCases
    <2>2. \A v \in Worker : pc'[v] = IF v = w THEN p ELSE pc[v]
      BY <2>1
    <2>3. UNCHANGED waiting
      BY <1>15, SaveCases
    <2>4. CASE pc[w] = "save_ur" /\ lock["ur"] = w /\ lock' = [lock EXCEPT !["ur"] = Free]
      BY <2>2, <2>3, <2>4
    <2>5. CASE pc[w] = "save_uv" /\ lock["uv"] = w /\ lock' = [lock EXCEPT !["uv"] = Free]
      BY <2>2, <2>3, <2>5
    <2>6. CASE pc[w] = "save_vu" /\ lock["vu"] = w /\ lock' = [lock EXCEPT !["vu"] = Free]
      BY <2>2, <2>3, <2>6
    <2>7. QED
      BY <1>15, <2>4, <2>5, <2>6, SaveCases
  <1>16. ASSUME NEW w \in Worker, ParseBegin(w) PROVE LockInv'
    BY <1>16 DEF ParseBegin, Goto, Acquire
  <1>17. ASSUME NEW w \in Worker, ParseLink(w) PROVE LockInv'
    <2>1. /\ pc[w] = "parse" /\ UNCHANGED <<lock, waiting>>
          /\ pc' = [pc EXCEPT ![w] = "ur"] \/ UNCHANGED pc
      BY <1>17 DEF ParseLink, Goto
    <2>2. CASE pc' = [pc EXCEPT ![w] = "ur"]
      <3>1. \A v \in Worker : pc'[v] = IF v = w THEN "ur" ELSE pc[v]
        BY <2>2
      <3>2. QED
        BY <2>1, <3>1
    <2>3. CASE UNCHANGED pc
      BY <2>1, <2>3
    <2>4. QED
      BY <2>1, <2>2, <2>3
  <1>18. ASSUME NEW w \in Worker, ParseEnd(w) PROVE LockInv'
    BY <1>18 DEF ParseEnd, Goto, Release
  <1>19. ASSUME NEW w \in Worker, Broadcast(w) PROVE LockInv'
    BY <1>19 DEF Broadcast, Goto, NextEntry
  <1>20. CASE Stop
    BY <1>20 DEF Stop
  <1>21. CASE Rest \/ UNCHANGED vars
    BY <1>21 DEF Rest, vars
  <1>22. QED
    BY <1>1, <1>2, <1>3, <1>4, <1>5, <1>6, <1>7, <1>8, <1>9, <1>10, <1>11, <1>12, <1>13, <1>14, <1>15, <1>16, <1>17, <1>18, <1>19, <1>20, <1>21 DEF Next, WorkerStep

\* A worker past fetchUrl has an entry.
LEMMA Working ==
  ASSUME IInv, NEW w \in Worker, pc[w] \notin Idle
  PROVE  cur[w] \in Entry
  <1>1. cur[w] # NoEntry
    BY DEF IInv, EntryInv, EntryOK
  <1>2. QED
    BY <1>1 DEF IInv, TypeOK

\* A check pushes links one level deeper, or moves to the next list.
LEMMA CheckKeepsEntries ==
  ASSUME IInv, NEW w \in Worker, CheckEnd(w)
  PROVE  EntryInv'
  <1> SUFFICES ASSUME NEW v \in Worker PROVE EntryOK(v)'
    BY DEF EntryInv
  <1>1. EntryOK(v) /\ EntryOK(w)
    BY DEF IInv, EntryInv
  <1>2. pc[w] \in List /\ lock'["uq"] = lock["uq"]
    <2>1. pc[w] \in List /\ lock' = [lock EXCEPT ![pc[w]] = Free]
      BY CheckCases
    <2>2. QED
      BY <2>1 DEF List
  <1>3. DOMAIN pc = Worker /\ DOMAIN cur = Worker /\ DOMAIN todo = Worker
    BY DEF IInv, TypeOK
  <1>4. cur[w] # NoEntry
    BY <1>1, <1>2 DEF EntryOK, Idle, List
  <1>5. CASE v # w
    <2>1. pc'[v] = pc[v] /\ cur'[v] = cur[v] /\ todo'[v] = todo[v]
      BY <1>3, <1>5, CheckCases
    <2>2. QED
      BY <1>1, <1>2, <2>1 DEF EntryOK
  <1>6. CASE v = w /\ Parsing(w) /\ pc'[w] = "parse" /\ UNCHANGED cur
    BY <1>1, <1>2, <1>4, <1>6 DEF EntryOK, Idle, List, Parsing
  <1>7. CASE /\ v = w /\ ~ Parsing(w)
             /\ \/ pc'[w] = "top" /\ cur'[w] = NoEntry
                \/ pc'[w] = "seq" /\ UNCHANGED cur
    BY <1>2, <1>4, <1>7 DEF EntryOK, Idle, List, Parsing
  <1>8. CASE v = w /\ pc'[w] \in {"uv", "vu"} /\ UNCHANGED <<todo, cur>>
    BY <1>1, <1>2, <1>4, <1>8 DEF EntryOK, Idle, List
  <1>9. QED
    BY <1>3, <1>5, <1>6, <1>7, <1>8, CheckCases

\* Depths and entries in hand are kept by every step.
LEMMA StepEntryInv == IInv /\ [Next]_vars => EntryInv'
  <1> SUFFICES ASSUME IInv, [Next]_vars PROVE EntryInv'
    OBVIOUS
  <1>0. /\ LockInv /\ EntryInv /\ pc \in [Worker -> PC] /\ lock \in [Mutex -> Worker \cup {Free}]
        /\ uriQue \in Seq(Entry) /\ cur \in [Worker -> Entry \cup {NoEntry}]
        /\ todo \in [Worker -> Seq(Url)] /\ content \in [Worker -> Seq(Url)]
    BY DEF IInv, TypeOK
  <1> USE <1>0, NoEntryAssumption, CrawlerAssumption DEF LockInv, EntryInv, EntryOK, Mutex, List, PC, Idle, At, frontier, wakeups, lists, files, page
  <1>1. ASSUME NEW w \in Worker, CreateWorker(w) PROVE EntryInv'
    <2>1. /\ pc[w] = "new" /\ UNCHANGED <<lock, cur, todo>>
          /\ \A v \in Worker : pc'[v] = IF v = w THEN "top" ELSE pc[v]
      BY <1>1 DEF CreateWorker, Goto
    <2>2. QED
      BY <2>1
  <1>2. ASSUME NEW w \in Worker, LoopTop(w) PROVE EntryInv'
    <2>1. /\ pc[w] = "top" /\ UNCHANGED <<lock, cur, todo>>
          /\ pc' = [pc EXCEPT ![w] = "enter"] \/ pc' = [pc EXCEPT ![w] = "done"]
      BY <1>2 DEF LoopTop, Goto
    <2>2. CASE pc' = [pc EXCEPT ![w] = "enter"]
      BY <2>1, <2>2
    <2>3. CASE pc' = [pc EXCEPT ![w] = "done"]
      BY <2>1, <2>3
    <2>4. QED
      BY <2>1, <2>2, <2>3
  <1>3. ASSUME NEW w \in Worker, EnterFetchUrl(w) PROVE EntryInv'
    BY <1>3 DEF EnterFetchUrl, Goto, Acquire
  <1>4. ASSUME NEW w \in Worker, WaitForEntry(w) PROVE EntryInv'
    BY <1>4 DEF WaitForEntry, Goto, Release
  <1>5. ASSUME NEW w \in Worker, Wake(w) PROVE EntryInv'
    BY <1>5 DEF Wake, Goto, Acquire
  <1>6. ASSUME NEW w \in Worker, SpuriousWake(w) PROVE EntryInv'
    BY <1>6 DEF SpuriousWake
  <1>7. ASSUME NEW w \in Worker, TakeEntry(w) PROVE EntryInv'
    BY <1>7 DEF TakeEntry, Goto, Release
  <1>8. ASSUME NEW w \in Worker, CheckBegin(w) PROVE EntryInv'
    BY <1>8 DEF CheckBegin, Acquire
  <1>9. ASSUME NEW w \in Worker, CheckEnd(w) PROVE EntryInv'
    BY <1>9, CheckKeepsEntries
  <1>10. ASSUME NEW w \in Worker, SeqBegin(w) PROVE EntryInv'
    BY <1>10 DEF SeqBegin, Acquire
  <1>11. ASSUME NEW w \in Worker, SeqEnd(w) PROVE EntryInv'
    BY <1>11 DEF SeqEnd, Goto, Release
  <1>12. ASSUME NEW w \in Worker, FetchBegin(w) PROVE EntryInv'
    BY <1>12 DEF FetchBegin, Acquire
  <1>13. ASSUME NEW w \in Worker, FetchEnd(w) PROVE EntryInv'
    <2>1. /\ pc[w] = "fetch"
          /\ lock' = [lock EXCEPT !["fetch"] = Free]
          /\ UNCHANGED todo
      BY <1>13, FetchCases
    <2>2. CASE \E p \in {"save_uv", "save_vu"} : pc' = [pc EXCEPT ![w] = p] /\ UNCHANGED cur
      BY <2>1, <2>2
    <2>3. CASE pc' = [pc EXCEPT ![w] = "top"] /\ cur' = [cur EXCEPT ![w] = NoEntry]
      BY <2>1, <2>3
    <2>4. QED
      BY <1>13, <2>2, <2>3, FetchCases
  <1>14. ASSUME NEW w \in Worker, SaveBegin(w) PROVE EntryInv'
    BY <1>14, SaveToValues DEF SaveBegin, Acquire
  <1>15. ASSUME NEW w \in Worker, SaveEnd(w) PROVE EntryInv'
    <2>1. /\ pc[w] \in {"save_ur", "save_uv", "save_vu"}
          /\ \E l \in List : lock' = [lock EXCEPT ![l] = Free]
          /\ UNCHANGED todo
      BY <1>15, SaveCases
    <2>2. CASE /\ pc' = [pc EXCEPT ![w] = "reparse"]
               /\ ~ (cur[w].depth > MaxDepth)
               /\ UNCHANGED cur
      <3>1. cur[w] \in Entry
        BY <1>15, Working, SaveToValues DEF SaveEnd
      <3>2. cur[w].depth <= MaxDepth
        BY <2>2, <3>1, EntryAssumption DEF Entry
      <3>3. QED
        BY <2>1, <2>2, <3>2
    <2>3. CASE pc' = [pc EXCEPT ![w] = "top"] /\ cur' = [cur EXCEPT ![w] = NoEntry]
      BY <2>1, <2>3
    <2>4. QED
      BY <1>15, <2>2, <2>3, SaveCases
  <1>16. ASSUME NEW w \in Worker, ParseBegin(w) PROVE EntryInv'
    BY <1>16 DEF ParseBegin, Goto, Acquire
  <1>17. ASSUME NEW w \in Worker, ParseLink(w) PROVE EntryInv'
    <2>1. pc[w] = "parse" /\ lock["uq"] = w /\ todo[w] # <<>> /\ UNCHANGED <<lock, cur>>
      BY <1>17 DEF ParseLink
    <2>2. CASE pc' = [pc EXCEPT ![w] = "ur"] /\ UNCHANGED todo
      BY <2>1, <2>2
    <2>3. CASE todo' = [todo EXCEPT ![w] = Tail(todo[w])] /\ UNCHANGED pc
      BY <2>1, <2>3
    <2>4. QED
      BY <1>17, <2>2, <2>3 DEF ParseLink, Goto
  <1>18. ASSUME NEW w \in Worker, ParseEnd(w) PROVE EntryInv'
    BY <1>18 DEF ParseEnd, Goto, Release
  <1>19. ASSUME NEW w \in Worker, Broadcast(w) PROVE EntryInv'
    BY <1>19 DEF Broadcast, Goto, NextEntry
  <1>20. CASE Stop
    BY <1>20 DEF Stop
  <1>21. CASE Rest \/ UNCHANGED vars
    BY <1>21 DEF Rest, vars
  <1>22. QED
    BY <1>1, <1>2, <1>3, <1>4, <1>5, <1>6, <1>7, <1>8, <1>9, <1>10, <1>11, <1>12, <1>13, <1>14, <1>15, <1>16, <1>17, <1>18, <1>19, <1>20, <1>21 DEF Next, WorkerStep

\* The invariant of the crawler holds always.
LEMMA Invariance == Spec => []IInv
  <1>1. IInv /\ [Next]_vars => IInv'
    BY StepTypeOK, StepLockInv, StepEntryInv DEF IInv
  <1>2. QED
    BY InitIInv, <1>1, PTL DEF Spec

\* Every variable keeps its type; in particular no entry gets deeper than one
\* level below MaxDepth, since only pages that are not too deep are expanded.
THEOREM TypeCorrect == Spec => []TypeOK
  <1>1. IInv => TypeOK
    BY DEF IInv
  <1>2. QED
    BY <1>1, Invariance, PTL

-----------------------------------------------------------------------------
(* Safety: the order of mutexes, wake-ups, stop(), saved files, and the refinement *)
(* of the frontier. *)

\* Which mutex a worker waits for, by where it is.
LEMMA WantedCases ==
  ASSUME NEW w \in Worker
  PROVE  \/ Wanted(w) = Free
         \/ Wanted(w) = "uq" /\ pc[w] \in {"enter", "reparse", "wait"}
         \/ Wanted(w) \in List \cup {"seq", "fetch"}
  BY SaveToValues DEF Wanted, List

\* In the states of the invariant, a worker that waits for a mutex holds only
\* mutexes of lower rank.
LEMMA Ranked == IInv => LockOrder
  <1> SUFFICES ASSUME IInv, NEW w \in Worker, NEW m \in Mutex, lock[m] = w, Wanted(w) # Free
               PROVE  Rank[m] < Rank[Wanted(w)]
    BY DEF LockOrder
  <1>1. /\ Rank["uq"] = 0 /\ Rank["ur"] = 1 /\ Rank["uv"] = 1 /\ Rank["vu"] = 1
        /\ Rank["seq"] = 1 /\ Rank["fetch"] = 1
    BY DEF Rank
  <1>2. CASE m = "uq"
    <2>1. pc[w] \in {"test", "parse", "ur", "uv", "vu"}
      BY <1>2 DEF IInv, LockInv
    <2>2. Wanted(w) \in List \cup {"seq", "fetch"}
      BY <2>1, WantedCases
    <2>3. QED
      BY <1>1, <1>2, <2>2 DEF List
  <1>3. CASE m = "seq" \/ m = "fetch"
    <2>1. pc[w] = m
      BY <1>3 DEF IInv, LockInv
    <2>2. Wanted(w) = Free
      BY <1>3, <2>1, SaveToValues DEF Wanted, List
    <2>3. QED
      BY <2>2
  <1>4. CASE m \in List
    <2>1. pc[w] = m \/ (pc[w] \in DOMAIN SaveTo /\ SaveTo[pc[w]] = m)
      BY <1>4, SaveToValues DEF IInv, LockInv, List
    <2>2. Wanted(w) = Free
      BY <1>4, <2>1, SaveToValues DEF Wanted, List
    <2>3. QED
      BY <2>2
  <1>5. QED
    BY <1>2, <1>3, <1>4 DEF Mutex

\* A worker that waits for a mutex holds only mutexes of lower rank
\* (checkUrl's list mutexes inside uq_mutex), for any number of workers.
THEOREM LockOrderHolds == Spec => []LockOrder
  BY Ranked, Invariance, PTL

-----------------------------------------------------------------------------
\* The steps that leave the queue as it is, keep every sleeper asleep and take
\* no worker from the broadcast or from parsing.
LEMMA WakeupUndisturbed ==
  ASSUME NoLostWakeup, waiting' \subseteq waiting, uriQue' = uriQue,
         \A w \in Worker : pc[w] = "bcast" => pc'[w] = "bcast",
         \A w \in Worker : (lock["uq"] = w /\ pc[w] # "test") =>
           \/ pc'[w] = "bcast"
           \/ lock'["uq"] = w /\ pc'[w] # "test"
  PROVE  NoLostWakeup'
  BY DEF NoLostWakeup, At, Parsing

\* Whoever pushes or takes leaves a broadcast to come, or an empty queue.
LEMMA StepNoLostWakeup == IInv /\ NoLostWakeup /\ [Next]_vars => NoLostWakeup'
  <1> SUFFICES ASSUME IInv, NoLostWakeup, [Next]_vars PROVE NoLostWakeup'
    OBVIOUS
  <1>0. /\ DOMAIN pc = Worker /\ DOMAIN lock = Mutex /\ Free \notin Worker
        /\ "uq" \in Mutex
        /\ \A w \in Worker : /\ lock["uq"] = w => pc[w] \in {"test", "parse", "ur", "uv", "vu"}
                             /\ pc[w] \in {"test", "parse"} => lock["uq"] = w
    BY CrawlerAssumption DEF IInv, TypeOK, LockInv, Mutex
  <1> USE DEF At, Goto, NextEntry, Acquire, Release, frontier, wakeups, lists, files, page
  <1>1. ASSUME NEW w \in Worker, CreateWorker(w) PROVE NoLostWakeup'
    BY <1>0, <1>1, WakeupUndisturbed DEF CreateWorker
  <1>2. ASSUME NEW w \in Worker, LoopTop(w) PROVE NoLostWakeup'
    BY <1>0, <1>2, WakeupUndisturbed DEF LoopTop
  <1>3. ASSUME NEW w \in Worker, EnterFetchUrl(w) PROVE NoLostWakeup'
    BY <1>0, <1>3, WakeupUndisturbed DEF EnterFetchUrl
  <1>4. ASSUME NEW w \in Worker, WaitForEntry(w) PROVE NoLostWakeup'
    BY <1>4 DEF WaitForEntry, NoLostWakeup
  <1>5. ASSUME NEW w \in Worker, Wake(w) PROVE NoLostWakeup'
    BY <1>0, <1>5, WakeupUndisturbed DEF Wake
  <1>6. ASSUME NEW w \in Worker, SpuriousWake(w) PROVE NoLostWakeup'
    BY <1>0, <1>6, WakeupUndisturbed DEF SpuriousWake
  <1>7. ASSUME NEW w \in Worker, TakeEntry(w) PROVE NoLostWakeup'
    <2>1. lock["uq"] = w /\ pc[w] = "test" /\ uriQue # <<>> /\ waiting' = waiting
      BY <1>0, <1>7 DEF TakeEntry
    <2>2. waiting # {} => \E v \in Worker : pc[v] = "bcast"
      BY <2>1 DEF NoLostWakeup, Parsing
    <2>3. \A v \in Worker : pc[v] = "bcast" => pc'[v] = "bcast"
      BY <1>0, <1>7 DEF TakeEntry
    <2>4. QED
      BY <2>1, <2>2, <2>3 DEF NoLostWakeup
  <1>8. ASSUME NEW w \in Worker, CheckBegin(w) PROVE NoLostWakeup'
    BY <1>0, <1>8, WakeupUndisturbed DEF CheckBegin, List
  <1>9. ASSUME NEW w \in Worker, CheckEnd(w) PROVE NoLostWakeup'
    <2>1. /\ pc[w] \in List /\ lock'["uq"] = lock["uq"] /\ waiting' = waiting
          /\ \E p \in {"parse", "top", "seq", "uv", "vu"} : pc' = [pc EXCEPT ![w] = p]
      BY <1>0, <1>9, CheckCases DEF List
    <2>2. \A v \in Worker : pc[v] = "bcast" => pc'[v] = "bcast"
      BY <1>0, <2>1 DEF List
    <2>3. \A v \in Worker : (lock["uq"] = v /\ pc[v] # "test") =>
            lock'["uq"] = v /\ pc'[v] # "test"
      BY <1>0, <2>1
    <2>4. CASE uriQue' = uriQue
      BY <2>1, <2>2, <2>3, <2>4, WakeupUndisturbed
    <2>5. CASE lock["uq"] = w
      <3>1. lock'["uq"] = w /\ pc'[w] # "test"
        BY <2>1, <2>3, <2>5 DEF List
      <3>2. QED
        BY <3>1 DEF NoLostWakeup, Parsing
    <2>6. QED
      BY <1>9, <2>4, <2>5, CheckCases DEF Parsing
  <1>10. ASSUME NEW w \in Worker, SeqBegin(w) PROVE NoLostWakeup'
    BY <1>0, <1>10, WakeupUndisturbed DEF SeqBegin
  <1>11. ASSUME NEW w \in Worker, SeqEnd(w) PROVE NoLostWakeup'
    BY <1>0, <1>11, WakeupUndisturbed DEF SeqEnd
  <1>12. ASSUME NEW w \in Worker, FetchBegin(w) PROVE NoLostWakeup'
    BY <1>0, <1>12, WakeupUndisturbed DEF FetchBegin
  <1>13. ASSUME NEW w \in Worker, FetchEnd(w) PROVE NoLostWakeup'
    <2>1. /\ pc[w] = "fetch" /\ lock'["uq"] = lock["uq"] /\ waiting' = waiting
          /\ uriQue' = uriQue
          /\ \E p \in {"save_uv", "save_vu", "top"} : pc' = [pc EXCEPT ![w] = p]
      BY <1>0, <1>13, FetchCases
    <2>2. QED
      BY <1>0, <2>1, WakeupUndisturbed
  <1>14. ASSUME NEW w \in Worker, SaveBegin(w) PROVE NoLostWakeup'
    <2>1. lock'["uq"] = lock["uq"] /\ UNCHANGED <<pc, waiting, uriQue>>
      BY <1>0, <1>14, SaveToValues DEF SaveBegin
    <2>2. QED
      BY <2>1, WakeupUndisturbed
  <1>15. ASSUME NEW w \in Worker, SaveEnd(w) PROVE NoLostWakeup'
    <2>1. /\ pc[w] \in {"save_ur", "save_uv", "save_vu"} /\ lock'["uq"] = lock["uq"]
          /\ waiting' = waiting /\ uriQue' = uriQue
          /\ \E p \in {"reparse", "top"} : pc' = [pc EXCEPT ![w] = p]
      BY <1>0, <1>15, SaveCases
    <2>2. QED
      BY <1>0, <2>1, WakeupUndisturbed
  <1>16. ASSUME NEW w \in Worker, ParseBegin(w) PROVE NoLostWakeup'
    BY <1>0, <1>16, WakeupUndisturbed DEF ParseBegin
  <1>17. ASSUME NEW w \in Worker, ParseLink(w) PROVE NoLostWakeup'
    BY <1>0, <1>17, WakeupUndisturbed DEF ParseLink
  <1>18. ASSUME NEW w \in Worker, ParseEnd(w) PROVE NoLostWakeup'
    BY <1>0, <1>18, WakeupUndisturbed DEF ParseEnd
  <1>19. ASSUME NEW w \in Worker, Broadcast(w) PROVE NoLostWakeup'
    BY <1>19 DEF Broadcast, NoLostWakeup
  <1>20. CASE Stop
    BY <1>20, WakeupUndisturbed DEF Stop
  <1>21. CASE Rest \/ UNCHANGED vars
    BY <1>21, WakeupUndisturbed DEF Rest, vars
  <1>22. QED
    BY <1>1, <1>2, <1>3, <1>4, <1>5, <1>6, <1>7, <1>8, <1>9, <1>10, <1>11, <1>12,
       <1>13, <1>14, <1>15, <1>16, <1>17, <1>18, <1>19, <1>20, <1>21
    DEF Next, WorkerStep

\* parseHyperlinks unlocks uq_mutex and broadcasts uq_cond afterwards: whoever
\* sleeps while the queue has entries is going to be woken, whatever the number
\* of workers and the web they crawl.
THEOREM NoLostWakeupHolds == Spec => []NoLostWakeup
  <1>1. Init => NoLostWakeup
    BY DEF Init, NoLostWakeup
  <1>2. QED
    BY <1>1, StepNoLostWakeup, Invariance, PTL DEF Spec

-----------------------------------------------------------------------------
\* Where a thread's step takes its worker: none begins again, and from the test
\* of m_running it goes where m_running says.
LEMMA Moves ==
  ASSUME NEW w \in Worker, CreateWorker(w) \/ WorkerStep(w) \/ SpuriousWake(w)
  PROVE  /\ running' = running
         /\ \/ pc' = pc
            \/ \E p \in PC \ {"new"} : /\ pc' = [pc EXCEPT ![w] = p]
                                       /\ pc[w] = "top" => p = IF running THEN "enter" ELSE "done"
  <1> DEFINE To(P) == \E p \in P : pc' = [pc EXCEPT ![w] = p]
  <1> USE DEF At, Goto, NextEntry
  <1>1. running' = running
    BY DEF CreateWorker, WorkerStep, SpuriousWake, LoopTop, EnterFetchUrl, WaitForEntry, Wake,
           TakeEntry, CheckBegin, CheckEnd, SeqBegin, SeqEnd, FetchBegin, FetchEnd, SaveBegin,
           SaveEnd, ParseBegin, ParseLink, ParseEnd, Broadcast
  <1>2. CASE LoopTop(w)
    BY <1>1, <1>2 DEF LoopTop, PC
  <1>3. CASE SpuriousWake(w) \/ CheckBegin(w) \/ SeqBegin(w) \/ FetchBegin(w) \/ SaveBegin(w)
    BY <1>1, <1>3 DEF SpuriousWake, CheckBegin, SeqBegin, FetchBegin, SaveBegin
  <1>4. CASE \/ CreateWorker(w) \/ EnterFetchUrl(w) \/ WaitForEntry(w) \/ Wake(w)
             \/ TakeEntry(w) \/ SeqEnd(w) \/ ParseBegin(w) \/ ParseEnd(w) \/ Broadcast(w)
    BY <1>1, <1>4 DEF CreateWorker, EnterFetchUrl, WaitForEntry, Wake, TakeEntry, SeqEnd,
       ParseBegin, ParseEnd, Broadcast, PC, List
  <1>5. CASE ParseLink(w)
    BY <1>1, <1>5 DEF ParseLink, PC, List
  <1>6. CASE CheckEnd(w)
    <2>1. pc[w] # "top" /\ To({"parse", "top", "seq", "uv", "vu"})
      BY <1>6, CheckCases DEF List
    <2>2. QED
      BY <1>1, <2>1 DEF PC, List
  <1>7. CASE FetchEnd(w)
    <2>1. pc[w] # "top" /\ To({"save_uv", "save_vu", "top"})
      BY <1>7, FetchCases
    <2>2. QED
      BY <1>1, <2>1 DEF PC, List
  <1>8. CASE SaveEnd(w)
    <2>1. pc[w] # "top" /\ To({"reparse", "top"})
      BY <1>8, SaveCases
    <2>2. QED
      BY <1>1, <2>1 DEF PC, List
  <1>9. QED
    BY <1>2, <1>3, <1>4, <1>5, <1>6, <1>7, <1>8 DEF WorkerStep

\* The same, worker by worker.
LEMMA MovesOf ==
  ASSUME IInv, NEW w \in Worker, CreateWorker(w) \/ WorkerStep(w) \/ SpuriousWake(w),
         NEW v \in Worker
  PROVE  /\ pc'[v] = "new" => pc[v] = "new"
         /\ pc[v] = "top" => pc'[v] \in {"top", IF running THEN "enter" ELSE "done"}
  <1>1. DOMAIN pc = Worker
    BY DEF IInv, TypeOK
  <1>2. CASE pc' = pc
    BY <1>2
  <1>3. CASE pc' # pc
    <2>1. PICK p \in PC \ {"new"} : /\ pc' = [pc EXCEPT ![w] = p]
                                    /\ pc[w] = "top" => p = IF running THEN "enter" ELSE "done"
      BY <1>3, Moves
    <2>2. CASE v = w
      BY <1>1, <2>1, <2>2
    <2>3. CASE v # w
      BY <1>1, <2>1, <2>3
    <2>4. QED
      BY <2>2, <2>3
  <1>4. QED
    BY <1>2, <1>3

-----------------------------------------------------------------------------
\* A worker that took an entry after stop() is past fetchUrl, and the test of
\* m_running is between it and the next fetchUrl.
LateOK(w) ==
  /\ running => late[w] = 0
  /\ late[w] <= 1
  /\ late[w] # 0 => pc[w] \notin {"new", "enter", "test", "wait"}

LateInv == \A w \in Worker : LateOK(w)

\* The steps that take no entry, start no fetchUrl and leave m_running alone.
LEMMA LateUndisturbed ==
  ASSUME LateInv, late' = late, running' = running,
         \A w \in Worker : pc'[w] \in {"new", "enter", "test", "wait"} =>
            \/ pc[w] \in {"new", "enter", "test", "wait"}
            \/ pc[w] = "top" /\ running
  PROVE  LateInv'
  BY DEF LateInv, LateOK

\* A worker that took an entry after stop() leaves its loop before fetchUrl.
LEMMA StepLateInv == IInv /\ LateInv /\ [Next]_vars => LateInv'
  <1> SUFFICES ASSUME IInv, LateInv, [Next]_vars PROVE LateInv'
    OBVIOUS
  <1>0. DOMAIN pc = Worker
    BY DEF IInv, TypeOK
  <1> USE DEF At, Goto, NextEntry, frontier, wakeups, lists, files, page
  <1>1. ASSUME NEW w \in Worker, CreateWorker(w) PROVE LateInv'
    BY <1>0, <1>1 DEF CreateWorker, LateInv, LateOK
  <1>2. ASSUME NEW w \in Worker, LoopTop(w) PROVE LateInv'
    BY <1>0, <1>2, LateUndisturbed DEF LoopTop
  <1>3. ASSUME NEW w \in Worker, EnterFetchUrl(w) PROVE LateInv'
    BY <1>0, <1>3, LateUndisturbed DEF EnterFetchUrl
  <1>4. ASSUME NEW w \in Worker, WaitForEntry(w) PROVE LateInv'
    BY <1>0, <1>4, LateUndisturbed DEF WaitForEntry
  <1>5. ASSUME NEW w \in Worker, Wake(w) PROVE LateInv'
    BY <1>0, <1>5, LateUndisturbed DEF Wake
  <1>6. ASSUME NEW w \in Worker, SpuriousWake(w) PROVE LateInv'
    BY <1>0, <1>6, LateUndisturbed DEF SpuriousWake
  <1>7. ASSUME NEW w \in Worker, TakeEntry(w) PROVE LateInv'
    <2>1. late[w] = 0 /\ DOMAIN late = Worker
      BY <1>7 DEF TakeEntry, LateInv, LateOK, IInv, TypeOK
    <2>2. ASSUME NEW v \in Worker PROVE LateOK(v)'
      <3>1. CASE v = w
        BY <1>0, <1>7, <2>1, <3>1 DEF TakeEntry, LateOK
      <3>2. CASE v # w
        BY <1>0, <1>7, <2>1, <3>2 DEF TakeEntry, LateInv, LateOK
      <3>3. QED
        BY <3>1, <3>2
    <2>3. QED
      BY <2>2 DEF LateInv
  <1>8. ASSUME NEW w \in Worker, CheckBegin(w) PROVE LateInv'
    BY <1>0, <1>8, LateUndisturbed DEF CheckBegin
  <1>9. ASSUME NEW w \in Worker, CheckEnd(w) PROVE LateInv'
    <2>1. /\ \E p \in {"parse", "top", "seq", "uv", "vu"} : pc' = [pc EXCEPT ![w] = p]
          /\ late' = late /\ running' = running
      BY <1>9, CheckCases
    <2>2. QED
      BY <1>0, <2>1, LateUndisturbed
  <1>10. ASSUME NEW w \in Worker, SeqBegin(w) PROVE LateInv'
    BY <1>0, <1>10, LateUndisturbed DEF SeqBegin
  <1>11. ASSUME NEW w \in Worker, SeqEnd(w) PROVE LateInv'
    BY <1>0, <1>11, LateUndisturbed DEF SeqEnd
  <1>12. ASSUME NEW w \in Worker, FetchBegin(w) PROVE LateInv'
    BY <1>0, <1>12, LateUndisturbed DEF FetchBegin
  <1>13. ASSUME NEW w \in Worker, FetchEnd(w) PROVE LateInv'
    <2>1. /\ \E p \in {"save_uv", "save_vu", "top"} : pc' = [pc EXCEPT ![w] = p]
          /\ late' = late /\ running' = running
      BY <1>13, FetchCases
    <2>2. QED
      BY <1>0, <2>1, LateUndisturbed
  <1>14. ASSUME NEW w \in Worker, SaveBegin(w) PROVE LateInv'
    BY <1>0, <1>14, LateUndisturbed DEF SaveBegin
  <1>15. ASSUME NEW w \in Worker, SaveEnd(w) PROVE LateInv'
    <2>1. /\ \E p \in {"reparse", "top"} : pc' = [pc EXCEPT ![w] = p]
          /\ late' = late /\ running' = running
      BY <1>15, SaveCases
    <2>2. QED
      BY <1>0, <2>1, LateUndisturbed
  <1>16. ASSUME NEW w \in Worker, ParseBegin(w) PROVE LateInv'
    BY <1>0, <1>16, LateUndisturbed DEF ParseBegin
  <1>17. ASSUME NEW w \in Worker, ParseLink(w) PROVE LateInv'
    BY <1>0, <1>17, LateUndisturbed DEF ParseLink
  <1>18. ASSUME NEW w \in Worker, ParseEnd(w) PROVE LateInv'
    BY <1>0, <1>18, LateUndisturbed DEF ParseEnd
  <1>19. ASSUME NEW w \in Worker, Broadcast(w) PROVE LateInv'
    BY <1>0, <1>19, LateUndisturbed DEF Broadcast
  <1>20. CASE Stop
    BY <1>20 DEF Stop, LateInv, LateOK
  <1>21. CASE Rest \/ UNCHANGED vars
    BY <1>21, LateUndisturbed DEF Rest, vars
  <1>22. QED
    BY <1>1, <1>2, <1>3, <1>4, <1>5, <1>6, <1>7, <1>8, <1>9, <1>10, <1>11, <1>12,
       <1>13, <1>14, <1>15, <1>16, <1>17, <1>18, <1>19, <1>20, <1>21
    DEF Next, WorkerStep

\* However many entries the queue holds when stop() clears m_running, each
\* worker takes at most one of them afterwards.
THEOREM StopIsPromptHolds == Spec => []StopIsPrompt
  <1>1. Init => LateInv
    <2> SUFFICES ASSUME Init, NEW w \in Worker PROVE LateOK(w)
      BY DEF LateInv
    <2>1. late[w] = 0 /\ running = TRUE
      BY DEF Init
    <2>2. QED
      BY <2>1 DEF LateOK
  <1>2. LateInv => StopIsPrompt
    BY DEF LateInv, LateOK, StopIsPrompt
  <1>3. QED
    BY <1>1, <1>2, StepLateInv, Invariance, PTL DEF Spec

-----------------------------------------------------------------------------
\* Sequence numbers: the holder of seq_mutex has read the next number; whoever
\* fetches has a smaller one, which no other worker has and no file saved since
\* the files were base, as they are when a process starts.
NumOK(w, base) ==
  /\ lock["seq"] = w => num[w] = fseq
  /\ pc[w] = "fetch" =>
       /\ num[w] < fseq
       /\ \A f \in saved \ base : f.num # num[w]

NumInv(base) ==
  /\ \A f \in saved \ base : f.num \in Nat /\ f.num < fseq
  /\ \A w \in Worker : NumOK(w, base)
  /\ \A v, w \in Worker :
       (v # w /\ pc[v] = "fetch" /\ pc[w] = "fetch") => num[v] # num[w]

\* The steps that have nothing to do with numbers and files.
LEMMA NumUndisturbed ==
  ASSUME NEW base, NumInv(base), UNCHANGED <<fseq, saved, num>>,
         \A w \in Worker : pc'[w] = "fetch" => pc[w] = "fetch",
         \A w \in Worker : lock'["seq"] = w => lock["seq"] = w
  PROVE  NumInv(base)'
  BY DEF NumInv, NumOK

\* The store of fseq++ keeps the numbers in use below fseq.
LEMMA SeqEndNumInv ==
  ASSUME NEW base, IInv, NumInv(base), NEW w \in Worker, SeqEnd(w)
  PROVE  NumInv(base)'
  <1>1. /\ DOMAIN pc = Worker /\ DOMAIN lock = Mutex /\ "seq" \in Mutex
        /\ fseq \in Nat /\ num \in [Worker -> Nat]
    BY DEF IInv, TypeOK, Mutex
  <1>2. /\ num[w] = fseq /\ fseq' = fseq + 1 /\ UNCHANGED <<saved, num>>
        /\ pc' = [pc EXCEPT ![w] = "fetch"] /\ lock'["seq"] = Free
    BY <1>1 DEF SeqEnd, At, Goto, Release, NumInv, NumOK
  <1>3. \A f \in saved \ base : f.num \in Nat /\ f.num < fseq /\ f.num < fseq + 1
    BY <1>1 DEF NumInv
  <1>4. \A v \in Worker : v # w => pc'[v] = pc[v]
    BY <1>1, <1>2
  <1>5. ASSUME NEW v \in Worker PROVE NumOK(v, base)'
    <2>1. CASE v = w
      BY <1>1, <1>2, <1>3, <2>1, CrawlerAssumption DEF NumOK
    <2>2. CASE v # w
      <3>1. pc[v] = "fetch" => num[v] < fseq /\ \A f \in saved \ base : f.num # num[v]
        BY DEF NumInv, NumOK
      <3>2. num[v] \in Nat
        BY <1>1
      <3>3. QED
        BY <1>1, <1>2, <1>4, <2>2, <3>1, <3>2, CrawlerAssumption DEF NumOK
    <2>3. QED
      BY <2>1, <2>2
  <1>6. ASSUME NEW u \in Worker, NEW v \in Worker, u # v,
               pc'[u] = "fetch", pc'[v] = "fetch"
        PROVE  num'[u] # num'[v]
    <2>1. \A x \in Worker : pc[x] = "fetch" => num[x] < fseq /\ num[x] \in Nat
      BY <1>1 DEF NumInv, NumOK
    <2>2. CASE u = w
      BY <1>1, <1>2, <1>4, <1>6, <2>1, <2>2
    <2>3. CASE v = w
      BY <1>1, <1>2, <1>4, <1>6, <2>1, <2>3
    <2>4. CASE u # w /\ v # w
      BY <1>2, <1>4, <1>6, <2>4 DEF NumInv
    <2>5. QED
      BY <2>2, <2>3, <2>4
  <1>7. QED
    BY <1>2, <1>3, <1>5, <1>6 DEF NumInv

\* What is saved at the end of a fetch has the number of the worker alone.
LEMMA FetchEndSaves ==
  ASSUME NEW base, IInv, NumInv(base), NEW w \in Worker, FetchEnd(w)
  PROVE  NumInv(base)' /\ saved \ base \subseteq saved'
  <1>1. DOMAIN pc = Worker /\ DOMAIN lock = Mutex /\ "seq" \in Mutex
    BY DEF IInv, TypeOK, Mutex
  <1>2. pc[w] = "fetch" /\ num[w] \in Nat /\ num[w] < fseq
    BY DEF FetchEnd, At, NumInv, NumOK, IInv, TypeOK
  <1>3. UNCHANGED <<fseq, num>> /\ lock'["seq"] = lock["seq"]
    BY <1>1 DEF FetchEnd, Release
  <1>4. /\ pc'[w] # "fetch"
        /\ \A v \in Worker : v # w => pc'[v] = pc[v]
    BY <1>1, FetchCases
  <1>5. \/ saved' = saved
        \/ \E u \in Url : saved' = {f \in saved : f.num # num[w]} \cup
                                     {[num |-> num[w], url |-> u]}
    BY DEF FetchEnd, StoreBody
  <1>6. /\ saved \ base \subseteq saved'
        /\ \A f \in saved' \ base : f \in saved \ base \/ f.num = num[w]
    <2>1. \A f \in saved \ base : f.num # num[w]
      BY <1>2 DEF NumInv, NumOK
    <2>2. QED
      BY <1>5, <2>1
  <1>7. \A f \in saved' \ base : f.num \in Nat /\ f.num < fseq
    BY <1>2, <1>6 DEF NumInv
  <1>8. ASSUME NEW v \in Worker PROVE NumOK(v, base)'
    <2>1. lock'["seq"] = v => num'[v] = fseq'
      BY <1>3 DEF NumInv, NumOK
    <2>2. ASSUME pc'[v] = "fetch" PROVE num[v] < fseq /\ \A f \in saved' \ base : f.num # num[v]
      <3>1. v # w /\ pc[v] = "fetch"
        BY <1>4, <2>2
      <3>2. num[v] # num[w] /\ num[v] < fseq /\ \A f \in saved \ base : f.num # num[v]
        BY <1>2, <3>1 DEF NumInv, NumOK
      <3>3. QED
        BY <1>6, <3>2
    <2>3. QED
      BY <1>3, <2>1, <2>2 DEF NumOK
  <1>9. \A u, v \in Worker :
          (u # v /\ pc'[u] = "fetch" /\ pc'[v] = "fetch") => num[u] # num[v]
    BY <1>4 DEF NumInv
  <1>10. QED
    BY <1>3, <1>6, <1>7, <1>8, <1>9 DEF NumInv

\* Numbers stay different, and what was saved stays saved.
LEMMA StepNumInv ==
  ASSUME NEW base, IInv, NumInv(base), [Next]_vars
  PROVE  NumInv(base)' /\ saved \ base \subseteq saved'
  <1>0. DOMAIN pc = Worker /\ DOMAIN lock = Mutex /\ "seq" \in Mutex /\ Free \notin Worker
    BY CrawlerAssumption DEF IInv, TypeOK, Mutex
  <1> DEFINE Quiet == /\ UNCHANGED <<fseq, saved, num>>
                      /\ \A w \in Worker : pc'[w] = "fetch" => pc[w] = "fetch"
                      /\ \A w \in Worker : lock'["seq"] = w => lock["seq"] = w
  <1>q. Quiet => NumInv(base)' /\ saved \ base \subseteq saved'
    BY NumUndisturbed
  <1> USE DEF At, Goto, NextEntry, Acquire, Release, frontier, wakeups, lists, files, page
  <1>1. ASSUME NEW w \in Worker, CreateWorker(w) PROVE Quiet
    BY <1>0, <1>1 DEF CreateWorker
  <1>2. ASSUME NEW w \in Worker, LoopTop(w) PROVE Quiet
    BY <1>0, <1>2 DEF LoopTop
  <1>3. ASSUME NEW w \in Worker, EnterFetchUrl(w) PROVE Quiet
    BY <1>0, <1>3 DEF EnterFetchUrl
  <1>4. ASSUME NEW w \in Worker, WaitForEntry(w) PROVE Quiet
    BY <1>0, <1>4 DEF WaitForEntry
  <1>5. ASSUME NEW w \in Worker, Wake(w) PROVE Quiet
    BY <1>0, <1>5 DEF Wake
  <1>6. ASSUME NEW w \in Worker, SpuriousWake(w) PROVE Quiet
    BY <1>0, <1>6 DEF SpuriousWake
  <1>7. ASSUME NEW w \in Worker, TakeEntry(w) PROVE Quiet
    BY <1>0, <1>7 DEF TakeEntry
  <1>8. ASSUME NEW w \in Worker, CheckBegin(w) PROVE Quiet
    BY <1>0, <1>8 DEF CheckBegin, List
  <1>9. ASSUME NEW w \in Worker, CheckEnd(w) PROVE Quiet
    <2>1. /\ \E p \in {"parse", "top", "seq", "uv", "vu"} : pc' = [pc EXCEPT ![w] = p]
          /\ pc[w] \in List /\ lock' = [lock EXCEPT ![pc[w]] = Free]
          /\ UNCHANGED <<fseq, saved, num>>
      BY <1>9, CheckCases
    <2>2. QED
      BY <1>0, <2>1 DEF List
  <1>10. ASSUME NEW w \in Worker, SeqBegin(w) PROVE NumInv(base)' /\ saved \ base \subseteq saved'
    <2>1. /\ pc[w] = "seq" /\ pc' = pc /\ UNCHANGED <<fseq, saved>>
          /\ num' = [num EXCEPT ![w] = fseq] /\ DOMAIN num = Worker
          /\ lock["seq"] = Free /\ lock' = [lock EXCEPT !["seq"] = w]
      BY <1>10 DEF SeqBegin, IInv, TypeOK
    <2>2. num'[w] = fseq /\ \A v \in Worker : v # w => num'[v] = num[v]
      BY <2>1
    <2>3. QED
      BY <1>0, <2>1, <2>2 DEF NumInv, NumOK
  <1>11. ASSUME NEW w \in Worker, SeqEnd(w) PROVE NumInv(base)' /\ saved \ base \subseteq saved'
    BY <1>11, SeqEndNumInv DEF SeqEnd
  <1>12. ASSUME NEW w \in Worker, FetchBegin(w) PROVE Quiet
    BY <1>0, <1>12 DEF FetchBegin
  <1>13. ASSUME NEW w \in Worker, FetchEnd(w) PROVE NumInv(base)' /\ saved \ base \subseteq saved'
    BY <1>13, FetchEndSaves
  <1>14. ASSUME NEW w \in Worker, SaveBegin(w) PROVE Quiet
    <2>1. lock'["seq"] = lock["seq"] /\ UNCHANGED <<pc, fseq, saved, num>>
      BY <1>0, <1>14, SaveToValues DEF SaveBegin
    <2>2. QED
      BY <2>1
  <1>15. ASSUME NEW w \in Worker, SaveEnd(w) PROVE Quiet
    <2>1. /\ lock'["seq"] = lock["seq"]
          /\ \E p \in {"reparse", "top"} : pc' = [pc EXCEPT ![w] = p]
      BY <1>0, <1>15, SaveCases
    <2>2. UNCHANGED <<fseq, saved, num>>
      BY <1>15 DEF SaveEnd
    <2>3. QED
      BY <1>0, <2>1, <2>2
  <1>16. ASSUME NEW w \in Worker, ParseBegin(w) PROVE Quiet
    BY <1>0, <1>16 DEF ParseBegin
  <1>17. ASSUME NEW w \in Worker, ParseLink(w) PROVE Quiet
    BY <1>0, <1>17 DEF ParseLink
  <1>18. ASSUME NEW w \in Worker, ParseEnd(w) PROVE Quiet
    BY <1>0, <1>18 DEF ParseEnd
  <1>19. ASSUME NEW w \in Worker, Broadcast(w) PROVE Quiet
    BY <1>0, <1>19 DEF Broadcast
  <1>20. CASE Stop
    BY <1>20, <1>q DEF Stop
  <1>21. CASE Rest \/ UNCHANGED vars
    BY <1>21, <1>q DEF Rest, vars
  <1> HIDE DEF Quiet
  <1>22. QED
    BY <1>q, <1>1, <1>2, <1>3, <1>4, <1>5, <1>6, <1>7, <1>8, <1>9, <1>10, <1>11, <1>12,
       <1>13, <1>14, <1>15, <1>16, <1>17, <1>18, <1>19, <1>20, <1>21
    DEF Next, WorkerStep

\* No file in savedir is ever overwritten or truncated: the load and the store of
\* num = fseq++ are one step to the other workers, thanks to seq_mutex.
THEOREM SavedKeptHolds == Spec => SavedKept
  <1>1. Init => NumInv({})
    BY DEF Init, NumInv, NumOK
  <1>2. IInv /\ NumInv({}) /\ [Next]_vars => NumInv({})' /\ [saved \subseteq saved']_vars
    BY StepNumInv
  <1>3. QED
    BY <1>1, <1>2, Invariance, PTL DEF Spec, SavedKept

-----------------------------------------------------------------------------

\* The crawler starts as the frontier does.
LEMMA InitRefines == Init => F!Init
  BY DEF Init, F!Init, StartEntry, F!StartEntry

\* Each step of the crawler is one of the frontier, or leaves it alone.
LEMMA StepRefines == IInv /\ [Next]_vars => [F!Next]_(F!fvars)
  <1> SUFFICES ASSUME IInv, [Next]_vars PROVE F!Next \/ UNCHANGED <<uriQue, cur, pushed>>
    BY DEF F!fvars
  <1> USE DEF At, frontier
  <1>1. ASSUME NEW w \in Worker, TakeEntry(w) PROVE F!Next
    <2>1. cur[w] = NoEntry
      BY <1>1 DEF TakeEntry, IInv, EntryInv, EntryOK, Idle
    <2>2. F!Take(w)
      BY <1>1, <2>1 DEF TakeEntry, F!Take
    <2>3. QED
      BY <2>2 DEF F!Next
  <1>2. ASSUME NEW w \in Worker, cur' = [cur EXCEPT ![w] = NoEntry],
               UNCHANGED frontier, pc[w] \notin Idle
        PROVE  F!Next
    <2>1. cur[w] # NoEntry
      BY <1>2 DEF IInv, EntryInv, EntryOK
    <2>2. F!Finish(w)
      BY <1>2, <2>1 DEF F!Finish
    <2>3. QED
      BY <2>2 DEF F!Next
  <1>3. ASSUME NEW w \in Worker, CheckEnd(w)
        PROVE  F!Next \/ UNCHANGED <<uriQue, cur, pushed>>
    <2>1. pc[w] \in List /\ pc[w] \notin Idle
      BY <1>3, CheckCases DEF List, Idle
    <2>2. CASE Parsing(w) /\ PushLink(w, UrlChecked(w)) /\ UNCHANGED cur
      <3>1. cur[w] # NoEntry /\ cur[w].depth <= MaxDepth /\ todo[w] # <<>>
        BY <2>1, <2>2 DEF IInv, EntryInv, EntryOK, Parsing
      <3>2. UrlChecked(w) \in Url
        <4>1. todo[w] \in Seq(Url)
          BY DEF IInv, TypeOK
        <4>2. Head(todo[w]) \in Url
          BY <3>1, <4>1, HeadTail
        <4>3. QED
          BY <2>2, <4>2 DEF UrlChecked
      <3>3. F!Extend(w, UrlChecked(w))
        BY <2>2, <3>1 DEF PushLink, F!Extend
      <3>4. QED
        BY <3>2, <3>3 DEF F!Next
    <2>3. CASE cur' = [cur EXCEPT ![w] = NoEntry] /\ UNCHANGED frontier
      BY <1>2, <2>1, <2>3
    <2>4. CASE UNCHANGED cur /\ UNCHANGED frontier
      BY <2>4
    <2>5. QED
      BY <1>3, <2>2, <2>3, <2>4, CheckCases
  <1>4. ASSUME NEW w \in Worker, FetchEnd(w)
        PROVE  F!Next \/ UNCHANGED <<uriQue, cur, pushed>>
    <2>1. pc[w] \notin Idle
      BY <1>4, FetchCases DEF Idle
    <2>2. QED
      BY <1>2, <1>4, <2>1, FetchCases
  <1>5. ASSUME NEW w \in Worker, SaveEnd(w)
        PROVE  F!Next \/ UNCHANGED <<uriQue, cur, pushed>>
    <2>1. pc[w] \notin Idle
      BY <1>5, SaveCases DEF Idle
    <2>2. QED
      BY <1>2, <1>5, <2>1, SaveCases
  <1>6. ASSUME NEW w \in Worker, Broadcast(w) PROVE F!Next
    BY <1>2, <1>6 DEF Broadcast, NextEntry, Idle
  <1>7. ASSUME NEW w \in Worker,
               \/ CreateWorker(w) \/ LoopTop(w) \/ EnterFetchUrl(w) \/ WaitForEntry(w)
               \/ Wake(w) \/ SpuriousWake(w) \/ CheckBegin(w) \/ SeqBegin(w) \/ SeqEnd(w)
               \/ FetchBegin(w) \/ SaveBegin(w) \/ ParseBegin(w) \/ ParseLink(w)
               \/ ParseEnd(w)
        PROVE  UNCHANGED <<uriQue, cur, pushed>>
    BY <1>7 DEF CreateWorker, LoopTop, EnterFetchUrl, WaitForEntry, Wake, SpuriousWake,
      CheckBegin, SeqBegin, SeqEnd, FetchBegin, SaveBegin, ParseBegin, ParseLink, ParseEnd
  <1>8. CASE Stop \/ Rest \/ UNCHANGED vars
    BY <1>8 DEF Stop, Rest, vars
  <1>9. QED
    BY <1>1, <1>3, <1>4, <1>5, <1>6, <1>7, <1>8 DEF Next, WorkerStep

\* Whatever the workers do concurrently, the queue and the entries they work on
\* change as the abstract frontier allows: fetchUrl takes the oldest entry,
\* parseHyperlinks appends entries one level deeper, Run finishes an entry.
THEOREM Refinement == Spec => FrontierSpec
  <1>1. Init => F!Init
    BY InitRefines
  <1>2. IInv /\ [Next]_vars => [F!Next]_(F!fvars)
    BY StepRefines
  <1>3. QED
    BY <1>1, <1>2, Invariance, PTL DEF Spec, FrontierSpec, F!Spec

FP == INSTANCE FrontierProofs WITH queue <- uriQue, hand <- cur

\* No entry is handed to two workers, none is handed out of order and none is
\* lost inside the queue.
THEOREM HandedOnceHolds == Spec => []HandedOnce
  <1> DEFINE FInv == F!TypeInv /\ F!HandedOnce
  <1>1. F!Init => FInv
    BY FP!InitFrontier, EntryAssumption, NoEntryAssumption
    DEF F!Init, FP!Init, F!TypeInv, FP!TypeInv, F!HandedOnce, FP!HandedOnce,
        F!StartEntry, FP!StartEntry, F!Entry, FP!Entry, Entry
  <1>2. FInv /\ [F!Next]_(F!fvars) => FInv'
    BY FP!StepFrontier, EntryAssumption, NoEntryAssumption
    DEF F!Next, FP!Next, F!fvars, FP!fvars, F!Take, FP!Take, F!Extend, FP!Extend,
        F!Finish, FP!Finish, F!TypeInv, FP!TypeInv, F!HandedOnce, FP!HandedOnce,
        F!Entry, FP!Entry, Entry
  <1>3. FInv => HandedOnce
    BY DEF HandedOnce
  <1>4. QED
    BY <1>1, <1>2, <1>3, Refinement, PTL DEF FrontierSpec, F!Spec

=============================================================================
