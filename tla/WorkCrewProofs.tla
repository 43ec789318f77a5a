--------------------------- MODULE WorkCrewProofs ---------------------------
(***************************************************************************)
(* Safety of the work crew, for any number of threads and jobs: types, jobs *)
(* done once, and no thread left that uses what main frees.                 *)
(***************************************************************************)
EXTENDS WorkCrew, TLAPS, FiniteSetTheorems, SequenceTheorems

\* The threads that were created, and those whose nodes are on cq.
Created == {t \in Thread : pc[t] # "absent"}
Waiting == {cq.nodes[i] : i \in DOMAIN cq.nodes}

\* A thread has a job exactly while it works on it; there are none before main
\* puts them.
WorkInv ==
  /\ \A t \in Thread : mywork[t] # Null <=> pc[t] = "work"
  /\ main \in {"create", "put"} => wq.nodes = <<>> /\ processed = <<>> /\ Working = {}

\* A node is on cq once, then in curnode, then freed; its thread is past the put,
\* and has ended before the node is freed.
NodeInv ==
  /\ \A i, j \in DOMAIN cq.nodes : i # j => cq.nodes[i] # cq.nodes[j]
  /\ \A t \in Waiting \cup ({curnode} \ {Null}) :
       pc[t] \in {"signal", "ended"} /\ t \notin freed
  /\ curnode \notin Waiting
  /\ curnode # Null <=> main = "join"
  /\ \A t \in freed : pc[t] = "ended"

\* numthreads counts the threads created and not joined, and main is past
\* create_threads when all were created, or when it failed.
CountInv ==
  /\ numthreads = Cardinality(Created \ freed)
  /\ main = "create" => freed = {}
  /\ failed => main \in {"loop", "join", "aborted"}
  /\ (main # "create" /\ ~ failed) => Created = Thread
  /\ main = "done" => Thread \subseteq freed

IInv == TypeOK /\ JobsOnce /\ WorkInv /\ NodeInv /\ CountInv

-----------------------------------------------------------------------------
\* What the constants are assumed to be.
LEMMA Constants ==
  IsFiniteSet(Thread) /\ IsFiniteSet(Job) /\ Null \notin Thread /\ Null \notin Job
  BY WorkCrewAssumption

\* Every position of a longer sequence is an old one or the new last.
LEMMA Appended ==
  ASSUME NEW S, NEW s \in Seq(S), NEW e \in S
  PROVE  /\ Append(s, e) \in Seq(S)
         /\ \A i \in DOMAIN Append(s, e) :
              \/ i \in DOMAIN s /\ Append(s, e)[i] = s[i]
              \/ i = Len(s) + 1 /\ i \notin DOMAIN s /\ Append(s, e)[i] = e
         /\ Append(s, e) # <<>>
  <1>1. Len(s) \in Nat /\ DOMAIN s = 1 .. Len(s)
    BY LenProperties
  <1>2. /\ Append(s, e) \in Seq(S)
        /\ DOMAIN Append(s, e) = 1 .. Len(s) + 1
        /\ \A i \in 1 .. Len(s) : Append(s, e)[i] = s[i]
        /\ Append(s, e)[Len(s) + 1] = e
    BY AppendProperties, LenProperties
  <1>3. Append(s, e) # <<>>
    <2>1. Len(Append(s, e)) = Len(s) + 1
      BY AppendProperties
    <2>2. QED
      BY <1>1, <2>1, EmptySeq
  <1>4. QED
    BY <1>1, <1>2, <1>3

\* Every position of the tail is one of the sequence, after the head.
LEMMA Tailed ==
  ASSUME NEW S, NEW s \in Seq(S), s # <<>>
  PROVE  /\ Tail(s) \in Seq(S) /\ Head(s) \in S /\ Head(s) = s[1] /\ 1 \in DOMAIN s
         /\ \A i \in DOMAIN Tail(s) : i + 1 \in DOMAIN s /\ i + 1 # 1 /\ Tail(s)[i] = s[i + 1]
         /\ \A i, j \in DOMAIN Tail(s) : i # j => i + 1 # j + 1
  <1>1. Len(s) \in Nat \ {0} /\ DOMAIN s = 1 .. Len(s)
    BY LenProperties, EmptySeq
  <1>2. /\ Tail(s) \in Seq(S) /\ Head(s) \in S
        /\ Len(Tail(s)) = Len(s) - 1
        /\ \A i \in 1 .. Len(Tail(s)) : Tail(s)[i] = s[i + 1]
    BY HeadTailProperties
  <1>3. DOMAIN Tail(s) = 1 .. Len(s) - 1
    BY <1>2, LenProperties
  <1>4. Head(s) = s[1]
    <2>1. Head(SubSeq(s, 1, Len(s))) = s[1]
      BY <1>1, HeadTailOfSubSeq
    <2>2. QED
      BY <2>1, SubSeqFull
  <1>5. QED
    BY <1>1, <1>2, <1>3, <1>4

\* queue_put and queue_get on lists of nodes.
LEMMA QueueType ==
  ASSUME NEW S, NEW q \in Queue(S)
  PROVE  /\ \A n \in S : queue_put(q, n) \in Queue(S)
         /\ q.nodes # <<>> => queue_get(q) \in Queue(S) /\ Head(q.nodes) \in S
         /\ queue_get(q).nodes = Tail(q.nodes)
         /\ \A n : queue_put(q, n).nodes = Append(q.nodes, n)
  <1>1. q.nodes \in Seq(S) /\ q.tail \in S \cup {Null}
    BY DEF Queue
  <1>2. queue_get(q) = [nodes |-> Tail(q.nodes), tail |-> q.tail]
    <2>1. q = [nodes |-> q.nodes, tail |-> q.tail]
      BY DEF Queue
    <2>2. queue_get(q) = [q EXCEPT !.nodes = Tail(q.nodes)]
      BY DEF queue_get
    <2>3. QED
      BY <2>1, <2>2
  <1>3. QED
    BY <1>1, <1>2, Appended, Tailed DEF queue_put, Queue

\* The jobs are put in some order, each once.
LEMMA JobsOrdered ==
  ASSUME NEW jobs \in SetToAllKPermutations(Job)
  PROVE  /\ jobs \in Seq(Job)
         /\ \A i, j \in DOMAIN jobs : i # j => jobs[i] # jobs[j]
         /\ jobs # <<>> => Last(jobs) \in Job
  <1>1. PICK s \in SUBSET Job : jobs \in SetToSeqs(s)
    <2>1. jobs \in UNION {SetToSeqs(T) : T \in SUBSET Job}
      BY DEF SetToAllKPermutations
    <2>2. QED
      BY <2>1
  <1>2. Cardinality(s) \in Nat
    BY Constants, FS_Subset, FS_CardinalityType
  <1>3. /\ jobs \in [1 .. Cardinality(s) -> s]
        /\ \A i, j \in 1 .. Cardinality(s) : i # j => jobs[i] # jobs[j]
    BY <1>1 DEF SetToSeqs
  <1>4. jobs \in Seq(Job)
    <2>1. jobs \in [1 .. Cardinality(s) -> Job]
      BY <1>3
    <2>2. QED
      BY <1>2, <2>1, SeqDef
  <1>5. jobs # <<>> => Last(jobs) \in Job
    BY <1>4, EmptySeq, ElementOfSeq DEF Last
  <1>6. QED
    BY <1>3, <1>4, <1>5

-----------------------------------------------------------------------------
\* The invariant holds when main starts.
LEMMA InitInv == Init => IInv
  <1> SUFFICES ASSUME Init PROVE IInv
    OBVIOUS
  <1>1. /\ main = "create" /\ failed = FALSE /\ numthreads = 0 /\ active = TRUE
        /\ wq = Empty /\ cq = Empty /\ sleeping = {} /\ waits = FALSE /\ curnode = Null
        /\ pc = [t \in Thread |-> "absent"] /\ mywork = [t \in Thread |-> Null]
        /\ processed = <<>> /\ freed = {} /\ scribbled = {}
    BY DEF Init
  <1>2. Empty \in Queue(Job) /\ Empty \in Queue(Thread) /\ Empty.nodes = <<>>
    BY EmptySeq DEF Empty, Queue
  <1>3. Cardinality(Thread) \in Nat
    BY Constants, FS_CardinalityType
  <1>4. DOMAIN <<>> = {} /\ <<>> \in Seq(Job)
    BY EmptySeq, LenProperties
  <1>5. TypeOK
    <2>1. /\ pc \in [Thread -> {"absent", "enter", "wait", "work", "leave", "signal", "ended"}]
          /\ mywork \in [Thread -> Job \cup {Null}]
      BY <1>1
    <2>2. 0 \in 0 .. Cardinality(Thread)
      BY <1>3
    <2>3. QED
      BY <1>1, <1>2, <1>4, <2>1, <2>2 DEF TypeOK
  <1>6. Working = {} /\ Created = {} /\ Waiting = {}
    BY <1>1, <1>2, <1>4 DEF Working, Created, Waiting
  <1>7. JobsOnce
    BY <1>1, <1>2, <1>4, <1>6 DEF JobsOnce
  <1>8. WorkInv
    BY <1>1, <1>2, <1>6 DEF WorkInv
  <1>9. NodeInv
    BY <1>1, <1>2, <1>4, <1>6 DEF NodeInv
  <1>10. CountInv
    BY <1>1, <1>6, FS_EmptySet DEF CountInv
  <1>11. QED
    BY <1>5, <1>7, <1>8, <1>9, <1>10 DEF IInv

-----------------------------------------------------------------------------
Places == {"absent", "enter", "wait", "work", "leave", "signal", "ended"}

\* A thread goes from one place to another: the count stays, and so does what
\* holds of the other threads.
LEMMA ThreadMoved ==
  ASSUME TypeOK, CountInv, NodeInv,
         NEW t \in Thread, pc[t] \notin {"absent", "ended"},
         NEW v \in Places \ {"absent"}, pc' = [pc EXCEPT ![t] = v],
         UNCHANGED <<main, failed, numthreads, freed>>
  PROVE  /\ pc' \in [Thread -> Places]
         /\ pc'[t] = v /\ \A s \in Thread \ {t} : pc'[s] = pc[s]
         /\ t \notin freed
         /\ \A s \in freed : pc'[s] = "ended"
         /\ CountInv'
  <1>1. pc \in [Thread -> Places] /\ freed \subseteq Thread
    BY DEF TypeOK, Places
  <1>2. /\ pc' \in [Thread -> Places]
        /\ pc'[t] = v /\ \A s \in Thread \ {t} : pc'[s] = pc[s]
    BY <1>1
  <1>3. t \notin freed
    BY DEF NodeInv
  <1>4. \A s \in freed : pc'[s] = "ended"
    BY <1>1, <1>2, <1>3 DEF NodeInv
  <1>5. Created' = Created
    BY <1>2 DEF Created, Places
  <1>6. CountInv'
    BY <1>5 DEF CountInv
  <1>7. QED
    BY <1>2, <1>3, <1>4, <1>6

\* The jobs are where they were.
LEMMA JobsStay ==
  ASSUME JobsOnce, UNCHANGED <<wq, mywork, processed>>
  PROVE  JobsOnce' /\ Working' = Working
  BY DEF JobsOnce, Working

\* The nodes of cq are threads.
LEMMA WaitingType ==
  ASSUME TypeOK
  PROVE  cq \in Queue(Thread) /\ cq.nodes \in Seq(Thread) /\ Waiting \subseteq Thread
  <1>1. cq \in Queue(Thread) /\ cq.nodes \in Seq(Thread)
    BY DEF TypeOK, Queue
  <1>2. \A i \in DOMAIN cq.nodes : cq.nodes[i] \in Thread
    BY <1>1, LenProperties, ElementOfSeq
  <1>3. QED
    BY <1>1, <1>2 DEF Waiting

\* A thread whose node is nowhere yet goes on.
LEMMA NodesStay ==
  ASSUME TypeOK, NodeInv, NEW t \in Thread, t \notin Waiting, t # curnode,
         \A s \in Thread \ {t} : pc'[s] = pc[s],
         \A s \in freed : pc'[s] = "ended",
         UNCHANGED <<main, cq, curnode, freed>>
  PROVE  NodeInv'
  <1>1. Waiting' = Waiting /\ Waiting \subseteq Thread
    BY WaitingType DEF Waiting
  <1>2. \A s \in Waiting \cup ({curnode} \ {Null}) : s \in Thread \ {t}
    BY <1>1 DEF TypeOK
  <1>3. QED
    BY <1>1, <1>2 DEF NodeInv

\* A thread takes a job, waits, or leaves.
LEMMA EnterInv ==
  ASSUME IInv, NEW t \in Thread, Enter(t)
  PROVE  IInv'
  <1>1. TypeOK /\ JobsOnce /\ WorkInv /\ NodeInv /\ CountInv
    BY DEF IInv
  <1>2. /\ pc[t] \in {"enter", "wait"}
        /\ UNCHANGED <<main, failed, numthreads, active, cq, waits, curnode, processed, freed,
                       scribbled>>
    BY DEF Enter, memory
  <1>3. t \notin Waiting /\ t # curnode
    BY <1>1, <1>2, Constants DEF NodeInv
  <1>4. mywork[t] = Null
    BY <1>1, <1>2 DEF WorkInv
  <1>5. CASE pc' = [pc EXCEPT ![t] = "leave"] /\ UNCHANGED <<sleeping, wq, mywork>>
    <2>1. /\ pc' \in [Thread -> Places]
          /\ pc'[t] = "leave" /\ \A s \in Thread \ {t} : pc'[s] = pc[s]
          /\ \A s \in freed : pc'[s] = "ended"
          /\ CountInv'
      BY <1>1, <1>2, <1>5, ThreadMoved DEF Places
    <2>2. TypeOK'
      BY <1>1, <1>2, <1>5, <2>1 DEF TypeOK, Places
    <2>3. JobsOnce' /\ Working' = Working
      BY <1>1, <1>2, <1>5, JobsStay
    <2>4. WorkInv'
      BY <1>1, <1>2, <1>4, <1>5, <2>1, <2>3 DEF WorkInv
    <2>5. NodeInv'
      BY <1>1, <1>2, <1>3, <2>1, NodesStay
    <2>6. QED
      BY <2>1, <2>2, <2>3, <2>4, <2>5 DEF IInv
  <1>6. CASE /\ pc' = [pc EXCEPT ![t] = "wait"]
             /\ sleeping' = sleeping \cup {t}
             /\ UNCHANGED <<wq, mywork>>
    <2>1. /\ pc' \in [Thread -> Places]
          /\ pc'[t] = "wait" /\ \A s \in Thread \ {t} : pc'[s] = pc[s]
          /\ \A s \in freed : pc'[s] = "ended"
          /\ CountInv'
      BY <1>1, <1>2, <1>6, ThreadMoved DEF Places
    <2>2. TypeOK'
      BY <1>1, <1>2, <1>6, <2>1 DEF TypeOK, Places
    <2>3. JobsOnce' /\ Working' = Working
      BY <1>1, <1>2, <1>6, JobsStay
    <2>4. WorkInv'
      BY <1>1, <1>2, <1>4, <1>6, <2>1, <2>3 DEF WorkInv
    <2>5. NodeInv'
      BY <1>1, <1>2, <1>3, <2>1, NodesStay
    <2>6. QED
      BY <2>1, <2>2, <2>3, <2>4, <2>5 DEF IInv
  <1>7. CASE /\ wq.nodes # <<>>
             /\ pc' = [pc EXCEPT ![t] = "work"]
             /\ mywork' = [mywork EXCEPT ![t] = Head(wq.nodes)]
             /\ wq' = queue_get(wq)
             /\ UNCHANGED sleeping
    <2>1. /\ pc' \in [Thread -> Places]
          /\ pc'[t] = "work" /\ \A s \in Thread \ {t} : pc'[s] = pc[s]
          /\ \A s \in freed : pc'[s] = "ended"
          /\ CountInv'
      BY <1>1, <1>2, <1>7, ThreadMoved DEF Places
    <2>2. wq \in Queue(Job) /\ wq.nodes \in Seq(Job) /\ mywork \in [Thread -> Job \cup {Null}]
      BY <1>1 DEF TypeOK, Queue
    <2>3. wq' \in Queue(Job) /\ Head(wq.nodes) \in Job /\ wq'.nodes = Tail(wq.nodes)
      BY <1>7, <2>2, QueueType
    <2>4. /\ mywork' \in [Thread -> Job \cup {Null}] /\ mywork'[t] = Head(wq.nodes)
          /\ \A s \in Thread \ {t} : mywork'[s] = mywork[s]
      BY <1>7, <2>2, <2>3
    <2>5. TypeOK'
      BY <1>1, <1>2, <1>7, <2>1, <2>3, <2>4 DEF TypeOK, Places
    <2>6. /\ Head(wq.nodes) = wq.nodes[1] /\ 1 \in DOMAIN wq.nodes
          /\ \A i \in DOMAIN wq'.nodes :
               i + 1 \in DOMAIN wq.nodes /\ i + 1 # 1 /\ wq'.nodes[i] = wq.nodes[i + 1]
          /\ \A i, j \in DOMAIN wq'.nodes : i # j => i + 1 # j + 1
      BY <1>7, <2>2, <2>3, Tailed
    <2>7. Working' = Working \cup {t} /\ t \notin Working
      BY <1>4, <2>3, <2>4, Constants DEF Working
    <2>8. JobsOnce'
      BY <1>1, <1>2, <2>4, <2>6, <2>7 DEF JobsOnce, Working
    <2>9. main \notin {"create", "put"}
      BY <1>1, <1>7 DEF WorkInv
    <2>10. WorkInv'
      BY <1>1, <1>2, <2>1, <2>3, <2>4, <2>9, Constants DEF WorkInv
    <2>11. NodeInv'
      BY <1>1, <1>2, <1>3, <2>1, NodesStay
    <2>12. QED
      BY <2>1, <2>5, <2>8, <2>10, <2>11 DEF IInv
  <1>8. QED
    BY <1>5, <1>6, <1>7 DEF Enter

\* A job that was processed is done.
LEMMA WorkStepInv ==
  ASSUME IInv, NEW t \in Thread, Work(t)
  PROVE  IInv'
  <1>1. TypeOK /\ JobsOnce /\ WorkInv /\ NodeInv /\ CountInv
    BY DEF IInv
  <1>2. /\ pc[t] = "work" /\ pc' = [pc EXCEPT ![t] = "enter"]
        /\ processed' = Append(processed, mywork[t])
        /\ mywork' = [mywork EXCEPT ![t] = Null]
        /\ UNCHANGED <<main, failed, numthreads, active, wq, cq, sleeping, waits, curnode,
                       freed, scribbled>>
    BY DEF Work, conds, memory
  <1>3. /\ pc' \in [Thread -> Places]
        /\ pc'[t] = "enter" /\ \A s \in Thread \ {t} : pc'[s] = pc[s]
        /\ \A s \in freed : pc'[s] = "ended"
        /\ CountInv'
    BY <1>1, <1>2, ThreadMoved DEF Places
  <1>4. /\ mywork \in [Thread -> Job \cup {Null}] /\ processed \in Seq(Job)
        /\ mywork[t] \in Job
    BY <1>1, <1>2 DEF TypeOK, WorkInv
  <1>5. /\ mywork' \in [Thread -> Job \cup {Null}] /\ mywork'[t] = Null
        /\ \A s \in Thread \ {t} : mywork'[s] = mywork[s]
    BY <1>2, <1>4
  <1>6. /\ processed' \in Seq(Job)
        /\ \A i \in DOMAIN processed' :
             \/ i \in DOMAIN processed /\ processed'[i] = processed[i]
             \/ i = Len(processed) + 1 /\ i \notin DOMAIN processed /\ processed'[i] = mywork[t]
    BY <1>2, <1>4, Appended
  <1>7. TypeOK'
    BY <1>1, <1>2, <1>3, <1>5, <1>6 DEF TypeOK, Places
  <1>8. t \in Working /\ Working' = Working \ {t}
    BY <1>4, <1>5, Constants DEF Working
  <1>9. JobsOnce'
    <2>1. \A i, j \in DOMAIN processed' : i # j => processed'[i] # processed'[j]
      BY <1>1, <1>6, <1>8 DEF JobsOnce
    <2>2. \A s \in Working' : \A i \in DOMAIN processed' : processed'[i] # mywork'[s]
      BY <1>1, <1>5, <1>6, <1>8 DEF JobsOnce, Working
    <2>3. \A i \in DOMAIN wq.nodes, j \in DOMAIN processed' : wq.nodes[i] # processed'[j]
      BY <1>1, <1>6, <1>8 DEF JobsOnce
    <2>4. /\ \A r, s \in Working' : r # s => mywork'[r] # mywork'[s]
          /\ \A s \in Working' : \A i \in DOMAIN wq.nodes : wq.nodes[i] # mywork'[s]
      BY <1>1, <1>5, <1>8 DEF JobsOnce, Working
    <2>5. QED
      BY <1>1, <1>2, <2>1, <2>2, <2>3, <2>4 DEF JobsOnce
  <1>10. main \notin {"create", "put"}
    BY <1>1, <1>8 DEF WorkInv
  <1>11. WorkInv'
    BY <1>1, <1>2, <1>3, <1>5, <1>10 DEF WorkInv
  <1>12. t \notin Waiting /\ t # curnode
    BY <1>1, <1>2, Constants DEF NodeInv
  <1>13. NodeInv'
    BY <1>1, <1>2, <1>3, <1>12, NodesStay
  <1>14. QED
    BY <1>3, <1>7, <1>9, <1>11, <1>13 DEF IInv

\* A thread that leaves puts its node on cq, once.
LEMMA LeaveInv ==
  ASSUME IInv, NEW t \in Thread, Leave(t)
  PROVE  IInv'
  <1>1. TypeOK /\ JobsOnce /\ WorkInv /\ NodeInv /\ CountInv
    BY DEF IInv
  <1>2. /\ pc[t] = "leave" /\ pc' = [pc EXCEPT ![t] = "signal"]
        /\ scribbled' = scribbled \cup ({cq.tail} \cap freed)
        /\ cq' = queue_put(cq, t)
        /\ UNCHANGED <<main, failed, numthreads, active, wq, sleeping, waits, curnode, mywork,
                       processed, freed>>
    BY DEF Leave, conds
  <1>3. /\ pc' \in [Thread -> Places]
        /\ pc'[t] = "signal" /\ \A s \in Thread \ {t} : pc'[s] = pc[s]
        /\ t \notin freed
        /\ \A s \in freed : pc'[s] = "ended"
        /\ CountInv'
    BY <1>1, <1>2, ThreadMoved DEF Places
  <1>4. cq \in Queue(Thread) /\ cq.nodes \in Seq(Thread) /\ Waiting \subseteq Thread
    BY <1>1, WaitingType
  <1>5. cq' \in Queue(Thread) /\ cq'.nodes = Append(cq.nodes, t)
    BY <1>2, <1>4, QueueType
  <1>6. scribbled' \subseteq Thread
    BY <1>1, <1>2 DEF TypeOK
  <1>7. TypeOK'
    BY <1>1, <1>2, <1>3, <1>5, <1>6 DEF TypeOK, Places
  <1>8. JobsOnce' /\ Working' = Working
    BY <1>1, <1>2, JobsStay
  <1>9. WorkInv'
    <2>1. mywork[t] = Null
      BY <1>1, <1>2 DEF WorkInv
    <2>2. QED
      BY <1>1, <1>2, <1>3, <1>8, <2>1 DEF WorkInv
  <1>10. t \notin Waiting /\ t # curnode
    BY <1>1, <1>2, Constants DEF NodeInv
  <1>11. NodeInv'
    <2>1. \A i \in DOMAIN cq'.nodes :
            \/ i \in DOMAIN cq.nodes /\ cq'.nodes[i] = cq.nodes[i]
            \/ i = Len(cq.nodes) + 1 /\ i \notin DOMAIN cq.nodes /\ cq'.nodes[i] = t
      BY <1>4, <1>5, Appended
    <2>2. \A s \in Waiting' : s \in Waiting \/ s = t
      BY <2>1 DEF Waiting
    <2>3. \A i, j \in DOMAIN cq'.nodes : i # j => cq'.nodes[i] # cq'.nodes[j]
      <3>1. \A i \in DOMAIN cq.nodes : cq.nodes[i] # t
        BY <1>10 DEF Waiting
      <3>2. \A i, j \in DOMAIN cq.nodes : i # j => cq.nodes[i] # cq.nodes[j]
        BY <1>1 DEF NodeInv
      <3>3. QED
        BY <2>1, <3>1, <3>2
    <2>4. \A s \in Waiting' \cup ({curnode'} \ {Null}) :
            pc'[s] \in {"signal", "ended"} /\ s \notin freed'
      <3>1. \A s \in Waiting \cup ({curnode} \ {Null}) :
              s \in Thread \ {t} /\ pc[s] \in {"signal", "ended"} /\ s \notin freed
        BY <1>1, <1>4, <1>10 DEF NodeInv, TypeOK
      <3>2. QED
        BY <1>2, <1>3, <2>2, <3>1
    <2>5. curnode' \notin Waiting'
      BY <1>1, <1>2, <1>10, <2>2 DEF NodeInv
    <2>6. QED
      BY <1>1, <1>2, <1>3, <2>3, <2>4, <2>5 DEF NodeInv
  <1>12. QED
    BY <1>3, <1>7, <1>8, <1>9, <1>11 DEF IInv

\* Its signal ends it.
LEMMA SignalEndInv ==
  ASSUME IInv, NEW t \in Thread, SignalEnd(t)
  PROVE  IInv'
  <1>1. TypeOK /\ JobsOnce /\ WorkInv /\ NodeInv /\ CountInv
    BY DEF IInv
  <1>2. /\ pc[t] = "signal" /\ pc' = [pc EXCEPT ![t] = "ended"] /\ waits' = FALSE
        /\ UNCHANGED <<main, failed, numthreads, active, wq, cq, sleeping, curnode, mywork,
                       processed, freed, scribbled>>
    BY DEF SignalEnd, memory
  <1>3. /\ pc' \in [Thread -> Places]
        /\ pc'[t] = "ended" /\ \A s \in Thread \ {t} : pc'[s] = pc[s]
        /\ \A s \in freed : pc'[s] = "ended"
        /\ CountInv'
    BY <1>1, <1>2, ThreadMoved DEF Places
  <1>4. TypeOK'
    BY <1>1, <1>2, <1>3 DEF TypeOK, Places
  <1>5. JobsOnce' /\ Working' = Working
    BY <1>1, <1>2, JobsStay
  <1>6. WorkInv'
    <2>1. mywork[t] = Null
      BY <1>1, <1>2 DEF WorkInv
    <2>2. QED
      BY <1>1, <1>2, <1>3, <1>5, <2>1 DEF WorkInv
  <1>7. NodeInv'
    <2>1. Waiting' = Waiting /\ Waiting \subseteq Thread
      BY <1>1, <1>2, WaitingType DEF Waiting
    <2>2. \A s \in Waiting \cup ({curnode} \ {Null}) : s \in Thread
      BY <1>1, <2>1 DEF TypeOK
    <2>3. QED
      BY <1>1, <1>2, <1>3, <2>1, <2>2 DEF NodeInv
  <1>8. QED
    BY <1>3, <1>4, <1>5, <1>6, <1>7 DEF IInv

-----------------------------------------------------------------------------
\* One thread more, and one more counted.
LEMMA CreateThreadInv ==
  ASSUME IInv, NEW t \in Thread, CreateThread(t)
  PROVE  IInv'
  <1>1. TypeOK /\ JobsOnce /\ WorkInv /\ NodeInv /\ CountInv
    BY DEF IInv
  <1>2. /\ main = "create" /\ pc[t] = "absent" /\ pc' = [pc EXCEPT ![t] = "enter"]
        /\ numthreads' = numthreads + 1
        /\ main' = IF numthreads' = Cardinality(Thread) THEN "put" ELSE "create"
        /\ UNCHANGED <<failed, active, wq, cq, sleeping, waits, curnode, mywork, processed,
                       freed, scribbled>>
    BY DEF CreateThread, conds, memory
  <1>3. /\ pc' \in [Thread -> Places]
        /\ pc'[t] = "enter" /\ \A s \in Thread \ {t} : pc'[s] = pc[s]
    BY <1>1, <1>2 DEF TypeOK, Places
  <1>4. freed = {} /\ numthreads = Cardinality(Created) /\ ~ failed
    <2>1. freed = {} /\ ~ failed
      BY <1>1, <1>2 DEF CountInv
    <2>2. Created \ freed = Created
      BY <2>1
    <2>3. QED
      BY <1>1, <2>1, <2>2 DEF CountInv
  <1>5. Created' = Created \cup {t} /\ t \notin Created /\ Created \subseteq Thread
    BY <1>2, <1>3 DEF Created
  <1>6. /\ IsFiniteSet(Created) /\ IsFiniteSet(Created')
        /\ Cardinality(Created') = Cardinality(Created) + 1
        /\ Cardinality(Created) \in Nat /\ Cardinality(Thread) \in Nat
        /\ Cardinality(Created') <= Cardinality(Thread)
        /\ Cardinality(Thread) = Cardinality(Created') => Created' = Thread
    <2>1. IsFiniteSet(Created)
      BY <1>5, Constants, FS_Subset
    <2>2. IsFiniteSet(Created') /\ Cardinality(Created') = Cardinality(Created) + 1
      BY <1>5, <2>1, FS_AddElement
    <2>3. Created' \in SUBSET Thread
      BY <1>5
    <2>4. QED
      BY <2>1, <2>2, <2>3, Constants, FS_Subset, FS_CardinalityType
  <1>7. numthreads' = Cardinality(Created') /\ numthreads' \in 0 .. Cardinality(Thread)
    BY <1>2, <1>4, <1>6
  <1>8. TypeOK'
    BY <1>1, <1>2, <1>3, <1>7 DEF TypeOK, Places
  <1>9. JobsOnce' /\ Working' = Working
    BY <1>1, <1>2, JobsStay
  <1>10. WorkInv'
    <2>1. mywork[t] = Null
      BY <1>1, <1>2 DEF WorkInv
    <2>2. QED
      BY <1>1, <1>2, <1>3, <1>9, <2>1 DEF WorkInv
  <1>11. NodeInv'
    <2>1. Waiting' = Waiting /\ Waiting \subseteq Thread /\ curnode = Null
      BY <1>1, <1>2, WaitingType DEF Waiting, NodeInv
    <2>2. t \notin Waiting
      BY <1>1, <1>2 DEF NodeInv
    <2>3. QED
      BY <1>1, <1>2, <1>3, <1>4, <2>1, <2>2 DEF NodeInv
  <1>12. CountInv'
    <2>1. Created' \ freed' = Created'
      BY <1>2, <1>4
    <2>2. QED
      BY <1>2, <1>4, <1>6, <1>7, <2>1 DEF CountInv
  <1>13. QED
    BY <1>8, <1>9, <1>10, <1>11, <1>12 DEF IInv

\* Steps of main that move no thread: what the thread invariants need.
LEMMA ThreadsStay ==
  ASSUME IInv, UNCHANGED <<wq, cq, pc, mywork, processed>>
  PROVE  /\ JobsOnce' /\ Working' = Working
         /\ Created' = Created /\ Waiting' = Waiting
  <1>1. JobsOnce' /\ Working' = Working
    BY JobsStay DEF IInv
  <1>2. QED
    BY <1>1 DEF Created, Waiting

\* A failed creation leaves main to join what it created.
LEMMA CreateFailsInv ==
  ASSUME IInv, CreateFails
  PROVE  IInv'
  <1>1. TypeOK /\ JobsOnce /\ WorkInv /\ NodeInv /\ CountInv
    BY DEF IInv
  <1>2. /\ main = "create" /\ failed' = TRUE /\ main' = "loop"
        /\ UNCHANGED <<numthreads, active, wq, cq, sleeping, waits, curnode, pc, mywork,
                       processed, freed, scribbled>>
    BY DEF CreateFails, conds, threads, memory
  <1>3. TypeOK'
    BY <1>1, <1>2 DEF TypeOK
  <1>4. JobsOnce' /\ Working' = Working /\ Created' = Created /\ Waiting' = Waiting
    BY <1>2, ThreadsStay
  <1>5. WorkInv' /\ NodeInv' /\ CountInv'
    BY <1>1, <1>2, <1>4 DEF WorkInv, NodeInv, CountInv
  <1>6. QED
    BY <1>3, <1>4, <1>5 DEF IInv

\* main puts each job once.
LEMMA PutJobsInv ==
  ASSUME IInv, PutJobs
  PROVE  IInv'
  <1>1. TypeOK /\ JobsOnce /\ WorkInv /\ NodeInv /\ CountInv
    BY DEF IInv
  <1>2. /\ main = "put" /\ main' = "announce"
        /\ UNCHANGED <<failed, numthreads, active, cq, sleeping, waits, curnode, pc, mywork,
                       processed, freed, scribbled>>
    BY DEF PutJobs, conds, threads, memory
  <1>3. PICK jobs \in SetToAllKPermutations(Job) :
          wq' = [nodes |-> jobs, tail |-> IF jobs = <<>> THEN Null ELSE Last(jobs)]
    BY DEF PutJobs
  <1>4. /\ jobs \in Seq(Job)
        /\ jobs # <<>> => Last(jobs) \in Job
        /\ \A i, j \in DOMAIN jobs : i # j => jobs[i] # jobs[j]
    BY JobsOrdered
  <1>5. wq'.nodes = jobs /\ wq' \in Queue(Job)
    BY <1>3, <1>4 DEF Queue
  <1>6. TypeOK'
    BY <1>1, <1>2, <1>5 DEF TypeOK
  <1>7. processed = <<>> /\ Working = {} /\ Working' = {}
    BY <1>1, <1>2 DEF WorkInv, Working
  <1>8. DOMAIN processed' = {}
    BY <1>2, <1>7, EmptySeq, LenProperties
  <1>9. JobsOnce'
    BY <1>4, <1>5, <1>7, <1>8 DEF JobsOnce
  <1>10. WorkInv' /\ CountInv'
    BY <1>1, <1>2 DEF WorkInv, CountInv, Created
  <1>11. NodeInv'
    BY <1>1, <1>2 DEF NodeInv, Waiting
  <1>12. QED
    BY <1>6, <1>9, <1>10, <1>11 DEF IInv

\* Broadcasts, the deactivation and spurious wakeups.
LEMMA QuietInv ==
  ASSUME IInv, sleeping' \subseteq Thread, active' \in BOOLEAN, waits' \in BOOLEAN,
         \/ main' = main
         \/ main \notin {"create", "put", "join"} /\ main' \in {"sleep", "wakeall", "loop"},
         UNCHANGED <<failed, numthreads, wq, cq, curnode, threads, memory>>,
         failed => main' = main \/ main' = "loop"
  PROVE  IInv'
  <1>1. TypeOK /\ JobsOnce /\ WorkInv /\ NodeInv /\ CountInv
    BY DEF IInv
  <1>2. UNCHANGED <<failed, numthreads, wq, cq, curnode, pc, mywork, processed, freed,
                    scribbled>>
    BY DEF threads, memory
  <1>3. TypeOK'
    BY <1>1, <1>2 DEF TypeOK
  <1>4. JobsOnce' /\ Working' = Working /\ Created' = Created /\ Waiting' = Waiting
    BY <1>2, ThreadsStay
  <1>5. WorkInv'
    BY <1>1, <1>2, <1>4 DEF WorkInv
  <1>6. NodeInv'
    BY <1>1, <1>2, <1>4 DEF NodeInv
  <1>7. CountInv'
    BY <1>1, <1>2, <1>4 DEF CountInv
  <1>8. QED
    BY <1>3, <1>4, <1>5, <1>6, <1>7 DEF IInv

\* main takes a node off cq.
LEMMA AwaitNodeInv ==
  ASSUME IInv, AwaitNode
  PROVE  IInv'
  <1>1. TypeOK /\ JobsOnce /\ WorkInv /\ NodeInv /\ CountInv
    BY DEF IInv
  <1>2. CASE waits' = TRUE /\ UNCHANGED <<main, cq, curnode>>
    <2>1. sleeping \subseteq Thread /\ active \in BOOLEAN
      BY <1>1 DEF TypeOK
    <2>2. QED
      BY <1>2, <2>1, QuietInv DEF AwaitNode
  <1>3. CASE /\ cq.nodes # <<>> /\ curnode' = Head(cq.nodes) /\ cq' = queue_get(cq)
             /\ main' = "join" /\ UNCHANGED waits
    <2>1. /\ main = "loop" /\ numthreads > 0
          /\ UNCHANGED <<failed, numthreads, active, wq, sleeping, pc, mywork, processed,
                         freed, scribbled>>
      BY DEF AwaitNode, threads, memory
    <2>2. cq \in Queue(Thread) /\ cq.nodes \in Seq(Thread) /\ Waiting \subseteq Thread
      BY <1>1, WaitingType
    <2>3. cq' \in Queue(Thread) /\ curnode' \in Thread /\ cq'.nodes = Tail(cq.nodes)
      BY <1>3, <2>2, QueueType
    <2>4. /\ curnode' = cq.nodes[1] /\ 1 \in DOMAIN cq.nodes
          /\ \A i \in DOMAIN cq'.nodes :
               i + 1 \in DOMAIN cq.nodes /\ i + 1 # 1 /\ cq'.nodes[i] = cq.nodes[i + 1]
          /\ \A i, j \in DOMAIN cq'.nodes : i # j => i + 1 # j + 1
      BY <1>3, <2>2, <2>3, Tailed
    <2>5. TypeOK'
      BY <1>1, <1>3, <2>1, <2>3 DEF TypeOK
    <2>6. JobsOnce' /\ Working' = Working /\ Created' = Created
      BY <1>1, <2>1, JobsStay DEF Created
    <2>7. WorkInv' /\ CountInv'
      BY <1>1, <1>3, <2>1, <2>6 DEF WorkInv, CountInv
    <2>8. NodeInv'
      <3>1. \A i, j \in DOMAIN cq.nodes : i # j => cq.nodes[i] # cq.nodes[j]
        BY <1>1 DEF NodeInv
      <3>2. \A i, j \in DOMAIN cq'.nodes : i # j => cq'.nodes[i] # cq'.nodes[j]
        BY <2>4, <3>1
      <3>3. Waiting' \subseteq Waiting /\ curnode' \in Waiting /\ curnode' \notin Waiting'
        BY <2>4, <3>1 DEF Waiting
      <3>4. curnode' # Null
        BY <2>3, Constants
      <3>5. QED
        BY <1>1, <1>3, <2>1, <3>2, <3>3, <3>4 DEF NodeInv
    <2>9. QED
      BY <2>5, <2>6, <2>7, <2>8 DEF IInv
  <1>4. QED
    BY <1>2, <1>3 DEF AwaitNode

\* main joins a thread and frees its node: one thread fewer, and counted.
LEMMA JoinThreadInv ==
  ASSUME IInv, JoinThread
  PROVE  IInv'
  <1>1. TypeOK /\ JobsOnce /\ WorkInv /\ NodeInv /\ CountInv
    BY DEF IInv
  <1>2. /\ main = "join" /\ pc[curnode] = "ended" /\ freed' = freed \cup {curnode}
        /\ curnode' = Null /\ numthreads' = numthreads - 1 /\ main' = "loop"
        /\ UNCHANGED <<failed, active, wq, cq, sleeping, waits, pc, mywork, processed,
                       scribbled>>
    BY DEF JoinThread, conds, threads
  <1>3. curnode \in Thread /\ curnode \notin freed /\ curnode \notin Waiting
    BY <1>1, <1>2 DEF NodeInv, TypeOK
  <1>4. curnode \in Created
    BY <1>2, <1>3 DEF Created
  <1>5. JobsOnce' /\ Working' = Working /\ Created' = Created /\ Waiting' = Waiting
    BY <1>2, ThreadsStay
  <1>6. numthreads' = Cardinality(Created' \ freed') /\ numthreads' \in 0 .. Cardinality(Thread)
    <2>1. Created' \ freed' = (Created \ freed) \ {curnode}
      BY <1>2, <1>5
    <2>2. curnode \in Created \ freed
      BY <1>3, <1>4
    <2>3. IsFiniteSet(Created \ freed)
      <3>1. Created \ freed \in SUBSET Thread
        BY DEF Created
      <3>2. QED
        BY <3>1, Constants, FS_Subset
    <2>4. /\ Cardinality(Created' \ freed') = Cardinality(Created \ freed) - 1
          /\ IsFiniteSet(Created' \ freed')
      BY <2>1, <2>2, <2>3, FS_RemoveElement
    <2>5. numthreads' = Cardinality(Created' \ freed')
      BY <1>1, <1>2, <2>4 DEF CountInv
    <2>6. numthreads' \in Nat
      BY <2>4, <2>5, FS_CardinalityType
    <2>7. numthreads \in 0 .. Cardinality(Thread) /\ Cardinality(Thread) \in Nat
      BY <1>1, Constants, FS_CardinalityType DEF TypeOK
    <2>8. QED
      BY <1>2, <2>5, <2>6, <2>7
  <1>7. TypeOK'
    BY <1>1, <1>2, <1>3, <1>6 DEF TypeOK
  <1>8. WorkInv'
    BY <1>1, <1>2, <1>5 DEF WorkInv
  <1>9. NodeInv'
    <2>1. \A t \in freed' : pc'[t] = "ended"
      BY <1>1, <1>2 DEF NodeInv
    <2>2. \A t \in Waiting' \cup ({curnode'} \ {Null}) :
            pc'[t] \in {"signal", "ended"} /\ t \notin freed'
      BY <1>1, <1>2, <1>3, <1>5 DEF NodeInv
    <2>3. Null \notin Waiting'
      BY <1>1, <1>5, WaitingType, Constants
    <2>4. QED
      BY <1>1, <1>2, <2>1, <2>2, <2>3 DEF NodeInv
  <1>10. CountInv'
    BY <1>1, <1>2, <1>5, <1>6 DEF CountInv
  <1>11. QED
    BY <1>5, <1>7, <1>8, <1>9, <1>10 DEF IInv

\* When numthreads is 0, all that were created are freed.
LEMMA CleanupInv ==
  ASSUME IInv, Cleanup
  PROVE  IInv'
  <1>1. TypeOK /\ JobsOnce /\ WorkInv /\ NodeInv /\ CountInv
    BY DEF IInv
  <1>2. /\ main = "loop" /\ numthreads = 0 /\ main' = IF failed THEN "aborted" ELSE "done"
        /\ UNCHANGED <<failed, numthreads, active, wq, cq, sleeping, waits, curnode, pc,
                       mywork, processed, freed, scribbled>>
    BY DEF Cleanup, conds, threads, memory
  <1>3. TypeOK'
    BY <1>1, <1>2 DEF TypeOK
  <1>4. JobsOnce' /\ Working' = Working /\ Created' = Created /\ Waiting' = Waiting
    BY <1>2, ThreadsStay
  <1>5. WorkInv' /\ NodeInv'
    BY <1>1, <1>2, <1>4 DEF WorkInv, NodeInv
  <1>6. Created \ freed = {}
    <2>1. Created \ freed \in SUBSET Thread
      BY DEF Created
    <2>2. IsFiniteSet(Created \ freed) /\ Cardinality(Created \ freed) = 0
      BY <1>1, <1>2, <2>1, Constants, FS_Subset DEF CountInv
    <2>3. QED
      BY <2>2, FS_EmptySet
  <1>7. ~ failed => Thread \subseteq freed
    BY <1>1, <1>2, <1>6 DEF CountInv
  <1>8. CountInv'
    BY <1>1, <1>2, <1>4, <1>7 DEF CountInv
  <1>9. QED
    BY <1>3, <1>4, <1>5, <1>8 DEF IInv

\* A step that changes nothing.
LEMMA Stutter ==
  ASSUME IInv, UNCHANGED vars
  PROVE  IInv'
  BY QuietInv DEF IInv, TypeOK, vars, conds

\* The invariant of the crew holds always.
THEOREM Invariance == Spec => []IInv
  <1>1. IInv /\ [Next]_vars => IInv'
    <2> SUFFICES ASSUME IInv, [Next]_vars PROVE IInv'
      OBVIOUS
    <2>1. sleeping \subseteq Thread /\ active \in BOOLEAN /\ waits \in BOOLEAN
      BY DEF IInv, TypeOK
    <2>2. CASE MainStep
      <3>1. CASE \E t \in Thread : CreateThread(t)
        BY <3>1, CreateThreadInv
      <3>2. CASE Broadcast
        <4>1. ~ failed
          BY <3>2 DEF Broadcast, IInv, CountInv
        <4>2. QED
          BY <2>1, <3>2, <4>1, QuietInv DEF Broadcast
      <3>3. CASE Deactivate
        <4>1. ~ failed
          BY <3>3 DEF Deactivate, IInv, CountInv
        <4>2. QED
          BY <2>1, <3>3, <4>1, QuietInv DEF Deactivate, conds
      <3>4. QED
        BY <2>2, <3>1, <3>2, <3>3, PutJobsInv, AwaitNodeInv, JoinThreadInv, CleanupInv
        DEF MainStep
    <2>3. CASE CreateFails
      BY <2>3, CreateFailsInv
    <2>4. CASE SpuriousMainWake
      BY <2>1, <2>4, QuietInv DEF SpuriousMainWake
    <2>5. ASSUME NEW t \in Thread, ThreadStep(t) \/ SpuriousWake(t)
          PROVE  IInv'
      <3>1. CASE SpuriousWake(t)
        BY <2>1, <3>1, QuietInv DEF SpuriousWake
      <3>2. CASE ThreadStep(t)
        BY <3>2, EnterInv, WorkStepInv, LeaveInv, SignalEndInv DEF ThreadStep
      <3>3. QED
        BY <2>5, <3>1, <3>2
    <2>6. QED
      BY <2>2, <2>3, <2>4, <2>5, Stutter DEF Next
  <1>2. QED
    BY InitInv, <1>1, PTL DEF Spec

-----------------------------------------------------------------------------
\* Type correctness of the crew.
THEOREM TypeCorrect == Spec => []TypeOK
  <1>1. IInv => TypeOK
    BY DEF IInv
  <1>2. QED
    BY <1>1, Invariance, PTL

\* No job is taken by two threads, done twice, or taken again when it is done.
THEOREM JobsOnceHolds == Spec => []JobsOnce
  <1>1. IInv => JobsOnce
    BY DEF IInv
  <1>2. QED
    BY <1>1, Invariance, PTL

\* main frees a node, and destroys what threads wait on, after their threads ended.
THEOREM NobodyLeftHolds == Spec => []NobodyLeft
  <1>1. IInv => NobodyLeft
    BY DEF IInv, NodeInv, CountInv, NobodyLeft
  <1>2. QED
    BY <1>1, Invariance, PTL

=============================================================================
