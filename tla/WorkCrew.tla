------------------------------ MODULE WorkCrew ------------------------------
(***************************************************************************)
(* The work crew of build/workcrew.cpp: main creates threads, puts jobs on  *)
(* the work queue wq, deactivates it after two seconds, and joins each      *)
(* thread when the thread has put its node on the cleanup queue cq.         *)
(*                                                                         *)
(* wq and cq have a mutex and a condition variable each.  What is done      *)
(* under one mutex is one step; a broadcast or signal after the unlock is   *)
(* another.                                                                 *)
(***************************************************************************)
EXTENDS Naturals, Sequences, FiniteSets, SequencesExt

CONSTANTS
  Thread,       \* the threads of the crew, each with its cleanup node
  Job,          \* the jobs, each with its work node
  Null

ASSUME WorkCrewAssumption ==
  IsFiniteSet(Thread) /\ IsFiniteSet(Job) /\ Null \notin Thread \cup Job

VARIABLES
  main,         \* where main is
  failed,       \* whether create_threads returned 1
  numthreads,   \* threads created and not joined
  active,       \* wq.control.active
  wq,           \* the work queue
  cq,           \* the cleanup queue
  sleeping,     \* the threads that wait on wq.control.cond
  waits,        \* whether main waits on cq.control.cond
  curnode,      \* the node main took from cq
  pc,           \* where each thread is
  mywork,       \* the job of each thread
  processed,    \* the jobs processed so far, in order
  freed,        \* the cleanup nodes freed
  scribbled     \* the cleanup nodes written to after they were freed

conds == <<sleeping, waits>>
threads == <<pc, mywork, processed>>
memory == <<freed, scribbled>>
vars == <<main, failed, numthreads, active, wq, cq, conds, curnode, threads, memory>>

Queue(S) == [nodes : Seq(S), tail : S \cup {Null}]

TypeOK ==
  /\ main \in {"create", "put", "announce", "sleep", "wakeall", "loop", "join",
               "done", "aborted"}
  /\ failed \in BOOLEAN /\ active \in BOOLEAN /\ waits \in BOOLEAN
  /\ numthreads \in 0 .. Cardinality(Thread)
  /\ wq \in Queue(Job) /\ cq \in Queue(Thread)
  /\ sleeping \subseteq Thread
  /\ curnode \in Thread \cup {Null}
  /\ pc \in [Thread -> {"absent", "enter", "wait", "work", "leave", "signal", "ended"}]
  /\ mywork \in [Thread -> Job \cup {Null}]
  /\ processed \in Seq(Job)
  /\ freed \subseteq Thread /\ scribbled \subseteq Thread

-----------------------------------------------------------------------------
\* queue_init, queue_put and queue_get.  head is the first of nodes; queue_get
\* does not touch tail, which still points to the last node when it is gone.
Empty == [nodes |-> <<>>, tail |-> Null]
queue_put(q, n) == [nodes |-> Append(q.nodes, n), tail |-> n]

\* Fault: the head is not advanced.
queue_peek(q) == q
queue_get(q) == [q EXCEPT !.nodes = Tail(q.nodes)]

\* initialize_structs
Init ==
  /\ main = "create" /\ failed = FALSE /\ numthreads = 0 /\ active = TRUE
  /\ wq = Empty /\ cq = Empty
  /\ sleeping = {} /\ waits = FALSE /\ curnode = Null
  /\ pc = [t \in Thread |-> "absent"]
  /\ mywork = [t \in Thread |-> Null] /\ processed = <<>>
  /\ freed = {} /\ scribbled = {}

-----------------------------------------------------------------------------
\* Fault: an if instead of the inner while: the queue is not looked at again.
EnterIf(t) ==
  /\ pc[t] = "wait" /\ t \notin sleeping
  /\ pc' = [pc EXCEPT ![t] = IF active THEN "work" ELSE "leave"]
  /\ IF active /\ wq.nodes # <<>>
     THEN mywork' = [mywork EXCEPT ![t] = Head(wq.nodes)] /\ wq' = queue_get(wq)
     ELSE UNCHANGED <<mywork, wq>>
  /\ UNCHANGED <<main, failed, numthreads, active, sleeping, cq, waits, curnode, processed,
                 memory>>
EnterUnsure(t) ==
  \/ EnterIf(t)
  \/ /\ pc[t] = "enter" /\ active /\ wq.nodes = <<>>
     /\ pc' = [pc EXCEPT ![t] = "wait"] /\ sleeping' = sleeping \cup {t}
     /\ UNCHANGED <<main, failed, numthreads, active, wq, mywork, cq, waits, curnode,
                    processed, memory>>

\* threadfunc, from the lock of wq on: wait while there is no job, leave when wq
\* is not active, otherwise take a job.
Enter(t) ==
  /\ pc[t] = "enter" \/ (pc[t] = "wait" /\ t \notin sleeping)
  /\ IF ~ active
     THEN /\ pc' = [pc EXCEPT ![t] = "leave"]
          /\ UNCHANGED <<sleeping, wq, mywork>>
     ELSE IF wq.nodes = <<>>
     THEN /\ pc' = [pc EXCEPT ![t] = "wait"]
          /\ sleeping' = sleeping \cup {t}
          /\ UNCHANGED <<wq, mywork>>
     ELSE /\ pc' = [pc EXCEPT ![t] = "work"]
          /\ mywork' = [mywork EXCEPT ![t] = Head(wq.nodes)]
          /\ wq' = queue_get(wq)
          /\ UNCHANGED sleeping
  /\ UNCHANGED <<main, failed, numthreads, active, cq, waits, curnode, processed, memory>>

SpuriousWake(t) ==
  /\ t \in sleeping
  /\ sleeping' = sleeping \ {t}
  /\ UNCHANGED <<main, failed, numthreads, active, wq, cq, waits, curnode, threads, memory>>

\* The job is processed and its node freed.
Work(t) ==
  /\ pc[t] = "work"
  /\ processed' = Append(processed, mywork[t])
  /\ mywork' = [mywork EXCEPT ![t] = Null]
  /\ pc' = [pc EXCEPT ![t] = "enter"]
  /\ UNCHANGED <<main, failed, numthreads, active, wq, cq, conds, curnode, memory>>

\* The thread's node goes to cq, which writes to the node at its tail.
Leave(t) ==
  /\ pc[t] = "leave"
  /\ scribbled' = scribbled \cup ({cq.tail} \cap freed)
  /\ cq' = queue_put(cq, t)
  /\ pc' = [pc EXCEPT ![t] = "signal"]
  /\ UNCHANGED <<main, failed, numthreads, active, wq, conds, curnode, mywork, processed,
                 freed>>

\* Fault: main is not told.
EndSilently(t) ==
  /\ pc[t] = "signal"
  /\ pc' = [pc EXCEPT ![t] = "ended"]
  /\ UNCHANGED <<main, failed, numthreads, active, wq, cq, conds, curnode, mywork,
                 processed, memory>>

\* pthread_cond_signal(&cq.control.cond), for which only main can be waiting.
SignalEnd(t) ==
  /\ pc[t] = "signal"
  /\ pc' = [pc EXCEPT ![t] = "ended"]
  /\ waits' = FALSE
  /\ UNCHANGED <<main, failed, numthreads, active, wq, cq, sleeping, curnode, mywork,
                 processed, memory>>

-----------------------------------------------------------------------------
\* create_threads
CreateThread(t) ==
  /\ main = "create" /\ pc[t] = "absent"
  /\ pc' = [pc EXCEPT ![t] = "enter"]
  /\ numthreads' = numthreads + 1
  /\ main' = IF numthreads' = Cardinality(Thread) THEN "put" ELSE "create"
  /\ UNCHANGED <<failed, active, wq, cq, conds, curnode, mywork, processed, memory>>

\* malloc or pthread_create fails: main joins the threads there are, then aborts.
CreateFails ==
  /\ main = "create"
  /\ failed' = TRUE
  /\ main' = "loop"
  /\ UNCHANGED <<numthreads, active, wq, cq, conds, curnode, threads, memory>>

\* The jobs are put under one lock; malloc may fail on the way.
PutJobs ==
  /\ main = "put"
  /\ \E jobs \in SetToAllKPermutations(Job) :
       wq' = [nodes |-> jobs, tail |-> IF jobs = <<>> THEN Null ELSE Last(jobs)]
  /\ main' = "announce"
  /\ UNCHANGED <<failed, numthreads, active, cq, conds, curnode, threads, memory>>

\* pthread_cond_broadcast(&wq.control.cond): after the jobs are put, and in
\* control_deactivate.
Broadcast ==
  /\ main \in {"announce", "wakeall"}
  /\ sleeping' = {}
  /\ main' = IF main = "announce" THEN "sleep" ELSE "loop"
  /\ UNCHANGED <<failed, numthreads, active, wq, cq, waits, curnode, threads, memory>>

\* Fault: control_deactivate does not broadcast.
DeactivateSilently ==
  /\ main = "sleep"
  /\ active' = FALSE
  /\ main' = "loop"
  /\ UNCHANGED <<failed, numthreads, wq, cq, conds, curnode, threads, memory>>

\* The two seconds are over.
Deactivate ==
  /\ main = "sleep"
  /\ active' = FALSE
  /\ main' = "wakeall"
  /\ UNCHANGED <<failed, numthreads, wq, cq, conds, curnode, threads, memory>>

-----------------------------------------------------------------------------
\* join_threads: wait for a node on cq, take it,
AwaitNode ==
  /\ main = "loop" /\ numthreads > 0 /\ ~ waits
  /\ IF cq.nodes = <<>>
     THEN waits' = TRUE /\ UNCHANGED <<main, cq, curnode>>
     ELSE /\ curnode' = Head(cq.nodes)
          /\ cq' = queue_get(cq)
          /\ main' = "join"
          /\ UNCHANGED waits
  /\ UNCHANGED <<failed, numthreads, active, wq, sleeping, threads, memory>>

SpuriousMainWake ==
  /\ waits
  /\ waits' = FALSE
  /\ UNCHANGED <<main, failed, numthreads, active, wq, cq, sleeping, curnode, threads,
                 memory>>

\* Fault: the thread is not joined.
ForgetThread ==
  /\ main = "join"
  /\ freed' = freed \cup {curnode}
  /\ curnode' = Null
  /\ numthreads' = numthreads - 1
  /\ main' = "loop"
  /\ UNCHANGED <<failed, active, wq, cq, conds, threads, scribbled>>

\* join its thread, which returns when the thread has ended, and free the node.
JoinThread ==
  /\ main = "join"
  /\ pc[curnode] = "ended"
  /\ freed' = freed \cup {curnode}
  /\ curnode' = Null
  /\ numthreads' = numthreads - 1
  /\ main' = "loop"
  /\ UNCHANGED <<failed, active, wq, cq, conds, threads, scribbled>>

\* cleanup_structs destroys cq and wq; dabort when create_threads failed.
Cleanup ==
  /\ main = "loop" /\ numthreads = 0
  /\ main' = IF failed THEN "aborted" ELSE "done"
  /\ UNCHANGED <<failed, numthreads, active, wq, cq, conds, curnode, threads, memory>>

ThreadStep(t) == Enter(t) \/ Work(t) \/ Leave(t) \/ SignalEnd(t)
MainStep ==
  \/ \E t \in Thread : CreateThread(t)
  \/ PutJobs \/ Broadcast \/ Deactivate \/ AwaitNode \/ JoinThread \/ Cleanup

Next ==
  \/ MainStep \/ CreateFails \/ SpuriousMainWake
  \/ \E t \in Thread : ThreadStep(t) \/ SpuriousWake(t)

Spec == Init /\ [][Next]_vars

\* Threads that can run do run; sleep(2) ends.
FairSpec == Spec /\ WF_vars(MainStep) /\ \A t \in Thread : WF_vars(ThreadStep(t))

-----------------------------------------------------------------------------
\* A job is in one place: it waits in wq, one thread works on it, or it was
\* processed, once (threadfunc takes it under the mutex and frees it without).
Working == {t \in Thread : mywork[t] # Null}
JobsOnce ==
  /\ \A i, j \in DOMAIN wq.nodes : i # j => wq.nodes[i] # wq.nodes[j]
  /\ \A i, j \in DOMAIN processed : i # j => processed[i] # processed[j]
  /\ \A s, t \in Working : s # t => mywork[s] # mywork[t]
  /\ \A t \in Working :
       /\ \A i \in DOMAIN wq.nodes : wq.nodes[i] # mywork[t]
       /\ \A i \in DOMAIN processed : processed[i] # mywork[t]
  /\ \A i \in DOMAIN wq.nodes, j \in DOMAIN processed : wq.nodes[i] # processed[j]

\* When main destroys the mutexes and condition variables, and when it frees a
\* cleanup node, no thread that uses them is left: the thread has sent its signal.
NobodyLeft ==
  /\ main = "done" => \A t \in Thread : pc[t] = "ended"
  /\ \A t \in freed : pc[t] = "ended"

\* main comes to its end: no thread sleeps through the deactivation, and main
\* sleeps through no thread's end, although both are announced after the unlock.
CrewEnds == <>(main = "done" \/ failed)

\* What build/workcrew.cpp:240 says of a node: it is first removed from the queue.
\* Violated: queue_get leaves the tail, and queue_put writes to the freed node.
RemovedFirst == scribbled = {}

=============================================================================
