----------------------------- MODULE RawServer -----------------------------
(***************************************************************************)
(* TRawServer (libspider/RawServer.cpp) and its TPoller: one thread accepts *)
(* connections on the status port, waits with epoll until a connection can  *)
(* be read, then until it can be written, and closes it.  Socket objects    *)
(* are kept in a pool and used again.  When the loop ends, Exit stops the   *)
(* crawler; running is the crawler's m_running.                             *)
(*                                                                         *)
(* Peers connect, send or close ("sent") and reset at any time, also        *)
(* between epoll_wait and the handling of what it returned.                 *)
(*                                                                         *)
(* The thread calls Init twice, in thread_start and in Run; what the first  *)
(* call listens on stays open, and nothing is accepted there.               *)
(***************************************************************************)
EXTENDS Naturals, Sequences, FiniteSets, SequencesExt

CONSTANTS
  Conn,         \* the connections, in the kernel: a connection is its descriptor
  Obj,          \* the addresses of TcpSocket objects
  Listener,     \* m_listensocket
  MinSpare,     \* MIN_SPARE_SOCKETS
  MaxSpare,     \* MAX_SPARE_SOCKETS
  None          \* no connection, INVALID_SOCKET

\* What epoll has of a connection: its data.ptr and what it waits for.
Interest == SUBSET {"in", "out"}
Watch == [skp : Obj, events : Interest]

ASSUME RawServerAssumption ==
  /\ IsFiniteSet(Obj) /\ Cardinality(Obj) >= 2 * MinSpare + Cardinality(Conn)
  /\ IsFiniteSet(Conn) /\ None \notin Conn \cup Watch /\ Listener \notin Obj
  /\ MinSpare \in Nat /\ MaxSpare \in Nat /\ 2 * MinSpare <= MaxSpare

VARIABLES
  srv,          \* where the thread is
  pollable,     \* whether epoll_wait succeeds: m_epfd and m_nevents
  made,         \* the TcpSocket objects there are
  spare,        \* m_sparesockets
  fd,           \* m_sock of each object
  canRead,      \* m_canRead
  canWrite,     \* m_canWrite
  watched,      \* what epoll has registered for each connection
  batch,        \* the events of m_pevents still to be handled
  peer,         \* what the client of each connection has done
  backlog,      \* the connections waiting to be accepted
  orphans,      \* those that wait at the port of the first Init
  running       \* TCrawler::m_running

objects == <<made, spare, fd, canRead, canWrite>>
clients == <<peer, backlog, orphans>>
svars == <<srv, pollable, objects, watched, batch, clients, running>>

\* conn, the descriptor the event is for, is not part of the event in the code.
Event == [skp : Obj \cup {Listener}, conn : Conn \cup {None},
          wevt : SUBSET {"in", "out", "err"}]

TypeOK ==
  /\ srv \in {"off", "init", "run", "poll", "exit", "gone"}
  /\ pollable \in BOOLEAN /\ running \in BOOLEAN
  /\ made \subseteq Obj /\ spare \in Seq(made) /\ Len(spare) <= MaxSpare
  /\ fd \in [Obj -> Conn \cup {None}]
  /\ canRead \in [Obj -> BOOLEAN] /\ canWrite \in [Obj -> BOOLEAN]
  /\ watched \in [Conn -> Watch \cup {None}]
  /\ batch \in Seq(Event)
  /\ peer \in [Conn -> {"away", "quiet", "sent", "reset"}]
  /\ backlog \in Seq(Conn) /\ orphans \subseteq Conn

-----------------------------------------------------------------------------
\* TPoller leaves m_nevents uninitialised (start() sets a local variable of that
\* name), so that epoll_wait may refuse it; epoll_create may fail too.
Init ==
  /\ srv = "off" /\ pollable \in BOOLEAN /\ running = TRUE
  /\ made = {} /\ spare = <<>>
  /\ fd = [o \in Obj |-> None]
  /\ canRead = [o \in Obj |-> FALSE] /\ canWrite = [o \in Obj |-> FALSE]
  /\ watched = [c \in Conn |-> None]
  /\ batch = <<>>
  /\ peer = [c \in Conn |-> "away"] /\ backlog = <<>> /\ orphans = {}

\* TThread::Create at the end of TRawServer::start.
Create ==
  /\ srv = "off"
  /\ srv' = "init"
  /\ UNCHANGED <<pollable, objects, watched, batch, clients, running>>

\* TRawServer::Init, called by thread_start and again by Run: spare objects for the
\* pool, and the first free port of nine, or none.
InitServer ==
  /\ srv \in {"init", "run"}
  /\ \E o \in SetToAllKPermutations(Obj \ made) :
       /\ Len(o) = MinSpare
       /\ spare' = spare \o o /\ made' = made \cup {o[i] : i \in DOMAIN o}
  /\ srv' \in {IF srv = "init" THEN "run" ELSE "poll", "exit"}
  /\ UNCHANGED <<pollable, fd, canRead, canWrite, watched, batch, clients, running>>

-----------------------------------------------------------------------------
\* The events a connection has, with level triggering; EPOLLERR needs no mask.
Ready(c) ==
  IF watched[c] = None THEN {}
  ELSE IF peer[c] = "reset" THEN {"err"}
  ELSE watched[c].events \cap ({"out"} \cup IF peer[c] = "sent" THEN {"in"} ELSE {})

Events ==
  {[skp |-> watched[c].skp, conn |-> c, wevt |-> Ready(c)] :
     c \in {d \in Conn : Ready(d) # {}}}
  \cup IF backlog = <<>> THEN {}
       ELSE {[skp |-> Listener, conn |-> None, wevt |-> {"in"}]}

\* epoll_wait returns some of them, in any order; none after 200 ms.
Poll ==
  /\ srv = "poll" /\ batch = <<>>
  /\ pollable
  /\ batch' \in SetToAllKPermutations(Events) \ {<<>>}
  /\ UNCHANGED <<srv, pollable, objects, watched, clients, running>>

\* rc < 0 ends the loop: a bad m_epfd or m_nevents, or EINTR.
PollFails ==
  /\ srv = "poll" /\ batch = <<>>
  /\ srv' = "exit"
  /\ UNCHANGED <<pollable, objects, watched, batch, clients, running>>

\* handleEvent looks at the next event: EPOLLERR turns it into SelectFlags,
\* which are SF_NONE for a connection.
Handling(e) ==
  /\ srv = "poll" /\ batch # <<>>
  /\ Head(batch).skp # Listener
  /\ e = IF "err" \in Head(batch).wevt THEN "none"
         ELSE IF "in" \in Head(batch).wevt THEN "read" ELSE "write"
  /\ batch' = Tail(batch)
Skp == Head(batch).skp

Masked(r, w) ==
  {e \in {"in", "out"} : (e = "in" /\ r) \/ (e = "out" /\ w)}

\* Fault: the write mask is not set.
HandleReadDeaf ==
  /\ Handling("read")
  /\ canRead' = [canRead EXCEPT ![Skp] = FALSE]
  /\ watched' = [watched EXCEPT ![fd[Skp]] = [skp |-> Skp,
                   events |-> Masked(canRead'[Skp], canWrite[Skp])]]
  /\ UNCHANGED <<srv, pollable, made, spare, fd, canWrite, clients, running>>

\* handleRead is empty; then the connection is watched for writing.
HandleRead ==
  /\ Handling("read")
  /\ canRead' = [canRead EXCEPT ![Skp] = FALSE]
  /\ canWrite' = [canWrite EXCEPT ![Skp] = TRUE]
  /\ watched' = [watched EXCEPT ![fd[Skp]] = [skp |-> Skp,
                   events |-> Masked(canRead'[Skp], canWrite'[Skp])]]
  /\ UNCHANGED <<srv, pollable, made, spare, fd, clients, running>>

\* delSocket, and close: by the destructor or by closeSocket.
Hangup(o) ==
  /\ watched' = [watched EXCEPT ![fd[o]] = None]
  /\ peer' = [peer EXCEPT ![fd[o]] = "away"]
  /\ fd' = [fd EXCEPT ![o] = None]

\* Fault: the pool takes one object more.
KeepOneMore ==
  /\ Handling("write")
  /\ Len(spare) <= MaxSpare
  /\ Hangup(Skp)
  /\ spare' = Append(spare, Skp)
  /\ canRead' = [canRead EXCEPT ![Skp] = FALSE]
  /\ canWrite' = [canWrite EXCEPT ![Skp] = FALSE]
  /\ UNCHANGED <<srv, pollable, made, backlog, orphans, running>>

\* Fault: the masks of the object are left as they are.
KeepMasks ==
  /\ Handling("write")
  /\ Len(spare) < MaxSpare
  /\ Hangup(Skp)
  /\ spare' = Append(spare, Skp)
  /\ UNCHANGED <<srv, pollable, made, canRead, canWrite, backlog, orphans, running>>

\* The write event: the connection is done, and its object goes to the pool,
Keep ==
  /\ Handling("write")
  /\ Len(spare) < MaxSpare
  /\ Hangup(Skp)
  /\ spare' = Append(spare, Skp)
  /\ canRead' = [canRead EXCEPT ![Skp] = FALSE]
  /\ canWrite' = [canWrite EXCEPT ![Skp] = FALSE]
  /\ UNCHANGED <<srv, pollable, made, backlog, orphans, running>>

\* or is deleted when the pool is full; what lies there afterwards is no object's.
Delete ==
  /\ Handling("write")
  /\ Len(spare) >= MaxSpare
  /\ Hangup(Skp)
  /\ made' = made \ {Skp}
  /\ canRead' = [canRead EXCEPT ![Skp] = FALSE]
  /\ canWrite' = [canWrite EXCEPT ![Skp] = FALSE]
  /\ UNCHANGED <<srv, pollable, spare, backlog, orphans, running>>

IgnoreError ==
  /\ Handling("none")
  /\ UNCHANGED <<srv, pollable, objects, watched, clients, running>>

HandlingAccept ==
  /\ srv = "poll" /\ batch # <<>>
  /\ Head(batch).skp = Listener
  /\ batch' = Tail(batch)

\* attach, setMaskRead(true) and addSocket.
Serve(o, c) ==
  /\ fd' = [fd EXCEPT ![o] = c]
  /\ canRead' = [canRead EXCEPT ![o] = TRUE]
  /\ watched' = [watched EXCEPT ![c] = [skp |-> o, events |-> Masked(TRUE, canWrite[o])]]

\* Fault: the object stays in the pool.
AcceptNoPop ==
  /\ HandlingAccept
  /\ backlog # <<>>
  /\ backlog' = Tail(backlog)
  /\ IF spare # <<>>
     THEN Serve(Head(spare), Head(backlog)) /\ UNCHANGED made
     ELSE \E o \in Obj \ made : Serve(o, Head(backlog)) /\ made' = made \cup {o}
  /\ UNCHANGED <<srv, pollable, spare, canWrite, peer, orphans, running>>

\* Accept takes one connection, into the first spare object or a new one.
Accept ==
  /\ HandlingAccept
  /\ backlog # <<>>
  /\ backlog' = Tail(backlog)
  /\ IF spare # <<>>
     THEN /\ Serve(Head(spare), Head(backlog))
          /\ spare' = Tail(spare)
          /\ UNCHANGED made
     ELSE /\ \E o \in Obj \ made : Serve(o, Head(backlog)) /\ made' = made \cup {o}
          /\ UNCHANGED spare
  /\ UNCHANGED <<srv, pollable, canWrite, peer, orphans, running>>

\* accept returns INVALID_SOCKET, as when there are no descriptors left.
AcceptFails ==
  /\ HandlingAccept
  /\ UNCHANGED <<srv, pollable, objects, watched, clients, running>>

\* Fault: the crawler is not stopped.
ExitSilent ==
  /\ srv = "exit"
  /\ srv' = "gone"
  /\ UNCHANGED <<pollable, objects, watched, batch, clients, running>>

\* TRawServer::Exit: TCrawler::stop.
Exit ==
  /\ srv = "exit"
  /\ srv' = "gone"
  /\ running' = FALSE
  /\ UNCHANGED <<pollable, objects, watched, batch, clients>>

-----------------------------------------------------------------------------
\* To the port of the second Init, or of the first.
Connect(c) ==
  /\ srv = "poll" /\ peer[c] = "away"
  /\ peer' = [peer EXCEPT ![c] = "quiet"]
  /\ \/ backlog' = Append(backlog, c) /\ UNCHANGED orphans
     \/ orphans' = orphans \cup {c} /\ UNCHANGED backlog
  /\ UNCHANGED <<srv, pollable, objects, watched, batch, running>>

Send(c) ==
  /\ peer[c] = "quiet"
  /\ peer' = [peer EXCEPT ![c] = "sent"]
  /\ UNCHANGED <<srv, pollable, objects, watched, batch, backlog, orphans, running>>

Reset(c) ==
  /\ peer[c] \in {"quiet", "sent"}
  /\ peer' = [peer EXCEPT ![c] = "reset"]
  /\ UNCHANGED <<srv, pollable, objects, watched, batch, backlog, orphans, running>>

\* What the thread does unless epoll_wait is interrupted.
Work ==
  \/ Create \/ InitServer \/ Poll \/ (~ pollable /\ PollFails)
  \/ HandleRead \/ Keep \/ Delete \/ IgnoreError \/ Accept \/ AcceptFails
  \/ Exit

ServerStep == Work \/ PollFails

Next ==
  \/ ServerStep
  \/ \E c \in Conn : Connect(c) \/ Send(c) \/ Reset(c)

Spec == Init /\ [][Next]_svars

\* The thread runs, and need not be interrupted.  epoll_wait returns the ready descriptors in turn, so that a
\* connection that stays ready is in a batch again and again; and accept does
\* not fail for ever.
PollOf(o) == Poll /\ \E i \in DOMAIN batch' : batch'[i].skp = o
Fairness ==
  /\ WF_svars(Work)
  /\ \A o \in Obj \cup {Listener} : SF_svars(PollOf(o))
  /\ SF_svars(Accept)
FairSpec == Spec /\ Fairness

-----------------------------------------------------------------------------
\* Every socket object has one owner: it is in the pool once, closed, or it is
\* the object of the one connection that epoll reports with it (handleEvent).
Held(o) == {c \in Conn : watched[c] # None /\ watched[c].skp = o}
OneOwner ==
  /\ \A i, j \in DOMAIN spare : i # j => spare[i] # spare[j]
  /\ \A o \in made :
       IF \E i \in DOMAIN spare : spare[i] = o
       THEN fd[o] = None /\ Held(o) = {}
       ELSE fd[o] # None /\ Held(o) = {fd[o]}
  /\ \A c \in Conn : watched[c] # None => watched[c].skp \in made

\* An event of the batch is for a connection that its object still serves,
\* whatever the events before it did: no event is handled for an object that was
\* closed, deleted or given to another connection since epoll_wait returned.
BatchFresh ==
  srv = "poll" =>
    \A i \in DOMAIN batch :
      \/ batch[i].skp = Listener
      \/ batch[i].skp \in made /\ fd[batch[i].skp] = batch[i].conn

\* A client that has neither sent nor closed is never hung up on, whatever the
\* object that serves it served before.
HeardFirst == [][\A c \in Conn : peer[c] = "quiet" => peer'[c] # "away"]_svars

\* While the loop runs, a client that sent and does not reset the connection is
\* hung up on in the end: its connection is accepted, read and written.
HungUp(c) == peer[c] # "sent" \/ srv \in {"exit", "gone"}
Served == \A c \in Conn : (peer[c] = "sent" /\ c \notin orphans) ~> HungUp(c)

\* What RawServer.cpp:238 logs of each port that Init opens: the server listens
\* there.  Violated: on the port of the first Init nothing is ever accepted.
ServedOnEveryPort == \A c \in Conn : peer[c] = "sent" ~> HungUp(c)

=============================================================================
