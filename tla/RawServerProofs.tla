-------------------------- MODULE RawServerProofs --------------------------
(***************************************************************************)
(* Safety of the status server, for any number of clients and any pool: the *)
(* owner of a socket object, the events of a batch, and whom it hangs up on.*)
(***************************************************************************)
EXTENDS RawServer, TLAPS, FiniteSetTheorems, SequenceTheorems

Elems(s) == {s[i] : i \in DOMAIN s}
Distinct(s) == \A i, j \in DOMAIN s : i # j => s[i] # s[j]

Spares == Elems(spare)
Backlog == Elems(backlog)
Heard == {"sent", "reset"}

\* The pool: what is in it is in it once, and clean, as is what was not made yet.
PoolInv ==
  /\ Distinct(spare)
  /\ \A o \in Spares \cup (Obj \ made) : fd[o] = None /\ ~ canWrite[o]
  /\ srv \in {"off", "init"} => spare = <<>>
  /\ srv = "run" => Len(spare) <= MinSpare

\* OneOwner, connection by connection.
OwnerInv ==
  /\ \A o \in made \ Spares :
       fd[o] \in Conn /\ watched[fd[o]] # None /\ watched[fd[o]].skp = o
  /\ \A c \in Conn :
       watched[c] # None => watched[c].skp \in made \ Spares /\ fd[watched[c].skp] = c

\* A connection waits in the backlog once, or is registered; it is registered for
\* writing only after its client was heard.
ConnInv ==
  /\ Distinct(backlog)
  /\ \A c \in Backlog : peer[c] # "away" /\ watched[c] = None
  /\ \A c \in Conn : watched[c] # None =>
       peer[c] # "away" /\ ("out" \in watched[c].events => peer[c] \in Heard)

\* The events of a batch are of different objects, and of clients that were heard.
BatchInv ==
  /\ srv # "poll" => batch = <<>>
  /\ \A i, j \in DOMAIN batch : i # j => batch[i].skp # batch[j].skp
  /\ \A i \in DOMAIN batch : batch[i].skp # Listener =>
       /\ batch[i].skp \in made /\ fd[batch[i].skp] = batch[i].conn
       /\ batch[i].conn \in Conn /\ peer[batch[i].conn] \in Heard

IInv == TypeOK /\ PoolInv /\ OwnerInv /\ ConnInv /\ BatchInv

-----------------------------------------------------------------------------
\* What the constants are assumed to be.
LEMMA Constants ==
  /\ IsFiniteSet(Obj) /\ IsFiniteSet(Conn)
  /\ None \notin Conn /\ None \notin Watch /\ Listener \notin Obj
  /\ MinSpare \in Nat /\ MaxSpare \in Nat /\ 2 * MinSpare <= MaxSpare
  BY RawServerAssumption

\* The elements of a sequence are in its range.
LEMMA Elements ==
  ASSUME NEW T, NEW s \in Seq(T)
  PROVE  /\ Elems(s) \subseteq T
         /\ DOMAIN s = 1 .. Len(s) /\ Len(s) \in Nat
  <1>1. DOMAIN s = 1 .. Len(s) /\ Len(s) \in Nat
    BY LenProperties
  <1>2. \A i \in DOMAIN s : s[i] \in T
    BY <1>1, ElementOfSeq
  <1>3. QED
    BY <1>1, <1>2 DEF Elems

\* The empty sequence has none.
LEMMA EmptyElements == Elems(<<>>) = {} /\ Distinct(<<>>) /\ DOMAIN <<>> = {}
  <1>1. DOMAIN <<>> = {}
    BY EmptySeq, LenProperties
  <1>2. QED
    BY <1>1 DEF Elems, Distinct

\* Appending adds one element.
LEMMA Appended ==
  ASSUME NEW T, NEW s \in Seq(T), NEW e \in T
  PROVE  /\ Append(s, e) \in Seq(T) /\ Len(Append(s, e)) = Len(s) + 1
         /\ Elems(Append(s, e)) = Elems(s) \cup {e}
         /\ (Distinct(s) /\ e \notin Elems(s)) => Distinct(Append(s, e))
  <1>1. DOMAIN s = 1 .. Len(s) /\ Len(s) \in Nat
    BY Elements
  <1>2. /\ Append(s, e) \in Seq(T) /\ Len(Append(s, e)) = Len(s) + 1
        /\ \A i \in 1 .. Len(s) : Append(s, e)[i] = s[i]
        /\ Append(s, e)[Len(s) + 1] = e
    BY AppendProperties
  <1>3. DOMAIN Append(s, e) = 1 .. Len(s) + 1
    BY <1>2, Elements
  <1>4. \A i \in DOMAIN Append(s, e) :
          \/ i \in DOMAIN s /\ Append(s, e)[i] = s[i]
          \/ i = Len(s) + 1 /\ Append(s, e)[i] = e
    BY <1>1, <1>2, <1>3
  <1>5. DOMAIN s \subseteq DOMAIN Append(s, e) /\ Len(s) + 1 \in DOMAIN Append(s, e)
    BY <1>1, <1>3
  <1>6. Elems(Append(s, e)) = Elems(s) \cup {e}
    BY <1>1, <1>2, <1>4, <1>5 DEF Elems
  <1>7. ASSUME Distinct(s), e \notin Elems(s)
        PROVE  Distinct(Append(s, e))
    <2>1. \A i \in DOMAIN s : s[i] # e
      BY <1>7 DEF Elems
    <2>2. QED
      BY <1>4, <1>7, <2>1 DEF Distinct
  <1>8. QED
    BY <1>2, <1>6, <1>7

\* The tail loses the head and nothing else.
LEMMA Tailed ==
  ASSUME NEW T, NEW s \in Seq(T), s # <<>>
  PROVE  /\ Tail(s) \in Seq(T) /\ Len(Tail(s)) < Len(s)
         /\ Head(s) = s[1] /\ 1 \in DOMAIN s /\ Head(s) \in Elems(s) /\ Head(s) \in T
         /\ \A i \in DOMAIN Tail(s) : i + 1 \in DOMAIN s /\ i + 1 # 1 /\ Tail(s)[i] = s[i + 1]
         /\ \A i, j \in DOMAIN Tail(s) : i # j => i + 1 # j + 1
         /\ Elems(Tail(s)) \subseteq Elems(s)
         /\ Distinct(s) => Distinct(Tail(s)) /\ Elems(Tail(s)) = Elems(s) \ {Head(s)}
  <1>1. Len(s) \in Nat \ {0} /\ DOMAIN s = 1 .. Len(s)
    BY Elements, EmptySeq
  <1>2. /\ Tail(s) \in Seq(T) /\ Head(s) \in T
        /\ Len(Tail(s)) = Len(s) - 1
        /\ \A i \in 1 .. Len(Tail(s)) : Tail(s)[i] = s[i + 1]
    BY HeadTailProperties
  <1>3. DOMAIN Tail(s) = 1 .. Len(s) - 1
    BY <1>2, Elements
  <1>4. Head(s) = s[1]
    <2>1. Head(SubSeq(s, 1, Len(s))) = s[1]
      BY <1>1, HeadTailOfSubSeq
    <2>2. QED
      BY <2>1, SubSeqFull
  <1>5. /\ \A i \in DOMAIN Tail(s) : i + 1 \in DOMAIN s /\ i + 1 # 1 /\ Tail(s)[i] = s[i + 1]
        /\ \A i, j \in DOMAIN Tail(s) : i # j => i + 1 # j + 1
        /\ 1 \in DOMAIN s /\ Len(Tail(s)) < Len(s)
    BY <1>1, <1>2, <1>3
  <1>6. Elems(Tail(s)) \subseteq Elems(s) /\ Head(s) \in Elems(s)
    BY <1>4, <1>5 DEF Elems
  <1>7. ASSUME Distinct(s)
        PROVE  Distinct(Tail(s)) /\ Elems(Tail(s)) = Elems(s) \ {Head(s)}
    <2>1. Distinct(Tail(s))
      BY <1>5, <1>7 DEF Distinct
    <2>2. Head(s) \notin Elems(Tail(s))
      BY <1>4, <1>5, <1>7 DEF Distinct, Elems
    <2>3. \A i \in DOMAIN s : i = 1 \/ (i - 1 \in DOMAIN Tail(s) /\ Tail(s)[i - 1] = s[i])
      BY <1>1, <1>2, <1>3
    <2>4. Elems(s) \ {Head(s)} \subseteq Elems(Tail(s))
      <3>1. ASSUME NEW x \in Elems(s), x # Head(s) PROVE x \in Elems(Tail(s))
        <4>1. PICK i \in DOMAIN s : x = s[i]
          BY <3>1 DEF Elems
        <4>2. i - 1 \in DOMAIN Tail(s) /\ Tail(s)[i - 1] = x
          BY <1>4, <2>3, <3>1, <4>1
        <4>3. QED
          BY <4>2 DEF Elems
      <3>2. QED
        BY <3>1
    <2>5. QED
      BY <1>6, <2>1, <2>2, <2>4
  <1>8. QED
    BY <1>2, <1>4, <1>5, <1>6, <1>7

\* Sequences with no common element stay distinct when they are joined.
LEMMA Concatenated ==
  ASSUME NEW T, NEW s \in Seq(T), NEW t \in Seq(T)
  PROVE  /\ s \o t \in Seq(T) /\ Len(s \o t) = Len(s) + Len(t)
         /\ Elems(s \o t) = Elems(s) \cup Elems(t)
         /\ (Distinct(s) /\ Distinct(t) /\ Elems(s) \cap Elems(t) = {}) => Distinct(s \o t)
  <1>1. /\ DOMAIN s = 1 .. Len(s) /\ Len(s) \in Nat
        /\ DOMAIN t = 1 .. Len(t) /\ Len(t) \in Nat
    BY Elements
  <1>2. /\ s \o t \in Seq(T) /\ Len(s \o t) = Len(s) + Len(t)
        /\ \A i \in 1 .. Len(s) + Len(t) :
             (s \o t)[i] = IF i <= Len(s) THEN s[i] ELSE t[i - Len(s)]
    BY ConcatProperties
  <1>3. DOMAIN (s \o t) = 1 .. Len(s) + Len(t)
    BY <1>2, Elements
  <1>4. \A i \in DOMAIN (s \o t) :
          \/ i \in DOMAIN s /\ (s \o t)[i] = s[i]
          \/ i \notin DOMAIN s /\ i - Len(s) \in DOMAIN t /\ (s \o t)[i] = t[i - Len(s)]
    BY <1>1, <1>2, <1>3
  <1>5. /\ \A i \in DOMAIN s : i \in DOMAIN (s \o t) /\ (s \o t)[i] = s[i]
        /\ \A i \in DOMAIN t : i + Len(s) \in DOMAIN (s \o t) /\ (s \o t)[i + Len(s)] = t[i]
    BY <1>1, <1>2, <1>3
  <1>6. Elems(s \o t) = Elems(s) \cup Elems(t)
    <2>1. Elems(s \o t) \subseteq Elems(s) \cup Elems(t)
      BY <1>4 DEF Elems
    <2>2. Elems(s) \subseteq Elems(s \o t) /\ Elems(t) \subseteq Elems(s \o t)
      BY <1>5 DEF Elems
    <2>3. QED
      BY <2>1, <2>2
  <1>7. ASSUME Distinct(s), Distinct(t), Elems(s) \cap Elems(t) = {}
        PROVE  Distinct(s \o t)
    <2>1. \A i \in DOMAIN s, j \in DOMAIN t : s[i] # t[j]
      BY <1>7 DEF Elems
    <2>2. \A i, j \in DOMAIN (s \o t) : i # j => i - Len(s) # j - Len(s)
      BY <1>1, <1>3
    <2>3. QED
      BY <1>4, <1>7, <2>1, <2>2 DEF Distinct
  <1>8. QED
    BY <1>2, <1>6, <1>7

\* Some elements of a finite set in some order.
LEMMA Ordered ==
  ASSUME NEW T, IsFiniteSet(T), NEW p \in SetToAllKPermutations(T)
  PROVE  p \in Seq(T) /\ Distinct(p) /\ Elems(p) \subseteq T
  <1>1. PICK s \in SUBSET T : p \in SetToSeqs(s)
    BY DEF SetToAllKPermutations
  <1>2. Cardinality(s) \in Nat
    BY FS_Subset, FS_CardinalityType
  <1>3. /\ p \in [1 .. Cardinality(s) -> s]
        /\ \A i, j \in 1 .. Cardinality(s) : i # j => p[i] # p[j]
    BY <1>1 DEF SetToSeqs
  <1>4. p \in [1 .. Cardinality(s) -> T]
    BY <1>3
  <1>5. p \in Seq(T)
    BY <1>2, <1>4, SeqDef
  <1>6. QED
    BY <1>3, <1>5, Elements DEF Distinct

\* What epoll_wait may return: at most one event for each object.
LEMMA EventsType ==
  ASSUME TypeOK, OwnerInv, ConnInv
  PROVE  /\ IsFiniteSet(Events)
         /\ Events \subseteq Event
         /\ \A e, f \in Events : e.skp = f.skp => e = f
         /\ \A e \in Events : e.skp # Listener =>
              /\ e.skp \in made /\ fd[e.skp] = e.conn
              /\ e.conn \in Conn /\ peer[e.conn] \in Heard
  <1> DEFINE D == {d \in Conn : Ready(d) # {}}
             ev(c) == [skp |-> watched[c].skp, conn |-> c, wevt |-> Ready(c)]
             L == [skp |-> Listener, conn |-> None, wevt |-> {"in"}]
             E == {ev(c) : c \in D}
  <1>1. Events \subseteq E \cup {L}
    BY DEF Events
  <1>2. IsFiniteSet(D)
    BY Constants, FS_Subset
  <1>3. IsFiniteSet(E)
    <2>1. [c \in D |-> ev(c)] \in Surjection(D, E)
      BY DEF Surjection
    <2>2. QED
      BY <1>2, <2>1, FS_Surjection
  <1>4. IsFiniteSet(Events)
    <2>1. IsFiniteSet(E \cup {L})
      BY <1>3, FS_AddElement
    <2>2. QED
      BY <1>1, <2>1, FS_Subset
  <1>5. ASSUME NEW c \in D
        PROVE  /\ ev(c).skp = watched[c].skp /\ ev(c).conn = c
               /\ ev(c).skp \in made /\ ev(c).skp # Listener /\ fd[ev(c).skp] = c
               /\ peer[c] \in Heard
               /\ ev(c) \in Event
    <2>1. c \in Conn /\ watched[c] # None /\ watched[c] \in Watch
      BY DEF Ready, TypeOK
    <2>2. watched[c].skp \in made /\ fd[watched[c].skp] = c
      BY <2>1 DEF OwnerInv
    <2>3. watched[c].skp \in Obj /\ watched[c].skp # Listener
      BY <2>2, Constants DEF TypeOK
    <2>4. peer[c] \in Heard
      <3>1. CASE peer[c] = "reset"
        BY <3>1 DEF Heard
      <3>2. CASE peer[c] # "reset"
        <4>1. PICK x \in watched[c].events \cap
                           ({"out"} \cup IF peer[c] = "sent" THEN {"in"} ELSE {}) : TRUE
          BY <2>1, <3>2 DEF Ready
        <4>2. CASE x = "out"
          BY <2>1, <4>1, <4>2 DEF ConnInv
        <4>3. CASE x # "out"
          BY <4>1, <4>3 DEF Heard
        <4>4. QED
          BY <4>2, <4>3
      <3>3. QED
        BY <3>1, <3>2
    <2>5. Ready(c) \subseteq {"in", "out", "err"}
      BY DEF Ready
    <2>6. QED
      BY <2>1, <2>2, <2>3, <2>4, <2>5 DEF Event
  <1>6. L \in Event
    BY DEF Event
  <1>7. \A e \in Events : e = L \/ \E c \in D : e = ev(c)
    BY <1>1
  <1>8. L.skp = Listener /\ \A c \in D : c \in Conn
    OBVIOUS
  <1> HIDE DEF D, L, ev
  <1>9. Events \subseteq Event
    BY <1>5, <1>6, <1>7
  <1>10. ASSUME NEW e \in Events, NEW f \in Events, e.skp = f.skp PROVE e = f
    BY <1>5, <1>7, <1>8, <1>10
  <1>11. ASSUME NEW e \in Events, e.skp # Listener
         PROVE  /\ e.skp \in made /\ fd[e.skp] = e.conn
                /\ e.conn \in Conn /\ peer[e.conn] \in Heard
    BY <1>5, <1>7, <1>8, <1>11
  <1>12. QED
    BY <1>4, <1>9, <1>10, <1>11

\* A sequence of elements of a set is one of any set that has them.
LEMMA Narrowed ==
  ASSUME NEW T, NEW s \in Seq(T), NEW U, Elems(s) \subseteq U
  PROVE  s \in Seq(U)
  <1>1. Len(s) \in Nat /\ s \in [1 .. Len(s) -> T]
    BY LenProperties
  <1>2. \A i \in 1 .. Len(s) : s[i] \in U
    BY <1>1 DEF Elems
  <1>3. s \in [1 .. Len(s) -> U]
    BY <1>1, <1>2
  <1>4. QED
    BY <1>1, <1>3, SeqDef

-----------------------------------------------------------------------------
\* The invariant holds before the thread starts.
LEMMA InitInv == Init => IInv
  <1> SUFFICES ASSUME Init PROVE IInv
    OBVIOUS
  <1>1. /\ srv = "off" /\ pollable \in BOOLEAN /\ running = TRUE
        /\ made = {} /\ spare = <<>> /\ fd = [o \in Obj |-> None]
        /\ canRead = [o \in Obj |-> FALSE] /\ canWrite = [o \in Obj |-> FALSE]
        /\ watched = [c \in Conn |-> None] /\ batch = <<>>
        /\ peer = [c \in Conn |-> "away"] /\ backlog = <<>> /\ orphans = {}
    BY DEF Init
  <1>2. Spares = {} /\ Backlog = {} /\ Distinct(<<>>) /\ DOMAIN batch = {}
    BY <1>1, EmptyElements DEF Spares, Backlog
  <1>3. /\ <<>> \in Seq(made) /\ <<>> \in Seq(Event) /\ <<>> \in Seq(Conn)
        /\ Len(<<>>) <= MaxSpare
    BY EmptySeq, Constants
  <1>4. TypeOK
    <2>1. /\ fd \in [Obj -> Conn \cup {None}] /\ watched \in [Conn -> Watch \cup {None}]
          /\ canRead \in [Obj -> BOOLEAN] /\ canWrite \in [Obj -> BOOLEAN]
          /\ peer \in [Conn -> {"away", "quiet", "sent", "reset"}]
      BY <1>1
    <2>2. QED
      BY <1>1, <1>3, <2>1 DEF TypeOK
  <1>5. PoolInv
    BY <1>1, <1>2 DEF PoolInv
  <1>6. OwnerInv /\ ConnInv
    BY <1>1, <1>2 DEF OwnerInv, ConnInv
  <1>7. BatchInv
    BY <1>1, <1>2 DEF BatchInv
  <1>8. QED
    BY <1>4, <1>5, <1>6, <1>7 DEF IInv

\* The rest of a batch stands while its objects and clients do.
LEMMA BatchTail ==
  ASSUME TypeOK, BatchInv, batch # <<>>, batch' = Tail(batch), srv = "poll", srv' = "poll",
         \A e \in Elems(batch) :
           (e.skp # Head(batch).skp /\ e.skp # Listener) =>
             /\ e.skp \in made' /\ fd'[e.skp] = e.conn
             /\ e.conn \in Conn /\ peer'[e.conn] \in Heard
  PROVE  BatchInv' /\ batch' \in Seq(Event)
  <1>1. batch \in Seq(Event)
    BY DEF TypeOK
  <1>2. /\ Tail(batch) \in Seq(Event)
        /\ Head(batch) = batch[1] /\ 1 \in DOMAIN batch
        /\ \A i \in DOMAIN Tail(batch) :
             i + 1 \in DOMAIN batch /\ i + 1 # 1 /\ Tail(batch)[i] = batch[i + 1]
        /\ \A i, j \in DOMAIN Tail(batch) : i # j => i + 1 # j + 1
    BY <1>1, Tailed
  <1>3. \A i, j \in DOMAIN batch : i # j => batch[i].skp # batch[j].skp
    BY DEF BatchInv
  <1>4. \A i, j \in DOMAIN batch' : i # j => batch'[i].skp # batch'[j].skp
    BY <1>2, <1>3
  <1>5. \A i \in DOMAIN batch' : batch'[i] \in Elems(batch) /\ batch'[i].skp # Head(batch).skp
    BY <1>2, <1>3 DEF Elems
  <1>6. QED
    BY <1>2, <1>4, <1>5 DEF BatchInv

\* What a batch has: objects outside the pool, of clients that were heard.
LEMMA BatchElements ==
  ASSUME IInv, NEW e \in Elems(batch), e.skp # Listener
  PROVE  /\ e.skp \in made \ Spares /\ e.skp \in Obj /\ fd[e.skp] = e.conn
         /\ e.conn \in Conn /\ peer[e.conn] \in Heard
  <1>1. /\ e.skp \in made /\ fd[e.skp] = e.conn
        /\ e.conn \in Conn /\ peer[e.conn] \in Heard
    BY DEF IInv, BatchInv, Elems
  <1>2. e.skp \notin Spares
    BY <1>1, Constants DEF IInv, PoolInv
  <1>3. QED
    BY <1>1, <1>2 DEF IInv, TypeOK

\* The event handled is of an object that serves a client that was heard.
LEMMA Handled ==
  ASSUME IInv, NEW f, Handling(f)
  PROVE  /\ srv = "poll" /\ batch # <<>> /\ batch' = Tail(batch)
         /\ Skp \in made \ Spares /\ Skp \in Obj
         /\ fd[Skp] \in Conn /\ peer[fd[Skp]] \in Heard
         /\ watched[fd[Skp]] # None /\ watched[fd[Skp]].skp = Skp
         /\ \A c \in Conn \ {fd[Skp]} : watched[c] # None => watched[c].skp # Skp
  <1>1. srv = "poll" /\ batch # <<>> /\ batch' = Tail(batch) /\ Skp # Listener
    BY DEF Handling, Skp
  <1>2. Head(batch) \in Elems(batch)
    BY <1>1, Tailed DEF IInv, TypeOK
  <1>3. /\ Skp \in made \ Spares /\ Skp \in Obj
        /\ fd[Skp] \in Conn /\ peer[fd[Skp]] \in Heard
    BY <1>1, <1>2, BatchElements DEF Skp
  <1>4. /\ watched[fd[Skp]] # None /\ watched[fd[Skp]].skp = Skp
        /\ \A c \in Conn \ {fd[Skp]} : watched[c] # None => watched[c].skp # Skp
    BY <1>3 DEF IInv, OwnerInv
  <1>5. QED
    BY <1>1, <1>3, <1>4

-----------------------------------------------------------------------------
\* The thread goes on, or the crawler is stopped.
LEMMA ThreadInv ==
  ASSUME IInv, UNCHANGED <<objects, watched, clients, pollable, batch>>, running' \in BOOLEAN,
         \/ srv' = srv
         \/ srv = "off" /\ srv' = "init"
         \/ srv' \in {"exit", "gone"} /\ batch = <<>>
  PROVE  IInv'
  <1>1. TypeOK /\ PoolInv /\ OwnerInv /\ ConnInv /\ BatchInv
    BY DEF IInv
  <1>2. UNCHANGED <<made, spare, fd, canRead, canWrite, watched, peer, backlog, orphans,
                    pollable, batch>>
    BY DEF objects, clients
  <1>3. Spares' = Spares /\ Backlog' = Backlog
    BY <1>2 DEF Spares, Backlog
  <1>4. TypeOK'
    BY <1>1, <1>2 DEF TypeOK
  <1>5. PoolInv'
    BY <1>1, <1>2, <1>3 DEF PoolInv
  <1>6. OwnerInv' /\ ConnInv'
    BY <1>1, <1>2, <1>3 DEF OwnerInv, ConnInv
  <1>7. BatchInv'
    BY <1>1, <1>2, EmptyElements DEF BatchInv
  <1>8. QED
    BY <1>4, <1>5, <1>6, <1>7 DEF IInv

\* An event without effect is passed over.
LEMMA SkipInv ==
  ASSUME IInv, srv = "poll", batch # <<>>, batch' = Tail(batch),
         UNCHANGED <<srv, pollable, objects, watched, clients, running>>
  PROVE  IInv'
  <1>1. TypeOK /\ PoolInv /\ OwnerInv /\ ConnInv /\ BatchInv
    BY DEF IInv
  <1>2. UNCHANGED <<made, spare, fd, canRead, canWrite, watched, peer, backlog, orphans>>
    BY DEF objects, clients
  <1>3. Spares' = Spares /\ Backlog' = Backlog
    BY <1>2 DEF Spares, Backlog
  <1>4. BatchInv' /\ batch' \in Seq(Event)
    BY <1>1, <1>2, BatchTail, BatchElements
  <1>5. TypeOK'
    BY <1>1, <1>2, <1>4 DEF TypeOK
  <1>6. PoolInv'
    BY <1>1, <1>2, <1>3 DEF PoolInv
  <1>7. OwnerInv' /\ ConnInv'
    BY <1>1, <1>2, <1>3 DEF OwnerInv, ConnInv
  <1>8. QED
    BY <1>4, <1>5, <1>6, <1>7 DEF IInv

\* New objects for the pool, each once; the pool does not outgrow its bound.
LEMMA InitServerInv ==
  ASSUME IInv, InitServer
  PROVE  IInv'
  <1>1. TypeOK /\ PoolInv /\ OwnerInv /\ ConnInv /\ BatchInv
    BY DEF IInv
  <1>2. /\ srv \in {"init", "run"}
        /\ srv' \in {IF srv = "init" THEN "run" ELSE "poll", "exit"}
        /\ UNCHANGED <<pollable, fd, canRead, canWrite, watched, batch, peer, backlog, orphans,
                       running>>
    BY DEF InitServer, clients
  <1>3. PICK o \in SetToAllKPermutations(Obj \ made) :
          /\ Len(o) = MinSpare
          /\ spare' = spare \o o /\ made' = made \cup {o[i] : i \in DOMAIN o}
    BY DEF InitServer
  <1>4. o \in Seq(Obj \ made) /\ Distinct(o) /\ Elems(o) \subseteq Obj \ made
    <2>1. IsFiniteSet(Obj \ made)
      BY Constants, FS_Subset
    <2>2. QED
      BY <2>1, Ordered
  <1>5. /\ made' = made \cup Elems(o) /\ made \subseteq Obj /\ made' \subseteq Obj
        /\ spare \in Seq(made) /\ Spares \subseteq made
    <2>1. spare \in Seq(made) /\ made \subseteq Obj
      BY <1>1 DEF TypeOK
    <2>2. QED
      BY <1>3, <1>4, <2>1, Elements DEF Elems, Spares
  <1>6. spare \in Seq(made') /\ o \in Seq(made')
    <2>1. Elems(spare) \subseteq made' /\ Elems(o) \subseteq made'
      BY <1>5 DEF Spares
    <2>2. QED
      BY <1>4, <1>5, <2>1, Narrowed
  <1>7. /\ spare' \in Seq(made') /\ Len(spare') = Len(spare) + MinSpare
        /\ Spares' = Spares \cup Elems(o) /\ Distinct(spare')
    <2>1. Elems(spare) \cap Elems(o) = {}
      BY <1>4, <1>5 DEF Spares
    <2>2. Distinct(spare)
      BY <1>1 DEF PoolInv
    <2>3. QED
      <3>1. spare' = spare \o o /\ Len(o) = MinSpare
        BY <1>3
      <3>2. /\ spare \o o \in Seq(made') /\ Len(spare \o o) = Len(spare) + Len(o)
            /\ Elems(spare \o o) = Elems(spare) \cup Elems(o)
            /\ (Distinct(spare) /\ Distinct(o) /\ Elems(spare) \cap Elems(o) = {})
                 => Distinct(spare \o o)
        BY <1>6, Concatenated
      <3>3. QED
        BY <1>4, <2>1, <2>2, <3>1, <3>2 DEF Spares
  <1>8. Len(spare') <= MaxSpare /\ (srv' = "run" => Len(spare') <= MinSpare)
    <2>1. Len(spare) \in Nat /\ (srv = "init" => Len(spare) = 0)
      BY <1>1, <1>5, EmptySeq, LenProperties DEF PoolInv
    <2>2. srv = "run" => Len(spare) <= MinSpare
      BY <1>1 DEF PoolInv
    <2>3. QED
      BY <1>2, <1>7, <2>1, <2>2, Constants
  <1>9. TypeOK'
    BY <1>1, <1>2, <1>5, <1>7, <1>8 DEF TypeOK
  <1>10. PoolInv'
    <2>1. Spares' \cup (Obj \ made') \subseteq Spares \cup (Obj \ made)
      BY <1>4, <1>5, <1>7
    <2>2. QED
      BY <1>1, <1>2, <1>7, <1>8, <2>1 DEF PoolInv
  <1>11. made' \ Spares' = made \ Spares
    BY <1>4, <1>5, <1>7
  <1>12. OwnerInv'
    BY <1>1, <1>2, <1>11 DEF OwnerInv
  <1>13. ConnInv'
    BY <1>1, <1>2 DEF ConnInv, Backlog
  <1>14. BatchInv'
    BY <1>1, <1>2, EmptyElements DEF BatchInv
  <1>15. QED
    BY <1>9, <1>10, <1>12, <1>13, <1>14 DEF IInv

\* epoll_wait reports each object once, and clients that were heard.
LEMMA PollInv ==
  ASSUME IInv, Poll
  PROVE  IInv'
  <1>1. TypeOK /\ PoolInv /\ OwnerInv /\ ConnInv /\ BatchInv
    BY DEF IInv
  <1>2. /\ srv = "poll" /\ batch' \in SetToAllKPermutations(Events)
        /\ UNCHANGED <<srv, pollable, made, spare, fd, canRead, canWrite, watched, peer,
                       backlog, orphans, running>>
    BY DEF Poll, objects, clients
  <1>3. /\ IsFiniteSet(Events)
        /\ Events \subseteq Event
        /\ \A e, f \in Events : e.skp = f.skp => e = f
        /\ \A e \in Events : e.skp # Listener =>
             /\ e.skp \in made /\ fd[e.skp] = e.conn
             /\ e.conn \in Conn /\ peer[e.conn] \in Heard
    BY <1>1, EventsType
  <1>4. batch' \in Seq(Events) /\ Distinct(batch') /\ Elems(batch') \subseteq Events
    BY <1>2, <1>3, Ordered
  <1>5. batch' \in Seq(Event)
    BY <1>3, <1>4, Narrowed
  <1>6. \A i \in DOMAIN batch' : batch'[i] \in Events
    BY <1>4 DEF Elems
  <1>7. TypeOK'
    BY <1>1, <1>2, <1>5 DEF TypeOK
  <1>8. Spares' = Spares /\ Backlog' = Backlog
    BY <1>2 DEF Spares, Backlog
  <1>9. PoolInv' /\ OwnerInv' /\ ConnInv'
    BY <1>1, <1>2, <1>8 DEF PoolInv, OwnerInv, ConnInv
  <1>10. BatchInv'
    BY <1>2, <1>3, <1>4, <1>6 DEF BatchInv, Distinct
  <1>11. QED
    BY <1>7, <1>9, <1>10 DEF IInv

-----------------------------------------------------------------------------
\* A mask is a set of events.
LEMMA MaskedType ==
  ASSUME NEW r, NEW w
  PROVE  Masked(r, w) \in Interest
  BY DEF Masked, Interest

\* handleRead asks for writing of a client that was heard.
LEMMA HandleReadInv ==
  ASSUME IInv, HandleRead
  PROVE  IInv'
  <1> DEFINE o == Skp
             c == fd[o]
  <1>1. TypeOK /\ PoolInv /\ OwnerInv /\ ConnInv /\ BatchInv
    BY DEF IInv
  <1>2. /\ srv = "poll" /\ batch # <<>> /\ batch' = Tail(batch)
        /\ o \in made \ Spares /\ o \in Obj
        /\ c \in Conn /\ peer[c] \in Heard
        /\ watched[c] # None /\ watched[c].skp = o
        /\ \A d \in Conn \ {c} : watched[d] # None => watched[d].skp # o
    BY Handled DEF HandleRead
  <1>3. /\ canRead' = [canRead EXCEPT ![o] = FALSE]
        /\ canWrite' = [canWrite EXCEPT ![o] = TRUE]
        /\ watched' = [watched EXCEPT ![c] = [skp |-> o,
                         events |-> Masked(canRead'[o], canWrite'[o])]]
        /\ UNCHANGED <<srv, pollable, made, spare, fd, peer, backlog, orphans, running>>
    BY DEF HandleRead, clients
  <1> DEFINE m == Masked(canRead'[o], canWrite'[o])
  <1>4. m \in Interest
    BY MaskedType
  <1> HIDE DEF o, c, m
  <1>5. [skp |-> o, events |-> m] \in Watch
    BY <1>2, <1>4 DEF Watch
  <1>6. /\ canRead' \in [Obj -> BOOLEAN] /\ canWrite' \in [Obj -> BOOLEAN]
        /\ \A p \in Obj \ {o} : canWrite'[p] = canWrite[p]
    BY <1>1, <1>3 DEF TypeOK
  <1>7. /\ watched' \in [Conn -> Watch \cup {None}]
        /\ watched'[c] = [skp |-> o, events |-> m]
        /\ \A d \in Conn \ {c} : watched'[d] = watched[d]
    <2>1. watched' = [watched EXCEPT ![c] = [skp |-> o, events |-> m]]
      BY <1>3 DEF m
    <2>2. QED
      BY <1>1, <1>2, <1>5, <2>1 DEF TypeOK
  <1>8. watched'[c] # None /\ watched'[c].skp = o
    BY <1>5, <1>7, Constants
  <1>9. BatchInv' /\ batch' \in Seq(Event)
    BY <1>1, <1>2, <1>3, BatchTail, BatchElements
  <1>10. TypeOK'
    BY <1>1, <1>3, <1>6, <1>7, <1>9 DEF TypeOK
  <1>11. Spares' = Spares /\ Backlog' = Backlog
    BY <1>3 DEF Spares, Backlog
  <1>12. PoolInv'
    BY <1>1, <1>2, <1>3, <1>6, <1>11, Elements DEF PoolInv, TypeOK, Spares
  <1>13. OwnerInv'
    <2>1. fd' = fd /\ made' = made /\ fd[o] = c
      BY <1>3 DEF c
    <2>2. \A p \in made \ Spares :
            fd[p] \in Conn /\ watched'[fd[p]] # None /\ watched'[fd[p]].skp = p
      <3>1. ASSUME NEW p \in made \ Spares, p = o
            PROVE  fd[p] \in Conn /\ watched'[fd[p]] # None /\ watched'[fd[p]].skp = p
        BY <1>2, <1>8, <2>1, <3>1
      <3>2. ASSUME NEW p \in made \ Spares, p # o
            PROVE  fd[p] \in Conn /\ watched'[fd[p]] # None /\ watched'[fd[p]].skp = p
        BY <1>1, <1>2, <1>7, <3>2 DEF OwnerInv
      <3>3. QED
        BY <3>1, <3>2
    <2>3. \A d \in Conn :
            watched'[d] # None => watched'[d].skp \in made \ Spares /\ fd[watched'[d].skp] = d
      BY <1>1, <1>2, <1>7, <1>8, <2>1 DEF OwnerInv
    <2>4. QED
      BY <1>11, <2>1, <2>2, <2>3 DEF OwnerInv
  <1>14. ConnInv'
    <2>1. c \notin Backlog
      BY <1>1, <1>2 DEF ConnInv
    <2>2. Backlog \subseteq Conn
      BY <1>1, Elements DEF TypeOK, Backlog
    <2>3. \A d \in Backlog' : peer'[d] # "away" /\ watched'[d] = None
      BY <1>1, <1>3, <1>7, <1>11, <2>1, <2>2 DEF ConnInv
    <2>4. \A d \in Conn : watched'[d] # None =>
            peer'[d] # "away" /\ ("out" \in watched'[d].events => peer'[d] \in Heard)
      BY <1>1, <1>2, <1>3, <1>7 DEF ConnInv, Heard
    <2>5. QED
      BY <1>1, <1>3, <2>3, <2>4 DEF ConnInv
  <1>15. QED
    BY <1>9, <1>10, <1>12, <1>13, <1>14 DEF IInv

\* The connection is closed, and its object goes where it is nobody's: to the pool,
\* or away.
LEMMA HangupInv ==
  ASSUME IInv, Handling("write"), Hangup(Skp),
         canRead' = [canRead EXCEPT ![Skp] = FALSE],
         canWrite' = [canWrite EXCEPT ![Skp] = FALSE],
         UNCHANGED <<srv, pollable, backlog, orphans, running>>,
         made' \subseteq Obj, spare' \in Seq(made'), Len(spare') <= MaxSpare, Distinct(spare'),
         made' \ Spares' = (made \ Spares) \ {Skp},
         Spares' \cup (Obj \ made') = Spares \cup (Obj \ made) \cup {Skp}
  PROVE  IInv'
  <1> DEFINE o == Skp
             c == fd[o]
  <1>1. TypeOK /\ PoolInv /\ OwnerInv /\ ConnInv /\ BatchInv
    BY DEF IInv
  <1>2. /\ srv = "poll" /\ batch # <<>> /\ batch' = Tail(batch)
        /\ o \in made \ Spares /\ o \in Obj
        /\ c \in Conn /\ peer[c] \in Heard
        /\ watched[c] # None /\ watched[c].skp = o
        /\ \A d \in Conn \ {c} : watched[d] # None => watched[d].skp # o
    BY Handled
  <1>3. /\ watched' = [watched EXCEPT ![c] = None]
        /\ peer' = [peer EXCEPT ![c] = "away"]
        /\ fd' = [fd EXCEPT ![o] = None]
    BY DEF Hangup
  <1>4. /\ canRead' = [canRead EXCEPT ![o] = FALSE]
        /\ canWrite' = [canWrite EXCEPT ![o] = FALSE]
        /\ made' \ Spares' = (made \ Spares) \ {o}
        /\ Spares' \cup (Obj \ made') = Spares \cup (Obj \ made) \cup {o}
    OBVIOUS
  <1> HIDE DEF c, o
  <1>5. /\ watched' \in [Conn -> Watch \cup {None}] /\ watched'[c] = None
        /\ \A d \in Conn \ {c} : watched'[d] = watched[d]
    BY <1>1, <1>2, <1>3 DEF TypeOK
  <1>6. /\ peer' \in [Conn -> {"away", "quiet", "sent", "reset"}]
        /\ \A d \in Conn \ {c} : peer'[d] = peer[d]
    BY <1>1, <1>2, <1>3 DEF TypeOK
  <1>7. /\ fd' \in [Obj -> Conn \cup {None}] /\ fd'[o] = None
        /\ \A p \in Obj \ {o} : fd'[p] = fd[p]
    BY <1>1, <1>2, <1>3 DEF TypeOK
  <1>8. /\ canRead' \in [Obj -> BOOLEAN] /\ canWrite' \in [Obj -> BOOLEAN]
        /\ canWrite'[o] = FALSE /\ \A p \in Obj \ {o} : canWrite'[p] = canWrite[p]
    <2>1. canRead \in [Obj -> BOOLEAN] /\ canWrite \in [Obj -> BOOLEAN]
      BY <1>1 DEF TypeOK
    <2>2. canRead' \in [Obj -> BOOLEAN]
      BY <1>4, <2>1
    <2>3. canWrite' \in [Obj -> BOOLEAN] /\ canWrite'[o] = FALSE
      BY <1>2, <1>4, <2>1
    <2>4. \A p \in Obj \ {o} : canWrite'[p] = canWrite[p]
      BY <1>4, <2>1
    <2>5. QED
      BY <2>2, <2>3, <2>4
  <1>9. made \subseteq Obj /\ Spares \subseteq Obj
    BY <1>1, Elements DEF TypeOK, Spares
  <1>10. BatchInv' /\ batch' \in Seq(Event)
    <2>1. ASSUME NEW e \in Elems(batch), e.skp # o, e.skp # Listener
          PROVE  /\ e.skp \in made' /\ fd'[e.skp] = e.conn
                 /\ e.conn \in Conn /\ peer'[e.conn] \in Heard
      <3>1. /\ e.skp \in made \ Spares /\ e.skp \in Obj /\ fd[e.skp] = e.conn
            /\ e.conn \in Conn /\ peer[e.conn] \in Heard
        BY <2>1, BatchElements
      <3>2. e.conn # c
        BY <1>1, <1>2, <2>1, <3>1 DEF OwnerInv
      <3>3. QED
        BY <1>4, <1>6, <1>7, <2>1, <3>1, <3>2
    <2>2. o = Head(batch).skp
      BY DEF o, Skp
    <2>3. QED
      BY <1>1, <1>2, <2>1, <2>2, BatchTail
  <1>11. TypeOK'
    BY <1>1, <1>5, <1>6, <1>7, <1>8, <1>10 DEF TypeOK
  <1>12. PoolInv'
    BY <1>1, <1>2, <1>4, <1>7, <1>8, <1>9 DEF PoolInv
  <1>13. OwnerInv'
    <2>1. \A p \in made' \ Spares' :
            fd'[p] \in Conn /\ watched'[fd'[p]] # None /\ watched'[fd'[p]].skp = p
      BY <1>1, <1>2, <1>4, <1>5, <1>7, <1>9 DEF OwnerInv
    <2>2. \A d \in Conn :
            watched'[d] # None => watched'[d].skp \in made' \ Spares' /\ fd'[watched'[d].skp] = d
      BY <1>1, <1>2, <1>4, <1>5, <1>7, <1>9 DEF OwnerInv
    <2>3. QED
      BY <2>1, <2>2 DEF OwnerInv
  <1>14. ConnInv'
    <2>1. c \notin Backlog /\ Backlog \subseteq Conn /\ Backlog' = Backlog
      BY <1>1, <1>2, Elements DEF ConnInv, TypeOK, Backlog
    <2>2. QED
      BY <1>1, <1>5, <1>6, <2>1 DEF ConnInv
  <1>15. QED
    BY <1>10, <1>11, <1>12, <1>13, <1>14 DEF IInv

\* The object of a client that was hung up on goes to the pool.
LEMMA KeepInv ==
  ASSUME IInv, Keep
  PROVE  IInv'
  <1>1. /\ Handling("write") /\ Len(spare) < MaxSpare /\ Hangup(Skp)
        /\ spare' = Append(spare, Skp)
        /\ canRead' = [canRead EXCEPT ![Skp] = FALSE]
        /\ canWrite' = [canWrite EXCEPT ![Skp] = FALSE]
        /\ UNCHANGED <<srv, pollable, made, backlog, orphans, running>>
    BY DEF Keep
  <1>2. Skp \in made \ Spares
    BY <1>1, Handled
  <1>3. made \subseteq Obj /\ spare \in Seq(made) /\ Distinct(spare) /\ Len(spare) \in Nat
    BY LenProperties DEF IInv, TypeOK, PoolInv
  <1>4. /\ spare' \in Seq(made) /\ Len(spare') = Len(spare) + 1
        /\ Spares' = Spares \cup {Skp} /\ Distinct(spare')
    BY <1>1, <1>2, <1>3, Appended DEF Spares
  <1>5. Len(spare') <= MaxSpare
    BY <1>1, <1>3, <1>4, Constants
  <1>6. /\ made' \ Spares' = (made \ Spares) \ {Skp}
        /\ Spares' \cup (Obj \ made') = Spares \cup (Obj \ made) \cup {Skp}
    BY <1>1, <1>4
  <1>7. QED
    BY <1>1, <1>3, <1>4, <1>5, <1>6, HangupInv

\* Or it is deleted, when the pool is full.
LEMMA DeleteInv ==
  ASSUME IInv, Delete
  PROVE  IInv'
  <1>1. /\ Handling("write") /\ Hangup(Skp)
        /\ made' = made \ {Skp}
        /\ canRead' = [canRead EXCEPT ![Skp] = FALSE]
        /\ canWrite' = [canWrite EXCEPT ![Skp] = FALSE]
        /\ UNCHANGED <<srv, pollable, spare, backlog, orphans, running>>
    BY DEF Delete
  <1>2. Skp \in made \ Spares
    BY <1>1, Handled
  <1>3. /\ made \subseteq Obj /\ spare \in Seq(made) /\ Distinct(spare)
        /\ Len(spare) <= MaxSpare
    BY DEF IInv, TypeOK, PoolInv
  <1>4. Spares' = Spares /\ Spares \subseteq made
    BY <1>1, <1>3, Elements DEF Spares
  <1>5. spare' \in Seq(made')
    <2>1. Elems(spare) \subseteq made'
      BY <1>1, <1>2, <1>4 DEF Spares
    <2>2. QED
      BY <1>1, <1>3, <2>1, Narrowed
  <1>6. /\ made' \ Spares' = (made \ Spares) \ {Skp}
        /\ Spares' \cup (Obj \ made') = Spares \cup (Obj \ made) \cup {Skp}
    BY <1>1, <1>2, <1>3, <1>4
  <1>7. made' \subseteq Obj
    BY <1>1, <1>3
  <1>8. QED
    BY <1>1, <1>3, <1>5, <1>6, <1>7, HangupInv

\* The first connection of the backlog gets an object that is nobody's.
LEMMA ServeInv ==
  ASSUME IInv, HandlingAccept, backlog # <<>>, backlog' = Tail(backlog),
         NEW o \in Spares \cup (Obj \ made), Serve(o, Head(backlog)),
         UNCHANGED <<srv, pollable, canWrite, peer, orphans, running>>,
         made' \subseteq Obj, spare' \in Seq(made'), Len(spare') <= MaxSpare, Distinct(spare'),
         made' \ Spares' = (made \ Spares) \cup {o},
         Spares' \cup (Obj \ made') \subseteq (Spares \cup (Obj \ made)) \ {o}
  PROVE  IInv'
  <1> DEFINE c == Head(backlog)
             m == Masked(TRUE, canWrite[o])
             w == [skp |-> o, events |-> m]
  <1>1. TypeOK /\ PoolInv /\ OwnerInv /\ ConnInv /\ BatchInv
    BY DEF IInv
  <1>2. srv = "poll" /\ batch # <<>> /\ batch' = Tail(batch) /\ Head(batch).skp = Listener
    BY DEF HandlingAccept
  <1>3. /\ backlog \in Seq(Conn) /\ made \subseteq Obj /\ Spares \subseteq Obj
    BY <1>1, Elements DEF TypeOK, Spares
  <1>4. o \in Obj /\ fd[o] = None /\ ~ canWrite[o] /\ o \notin made \ Spares
    BY <1>1, <1>3 DEF PoolInv
  <1>5. /\ Tail(backlog) \in Seq(Conn) /\ c \in Backlog /\ c \in Conn
        /\ Backlog' = Backlog \ {c} /\ Distinct(backlog')
    <2>1. Distinct(backlog)
      BY <1>1 DEF ConnInv
    <2>2. QED
      BY <1>3, <2>1, Tailed DEF Backlog
  <1>6. peer[c] # "away" /\ watched[c] = None
    BY <1>1, <1>5 DEF ConnInv
  <1>7. w \in Watch /\ "out" \notin m
    <2>1. m \in Interest
      BY MaskedType
    <2>2. "out" \notin m
      BY <1>4 DEF Masked
    <2>3. QED
      BY <1>4, <2>1, <2>2 DEF Watch
  <1>8. /\ fd' = [fd EXCEPT ![o] = c] /\ canRead' = [canRead EXCEPT ![o] = TRUE]
        /\ watched' = [watched EXCEPT ![c] = w]
    BY DEF Serve
  <1>9. w.skp = o /\ w.events = m /\ w # None
    BY <1>7, Constants
  <1> HIDE DEF c, m, w
  <1>10. /\ fd' \in [Obj -> Conn \cup {None}] /\ fd'[o] = c
         /\ \A p \in Obj \ {o} : fd'[p] = fd[p]
    BY <1>1, <1>4, <1>5, <1>8 DEF TypeOK
  <1>11. /\ watched' \in [Conn -> Watch \cup {None}] /\ watched'[c] = w
         /\ \A d \in Conn \ {c} : watched'[d] = watched[d]
    BY <1>1, <1>5, <1>7, <1>8 DEF TypeOK
  <1>12. canRead' \in [Obj -> BOOLEAN]
    <2>1. canRead \in [Obj -> BOOLEAN]
      BY <1>1 DEF TypeOK
    <2>2. QED
      BY <1>8, <2>1
  <1>13. BatchInv' /\ batch' \in Seq(Event)
    <2>1. ASSUME NEW e \in Elems(batch), e.skp # Listener
          PROVE  /\ e.skp \in made' /\ fd'[e.skp] = e.conn
                 /\ e.conn \in Conn /\ peer'[e.conn] \in Heard
      <3>1. /\ e.skp \in made \ Spares /\ e.skp \in Obj /\ fd[e.skp] = e.conn
            /\ e.conn \in Conn /\ peer[e.conn] \in Heard
        BY <2>1, BatchElements
      <3>2. e.skp # o
        BY <1>4, <3>1
      <3>3. QED
        BY <1>10, <3>1, <3>2
    <2>2. QED
      BY <1>1, <1>2, <2>1, BatchTail
  <1>14. TypeOK'
    BY <1>1, <1>5, <1>10, <1>11, <1>12, <1>13 DEF TypeOK
  <1>15. PoolInv'
    <2>1. \A p \in Spares' \cup (Obj \ made') : fd'[p] = None /\ ~ canWrite'[p]
      <3>1. \A p \in Spares' \cup (Obj \ made') :
              p \in Spares \cup (Obj \ made) /\ p \in Obj \ {o}
        BY <1>3
      <3>2. \A p \in Spares \cup (Obj \ made) : fd[p] = None /\ ~ canWrite[p]
        BY <1>1 DEF PoolInv
      <3>3. QED
        BY <1>10, <3>1, <3>2
    <2>2. QED
      BY <1>2, <2>1 DEF PoolInv
  <1>16. OwnerInv'
    <2>1. \A p \in made \ Spares : fd[p] # c /\ p # o /\ p \in Obj
      BY <1>1, <1>3, <1>4, <1>6 DEF OwnerInv
    <2>2. ASSUME NEW p \in made' \ Spares'
          PROVE  fd'[p] \in Conn /\ watched'[fd'[p]] # None /\ watched'[fd'[p]].skp = p
      <3>1. CASE p = o
        BY <1>5, <1>9, <1>10, <1>11, <3>1
      <3>2. CASE p # o
        BY <1>1, <1>10, <1>11, <2>1, <2>2, <3>2 DEF OwnerInv
      <3>3. QED
        BY <3>1, <3>2
    <2>3. ASSUME NEW d \in Conn, watched'[d] # None
          PROVE  watched'[d].skp \in made' \ Spares' /\ fd'[watched'[d].skp] = d
      <3>1. CASE d = c
        BY <1>9, <1>10, <1>11, <3>1
      <3>2. CASE d # c
        BY <1>1, <1>10, <1>11, <2>1, <2>3, <3>2 DEF OwnerInv
      <3>3. QED
        BY <3>1, <3>2
    <2>4. QED
      BY <2>2, <2>3 DEF OwnerInv
  <1>17. ConnInv'
    <2>1. \A d \in Backlog' : peer'[d] # "away" /\ watched'[d] = None
      <3>1. Backlog \subseteq Conn
        BY <1>3, Elements DEF Backlog
      <3>2. QED
        BY <1>1, <1>5, <1>11, <3>1 DEF ConnInv
    <2>2. \A d \in Conn : watched'[d] # None =>
            peer'[d] # "away" /\ ("out" \in watched'[d].events => peer'[d] \in Heard)
      BY <1>1, <1>6, <1>7, <1>9, <1>11 DEF ConnInv, Heard
    <2>3. QED
      BY <1>5, <2>1, <2>2 DEF ConnInv
  <1>18. QED
    BY <1>13, <1>14, <1>15, <1>16, <1>17 DEF IInv

\* An accepted connection takes an object of the pool, or a new one when it is empty.
LEMMA AcceptInv ==
  ASSUME IInv, Accept
  PROVE  IInv'
  <1>1. /\ HandlingAccept /\ backlog # <<>> /\ backlog' = Tail(backlog)
        /\ UNCHANGED <<srv, pollable, canWrite, peer, orphans, running>>
    BY DEF Accept
  <1>2. /\ made \subseteq Obj /\ spare \in Seq(made) /\ Distinct(spare)
        /\ Len(spare) <= MaxSpare /\ Len(spare) \in Nat
    BY LenProperties DEF IInv, TypeOK, PoolInv
  <1>3. Spares \subseteq made
    BY <1>2, Elements DEF Spares
  <1>4. CASE /\ spare # <<>> /\ Serve(Head(spare), Head(backlog))
             /\ spare' = Tail(spare) /\ UNCHANGED made
    <2>1. /\ Tail(spare) \in Seq(made) /\ Len(Tail(spare)) < Len(spare)
          /\ Len(Tail(spare)) \in Nat
          /\ Head(spare) \in Spares
          /\ Distinct(Tail(spare)) /\ Elems(Tail(spare)) = Spares \ {Head(spare)}
      BY <1>2, <1>4, Tailed, LenProperties DEF Spares
    <2>2. Spares' = Spares \ {Head(spare)}
      BY <1>4, <2>1 DEF Spares
    <2>3. /\ made' \ Spares' = (made \ Spares) \cup {Head(spare)}
          /\ Spares' \cup (Obj \ made') \subseteq (Spares \cup (Obj \ made)) \ {Head(spare)}
      BY <1>3, <1>4, <2>1, <2>2
    <2>4. Len(spare') <= MaxSpare
      BY <1>2, <1>4, <2>1, Constants
    <2>5. QED
      BY <1>1, <1>2, <1>4, <2>1, <2>3, <2>4, ServeInv
  <1>5. CASE /\ \E o \in Obj \ made : Serve(o, Head(backlog)) /\ made' = made \cup {o}
             /\ UNCHANGED spare
    <2>1. PICK o \in Obj \ made : Serve(o, Head(backlog)) /\ made' = made \cup {o}
      BY <1>5
    <2>2. Spares' = Spares
      BY <1>5 DEF Spares
    <2>3. made' \subseteq Obj /\ spare' \in Seq(made')
      <3>1. Elems(spare) \subseteq made'
        BY <1>3, <2>1 DEF Spares
      <3>2. QED
        BY <1>2, <1>5, <2>1, <3>1, Narrowed
    <2>4. /\ made' \ Spares' = (made \ Spares) \cup {o}
          /\ Spares' \cup (Obj \ made') \subseteq (Spares \cup (Obj \ made)) \ {o}
      BY <1>3, <2>1, <2>2
    <2>5. QED
      BY <1>1, <1>2, <1>5, <2>1, <2>3, <2>4, ServeInv
  <1>6. QED
    BY <1>4, <1>5 DEF Accept

-----------------------------------------------------------------------------
\* A client joins the backlog, once.
LEMMA ConnectInv ==
  ASSUME IInv, NEW c \in Conn, Connect(c)
  PROVE  IInv'
  <1>1. TypeOK /\ PoolInv /\ OwnerInv /\ ConnInv /\ BatchInv
    BY DEF IInv
  <1>2. /\ peer[c] = "away" /\ peer' = [peer EXCEPT ![c] = "quiet"]
        /\ \/ backlog' = Append(backlog, c) /\ orphans' = orphans
           \/ backlog' = backlog /\ orphans' = orphans \cup {c}
        /\ UNCHANGED <<srv, pollable, made, spare, fd, canRead, canWrite, watched, batch,
                       running>>
    BY DEF Connect, objects
  <1>3. /\ peer' \in [Conn -> {"away", "quiet", "sent", "reset"}]
        /\ peer'[c] = "quiet" /\ \A d \in Conn \ {c} : peer'[d] = peer[d]
    BY <1>1, <1>2 DEF TypeOK
  <1>4. backlog \in Seq(Conn) /\ Distinct(backlog) /\ Backlog \subseteq Conn
    BY <1>1, Elements DEF TypeOK, ConnInv, Backlog
  <1>5. c \notin Backlog /\ watched[c] = None
    BY <1>1, <1>2 DEF ConnInv
  <1>6. /\ backlog' \in Seq(Conn) /\ Distinct(backlog')
        /\ Backlog' \subseteq Backlog \cup {c}
    <2>1. /\ Append(backlog, c) \in Seq(Conn) /\ Distinct(Append(backlog, c))
          /\ Elems(Append(backlog, c)) = Elems(backlog) \cup {c}
      BY <1>4, <1>5, Appended DEF Backlog
    <2>2. CASE backlog' = Append(backlog, c)
      BY <2>1, <2>2 DEF Backlog
    <2>3. CASE backlog' = backlog
      BY <1>4, <2>3 DEF Backlog
    <2>4. QED
      BY <1>2, <2>2, <2>3
  <1>7. orphans' \subseteq Conn
    BY <1>1, <1>2 DEF TypeOK
  <1>8. TypeOK'
    BY <1>1, <1>2, <1>3, <1>6, <1>7 DEF TypeOK
  <1>9. Spares' = Spares
    BY <1>2 DEF Spares
  <1>10. PoolInv' /\ OwnerInv'
    BY <1>1, <1>2, <1>9 DEF PoolInv, OwnerInv
  <1>11. ConnInv'
    <2>1. \A d \in Backlog' : peer'[d] # "away" /\ watched'[d] = None
      BY <1>1, <1>2, <1>3, <1>4, <1>5, <1>6 DEF ConnInv
    <2>2. \A d \in Conn : watched'[d] # None =>
            peer'[d] # "away" /\ ("out" \in watched'[d].events => peer'[d] \in Heard)
      BY <1>1, <1>2, <1>3, <1>5 DEF ConnInv
    <2>3. QED
      BY <1>6, <2>1, <2>2 DEF ConnInv
  <1>12. BatchInv'
    BY <1>1, <1>2, <1>3 DEF BatchInv, Heard
  <1>13. QED
    BY <1>8, <1>10, <1>11, <1>12 DEF IInv

\* A client is heard of: it has sent, closed or reset.
LEMMA HeardInv ==
  ASSUME IInv, NEW c \in Conn, peer[c] # "away",
         NEW p \in Heard, peer' = [peer EXCEPT ![c] = p],
         UNCHANGED <<srv, pollable, objects, watched, batch, backlog, orphans, running>>
  PROVE  IInv'
  <1>1. TypeOK /\ PoolInv /\ OwnerInv /\ ConnInv /\ BatchInv
    BY DEF IInv
  <1>2. UNCHANGED <<srv, pollable, made, spare, fd, canRead, canWrite, watched, batch, backlog,
                    orphans, running>>
    BY DEF objects
  <1>3. /\ peer' \in [Conn -> {"away", "quiet", "sent", "reset"}]
        /\ peer'[c] \in Heard /\ \A d \in Conn \ {c} : peer'[d] = peer[d]
    BY <1>1 DEF TypeOK, Heard
  <1>4. Spares' = Spares /\ Backlog' = Backlog /\ Backlog \subseteq Conn
    BY <1>1, <1>2, Elements DEF Spares, Backlog, TypeOK
  <1>5. TypeOK'
    BY <1>1, <1>2, <1>3 DEF TypeOK
  <1>6. PoolInv' /\ OwnerInv'
    BY <1>1, <1>2, <1>4 DEF PoolInv, OwnerInv
  <1>7. ConnInv'
    <2>1. "away" \notin Heard
      BY DEF Heard
    <2>2. QED
      BY <1>1, <1>2, <1>3, <1>4, <2>1 DEF ConnInv
  <1>8. BatchInv'
    BY <1>1, <1>2, <1>3 DEF BatchInv
  <1>9. QED
    BY <1>5, <1>6, <1>7, <1>8 DEF IInv

\* Every step of the thread.
LEMMA WorkInv ==
  ASSUME IInv, ServerStep
  PROVE  IInv'
  <1>1. running \in BOOLEAN
    BY DEF IInv, TypeOK
  <1>2. CASE Create
    BY <1>1, <1>2, ThreadInv DEF Create
  <1>3. CASE PollFails
    BY <1>1, <1>3, ThreadInv DEF PollFails
  <1>4. CASE Exit
    <2>1. batch = <<>>
      BY <1>4 DEF Exit, IInv, BatchInv
    <2>2. QED
      BY <1>4, <2>1, ThreadInv DEF Exit
  <1>5. CASE IgnoreError
    BY <1>5, SkipInv DEF IgnoreError, Handling
  <1>6. CASE AcceptFails
    BY <1>6, SkipInv DEF AcceptFails, HandlingAccept
  <1>7. QED
    BY <1>2, <1>3, <1>4, <1>5, <1>6, InitServerInv, PollInv, HandleReadInv, KeepInv, DeleteInv,
       AcceptInv DEF ServerStep, Work

\* Every step of a client.
LEMMA ClientInv ==
  ASSUME IInv, NEW c \in Conn, Connect(c) \/ Send(c) \/ Reset(c)
  PROVE  IInv'
  <1>1. CASE Send(c)
    <2>1. "sent" \in Heard /\ peer[c] # "away"
      BY <1>1 DEF Send, Heard
    <2>2. QED
      BY <1>1, <2>1, HeardInv DEF Send
  <1>2. CASE Reset(c)
    <2>1. "reset" \in Heard /\ peer[c] # "away"
      BY <1>2 DEF Reset, Heard
    <2>2. QED
      BY <1>2, <2>1, HeardInv DEF Reset
  <1>3. QED
    BY <1>1, <1>2, ConnectInv

\* Every step of the server and its clients.
LEMMA StepInv == IInv /\ [Next]_svars => IInv'
  <1>1. IInv /\ UNCHANGED svars => IInv'
    <2>1. running \in BOOLEAN /\ UNCHANGED svars =>
            running' \in BOOLEAN /\ UNCHANGED <<objects, watched, clients, pollable, batch, srv>>
      BY DEF svars
    <2>2. QED
      BY <2>1, ThreadInv DEF IInv, TypeOK
  <1>2. QED
    BY <1>1, WorkInv, ClientInv DEF Next

\* The invariant of the server holds always.
THEOREM Invariance == Spec => []IInv
  BY InitInv, StepInv, PTL DEF Spec

-----------------------------------------------------------------------------
\* Type correctness of the status server, and the bound on its pool.
THEOREM TypeCorrect == Spec => []TypeOK
  <1>1. IInv => TypeOK
    BY DEF IInv
  <1>2. QED
    BY <1>1, Invariance, PTL

\* In the states of the invariant, an object is in the pool, closed, or serves one
\* connection, and the events of a batch are for connections served.
LEMMA Owned ==
  ASSUME IInv
  PROVE  OneOwner /\ BatchFresh
  <1>1. TypeOK /\ PoolInv /\ OwnerInv
    BY DEF IInv
  <1>2. ASSUME NEW o \in made
        PROVE  IF \E i \in DOMAIN spare : spare[i] = o
               THEN fd[o] = None /\ Held(o) = {}
               ELSE fd[o] # None /\ Held(o) = {fd[o]}
    <2>1. (\E i \in DOMAIN spare : spare[i] = o) <=> o \in Spares
      BY DEF Spares, Elems
    <2>2. CASE o \in Spares
      BY <1>1, <2>1, <2>2 DEF PoolInv, OwnerInv, Held
    <2>3. CASE o \notin Spares
      <3>1. fd[o] \in Conn /\ fd[o] # None /\ fd[o] \in Held(o)
        BY <1>1, <2>3, Constants DEF OwnerInv, Held
      <3>2. \A c \in Held(o) : c = fd[o]
        BY <1>1 DEF OwnerInv, Held
      <3>3. QED
        BY <2>1, <2>3, <3>1, <3>2
    <2>4. QED
      BY <2>2, <2>3
  <1>3. \A i, j \in DOMAIN spare : i # j => spare[i] # spare[j]
    BY <1>1 DEF PoolInv, Distinct
  <1>4. \A c \in Conn : watched[c] # None => watched[c].skp \in made
    BY <1>1 DEF OwnerInv
  <1>5. BatchFresh
    BY DEF IInv, BatchInv, BatchFresh
  <1>6. QED
    BY <1>2, <1>3, <1>4, <1>5 DEF OneOwner

\* A socket object is in the pool, closed, or serves one connection.
THEOREM OneOwnerHolds == Spec => []OneOwner
  BY Owned, Invariance, PTL

\* No event is handled for an object that another event of the batch took away.
THEOREM BatchFreshHolds == Spec => []BatchFresh
  BY Owned, Invariance, PTL

\* The server hangs up on clients only after it heard of them.
THEOREM HeardFirstHolds == Spec => HeardFirst
  <1>1. IInv /\ [Next]_svars =>
          [\A c \in Conn : peer[c] = "quiet" => peer'[c] # "away"]_svars
    <2> SUFFICES ASSUME IInv, Next, NEW c \in Conn, peer[c] = "quiet"
                 PROVE  peer'[c] # "away"
      OBVIOUS
    <2>1. peer \in [Conn -> {"away", "quiet", "sent", "reset"}]
      BY DEF IInv, TypeOK
    <2>2. ASSUME Handling("write"), Hangup(Skp)
          PROVE  peer'[c] # "away"
      <3>1. fd[Skp] # c
        BY <2>2, Handled DEF Heard
      <3>2. QED
        BY <2>1, <2>2, <3>1 DEF Hangup
    <2>3. CASE ServerStep
      <3>1. CASE Keep \/ Delete
        BY <2>2, <3>1 DEF Keep, Delete
      <3>2. CASE UNCHANGED peer
        BY <3>2
      <3>3. ~ (Keep \/ Delete) => UNCHANGED peer
        BY <2>3 DEF ServerStep, Work, Create, InitServer, Poll, PollFails, HandleRead,
                    IgnoreError, Accept, AcceptFails, Exit, clients
      <3>4. QED
        BY <3>1, <3>2, <3>3
    <2>4. ASSUME NEW d \in Conn, Connect(d) \/ Send(d) \/ Reset(d)
          PROVE  peer'[c] # "away"
      BY <2>1, <2>4 DEF Connect, Send, Reset
    <2>5. QED
      BY <2>3, <2>4 DEF Next
  <1>2. QED
    BY <1>1, Invariance, PTL DEF Spec, HeardFirst

=============================================================================
