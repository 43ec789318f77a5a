--------------------------- MODULE FrontierProofs ---------------------------
(***************************************************************************)
(* The abstract frontier hands every entry out once, in order: HandedOnce   *)
(* is inductive relative to the types.                                      *)
(***************************************************************************)
EXTENDS Frontier, TLAPS, SequenceTheorems

\* The start entry alone is queued.
LEMMA InitFrontier == Init => TypeInv /\ HandedOnce
  <1> SUFFICES ASSUME Init PROVE TypeInv /\ HandedOnce
    OBVIOUS
  <1> USE EntryAssumption, NoEntryAssumption DEF Init
  <1>1. StartEntry \in Entry
    BY DEF StartEntry, Entry
  <1>2. TypeInv
    BY <1>1 DEF TypeInv
  <1>3. HandedOnce
    BY DEF HandedOnce, StartEntry
  <1>4. QED
    BY <1>2, <1>3

\* Queued entries are numbered.
LEMMA QueuedIds ==
  ASSUME TypeInv
  PROVE  \A i \in DOMAIN queue : queue[i].id \in Nat
  <1>1. \A i \in DOMAIN queue : queue[i] \in Entry
    BY DEF TypeInv
  <1>2. \A e \in Entry : e.id \in Nat
    BY DEF Entry
  <1>3. QED
    BY <1>1, <1>2

\* The first entry leaves the queue: what is left is a suffix of it.
LEMMA TakeKeeps ==
  ASSUME TypeInv, HandedOnce, NEW w \in Worker, Take(w)
  PROVE  TypeInv' /\ HandedOnce'
  <1> DEFINE q == Tail(queue)
  <1>1. queue \in Seq(Entry) /\ queue # <<>> /\ Len(queue) \in Nat /\ pushed \in Nat
    BY DEF TypeInv, Take
  <1>2. Head(queue) \in Entry /\ Head(queue) = queue[1] /\ 1 \in DOMAIN queue
    BY <1>1
  <1>3. /\ q \in Seq(Entry)
        /\ \A i \in DOMAIN q : /\ i \in DOMAIN queue /\ i + 1 \in DOMAIN queue
                               /\ 1 < i + 1 /\ q[i] = queue[i + 1]
    BY <1>1
  <1>4. TypeInv'
    BY <1>1, <1>2, <1>3 DEF TypeInv, Take
  <1>5. \A i \in DOMAIN queue : queue[i].id \in Nat
    BY QueuedIds
  <1>6. \A i, j \in DOMAIN q : i < j => q[i].id < q[j].id
    <2>1. \A i \in DOMAIN q : i \in Nat
      BY <1>3
    <2>2. QED
      BY <1>3, <2>1 DEF HandedOnce
  <1>7. \A i \in DOMAIN q : q[i].id <= pushed /\ queue[1].id < q[i].id
    BY <1>2, <1>3 DEF HandedOnce
  <1>8. \A v \in Worker : hand'[v] = IF v = w THEN queue[1] ELSE hand[v]
    BY <1>2 DEF Take, TypeInv
  <1>9. \A v \in Worker : hand'[v] # NoEntry =>
          hand'[v].id <= pushed /\ \A i \in DOMAIN q : hand'[v].id < q[i].id
    BY <1>2, <1>3, <1>7, <1>8 DEF HandedOnce
  <1>10. \A v \in Worker : (v # w /\ hand[v] # NoEntry) => hand[v].id # queue[1].id
    <2> SUFFICES ASSUME NEW v \in Worker, v # w, hand[v] # NoEntry
                 PROVE  hand[v].id # queue[1].id
      OBVIOUS
    <2>1. hand[v].id < queue[1].id
      BY <1>2 DEF HandedOnce
    <2>2. hand[v].id \in Nat
      BY DEF TypeInv, Entry
    <2>3. QED
      BY <2>1, <2>2, <1>2, <1>5
  <1>11. \A u, v \in Worker :
           (hand'[u] # NoEntry /\ hand'[v] # NoEntry /\ u # v) => hand'[u].id # hand'[v].id
    BY <1>8, <1>10 DEF HandedOnce
  <1>12. queue' = q /\ pushed' = pushed
    BY DEF Take
  <1>13. QED
    BY <1>4, <1>6, <1>7, <1>9, <1>11, <1>12 DEF HandedOnce

\* The new entry has a greater number than every other.
LEMMA ExtendKeeps ==
  ASSUME TypeInv, HandedOnce, NEW w \in Worker, NEW u \in Url, Extend(w, u)
  PROVE  TypeInv' /\ HandedOnce'
  <1> DEFINE e == [id |-> pushed + 1, url |-> u, depth |-> hand[w].depth + 1]
             q == Append(queue, e)
  <1>1. queue \in Seq(Entry) /\ pushed \in Nat /\ MaxDepth \in Nat
    BY EntryAssumption DEF TypeInv
  <1>2. hand[w] \in Entry /\ hand[w].depth <= MaxDepth
    BY DEF TypeInv, Extend
  <1>3. e \in Entry /\ e.id = pushed + 1
    BY <1>1, <1>2 DEF Entry
  <1>4. q \in Seq(Entry) /\ DOMAIN q = 1 .. Len(queue) + 1 /\ Len(queue) \in Nat
    BY <1>1, <1>3
  <1>5. \A i \in DOMAIN q : \/ i \in DOMAIN queue /\ q[i] = queue[i]
                            \/ i = Len(queue) + 1 /\ q[i] = e
    BY <1>1, <1>3, <1>4
  <1>6. queue' = q /\ pushed' = pushed + 1 /\ hand' = hand
    BY DEF Extend
  <1>7. TypeInv'
    BY <1>1, <1>4, <1>6 DEF TypeInv
  <1>8. \A i \in DOMAIN queue :
          i \in 1 .. Len(queue) /\ queue[i].id \in Nat /\ queue[i].id <= pushed
    BY <1>1, QueuedIds DEF HandedOnce
  <1>9. \A i, j \in DOMAIN q : i < j => q[i].id < q[j].id
    <2> SUFFICES ASSUME NEW i \in DOMAIN q, NEW j \in DOMAIN q, i < j
                 PROVE  q[i].id < q[j].id
      OBVIOUS
    <2>1. i \in DOMAIN queue /\ q[i] = queue[i]
      BY <1>4, <1>5
    <2>2. CASE j \in DOMAIN queue /\ q[j] = queue[j]
      BY <2>1, <2>2 DEF HandedOnce
    <2>3. CASE q[j] = e
      BY <1>1, <1>3, <1>8, <2>1, <2>3
    <2>4. QED
      BY <1>5, <2>2, <2>3
  <1>10. \A i \in DOMAIN q : q[i].id <= pushed + 1
    BY <1>1, <1>3, <1>5, <1>8
  <1>11. \A v \in Worker : hand[v] # NoEntry =>
           hand[v].id \in Nat /\ hand[v].id <= pushed
    BY DEF HandedOnce, TypeInv, Entry
  <1>12. \A v \in Worker : hand[v] # NoEntry =>
           hand[v].id <= pushed + 1 /\ \A i \in DOMAIN q : hand[v].id < q[i].id
    <2> SUFFICES ASSUME NEW v \in Worker, hand[v] # NoEntry
                 PROVE  hand[v].id <= pushed + 1 /\ \A i \in DOMAIN q : hand[v].id < q[i].id
      OBVIOUS
    <2>1. hand[v].id <= pushed + 1
      BY <1>1, <1>11
    <2>2. ASSUME NEW i \in DOMAIN q PROVE hand[v].id < q[i].id
      <3>1. CASE i \in DOMAIN queue /\ q[i] = queue[i]
        BY <3>1 DEF HandedOnce
      <3>2. CASE q[i] = e
        BY <1>1, <1>3, <1>11, <3>2
      <3>3. QED
        BY <1>5, <3>1, <3>2
    <2>3. QED
      BY <2>1, <2>2
  <1>13. QED
    BY <1>6, <1>7, <1>9, <1>10, <1>12 DEF HandedOnce

\* Finish gives up an entry that nobody has again.
LEMMA FinishKeeps ==
  ASSUME TypeInv, HandedOnce, NEW w \in Worker, Finish(w)
  PROVE  TypeInv' /\ HandedOnce'
  <1>1. \A v \in Worker : hand'[v] = IF v = w THEN NoEntry ELSE hand[v]
    BY DEF Finish, TypeInv
  <1>2. UNCHANGED <<queue, pushed>>
    BY DEF Finish
  <1>3. TypeInv'
    BY DEF TypeInv, Finish
  <1>4. QED
    BY <1>1, <1>2, <1>3 DEF HandedOnce

\* Every operation of the frontier keeps the invariant.
LEMMA StepFrontier ==
  ASSUME TypeInv, HandedOnce, [Next]_fvars
  PROVE  TypeInv' /\ HandedOnce'
  <1>1. CASE UNCHANGED fvars
    BY <1>1 DEF fvars, TypeInv, HandedOnce
  <1>2. ASSUME NEW w \in Worker, Take(w) PROVE TypeInv' /\ HandedOnce'
    BY <1>2, TakeKeeps
  <1>3. ASSUME NEW w \in Worker, NEW u \in Url, Extend(w, u)
        PROVE  TypeInv' /\ HandedOnce'
    BY <1>3, ExtendKeeps
  <1>4. ASSUME NEW w \in Worker, Finish(w) PROVE TypeInv' /\ HandedOnce'
    BY <1>4, FinishKeeps
  <1>5. QED
    BY <1>1, <1>2, <1>3, <1>4 DEF Next

\* Every entry of the abstract frontier is queued or in one hand, and entries
\* are handed out in the order they were pushed.
THEOREM FrontierHandedOnce == Spec => []HandedOnce
  <1>1. TypeInv /\ HandedOnce /\ [Next]_fvars => (TypeInv /\ HandedOnce)'
    BY StepFrontier
  <1>2. QED
    BY <1>1, InitFrontier, PTL DEF Spec

=============================================================================
