------------------------------ MODULE Frontier ------------------------------
(***************************************************************************)
(* What the crawl frontier promises, without its locks: TCrawler::uriQue is *)
(* a first-in first-out queue of entries, an entry is handed to one worker  *)
(* and never again, and only a worker that holds an entry extends the       *)
(* queue, with entries one level deeper than its own.  Module Crawler       *)
(* implements it with mutexes and a condition variable.                     *)
(***************************************************************************)
EXTENDS CrawlEntry

VARIABLES
  queue,      \* the entries pushed and not yet taken, oldest first
  hand,       \* the entry each worker works on
  pushed      \* how many entries were pushed so far

fvars == <<queue, hand, pushed>>

TypeInv ==
  /\ queue \in Seq(Entry)
  /\ hand \in [Worker -> Entry \cup {NoEntry}]
  /\ pushed \in Nat

-----------------------------------------------------------------------------
Init ==
  /\ queue = <<StartEntry>>
  /\ hand = [w \in Worker |-> NoEntry]
  /\ pushed = 1

Take(w) ==
  /\ hand[w] = NoEntry
  /\ queue # <<>>
  /\ hand' = [hand EXCEPT ![w] = Head(queue)]
  /\ queue' = Tail(queue)
  /\ UNCHANGED pushed

Extend(w, u) ==
  /\ hand[w] # NoEntry
  /\ hand[w].depth <= MaxDepth
  /\ queue' = Append(queue, [id |-> pushed + 1, url |-> u,
                             depth |-> hand[w].depth + 1])
  /\ pushed' = pushed + 1
  /\ UNCHANGED hand

Finish(w) ==
  /\ hand[w] # NoEntry
  /\ hand' = [hand EXCEPT ![w] = NoEntry]
  /\ UNCHANGED <<queue, pushed>>

Next ==
  \E w \in Worker :
    \/ Take(w)
    \/ \E u \in Url : Extend(w, u)
    \/ Finish(w)

Spec == Init /\ [][Next]_fvars

-----------------------------------------------------------------------------
\* Every entry is in one place: the queue holds entries in the order they
\* were pushed, whatever a worker holds was pushed before everything queued,
\* and no two workers hold the same entry (TCrawler::fetchUrl pops under
\* uq_mutex).
HandedOnce ==
  /\ \A i, j \in DOMAIN queue : i < j => queue[i].id < queue[j].id
  /\ \A i \in DOMAIN queue : queue[i].id <= pushed
  /\ \A w \in Worker : hand[w] # NoEntry =>
       /\ hand[w].id <= pushed
       /\ \A i \in DOMAIN queue : hand[w].id < queue[i].id
  /\ \A v, w \in Worker :
       (hand[v] # NoEntry /\ hand[w] # NoEntry /\ v # w) => hand[v].id # hand[w].id

=============================================================================
