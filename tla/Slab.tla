-------------------------------- MODULE Slab --------------------------------
(***************************************************************************)
(* The object cache of libspider/Slab.cpp on the circular list of List.cpp: *)
(* slabs of slabObjs objects, the full ones at the front of slabList, the   *)
(* empty ones at its tail, firstNotFull between them.                       *)
(*                                                                          *)
(* The list is the sequence of its slabs; SlabHead is &slabList.  Of a slab *)
(* only inuse is kept: its free list is empty when inuse is slabObjs.       *)
(***************************************************************************)
EXTENDS Integers, Sequences, FiniteSets, SequencesExt

CONSTANTS
  SlabIds,      \* the slabs malloc can return
  slabObjs,     \* numObjs
  SlabMaxFree,  \* MAX_FREE_SLABS
  SlabMaxLost   \* bound on the slabs reclaim frees

SlabHead == 0

\* With one object a slab goes from full to empty in one step, which freeObj takes
\* for the first of its cases only: caches of one object are left out.
ASSUME SlabAssumption ==
  /\ SlabHead \notin SlabIds
  /\ slabObjs \in Nat \ {0, 1} /\ SlabMaxFree \in Nat /\ SlabMaxLost \in Nat

VARIABLES
  slabList,       \* slabList, from its head
  slabInuse,      \* inuse of every slab on the list, 0 for the others
  firstNotFull,
  numFreeSlabs,
  slabLost,       \* slabs reclaim has freed so far (only counted here)
  slabBroken      \* "no", or what was used: a slab already "freed", a "null" one

slabVars == <<slabList, slabInuse, firstNotFull, numFreeSlabs, slabLost, slabBroken>>

SlabSet(l) == {l[i] : i \in DOMAIN l}
SlabEmpties == {s \in SlabSet(slabList) : slabInuse[s] = 0}

-----------------------------------------------------------------------------
(* ListHead: next, prev, remove and add on the sequence. *)

SlabAt(l, x) == CHOOSE i \in DOMAIN l : l[i] = x
SlabNextOf(l, x) ==
  IF l = <<>> THEN SlabHead
  ELSE IF x = SlabHead THEN l[1]
  ELSE IF SlabAt(l, x) = Len(l) THEN SlabHead ELSE l[SlabAt(l, x) + 1]
SlabPrevOf(l, x) ==
  IF l = <<>> THEN SlabHead
  ELSE IF x = SlabHead THEN l[Len(l)]
  ELSE IF SlabAt(l, x) = 1 THEN SlabHead ELSE l[SlabAt(l, x) - 1]
SlabRemove(l, x) == RemoveAt(l, SlabAt(l, x))

\* t->add(x): x goes before t, to the tail when t is the head of the list.
SlabAdd(l, t, x) == IF t = SlabHead THEN Append(l, x) ELSE InsertAt(l, SlabAt(l, t), x)

\* The loop of reclaim(n): from the tail of l backwards, while slabs are empty, at
\* most n; how many are freed.
SlabFreed(l, inuse, n) ==
  Max({i \in 0 .. Len(l) : i <= n /\ \A k \in Len(l) - i + 1 .. Len(l) : inuse[l[k]] = 0})

\* reclaim(n): the new list and firstNotFull, and how many slabs were freed.
SlabReclaim(l, inuse, first, n) ==
  LET i == SlabFreed(l, inuse, n)
      kept == SubSeq(l, 1, Len(l) - i)
      back == IF first = SlabHead \/ first \in SlabSet(kept) THEN first
              ELSE SlabPrevOf(kept, SlabHead)
  IN [list |-> kept,
      first |-> IF back # first /\ back # SlabHead /\ inuse[back] = slabObjs
                THEN SlabHead ELSE back,
      freed |-> i]

SlabReclaimed(r) ==
  /\ slabList' = r.list /\ firstNotFull' = r.first
  /\ numFreeSlabs' = numFreeSlabs + r.freed
  /\ slabLost' = slabLost + r.freed

SlabAll == 65535   \* the default argument of reclaim

-----------------------------------------------------------------------------
SlabInit ==
  /\ slabList = <<>> /\ slabInuse = [s \in SlabIds |-> 0] /\ firstNotFull = SlabHead
  /\ numFreeSlabs = 0 /\ slabLost = 0 /\ slabBroken = "no"

\* allocObj from the slab that is not full.
SlabAlloc ==
  /\ slabBroken = "no" /\ firstNotFull # SlabHead
  /\ LET s == firstNotFull IN
       /\ numFreeSlabs' = IF slabInuse[s] = 0 THEN numFreeSlabs - 1 ELSE numFreeSlabs
       /\ slabInuse' = [slabInuse EXCEPT ![s] = @ + 1]
       /\ firstNotFull' = IF slabInuse[s] + 1 = slabObjs THEN SlabNextOf(slabList, s) ELSE s
  /\ UNCHANGED <<slabList, slabLost, slabBroken>>

\* newSlab and the rest of allocObj: a slab malloc returned, added to list l, from
\* which one object is taken at once.
SlabTakeNew(l, s) ==
  /\ slabList' = Append(l, s)
  /\ slabInuse' = [slabInuse EXCEPT ![s] = 1]
  /\ firstNotFull' = s

SlabAllocNew ==
  /\ slabBroken = "no" /\ firstNotFull = SlabHead
  /\ \E s \in SlabIds \ SlabSet(slabList) : SlabTakeNew(slabList, s)
  /\ UNCHANGED <<numFreeSlabs, slabLost, slabBroken>>

\* malloc fails: with nothing reclaimed in any cache the null slab is used; else
\* malloc is tried again, and its failure returned to the caller.  "other" stands
\* for what the other caches freed.
SlabAllocNoMemory ==
  /\ slabBroken = "no" /\ firstNotFull = SlabHead
  /\ LET r == SlabReclaim(slabList, slabInuse, firstNotFull, SlabAll) IN
     \E other \in BOOLEAN :
       IF r.freed = 0 /\ ~ other
       THEN slabBroken' = "null" /\ UNCHANGED <<slabList, slabInuse, firstNotFull, numFreeSlabs, slabLost>>
       ELSE /\ slabLost + r.freed <= SlabMaxLost
            /\ slabBroken' = "no"
            /\ \/ SlabReclaimed(r) /\ UNCHANGED slabInuse
               \/ /\ \E s \in SlabIds \ SlabSet(r.list) : SlabTakeNew(r.list, s)
                  /\ numFreeSlabs' = numFreeSlabs + r.freed
                  /\ slabLost' = slabLost + r.freed

\* reclaimAll, when another cache is out of memory.
SlabReclaimAll ==
  /\ slabBroken = "no"
  /\ LET r == SlabReclaim(slabList, slabInuse, firstNotFull, SlabAll) IN
       /\ slabLost + r.freed <= SlabMaxLost
       /\ SlabReclaimed(r)
  /\ UNCHANGED <<slabInuse, slabBroken>>

\* Fault: the slab stays among the full ones.
SlabFreeFullUnmoved(s) ==
  /\ slabBroken = "no" /\ slabInuse[s] = slabObjs
  /\ slabInuse' = [slabInuse EXCEPT ![s] = @ - 1]
  /\ firstNotFull' = s
  /\ UNCHANGED <<slabList, numFreeSlabs, slabLost, slabBroken>>

\* freeObj of an object of a full slab: the slab becomes firstNotFull, and goes
\* before the one that was.
SlabFreeFull(s) ==
  /\ slabBroken = "no" /\ slabInuse[s] = slabObjs
  /\ slabInuse' = [slabInuse EXCEPT ![s] = @ - 1]
  /\ firstNotFull' = s
  /\ slabList' = IF SlabNextOf(slabList, s) = firstNotFull THEN slabList
                 ELSE SlabAdd(SlabRemove(slabList, s), firstNotFull, s)
  /\ UNCHANGED <<numFreeSlabs, slabLost, slabBroken>>

\* freeObj of an object that is not the last one in use.
SlabFreeOne(s) ==
  /\ slabBroken = "no" /\ slabInuse[s] \in 2 .. slabObjs - 1
  /\ slabInuse' = [slabInuse EXCEPT ![s] = @ - 1]
  /\ UNCHANGED <<slabList, firstNotFull, numFreeSlabs, slabLost, slabBroken>>

\* freeObj of the last object in use: reclaim when there are too many empty slabs,
\* then the slab goes to the tail.  The slab in hand is empty and still where it
\* was: when reclaim reaches it, its links are used after it is freed.
SlabFreeLast(s) ==
  /\ slabBroken = "no" /\ slabInuse[s] = 1
  /\ LET inuse == [slabInuse EXCEPT ![s] = 0]
         n == numFreeSlabs + 1 - SlabMaxFree
         r == IF n > 0 THEN SlabReclaim(slabList, inuse, firstNotFull, n)
              ELSE [list |-> slabList, first |-> firstNotFull, freed |-> 0]
         t == SlabPrevOf(r.list, r.first)
         moved == Append(SlabRemove(r.list, s), s)
     IN /\ slabLost + r.freed <= SlabMaxLost
        /\ slabInuse' = inuse
        /\ numFreeSlabs' = numFreeSlabs + 1 + r.freed
        /\ slabLost' = slabLost + r.freed
        /\ IF s \notin SlabSet(r.list)
           THEN slabBroken' = "freed" /\ slabList' = r.list /\ firstNotFull' = r.first
           ELSE /\ slabList' = moved
                /\ firstNotFull' = IF r.first = s THEN SlabNextOf(moved, t) ELSE r.first
                /\ UNCHANGED slabBroken

SlabFree == \E s \in SlabSet(slabList) : SlabFreeFull(s) \/ SlabFreeOne(s) \/ SlabFreeLast(s)

SlabNext == SlabAlloc \/ SlabAllocNew \/ SlabAllocNoMemory \/ SlabReclaimAll \/ SlabFree

SlabSpec == SlabInit /\ [][SlabNext]_slabVars

-----------------------------------------------------------------------------
SlabTypeOK ==
  /\ slabList \in Seq(SlabIds)
  /\ slabInuse \in [SlabIds -> 0 .. slabObjs]
  /\ firstNotFull \in SlabIds \cup {SlabHead}
  /\ numFreeSlabs \in Int /\ slabLost \in 0 .. SlabMaxLost
  /\ slabBroken \in {"no", "freed", "null"}

\* The list l is in order: a slab is on it once, the full slabs come first, the empty
\* ones last.
SlabRank(inuse, s) == IF inuse[s] = slabObjs THEN 0 ELSE IF inuse[s] > 0 THEN 1 ELSE 2
SlabSorted(l, inuse) ==
  \A i, j \in DOMAIN l :
    i < j => l[i] # l[j] /\ SlabRank(inuse, l[i]) <= SlabRank(inuse, l[j])

\* first is the first slab of l that is not full, or the head of the list.
SlabFirst(l, inuse, first) ==
  \/ first = SlabHead /\ \A i \in DOMAIN l : inuse[l[i]] = slabObjs
  \/ \E i \in DOMAIN l : /\ first = l[i] /\ inuse[l[i]] < slabObjs
                        /\ \A j \in 1 .. i - 1 : inuse[l[j]] = slabObjs

\* As long as nothing freed was used, allocObj never takes an object from a slab
\* without one, nor a new slab while an old one has room.
SlabOrder ==
  slabBroken = "no" =>
    SlabSorted(slabList, slabInuse) /\ SlabFirst(slabList, slabInuse, firstNotFull)

\* reclaim adds the slabs it frees to numFreeSlabs, which counts the empty ones:
\* the count is too high by twice their number.  freeObj asks reclaim for so many
\* that it gives up the slab in hand only after MAX_FREE_SLABS / 2 were freed.
SlabAccounts ==
  /\ slabBroken = "no" => numFreeSlabs = Cardinality(SlabEmpties) + 2 * slabLost
  /\ slabBroken = "freed" => 2 * slabLost >= SlabMaxFree

\* Both: the list is as allocObj and freeObj rely on, and the count is off by what reclaim
\* freed and by nothing else.
SlabKept == SlabOrder /\ SlabAccounts

=============================================================================
