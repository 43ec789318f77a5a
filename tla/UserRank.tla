------------------------------ MODULE UserRank ------------------------------
(***************************************************************************)
(* build/UserRank.cpp: the links of the users are read, one link of every   *)
(* loop of users with a single link is cut, and the ranks are computed by   *)
(* iteration.  A rank is a multiple of 1 / rankScale; doubles are exact.    *)
(***************************************************************************)
EXTENDS Integers, Sequences, FiniteSetsExt, Functions, SequencesExt

CONSTANTS
  RankUsers,    \* the users, numbered in the order of std::map
  RankFriends,  \* the sets of friends a line of jiwaifriends.txt may give
  RankUnit,     \* a multiple of every number of friends, so that ranks stay whole numbers
  RankMaxRound  \* bound: rounds of computeUserRank

rankAlpha == 17   \* 0.85 as a multiple of 1/20

ASSUME RankAssumption ==
  /\ RankUsers \subseteq Nat /\ IsFiniteSet(RankUsers)
  /\ RankFriends \subseteq SUBSET RankUsers
  /\ RankUnit \in Nat \ {0}
  /\ \A S \in RankFriends : \A n \in 1 .. Cardinality(S) : RankUnit % n = 0
  /\ RankMaxRound \in Nat

VARIABLES
  rankPc,       \* "load", "next" and "walk" and "drop" in checkMatrixSelfLoop, "rank", "end", "undefined"
  rankSeen,     \* the keys of firstMapRank
  rankGiven,    \* matrix as buildMatrix leaves it
  rankRows,     \* matrix
  rankSingles,  \* what is left of singleList, which is in the order of the map
  rankStack,    \* ustack
  rankCur,      \* curNode
  rankRanks,    \* curRanks
  rankScale,    \* what a rank of 1 is
  rankRound     \* loopcnt

rankLoop == <<rankSingles, rankStack, rankCur>>
rankResult == <<rankRanks, rankScale, rankRound>>
rankVars == <<rankPc, rankSeen, rankGiven, rankRows, rankLoop, rankResult>>

RankInit ==
  /\ rankPc = "load" /\ rankSeen = {} /\ rankGiven = <<>> /\ rankRows = <<>>
  /\ rankSingles = {} /\ rankStack = <<>> /\ rankCur = 0
  /\ rankRanks = <<>> /\ rankScale = 0 /\ rankRound = 0

-----------------------------------------------------------------------------
RankIsSingle(rows, u) == u \in DOMAIN rows /\ Cardinality(rows[u]) = 1
RankFriend(rows, u) == CHOOSE v \in rows[u] : TRUE

\* addLink for every link of the file: a user who is named in a link is ranked, a link
\* to oneself is no row.
RankAddLinks(links) ==
  /\ rankSeen' = UNION {{u} \cup links[u] : u \in {u \in RankUsers : links[u] # {}}}
  /\ rankRows' = [u \in {u \in RankUsers : links[u] \ {u} # {}} |-> links[u] \ {u}]

\* buildMatrix, and the list of checkMatrixSelfLoop.
RankBuild ==
  /\ rankPc = "load"
  /\ rankPc' = "next"
  /\ \E links \in [RankUsers -> RankFriends] : RankAddLinks(links)
  /\ rankGiven' = rankRows'
  /\ rankSingles' = {u \in DOMAIN rankRows' : RankIsSingle(rankRows', u)}
  /\ rankRanks' = [u \in rankSeen' |-> 1]
  /\ rankScale' = Cardinality(rankSeen')
  /\ UNCHANGED <<rankStack, rankCur, rankRound>>

\* The walk from the next single user begins, if there is one left.
RankNextSingle ==
  /\ rankPc = "next"
  /\ IF rankSingles = {}
     THEN rankPc' = "drop" /\ UNCHANGED rankLoop
     ELSE /\ rankPc' = "walk" /\ rankStack' = <<>>
          /\ rankCur' = Min(rankSingles) /\ rankSingles' = rankSingles \ {Min(rankSingles)}
  /\ UNCHANGED <<rankSeen, rankGiven, rankRows, rankResult>>

\* One turn of the while: a user with no single link ends the walk, a link back into
\* it is cut, and any other is followed.
RankWalk ==
  /\ rankPc = "walk"
  /\ IF ~ RankIsSingle(rankRows, rankCur)
     THEN rankPc' = "next" /\ rankStack' = <<>> /\ UNCHANGED <<rankCur, rankRows>>
     ELSE IF RankFriend(rankRows, rankCur) \in ToSet(rankStack)
     THEN /\ rankRows' = [rankRows EXCEPT ![rankCur] = {}]
          /\ rankPc' = "next" /\ rankStack' = <<>> /\ UNCHANGED rankCur
     ELSE /\ rankStack' = Append(rankStack, rankCur)
          /\ rankCur' = RankFriend(rankRows, rankCur)
          /\ UNCHANGED <<rankPc, rankRows>>
  /\ UNCHANGED <<rankSeen, rankGiven, rankSingles, rankResult>>

RankEmpty(rows) == {u \in DOMAIN rows : rows[u] = {}}

\* Empty rows are erased in a loop that increments the iterator it erased: undefined,
\* so that rows after the first may be passed over, or the program ends.
RankDrop ==
  /\ rankPc = "drop"
  /\ \/ \E left \in SUBSET RankEmpty(rankRows) :
          /\ RankEmpty(rankRows) # {} => Min(RankEmpty(rankRows)) \notin left
          /\ rankRows' = Restrict(rankRows, (DOMAIN rankRows \ RankEmpty(rankRows)) \cup left)
          /\ rankPc' = "rank"
     \/ RankEmpty(rankRows) # {} /\ rankPc' = "undefined" /\ UNCHANGED rankRows
  /\ UNCHANGED <<rankSeen, rankGiven, rankLoop, rankResult>>

-----------------------------------------------------------------------------
RankSum(us) == SumFunctionOnSet(rankRanks, us)

\* Fault: the users without a row are counted before the loops are cut.
RankDanglingBefore == rankSeen \ DOMAIN rankGiven

\* allZeroMapRank: the users without a row.
RankDangling == rankSeen \ DOMAIN rankRows

\* What each user with links passes on to a friend, times RankUnit.
RankPassed ==
  [v \in DOMAIN rankRows \ RankEmpty(rankRows) |->
     rankRanks[v] * (RankUnit \div Cardinality(rankRows[v]))]

RankInflow(u) == SumFunctionOnSet(RankPassed, {v \in DOMAIN rankRows : u \in rankRows[v]})

\* One round of computeUserRank.
RankStep ==
  /\ rankPc = "rank" /\ rankRound < RankMaxRound
  /\ LET total == Cardinality(rankSeen)
         shared == rankAlpha * RankSum(RankDangling) + (20 - rankAlpha) * rankScale
     IN  /\ rankRanks' = [u \in rankSeen |->
                            rankAlpha * total * RankInflow(u) + RankUnit * shared]
         /\ rankScale' = 20 * RankUnit * total * rankScale
  /\ rankRound' = rankRound + 1
  /\ UNCHANGED <<rankPc, rankSeen, rankGiven, rankRows, rankLoop>>

\* diff is at most EPS, after any round but never before the first.
RankShow ==
  /\ rankPc = "rank" /\ rankRound > 0
  /\ rankPc' = "end"
  /\ UNCHANGED <<rankSeen, rankGiven, rankRows, rankLoop, rankResult>>

RankNext == RankBuild \/ RankNextSingle \/ RankWalk \/ RankDrop \/ RankStep \/ RankShow

RankSpec == RankInit /\ [][RankNext]_rankVars

-----------------------------------------------------------------------------
RankTypeOK ==
  /\ rankPc \in {"load", "next", "walk", "drop", "rank", "end", "undefined"}
  /\ DOMAIN rankRows \subseteq rankSeen /\ rankSeen \subseteq RankUsers
  /\ \A u \in DOMAIN rankRows : rankRows[u] \subseteq rankSeen \ {u}
  /\ rankStack \in Seq(rankSeen) /\ rankSingles \subseteq DOMAIN rankGiven
  /\ rankRound \in 0 .. RankMaxRound
  /\ rankPc # "load" => DOMAIN rankRanks = rankSeen

\* The users met when the single links of rows are followed from u: those in every set
\* that has the friend of u, and of each of its users with a single link.
RankFollows(rows, S, u) == RankIsSingle(rows, u) => rows[u] \subseteq S

RankFollowed(rows, u) ==
  {v \in RankUsers :
     \A S \in SUBSET RankUsers : (\A w \in S \cup {u} : RankFollows(rows, S, w)) => v \in S}

RankOnLoop(u) == u \in RankFollowed(rankGiven, u)

\* Of every loop of users with a single link exactly one user has lost its link when
\* all walks are done, wherever the walks began, and nobody off a loop has.
RankLoopsCut ==
  rankPc = "drop" =>
    \A u \in DOMAIN rankGiven :
      IF RankOnLoop(u)
      THEN Cardinality(RankFollowed(rankGiven, u) \cap RankEmpty(rankRows)) = 1
      ELSE rankRows[u] = rankGiven[u]

\* The ranks add up to 1 after every round, the users whose link was cut included,
\* unless the erasing of empty rows passed one over: then rank is lost.
RankMass ==
  rankPc \in {"rank", "end"} =>
    /\ RankEmpty(rankRows) = {} => RankSum(rankSeen) = rankScale
    /\ RankSum(rankSeen) <= rankScale

\* Both: what the rank is computed from, and what it adds up to.
RankKept == RankLoopsCut /\ RankMass

=============================================================================
