------------------------- MODULE BoardCards_proofs -------------------------
(***************************************************************************)
(* That cards land where the calls ask for, and that the two copies of a   *)
(* card's column agree on done, for any cards, columns and rank step.      *)
(***************************************************************************)
EXTENDS BoardCards, FiniteSetTheorems, WellFoundedInduction, TLAPS

(* Numbers: a finite nonempty set of them has a largest and a smallest.    *)

\* Among the sets of elements at or above an element there is a minimal one.
LEMMA HasMax ==
    ASSUME NEW S \in SUBSET Nat, IsFiniteSet(S), S # {}
    PROVE  Max(S) \in S /\ \A y \in S : Max(S) >= y
<1> DEFINE Up(x) == {y \in S : y >= x}
           T == {Up(x) : x \in S}
<1>0. \A x : Up(x) \in SUBSET S /\ IsFiniteSet(Up(x))
  <2>1. \A x : Up(x) \in SUBSET S
    OBVIOUS
  <2> HIDE DEF Up
  <2> QED BY <2>1, FS_Subset
<1>1. T \subseteq FiniteSubsetsOf(S) /\ T # {}
  <2> HIDE DEF Up
  <2> QED BY <1>0 DEF FiniteSubsetsOf
<1>2. PICK U \in T : \A V \in T : ~ (<<V, U>> \in StrictSubsetOrdering(S))
  <2> HIDE DEF T
  <2> QED BY <1>1, FS_StrictSubsetOrderingWellFounded, WFMin
<1>3. PICK x \in S : U = Up(x)
  OBVIOUS
<1>4. ASSUME NEW y \in S, ~(x >= y)  PROVE FALSE
  <2>1. y > x
    BY <1>4
  <2>a. x \in Nat /\ y \in Nat /\ \A z \in S : z \in Nat
    OBVIOUS
  <2>b. x \in Up(x) /\ x \notin Up(y)
    BY <2>1, <2>a
  <2>c. ASSUME NEW z \in Up(y)  PROVE z \in Up(x)
    BY <2>1, <2>a
  <2>2. Up(y) \subseteq Up(x) /\ x \in Up(x) /\ x \notin Up(y)
    BY <2>b, <2>c
  <2>3. <<Up(y), Up(x)>> \in StrictSubsetOrdering(S)
    <3> HIDE DEF Up
    <3> QED BY <1>0, <2>2 DEF StrictSubsetOrdering
  <2> QED BY <1>2, <1>3, <2>3
<1>5. \E z \in S : \A y \in S : z >= y
  BY <1>4
<1> QED BY <1>5 DEF Max

LEMMA HasMin ==
    ASSUME NEW S \in SUBSET Nat, IsFiniteSet(S), S # {}
    PROVE  Min(S) \in S /\ \A y \in S : Min(S) <= y
<1> DEFINE Down(x) == {y \in S : y <= x}
           T == {Down(x) : x \in S}
<1>0. \A x : Down(x) \in SUBSET S /\ IsFiniteSet(Down(x))
  <2>1. \A x : Down(x) \in SUBSET S
    OBVIOUS
  <2> HIDE DEF Down
  <2> QED BY <2>1, FS_Subset
<1>1. T \subseteq FiniteSubsetsOf(S) /\ T # {}
  <2> HIDE DEF Down
  <2> QED BY <1>0 DEF FiniteSubsetsOf
<1>2. PICK U \in T : \A V \in T : ~ (<<V, U>> \in StrictSubsetOrdering(S))
  <2> HIDE DEF T
  <2> QED BY <1>1, FS_StrictSubsetOrderingWellFounded, WFMin
<1>3. PICK x \in S : U = Down(x)
  OBVIOUS
<1>4. ASSUME NEW y \in S, ~(x <= y)  PROVE FALSE
  <2>1. y < x
    BY <1>4
  <2>a. x \in Nat /\ y \in Nat /\ \A z \in S : z \in Nat
    OBVIOUS
  <2>b. x \in Down(x) /\ x \notin Down(y)
    BY <2>1, <2>a
  <2>c. ASSUME NEW z \in Down(y)  PROVE z \in Down(x)
    BY <2>1, <2>a
  <2>2. Down(y) \subseteq Down(x) /\ x \in Down(x) /\ x \notin Down(y)
    BY <2>b, <2>c
  <2>3. <<Down(y), Down(x)>> \in StrictSubsetOrdering(S)
    <3> HIDE DEF Down
    <3> QED BY <1>0, <2>2 DEF StrictSubsetOrdering
  <2> QED BY <1>2, <1>3, <2>3
<1>5. \E z \in S : \A y \in S : z <= y
  BY <1>4
<1> QED BY <1>5 DEF Min

\* A multiple of the step is at least a step away from the next one.
LEMMA StepsApart ==
    ASSUME NEW s \in Nat, NEW m \in Nat, NEW n \in Nat, m < n
    PROVE  s * m \in Nat /\ s * n \in Nat /\ s * m + s <= s * n
<1>1. PICK d \in Nat : n = m + 1 + d
  <2> WITNESS n - m - 1 \in Nat
  <2> QED OBVIOUS
<1>2. s * n = s * m + s + s * d
  BY <1>1
<1>3. s * d \in Nat /\ s * m \in Nat
  OBVIOUS
<1> QED BY <1>2, <1>3

\* A rank between two neighbours is strictly between them.
LEMMA BetweenNeighbours ==
    ASSUME NEW prev \in Nat, NEW next \in 0..MaxRank, HasRoom(prev, next)
    PROVE  /\ RankBetween(prev, next) \in 1..MaxRank
           /\ prev < RankBetween(prev, next)
           /\ next # NoRank => RankBetween(prev, next) < next
BY BoardAssumption DEF HasRoom, RankBetween, NoRank

-----------------------------------------------------------------------------
(* Order.                                                                  *)

\* Cards with ranks that are in range.
Ranked(cs, S) == \A d \in S : cs[d].rank \in 1..MaxRank

\* Ranks and ids order the cards of a column totally.
LEMMA AheadIsTotal ==
    ASSUME NEW cs, NEW S \in SUBSET Cards, Ranked(cs, S)
    PROVE  \A a, b, c \in S :
             /\ ~Ahead(cs, a, a)
             /\ Ahead(cs, a, b) /\ Ahead(cs, b, c) => Ahead(cs, a, c)
             /\ a # b => Ahead(cs, a, b) \/ Ahead(cs, b, a)
             /\ Ahead(cs, a, b) => ~Ahead(cs, b, a)
<1>1. \A a \in S : a \in Nat
  BY BoardAssumption
<1>2. \A a \in S : cs[a].rank \in Nat
  BY BoardAssumption DEF Ranked
<1> HIDE DEF Ranked
<1> QED BY <1>1, <1>2 DEF Ahead

\* Every card in front of a place is ahead of every card behind it.
LEMMA FrontIsAhead ==
    ASSUME NEW S \in SUBSET Cards, Ranked(card, S),
           NEW at \in Places, at.side = "end" \/ at.anchor \in S
    PROVE  /\ Front(S, at) \subseteq S
           /\ \A f \in Front(S, at), b \in S \ Front(S, at) : Ahead(card, f, b)
<1>1. CASE at.side = "end"
  BY <1>1 DEF Front
<1>2. CASE at.side = "before"
  <2>1. at.anchor \in S
    BY <1>2
  <2>2. Front(S, at) = {d \in S : Ahead(card, d, at.anchor)}
    BY <1>2 DEF Front
  <2>3. ASSUME NEW f \in S, NEW b \in S,
               Ahead(card, f, at.anchor), ~Ahead(card, b, at.anchor)
        PROVE  Ahead(card, f, b)
    BY <2>1, <2>3, AheadIsTotal
  <2> QED BY <2>2, <2>3
<1>3. CASE at.side = "after"
  <2>1. at.anchor \in S
    BY <1>3
  <2>2. Front(S, at) = {d \in S : Ahead(card, d, at.anchor)} \union {at.anchor}
    BY <1>3 DEF Front
  <2>3. ASSUME NEW f \in S, NEW b \in S, Ahead(card, f, at.anchor) \/ f = at.anchor,
               ~Ahead(card, b, at.anchor), b # at.anchor
        PROVE  Ahead(card, f, b)
    BY <2>1, <2>3, AheadIsTotal
  <2> QED BY <2>1, <2>2, <2>3
<1> QED BY <1>1, <1>2, <1>3 DEF Places

\* The first and the last rank of a set of cards bound its ranks.
LEMMA RankBounds ==
    ASSUME NEW cs, NEW S \in SUBSET Cards, Ranked(cs, S)
    PROVE  /\ LastRank(cs, S) \in 0..MaxRank /\ FirstRank(cs, S) \in 0..MaxRank
           /\ \A d \in S : cs[d].rank <= LastRank(cs, S) /\ FirstRank(cs, S) <= cs[d].rank
           /\ S # {} => /\ FirstRank(cs, S) # NoRank
                        /\ \E d \in S : cs[d].rank = LastRank(cs, S)
                        /\ \E d \in S : cs[d].rank = FirstRank(cs, S)
<1>1. CASE S = {}
  BY <1>1, BoardAssumption DEF LastRank, FirstRank, NoRank
<1>2. CASE S # {}
  <2>1. IsFiniteSet(S)
    BY BoardAssumption, FS_Subset
  <2>2. Ranks(cs, S) \in SUBSET (1..MaxRank) /\ Ranks(cs, S) # {}
    BY <1>2 DEF Ranks, Ranked
  <2>3. IsFiniteSet(Ranks(cs, S))
    <3> DEFINE f == [d \in S |-> cs[d].rank]
    <3>1. f \in Surjection(S, Ranks(cs, S))
      BY DEF Surjection, Ranks
    <3> HIDE DEF f
    <3> QED BY <2>1, <3>1, FS_Surjection
  <2>4. Ranks(cs, S) \in SUBSET Nat
    BY <2>2, BoardAssumption
  <2>5. /\ LastRank(cs, S) \in Ranks(cs, S) /\ FirstRank(cs, S) \in Ranks(cs, S)
        /\ \A y \in Ranks(cs, S) : LastRank(cs, S) >= y /\ FirstRank(cs, S) <= y
    BY <1>2, <2>2, <2>3, <2>4, HasMax, HasMin DEF LastRank, FirstRank
  <2>6. \A d \in S : cs[d].rank \in Ranks(cs, S)
    BY DEF Ranks
  <2>7. \A y \in Ranks(cs, S) : \E d \in S : cs[d].rank = y
    BY DEF Ranks
  <2>8. \A y \in Ranks(cs, S) : y \in 1..MaxRank
    BY <2>2
  <2>9. LastRank(cs, S) \in 1..MaxRank /\ FirstRank(cs, S) \in 1..MaxRank
    BY <2>5, <2>8
  <2> QED BY <2>5, <2>6, <2>7, <2>8, <2>9, BoardAssumption DEF NoRank
<1> QED BY <1>1, <1>2

\* Where there is room the new rank is strictly between front and back.
LEMMA RankFits ==
    ASSUME NEW cs, NEW F \in SUBSET Cards, NEW B \in SUBSET Cards,
           Ranked(cs, F), Ranked(cs, B), HasRoom(LastRank(cs, F), FirstRank(cs, B)),
           NEW rank, rank = RankBetween(LastRank(cs, F), FirstRank(cs, B))
    PROVE  /\ rank \in 1..MaxRank
           /\ \A f \in F : cs[f].rank < rank
           /\ \A b \in B : rank < cs[b].rank
<1>1. /\ LastRank(cs, F) \in 0..MaxRank /\ FirstRank(cs, B) \in 0..MaxRank
      /\ \A d \in F : cs[d].rank <= LastRank(cs, F)
      /\ \A d \in B : FirstRank(cs, B) <= cs[d].rank /\ FirstRank(cs, B) # NoRank
  BY RankBounds
<1>2. /\ rank \in 1..MaxRank /\ LastRank(cs, F) < rank
      /\ FirstRank(cs, B) # NoRank => rank < FirstRank(cs, B)
  BY <1>1, BetweenNeighbours, BoardAssumption
<1>3. \A f \in F : cs[f].rank \in Nat
  BY BoardAssumption DEF Ranked
<1>4. \A b \in B : cs[b].rank \in Nat
  BY BoardAssumption DEF Ranked
<1> HIDE DEF Ranked
<1> QED BY <1>1, <1>2, <1>3, <1>4, BoardAssumption

-----------------------------------------------------------------------------
(* Placing a card.                                                         *)

\* New ranks of a column are a step apart, in the order there was, and leave
\* room at the end for one more.
LEMMA RebalanceKeepsOrder ==
    ASSUME NEW S \in SUBSET Cards, Ranked(card, S), \A d \in S : card[d] \in Card,
           NEW c \in Cards, c \notin S,
           NEW R, R = Rebalanced(S)
    PROVE  /\ R \in [Cards -> {R[d] : d \in Cards}]
           /\ \A d \in Cards : IF d \in S THEN R[d] = [card[d] EXCEPT !.rank = R[d].rank]
                              ELSE R[d] = card[d]
           /\ Ranked(R, S)
           /\ \A d \in S : R[d].rank >= RankStep /\ R[d].rank + RankStep <= MaxRank
           /\ \A d, e \in S : Ahead(card, d, e) => R[d].rank + RankStep <= R[e].rank
<1> DEFINE Before(d) == {e \in S : Ahead(card, e, d)}
           n(d) == Cardinality(Before(d))
<1>1. /\ R \in [Cards -> {R[d] : d \in Cards}]
      /\ \A d \in Cards : d \notin S => R[d] = card[d]
      /\ \A d \in S : R[d] = [card[d] EXCEPT !.rank = RankStep * (1 + n(d))]
  BY DEF Rebalanced
<1>2. \A d \in S : R[d].rank = RankStep * (1 + n(d))
  <2> HIDE DEF n
  <2> QED BY <1>1 DEF Card
<1>3. IsFiniteSet(S) /\ Cardinality(S) \in Nat /\ Cardinality(S) + 1 <= Cardinality(Cards)
        /\ Cardinality(Cards) \in Nat
  <2>1. S \union {c} \in SUBSET Cards
    OBVIOUS
  <2>2. IsFiniteSet(S)
    BY BoardAssumption, FS_Subset
  <2>3. Cardinality(S \union {c}) = Cardinality(S) + 1
    BY <2>2, FS_AddElement
  <2>4. Cardinality(S \union {c}) <= Cardinality(Cards)
    BY <2>1, BoardAssumption, FS_Subset
  <2>5. Cardinality(S) \in Nat /\ Cardinality(Cards) \in Nat
    BY <2>2, BoardAssumption, FS_CardinalityType
  <2> QED BY <2>2, <2>3, <2>4, <2>5
<1>4. ASSUME NEW d \in S
      PROVE  n(d) \in Nat /\ n(d) < Cardinality(S)
  <2>1. d \notin Before(d)
    BY AheadIsTotal
  <2>2. Before(d) \in SUBSET S
    OBVIOUS
  <2>3. /\ IsFiniteSet(Before(d)) /\ n(d) <= Cardinality(S)
        /\ Cardinality(S) = n(d) => S = Before(d)
    <3> HIDE DEF Before
    <3> QED BY <1>3, <2>2, FS_Subset
  <2>4. n(d) \in Nat
    BY <2>3, FS_CardinalityType
  <2> HIDE DEF Before
  <2> QED BY <2>1, <2>3, <2>4, <1>3 DEF n
<1>5. ASSUME NEW d \in S, NEW e \in S, Ahead(card, d, e)
      PROVE  n(d) < n(e)
  <2>1. d \in Before(e) /\ d \notin Before(d)
    BY <1>5, AheadIsTotal
  <2>2. Before(d) \in SUBSET Before(e)
    BY <1>5, AheadIsTotal
  <2>3. IsFiniteSet(Before(e))
    <3>1. Before(e) \in SUBSET S
      OBVIOUS
    <3> HIDE DEF Before
    <3> QED BY <1>3, <3>1, FS_Subset
  <2>4. n(d) <= n(e) /\ (n(e) = n(d) => Before(e) = Before(d))
    <3> HIDE DEF Before
    <3> QED BY <2>2, <2>3, FS_Subset
  <2>5. n(d) \in Nat /\ n(e) \in Nat
    BY <1>4
  <2> HIDE DEF Before
  <2> HIDE DEF n
  <2> QED BY <2>1, <2>4, <2>5
<1> HIDE DEF n
<1>6. ASSUME NEW d \in S
      PROVE  /\ R[d].rank \in Nat /\ R[d].rank >= 1 /\ R[d].rank >= RankStep
             /\ R[d].rank + RankStep <= MaxRank
  <2> DEFINE m == 1 + n(d)
             top == Cardinality(Cards)
  <2>1. m \in Nat /\ top \in Nat /\ m < top /\ 0 < m
    BY <1>3, <1>4
  <2>2. R[d].rank = RankStep * m
    BY <1>2
  <2>3. RankStep \in Nat /\ RankStep > 1 /\ MaxRank \in Nat /\ top * RankStep <= MaxRank
    BY BoardAssumption
  <2> HIDE DEF m, top
  <2>4. RankStep * m \in Nat /\ RankStep * m + RankStep <= RankStep * top
    BY <2>1, <2>3, StepsApart
  <2>5. RankStep * 0 + RankStep <= RankStep * m
    BY <2>1, <2>3, StepsApart
  <2>6. top * RankStep = RankStep * top /\ RankStep * 0 = 0
    BY <2>1, <2>3
  <2>7. RankStep * m >= RankStep
    BY <2>5, <2>6, <2>3
  <2>8. RankStep * top \in Nat
    BY <2>1, <2>3, StepsApart
  <2> QED BY <2>2, <2>3, <2>4, <2>6, <2>7, <2>8
<1>7. ASSUME NEW d \in S, NEW e \in S, Ahead(card, d, e)
      PROVE  R[d].rank + RankStep <= R[e].rank
  <2> DEFINE m == 1 + n(d)
             l == 1 + n(e)
  <2>1. m \in Nat /\ l \in Nat /\ m < l
    BY <1>4, <1>5, <1>7
  <2>2. R[d].rank = RankStep * m /\ R[e].rank = RankStep * l
    BY <1>2
  <2> HIDE DEF m, l
  <2> QED BY <2>1, <2>2, BoardAssumption, StepsApart
<1>8. Ranked(R, S)
  BY <1>6, BoardAssumption DEF Ranked
<1>9. \A d \in S : R[d] = [card[d] EXCEPT !.rank = R[d].rank]
  BY <1>1, <1>2
<1> QED BY <1>1, <1>6, <1>7, <1>8, <1>9

\* A row before it has its rank.
Row == [col : Columns, rank : Nat, listed : Columns,
        resolved : BOOLEAN, refs : Refs, parent : {ThreadOf[c] : c \in Cards},
        archived : BOOLEAN, trashed : BOOLEAN, back : BOOLEAN]

LEMMA OthersAreRanked ==
    ASSUME TypeOK, NEW c \in Cards, NEW k \in Columns
    PROVE  /\ Others(c, k) \in SUBSET Cards /\ c \notin Others(c, k)
           /\ \A d \in Others(c, k) : card[d] \in Card
           /\ Ranked(card, Others(c, k))
<1>1. /\ Others(c, k) \in SUBSET Cards /\ c \notin Others(c, k)
      /\ \A d \in Others(c, k) : card[d] # Nil
  BY DEF Others, Live
<1>2. \A d \in Cards : card[d] # Nil => card[d] \in Card
  BY DEF TypeOK
<1>3. \A d \in Others(c, k) : card[d] \in Card
  BY <1>1, <1>2
<1> QED BY <1>1, <1>3 DEF Ranked, Card

\* P is the cards after row became card c at a place of column k.
IsPlaced(P, c, row, k, at) ==
    /\ P \in [Cards -> Card \union {Nil}]
    /\ P[c] = [row EXCEPT !.col = k, !.rank = P[c].rank] /\ P[c].rank \in 1..MaxRank
    /\ \A d \in Cards \ {c} :
         IF d \in Others(c, k) THEN P[d] = [card[d] EXCEPT !.rank = P[d].rank]
         ELSE P[d] = card[d]
    /\ Ranked(P, Others(c, k))
    /\ \A d \in Others(c, k) :
         IF d \in Front(Others(c, k), at) THEN P[d].rank < P[c].rank
         ELSE P[c].rank < P[d].rank
    /\ \A d, e \in Others(c, k) : Ahead(card, d, e) => Ahead(P, d, e)

\* What a placement does: the card lies between front and back of its place, and
\* of the others only ranks change, not their order.
LEMMA PlacedFacts ==
    ASSUME TypeOK, NEW c \in Cards, NEW k \in Columns, NEW at \in Places,
           CanPlace(c, k, at), NEW row \in Row, NEW P, P = Placed(c, row, k, at)
    PROVE  IsPlaced(P, c, row, k, at)
<1>1. PICK others : others = Others(c, k)
  OBVIOUS
<1>2. PICK front : front = Front(others, at)
  OBVIOUS
<1>3. PICK back : back = others \ front
  OBVIOUS
<1>4. /\ others \in SUBSET Cards /\ c \notin others
      /\ \A d \in others : card[d] \in Card
      /\ Ranked(card, others)
  BY <1>1, OthersAreRanked
<1>5. at.side = "end" \/ at.anchor \in others
  BY <1>1 DEF CanPlace
<1>6. front \subseteq others /\ \A f \in front, b \in back : Ahead(card, f, b)
  BY <1>2, <1>3, <1>4, <1>5, FrontIsAhead
<1>7. PICK R : R = Rebalanced(others)
  OBVIOUS
<1>8. /\ R \in [Cards -> {R[d] : d \in Cards}]
      /\ \A d \in Cards : IF d \in others THEN R[d] = [card[d] EXCEPT !.rank = R[d].rank]
                         ELSE R[d] = card[d]
      /\ Ranked(R, others)
      /\ \A d \in others : R[d].rank >= RankStep /\ R[d].rank + RankStep <= MaxRank
      /\ \A d, e \in others : Ahead(card, d, e) => R[d].rank + RankStep <= R[e].rank
  BY <1>4, <1>7, RebalanceKeepsOrder
<1>9. PICK cs : cs = IF HasRoom(LastRank(card, front), FirstRank(card, back))
                     THEN card ELSE R
  OBVIOUS
<1>10. PICK rank : rank = RankBetween(LastRank(cs, front), FirstRank(cs, back))
  OBVIOUS
<1>11. P = [cs EXCEPT ![c] = [row EXCEPT !.col = k, !.rank = rank]]
  BY <1>1, <1>2, <1>3, <1>7, <1>9, <1>10 DEF Placed
<1>12. /\ DOMAIN cs = Cards
       /\ cs \in [Cards -> {cs[d] : d \in Cards}]
       /\ \A d \in Cards : IF d \in others THEN cs[d] = [card[d] EXCEPT !.rank = cs[d].rank]
                          ELSE cs[d] = card[d]
       /\ Ranked(cs, others)
       /\ \A d, e \in others : Ahead(card, d, e) => Ahead(cs, d, e)
  <2>1. CASE cs = card
    <3>1. card \in [Cards -> {card[d] : d \in Cards}]
      BY DEF TypeOK
    <3>2. \A d \in others : card[d] = [card[d] EXCEPT !.rank = card[d].rank]
      BY <1>4 DEF Card
    <3> QED BY <2>1, <3>1, <3>2, <1>4
  <2>2. CASE cs = R
    <3>1. \A d, e \in others : Ahead(card, d, e) => R[d].rank < R[e].rank
      BY <1>8, BoardAssumption DEF Ranked
    <3> QED BY <2>2, <3>1, <1>8 DEF Ahead
  <2> QED BY <1>9, <2>1, <2>2
<1>13. HasRoom(LastRank(cs, front), FirstRank(cs, back))
  <2>1. CASE cs = card /\ HasRoom(LastRank(card, front), FirstRank(card, back))
    BY <2>1
  <2>2. CASE cs = R
    <3>1. front \in SUBSET Cards /\ back \in SUBSET Cards /\ back \subseteq others
      BY <1>3, <1>4, <1>6
    <3>2. Ranked(R, front) /\ Ranked(R, back)
      BY <1>6, <1>8, <3>1 DEF Ranked
    <3>3. /\ LastRank(R, front) \in 0..MaxRank /\ FirstRank(R, back) \in 0..MaxRank
          /\ front # {} => \E f \in front : R[f].rank = LastRank(R, front)
          /\ back # {} => \E b \in back : R[b].rank = FirstRank(R, back)
      BY <3>1, <3>2, RankBounds
    <3>4. MaxRank \in Nat /\ RankStep \in Nat /\ RankStep > 1 /\ RankStep <= MaxRank
      <4>1. IsFiniteSet(Cards) /\ Cards # {} /\ Cardinality(Cards) * RankStep <= MaxRank
              /\ MaxRank \in Nat /\ RankStep \in Nat /\ RankStep > 1
        BY BoardAssumption
      <4>2. Cardinality(Cards) \in Nat /\ Cardinality(Cards) # 0
        BY <4>1, FS_CardinalityType, FS_EmptySet
      <4>3. PICK N \in Nat : N = Cardinality(Cards)
        BY <4>2
      <4>4. 0 < N /\ N * RankStep <= MaxRank
        BY <4>1, <4>2, <4>3
      <4>5. RankStep * 0 + RankStep <= RankStep * N
        BY <4>1, <4>4, StepsApart
      <4> QED BY <4>1, <4>4, <4>5
    <3>5. front = {} => LastRank(R, front) = 0
      BY DEF LastRank, NoRank
    <3>6. back = {} => FirstRank(R, back) = NoRank
      BY DEF FirstRank
    <3>7. CASE back = {}
      <4>1. LastRank(R, front) + RankStep <= MaxRank
        BY <1>6, <1>8, <3>3, <3>4, <3>5
      <4> QED BY <2>2, <3>6, <3>7, <4>1 DEF HasRoom
    <3>8. CASE back # {}
      <4>1. PICK b \in back : R[b].rank = FirstRank(R, back)
        BY <3>3, <3>8
      <4>2. R[b].rank \in 1..MaxRank
        BY <3>2 DEF Ranked
      <4>3. R[b].rank >= RankStep
        BY <1>8, <3>1
      <4>4. LastRank(R, front) + RankStep <= R[b].rank
        BY <1>6, <1>8, <3>1, <3>3, <3>4, <3>5, <4>3
      <4> QED BY <2>2, <3>3, <3>4, <4>1, <4>2, <4>4 DEF HasRoom, NoRank
    <3> QED BY <3>7, <3>8
  <2> QED BY <1>9, <2>1, <2>2
<1>14. /\ rank \in 1..MaxRank
       /\ \A f \in front : cs[f].rank < rank
       /\ \A b \in back : rank < cs[b].rank
  <2>1. front \in SUBSET Cards /\ back \in SUBSET Cards
    BY <1>3, <1>4, <1>6
  <2>2. Ranked(cs, front) /\ Ranked(cs, back)
    BY <1>3, <1>6, <1>12 DEF Ranked
  <2> QED BY <1>10, <1>13, <2>1, <2>2, RankFits
<1>15. P[c] = [row EXCEPT !.col = k, !.rank = rank] /\ P[c].rank = rank
  BY <1>11, <1>12 DEF Row
<1>16. \A d \in Cards \ {c} : P[d] = cs[d]
  BY <1>11, <1>12
<1>17. P[c] \in Card
  BY <1>14, <1>15 DEF Row, Card
<1>18. \A d \in others : cs[d] \in Card
  BY <1>4, <1>12 DEF Card, Ranked
<1>19. \A d \in Cards : P[d] \in Card \union {Nil}
  BY <1>12, <1>16, <1>17, <1>18 DEF TypeOK
<1>20. P \in [Cards -> Card \union {Nil}]
  BY <1>11, <1>12, <1>19
<1>21. Ranked(P, others)
  BY <1>4, <1>12, <1>16 DEF Ranked
<1>22. \A d \in others : IF d \in front THEN P[d].rank < P[c].rank
                        ELSE P[c].rank < P[d].rank
  BY <1>3, <1>4, <1>14, <1>15, <1>16
<1>23. \A d, e \in others : Ahead(card, d, e) => Ahead(P, d, e)
  BY <1>4, <1>12, <1>16 DEF Ahead
<1>24. \A d \in Cards \ {c} : IF d \in others THEN P[d] = [card[d] EXCEPT !.rank = P[d].rank]
                            ELSE P[d] = card[d]
  BY <1>12, <1>16
<1>25. /\ P[c] = [row EXCEPT !.col = k, !.rank = P[c].rank] /\ P[c].rank \in 1..MaxRank
  BY <1>14, <1>15
<1> QED BY <1>1, <1>2, <1>20, <1>21, <1>22, <1>23, <1>24, <1>25 DEF IsPlaced

-----------------------------------------------------------------------------
(* What a step does to the cards.                                          *)

Fields == {"col", "listed", "resolved", "refs", "parent", "archived", "trashed", "back"}

\* At most the rank of the card changes.
Same(d) == /\ Here(d)' <=> Here(d)
           /\ Here(d) => \A f \in Fields : card'[d][f] = card[d][f]

DoneOK(row) == /\ (row.col = "done") <=> (row.listed = "done")
               /\ row.col = "done" => Completed(row.resolved, row.refs)

\* Why card c may be live after a step: it was brought back, it was live and of
\* that thread before, or no other live card is of its thread.
MayBeLive(c) == \/ card'[c].back
                \/ Live(card, c) /\ \A f \in {"parent", "back"} : card'[c][f] = card[c][f]
                \/ ParentFree(c, card'[c].parent)

KeepsOrder(c) == \A k \in Columns : \A d, e \in Others(c, k) \cap Others(c, k)' :
                   Ahead(card, d, e)' <=> Ahead(card, d, e)

Changes(c) == /\ card' \in [Cards -> Card \union {Nil}]
              /\ \A d \in Cards \ {c} : Same(d)
              /\ Here(c)' => DoneOK(card'[c])
              /\ Live(card', c) => MayBeLive(c)
              /\ KeepsOrder(c)

LEMMA PlacementLands ==
    ASSUME TypeOK, NEW c \in Cards, NEW k \in Columns, NEW at \in Places,
           CanPlace(c, k, at), NEW row \in Row, card' = Placed(c, row, k, at)
    PROVE  /\ card' \in [Cards -> Card \union {Nil}]
           /\ \A d \in Cards \ {c} : Same(d)
           /\ card'[c] # Nil /\ card'[c].col = k
           /\ \A f \in Fields \ {"col"} : card'[c][f] = row[f]
           /\ StandsAt(c, k, at)'
           /\ KeepsOrder(c)
<1>1. /\ card' \in [Cards -> Card \union {Nil}]
      /\ card'[c] = [row EXCEPT !.col = k, !.rank = card'[c].rank]
      /\ card'[c].rank \in 1..MaxRank
      /\ \A d \in Cards \ {c} :
           IF d \in Others(c, k) THEN card'[d] = [card[d] EXCEPT !.rank = card'[d].rank]
           ELSE card'[d] = card[d]
      /\ Ranked(card', Others(c, k))
      /\ \A d \in Others(c, k) :
           IF d \in Front(Others(c, k), at) THEN card'[d].rank < card'[c].rank
           ELSE card'[c].rank < card'[d].rank
      /\ \A d, e \in Others(c, k) : Ahead(card, d, e) => Ahead(card', d, e)
  <2>1. IsPlaced(card', c, row, k, at)
    BY PlacedFacts
  <2> QED BY <2>1 DEF IsPlaced
<1>2. /\ Others(c, k) \in SUBSET Cards /\ c \notin Others(c, k)
      /\ \A d \in Others(c, k) : card[d] \in Card
      /\ Ranked(card, Others(c, k))
  BY OthersAreRanked
<1>3. card'[c] # Nil /\ card'[c].col = k /\ \A f \in Fields \ {"col"} : card'[c][f] = row[f]
  <2>1. card'[c] \in Card
    BY <1>1 DEF Row, Card
  <2>2. card'[c] # Nil
    BY <2>1, BoardAssumption
  <2> QED BY <1>1, <2>2 DEF Row, Fields
<1>4. ASSUME NEW d \in Cards \ {c}
      PROVE  Same(d)
  <2>1. CASE d \notin Others(c, k)
    BY <1>1, <2>1 DEF Same, Here
  <2>2. CASE d \in Others(c, k)
    <3>1. card[d] \in Card /\ card'[d] = [card[d] EXCEPT !.rank = card'[d].rank]
            /\ card'[d].rank \in 1..MaxRank
      BY <1>1, <1>2, <2>2 DEF Ranked
    <3>2. card'[d] \in Card
      BY <3>1 DEF Card
    <3>3. card[d] # Nil /\ card'[d] # Nil
      BY <3>1, <3>2, BoardAssumption
    <3> QED BY <3>1, <3>3 DEF Same, Here, Card, Fields
  <2> QED BY <2>1, <2>2
<1>5. \A k2 \in Columns : Others(c, k2)' = Others(c, k2)
  <2>1. \A d \in Cards \ {c}, k2 \in Columns :
          (Live(card, d) /\ card[d].col = k2)' <=> Live(card, d) /\ card[d].col = k2
    BY <1>4 DEF Same, Here, Live, Fields
  <2> QED BY <2>1 DEF Others
<1>6. StandsAt(c, k, at)'
  <2>1. PICK others : others = Others(c, k)
    OBVIOUS
  <2>2. PICK front : front = Front(others, at)
    OBVIOUS
  <2>3. \A d \in others : IF d \in front THEN Ahead(card', d, c) ELSE Ahead(card', c, d)
    <3>1. \A d \in others : card'[d].rank \in Nat
      BY <1>1, <2>1, BoardAssumption DEF Ranked
    <3>2. card'[c].rank \in Nat
      BY <1>1, BoardAssumption
    <3> QED BY <1>1, <2>1, <2>2, <3>1, <3>2 DEF Ahead
  <2>4. \A d, e \in others : Ahead(card, d, e) => Ahead(card', d, e)
    BY <1>1, <2>1
  <2>5. \A d, e \in others : ~Ahead(card, d, d) /\ (d # e => Ahead(card, d, e) \/ Ahead(card, e, d))
    BY <1>2, <2>1, AheadIsTotal
  <2>6. at.side = "end" \/ at.anchor \in others
    BY <2>1 DEF CanPlace
  <2>7. CASE at.side = "end"
    <3>1. \A d \in others : Ahead(card', d, c)
      BY <2>2, <2>3, <2>7 DEF Front
    <3> QED BY <1>5, <2>1, <2>7, <3>1 DEF StandsAt, Ahead
  <2>8. CASE at.side = "before"
    <3>1. at.anchor \in others /\ front = {d \in others : Ahead(card, d, at.anchor)}
      BY <2>2, <2>6, <2>8 DEF Front
    <3>2. /\ Ahead(card', c, at.anchor)
          /\ \A d \in others \ {at.anchor} : Ahead(card', d, c) \/ Ahead(card', at.anchor, d)
      BY <2>3, <2>4, <2>5, <3>1
    <3> QED BY <1>5, <2>1, <2>8, <3>2 DEF StandsAt, Ahead
  <2>9. CASE at.side = "after"
    <3>1. /\ at.anchor \in others
          /\ front = {d \in others : Ahead(card, d, at.anchor)} \union {at.anchor}
      BY <2>2, <2>6, <2>9 DEF Front
    <3>2. /\ Ahead(card', at.anchor, c)
          /\ \A d \in others \ {at.anchor} : Ahead(card', d, at.anchor) \/ Ahead(card', c, d)
      BY <2>3, <2>4, <3>1
    <3> QED BY <1>5, <2>1, <2>9, <3>2 DEF StandsAt, Ahead
  <2> QED BY <2>7, <2>8, <2>9 DEF Places
<1>7. KeepsOrder(c)
  <2> SUFFICES ASSUME NEW k2 \in Columns, NEW d \in Others(c, k2), NEW e \in Others(c, k2)
               PROVE  Ahead(card', d, e) <=> Ahead(card, d, e)
    BY <1>5 DEF KeepsOrder, Ahead
  <2>1. CASE k2 = k
    <3>1. d = e => ~Ahead(card, d, e) /\ ~Ahead(card', d, e)
      BY <1>1, <1>2, <2>1, AheadIsTotal
    <3>2. d # e => Ahead(card, d, e) \/ Ahead(card, e, d)
      BY <1>2, <2>1, AheadIsTotal
    <3>3. Ahead(card', d, e) => ~Ahead(card', e, d)
      BY <1>1, <1>2, <2>1, AheadIsTotal
    <3> QED BY <1>1, <2>1, <3>1, <3>2, <3>3
  <2>2. CASE k2 # k
    <3>1. d \in Cards \ {c} /\ e \in Cards \ {c} /\ d \notin Others(c, k) /\ e \notin Others(c, k)
      BY <2>2 DEF Others
    <3> QED BY <1>1, <3>1 DEF Ahead
  <2> QED BY <2>1, <2>2
<1> QED BY <1>1, <1>3, <1>4, <1>6, <1>7

LEMMA CreateChanges ==
    ASSUME TypeOK, NEW c \in Cards, NEW k \in Columns, NEW at \in Places,
           NEW resolved \in BOOLEAN, NEW refs \in Refs, CreateCard(c, k, at, resolved, refs)
    PROVE  Changes(c) /\ StandsAt(c, k, at)'
<1>1. PICK done \in BOOLEAN : done = (resolved \/ (k = "done" /\ refs # "none"))
  OBVIOUS
<1>2. PICK row : row = [col |-> k, rank |-> NoRank, listed |-> k,
                        resolved |-> done, refs |-> refs, parent |-> ThreadOf[c],
                        archived |-> FALSE, trashed |-> FALSE, back |-> FALSE]
  OBVIOUS
<1>3. /\ k = "done" => Completed(done, refs)
      /\ ParentFree(c, ThreadOf[c]) /\ CanPlace(c, k, at)
      /\ card' = Placed(c, row, k, at)
  BY <1>1, <1>2, Zenon DEF CreateCard
<1>4. row \in Row
  BY <1>2 DEF Row, NoRank
<1>5. /\ card' \in [Cards -> Card \union {Nil}]
      /\ \A d \in Cards \ {c} : Same(d)
      /\ card'[c] # Nil /\ card'[c].col = k
      /\ \A f \in Fields \ {"col"} : card'[c][f] = row[f]
      /\ StandsAt(c, k, at)'
      /\ KeepsOrder(c)
  BY <1>3, <1>4, PlacementLands
<1>6. /\ card'[c].listed = k /\ card'[c].resolved = done /\ card'[c].refs = refs
      /\ card'[c].parent = ThreadOf[c]
  BY <1>2, <1>5 DEF Fields
<1>7. DoneOK(card'[c])
  BY <1>3, <1>5, <1>6 DEF DoneOK, Completed
<1>8. MayBeLive(c)
  BY <1>3, <1>6 DEF MayBeLive
<1> QED BY <1>5, <1>7, <1>8 DEF Changes

\* A row of the card that keeps its column and rank.
LEMMA RewriteChanges ==
    ASSUME TypeOK, NEW c \in Cards, NEW row, card' = [card EXCEPT ![c] = row],
           row \in Card \union {Nil},
           row # Nil => DoneOK(row), Live(card', c) => MayBeLive(c)
    PROVE  Changes(c)
<1>1. card' \in [Cards -> Card \union {Nil}]
  BY DEF TypeOK
<1>2. card'[c] = row /\ \A d \in Cards \ {c} : card'[d] = card[d]
  BY DEF TypeOK
<1>3. \A d \in Cards \ {c} : Same(d)
  BY <1>2 DEF Same, Here
<1>4. Here(c)' => DoneOK(card'[c])
  BY <1>2 DEF Here
<1>5. KeepsOrder(c)
  BY <1>2 DEF KeepsOrder, Others, Ahead
<1> QED BY <1>1, <1>3, <1>4, <1>5 DEF Changes

LEMMA PatchChanges ==
    ASSUME TypeOK, DoneIsConsistent, NEW c \in Cards, NEW resolution,
           NEW refs \in Refs \union {"keep"}, NEW other \in BOOLEAN,
           PatchCard(c, resolution, refs, other)
    PROVE  Changes(c)
<1>1. card[c] \in Card
  BY DEF PatchCard, Live, TypeOK
<1>2. PICK given \in BOOLEAN :
        given = (IF resolution = "keep" THEN card[c].resolved ELSE resolution = "done")
  BY <1>1 DEF Card
<1>3. PICK proof \in Refs : proof = (IF refs = "keep" THEN card[c].refs ELSE refs)
  BY <1>1 DEF Card
<1>4. PICK done \in BOOLEAN : done = (given \/ (card[c].col = "done" /\ proof # "none"))
  OBVIOUS
<1>5. /\ IF card[c].col = "done" THEN Completed(done, proof) ELSE ~done
      /\ card' = [card EXCEPT ![c].resolved = done, ![c].refs = proof, ![c].listed = card[c].col]
      /\ ParentFree(c, card[c].parent) /\ Live(card, c)
  BY <1>2, <1>3, <1>4, Zenon DEF PatchCard
<1>6. PICK row : row = [card[c] EXCEPT !.resolved = done, !.refs = proof, !.listed = card[c].col]
  OBVIOUS
<1>7. card' = [card EXCEPT ![c] = row]
  BY <1>5, <1>6 DEF TypeOK
<1>8. row \in Card /\ DoneOK(row)
  BY <1>1, <1>5, <1>6 DEF Card, DoneOK, Completed
<1>9. MayBeLive(c)
  <2>1. card'[c] = row
    BY <1>7 DEF TypeOK
  <2>2. row.parent = card[c].parent
    BY <1>1, <1>6 DEF Card
  <2> QED BY <1>5, <2>1, <2>2 DEF MayBeLive
<1> QED BY <1>7, <1>8, <1>9, RewriteChanges

\* A handler that loaded a card names it, and as long as it knows the updated_at
\* of the board the card, if it still exists, is where the handler saw it.
LoadedIsCurrent ==
    \A r \in Requests : req[r].pc = "loaded" =>
        /\ req[r].card \in Cards
        /\ r \in fresh /\ Here(req[r].card) => req[r].from = card[req[r].card].col

LEMMA MoveChanges ==
    ASSUME TypeOK, DoneIsConsistent, LoadedIsCurrent, NEW r \in Requests, NEW k \in Columns,
           NEW at \in Places, NEW proof \in BOOLEAN, MoveBoardCard(r, k, at, proof)
    PROVE  \E c \in Cards : c = req[r].card /\ Changes(c) /\ StandsAt(c, k, at)'
<1>1. PICK c : c = req[r].card
  OBVIOUS
<1>2. /\ Live(card, c) /\ CanPlace(c, k, at) /\ MayMove(card[c], k, proof)
      /\ card' = Placed(c, MovedRow(card[c], k, proof), k, at)
  BY <1>1 DEF MoveBoardCard
<1>3. c \in Cards /\ card[c] \in Card
  <2>1. c \in Cards
    BY <1>1 DEF MoveBoardCard, LoadedIsCurrent
  <2> QED BY <1>2, <2>1 DEF TypeOK, Live
<1>4. PICK row : row = MovedRow(card[c], k, proof)
  OBVIOUS
<1>5. row \in Card
  BY <1>3, <1>4, BoardAssumption DEF MovedRow, Card
<1>6. row \in Row
  BY <1>5, BoardAssumption DEF Row, Card
<1>7. /\ card' \in [Cards -> Card \union {Nil}]
      /\ \A d \in Cards \ {c} : Same(d)
      /\ card'[c] # Nil /\ card'[c].col = k
      /\ \A f \in Fields \ {"col"} : card'[c][f] = row[f]
      /\ StandsAt(c, k, at)'
      /\ KeepsOrder(c)
  BY <1>2, <1>3, <1>4, <1>6, PlacementLands
<1>8. row.parent = card[c].parent /\ row.back = card[c].back
  BY <1>3, <1>4 DEF MovedRow, Card
<1>9. DoneOK(card'[c])
  <2>1. DoneOK(card[c])
    BY <1>2, <1>3 DEF DoneIsConsistent, Here, Live, DoneOK
  <2>2. /\ (k = "done") <=> (row.listed = "done")
        /\ k = "done" => row.resolved /\ row.refs = "proof"
    BY <1>2, <1>3, <1>4, <2>1 DEF MovedRow, MayMove, DoneOK, Completed, Card
  <2> QED BY <1>7, <2>2 DEF DoneOK, Completed, Fields
<1>10. MayBeLive(c)
  BY <1>2, <1>7, <1>8 DEF MayBeLive, Fields
<1> QED BY <1>1, <1>3, <1>7, <1>9, <1>10 DEF Changes

LEMMA LaneChanges ==
    ASSUME TypeOK, DoneIsConsistent, NEW c \in Cards,
           \/ ArchiveBoardCard(c) \/ TrashBoardCard(c)
           \/ RestoreArchivedBoardCard(c) \/ PurgeArchivedBoardCard(c)
    PROVE  Changes(c)
<1>1. card[c] \in Card /\ DoneOK(card[c])
  <2>1. card[c] # Nil
    BY DEF ArchiveBoardCard, TrashBoardCard, RestoreArchivedBoardCard,
           PurgeArchivedBoardCard, Here, Live
  <2> QED BY <2>1 DEF TypeOK, DoneIsConsistent, DoneOK, Here
<1>2. CASE ArchiveBoardCard(c)
  <2>1. PICK row : row = [card[c] EXCEPT !.archived = TRUE]
    OBVIOUS
  <2>2. card' = [card EXCEPT ![c] = row]
    BY <1>2, <2>1 DEF ArchiveBoardCard, Rewrite
  <2>3. row \in Card /\ DoneOK(row) /\ row.archived
    BY <1>1, <2>1 DEF Card, DoneOK
  <2>4. ~Live(card', c)
    BY <2>2, <2>3 DEF Live, TypeOK
  <2> QED BY <2>2, <2>3, <2>4, RewriteChanges
<1>3. CASE TrashBoardCard(c)
  <2>1. PICK row : row = [card[c] EXCEPT !.trashed = TRUE, !.archived = FALSE]
    OBVIOUS
  <2>2. card' = [card EXCEPT ![c] = row]
    BY <1>3, <2>1 DEF TrashBoardCard, Rewrite
  <2>3. row \in Card /\ DoneOK(row) /\ row.trashed
    BY <1>1, <2>1 DEF Card, DoneOK
  <2>4. ~Live(card', c)
    BY <2>2, <2>3 DEF Live, TypeOK
  <2> QED BY <2>2, <2>3, <2>4, RewriteChanges
<1>4. CASE RestoreArchivedBoardCard(c)
  <2>1. PICK row : row = IF card[c].trashed
                         THEN [card[c] EXCEPT !.trashed = FALSE, !.back = TRUE]
                         ELSE [card[c] EXCEPT !.archived = FALSE, !.back = TRUE]
    OBVIOUS
  <2>2. card' = [card EXCEPT ![c] = row]
    BY <1>4, <2>1 DEF RestoreArchivedBoardCard, Rewrite
  <2>3. row \in Card /\ DoneOK(row) /\ row.back
    BY <1>1, <2>1 DEF Card, DoneOK
  <2>4. MayBeLive(c)
    BY <2>2, <2>3 DEF MayBeLive, TypeOK
  <2> QED BY <2>2, <2>3, <2>4, RewriteChanges
<1>5. CASE PurgeArchivedBoardCard(c)
  <2>1. card' = [card EXCEPT ![c] = Nil]
    BY <1>5 DEF PurgeArchivedBoardCard, Rewrite
  <2>2. ~Live(card', c)
    BY <2>1 DEF Live, TypeOK
  <2> QED BY <2>1, <2>2, RewriteChanges
<1> QED BY <1>2, <1>3, <1>4, <1>5

-----------------------------------------------------------------------------
(* The invariant.                                                          *)

\* Every step changes at most one card, or none, and then the tokens are void.
LEMMA StepChanges ==
    ASSUME TypeOK, DoneIsConsistent, LoadedIsCurrent, [Next]_vars
    PROVE  \/ card' = card
           \/ fresh' = {} /\ \E c \in Cards : Changes(c)
<1>1. ASSUME NEW c \in Cards, NEW k \in Columns, NEW at \in Places,
             NEW resolved \in BOOLEAN, NEW refs \in Refs, CreateCard(c, k, at, resolved, refs)
      PROVE  fresh' = {} /\ Changes(c)
  BY <1>1, CreateChanges DEF CreateCard, Touch
<1>2. ASSUME NEW c \in Cards, NEW resolution, NEW refs \in Refs \union {"keep"},
             NEW other \in BOOLEAN, PatchCard(c, resolution, refs, other)
      PROVE  fresh' = {} /\ Changes(c)
  BY ZenonT(40), <1>2, PatchChanges DEF PatchCard, Touch
<1>3. ASSUME NEW c \in Cards,
             \/ ArchiveBoardCard(c) \/ TrashBoardCard(c)
             \/ RestoreArchivedBoardCard(c) \/ PurgeArchivedBoardCard(c)
      PROVE  fresh' = {} /\ Changes(c)
  BY <1>3, LaneChanges DEF ArchiveBoardCard, TrashBoardCard, RestoreArchivedBoardCard,
                           PurgeArchivedBoardCard, Rewrite, Touch
<1>4. ASSUME NEW r \in Requests, NEW k \in Columns, NEW at \in Places,
             NEW proof \in BOOLEAN, MoveBoardCard(r, k, at, proof)
      PROVE  fresh' = {} /\ \E c \in Cards : Changes(c)
  BY <1>4, MoveChanges DEF MoveBoardCard, Touch
<1>5. ASSUME NEW c \in Cards, ReviseCard(c)
      PROVE  card' = card
  BY <1>5 DEF ReviseCard
<1>6. ASSUME NEW r \in Requests,
             \/ ReadBoard(r) \/ (\E c \in Cards : LoadCardForEvent(r, c))
             \/ RefuseMove(r) \/ EmitMoved(r)
      PROVE  card' = card
  BY <1>6 DEF ReadBoard, LoadCardForEvent, RefuseMove, EmitMoved
<1>7. UNCHANGED vars => card' = card
  BY DEF vars
<1> QED BY <1>1, <1>2, <1>3, <1>4, <1>5, <1>6, <1>7 DEF Next

Handler == [pc : {"idle", "loaded", "moved"}, card : Cards \union {Nil},
            from : Columns \union {Nil}, was : Columns \union {Nil}]

\* What a step does to a request: it loads a card, moves it when nothing changed
\* the board since it was read, or ends.
RequestStep(r) ==
    \/ req'[r] = req[r] /\ (r \in fresh' /\ req[r].pc = "loaded" => r \in fresh)
    \/ req'[r] = Idle
    \/ /\ req'[r].pc = "loaded" /\ card' = card /\ req'[r].card \in Cards
       /\ req'[r].from = card[req'[r].card].col
    \/ req'[r].pc = "moved" /\ req'[r].from = req'[r].was

LEMMA RequestSteps ==
    ASSUME TypeOK, DoneIsConsistent, LoadedIsCurrent, [Next]_vars
    PROVE  /\ fresh' \subseteq Requests
           /\ req' \in [Requests -> Handler]
           /\ \A r \in Requests : RequestStep(r)
<1>0. req \in [Requests -> Handler] /\ fresh \subseteq Requests
  BY DEF TypeOK, Handler
<1>1. ASSUME UNCHANGED req, fresh' \subseteq fresh
      PROVE  /\ fresh' \subseteq Requests
             /\ req' \in [Requests -> Handler]
             /\ \A r \in Requests : RequestStep(r)
  BY <1>0, <1>1 DEF RequestStep
<1>2. ASSUME NEW c \in Cards,
             \/ \E k \in Columns, at \in Places, resolved \in BOOLEAN, refs \in Refs :
                  CreateCard(c, k, at, resolved, refs)
             \/ \E resolution \in {"keep", "done", "clear"}, refs \in Refs \union {"keep"},
                   other \in BOOLEAN :
                  PatchCard(c, resolution, refs, other)
             \/ ReviseCard(c) \/ ArchiveBoardCard(c) \/ TrashBoardCard(c)
             \/ RestoreArchivedBoardCard(c) \/ PurgeArchivedBoardCard(c)
      PROVE  UNCHANGED req /\ fresh' \subseteq fresh
  BY ZenonT(40), <1>2 DEF CreateCard, PatchCard, ReviseCard, ArchiveBoardCard, TrashBoardCard,
              RestoreArchivedBoardCard, PurgeArchivedBoardCard, Rewrite, Touch
<1>3. ASSUME NEW s \in Requests, ReadBoard(s)
      PROVE  /\ fresh' \subseteq Requests
             /\ req' \in [Requests -> Handler]
             /\ \A r \in Requests : RequestStep(r)
  BY <1>0, <1>3 DEF ReadBoard, RequestStep
<1>4. ASSUME NEW s \in Requests, NEW c \in Cards, LoadCardForEvent(s, c)
      PROVE  /\ fresh' \subseteq Requests
             /\ req' \in [Requests -> Handler]
             /\ \A r \in Requests : RequestStep(r)
  <2>1. PICK h : h = [Idle EXCEPT !.pc = "loaded", !.card = c, !.from = card[c].col]
    OBVIOUS
  <2>2. req' = [req EXCEPT ![s] = h] /\ card' = card /\ fresh' = fresh
    BY <1>4, <2>1 DEF LoadCardForEvent
  <2>3. h \in Handler /\ h.pc = "loaded" /\ h.card = c /\ h.from = card[c].col
    <3>1. card[c] \in Card
      BY <1>4 DEF LoadCardForEvent, Here, TypeOK
    <3> QED BY <2>1, <3>1 DEF Idle, Handler, Card
  <2>4. req'[s] = h /\ \A r \in Requests \ {s} : req'[r] = req[r]
    BY <1>0, <2>2
  <2>5. req' \in [Requests -> Handler]
    BY <1>0, <2>2, <2>3
  <2> QED BY <1>0, <2>2, <2>3, <2>4, <2>5 DEF RequestStep
<1>5. ASSUME NEW s \in Requests, NEW k \in Columns, NEW at \in Places,
             NEW proof \in BOOLEAN, MoveBoardCard(s, k, at, proof)
      PROVE  /\ fresh' \subseteq Requests
             /\ req' \in [Requests -> Handler]
             /\ \A r \in Requests : RequestStep(r)
  <2>1. PICK c : c = req[s].card
    OBVIOUS
  <2>2. /\ req[s].pc = "loaded" /\ s \in fresh /\ fresh' = {} /\ card[c] # Nil
        /\ req' = [req EXCEPT ![s].pc = "moved", ![s].card = Nil, ![s].was = card[c].col]
    BY <1>5, <2>1 DEF MoveBoardCard, TokenMatches, Touch, Live
  <2>3. c \in Cards /\ req[s].from = card[c].col
    BY <2>1, <2>2 DEF LoadedIsCurrent, Here
  <2>4. card[c] \in Card
    BY <2>2, <2>3 DEF TypeOK
  <2>5. req'[s] = [req[s] EXCEPT !.pc = "moved", !.card = Nil, !.was = card[c].col]
    BY <1>0, <2>2
  <2>6. /\ req'[s] \in Handler /\ req'[s].pc = "moved" /\ req'[s].from = req'[s].was
    <3>1. req[s] \in Handler /\ card[c].col \in Columns
      BY <1>0, <2>4 DEF Card
    <3>2. PICK was \in Columns : was = card[c].col
      BY <3>1
    <3>3. req'[s] = [req[s] EXCEPT !.pc = "moved", !.card = Nil, !.was = was]
      BY <2>5, <3>2
    <3>4. req[s].from = was
      BY <2>3, <3>2
    <3> QED BY <3>1, <3>3, <3>4 DEF Handler
  <2>7. \A r \in Requests \ {s} : req'[r] = req[r]
    BY <1>0, <2>2
  <2>8. req' \in [Requests -> Handler]
    BY <1>0, <2>2, <2>6, <2>7
  <2> QED BY <2>2, <2>6, <2>7, <2>8 DEF RequestStep
<1>6. ASSUME NEW s \in Requests, RefuseMove(s) \/ EmitMoved(s)
      PROVE  /\ fresh' \subseteq Requests
             /\ req' \in [Requests -> Handler]
             /\ \A r \in Requests : RequestStep(r)
  <2>1. req' = [req EXCEPT ![s] = Idle] /\ fresh' = fresh
    BY <1>6 DEF RefuseMove, EmitMoved
  <2>2. Idle \in Handler
    BY DEF Idle, Handler
  <2> QED BY <1>0, <2>1, <2>2 DEF RequestStep
<1>7. CASE UNCHANGED vars
  BY <1>1, <1>7 DEF vars
<1> QED BY <1>1, <1>2, <1>3, <1>4, <1>5, <1>6, <1>7 DEF Next

BoardInv == TypeOK /\ DoneIsConsistent /\ MovedEventIsTrue /\ ThreadHasOneCard /\ LoadedIsCurrent

\* The inductive invariant of the board: what the store promises of its cards, and
\* what a move handler knows of the card it loaded.
THEOREM BoardInvariant == Spec => []BoardInv
<1>1. Init => BoardInv
  <2> SUFFICES ASSUME Init PROVE BoardInv
    OBVIOUS
  <2>1. TypeOK
    BY DEF Init, TypeOK, Idle
  <2>2. DoneIsConsistent /\ ThreadHasOneCard
    BY DEF Init, DoneIsConsistent, ThreadHasOneCard, Here, Live
  <2>3. MovedEventIsTrue /\ LoadedIsCurrent
    BY DEF Init, MovedEventIsTrue, LoadedIsCurrent, Idle
  <2> QED BY <2>1, <2>2, <2>3 DEF BoardInv
<1>2. BoardInv /\ [Next]_vars => BoardInv'
  <2> SUFFICES ASSUME BoardInv, [Next]_vars PROVE BoardInv'
    OBVIOUS
  <2>1. /\ TypeOK /\ DoneIsConsistent /\ MovedEventIsTrue /\ ThreadHasOneCard
        /\ LoadedIsCurrent
    BY DEF BoardInv
  <2>2. card' = card \/ (fresh' = {} /\ \E c \in Cards : Changes(c))
    BY <2>1, StepChanges
  <2>3. /\ fresh' \subseteq Requests /\ req' \in [Requests -> Handler]
        /\ \A r \in Requests : RequestStep(r)
    BY <2>1, RequestSteps
  <2>4. TypeOK'
    <3>1. card' \in [Cards -> Card \union {Nil}]
      BY <2>1, <2>2 DEF TypeOK, Changes
    <3> QED BY <2>3, <3>1 DEF TypeOK, Handler
  <2>5. DoneIsConsistent'
    <3>1. CASE card' = card
      BY <2>1, <3>1 DEF DoneIsConsistent, Here
    <3>2. ASSUME NEW c \in Cards, Changes(c), NEW d \in Cards, card'[d] # Nil
          PROVE  DoneOK(card'[d])
      <4>1. CASE d = c
        BY <3>2, <4>1 DEF Changes, Here
      <4>2. CASE d # c
        <5>1. card[d] # Nil /\ \A f \in Fields : card'[d][f] = card[d][f]
          BY <3>2, <4>2 DEF Changes, Same, Here
        <5>2. DoneOK(card[d])
          BY <2>1, <5>1 DEF DoneIsConsistent, DoneOK, Here
        <5> QED BY <5>1, <5>2 DEF DoneOK, Completed, Fields
      <4> QED BY <4>1, <4>2
    <3> QED BY <2>2, <3>1, <3>2 DEF DoneIsConsistent, DoneOK, Here
  <2>6. ThreadHasOneCard'
    <3>1. CASE card' = card
      BY <2>1, <3>1 DEF ThreadHasOneCard, Live
    <3>2. ASSUME NEW c \in Cards, Changes(c)
          PROVE  ThreadHasOneCard'
      <4>1. ASSUME NEW d \in Cards, d # c
            PROVE  /\ Live(card', d) <=> Live(card, d)
                   /\ Live(card', d) => /\ card'[d].parent = card[d].parent
                                       /\ card'[d].back = card[d].back
        BY <3>2, <4>1 DEF Changes, Same, Here, Live, Fields
      <4>2. ASSUME NEW d \in Cards, d # c, Live(card', c), Live(card', d),
                   card'[c].parent = card'[d].parent, card'[c].parent # NoThread
            PROVE  card'[c].back \/ card'[d].back
        <5>1. MayBeLive(c)
          BY <3>2, <4>2 DEF Changes
        <5>2. CASE Live(card, c) /\ \A f \in {"parent", "back"} : card'[c][f] = card[c][f]
          BY <2>1, <4>1, <4>2, <5>2 DEF ThreadHasOneCard
        <5>3. CASE ParentFree(c, card'[c].parent)
          BY <4>1, <4>2, <5>3 DEF ParentFree
        <5> QED BY <5>1, <5>2, <5>3 DEF MayBeLive
      <4>3. ASSUME NEW d \in Cards, NEW e \in Cards, d # e, d # c, e # c,
                   Live(card', d), Live(card', e),
                   card'[d].parent = card'[e].parent, card'[d].parent # NoThread
            PROVE  card'[d].back \/ card'[e].back
        BY <2>1, <4>1, <4>3 DEF ThreadHasOneCard
      <4>4. ASSUME NEW d \in Cards, NEW e \in Cards, d # e, Live(card', d), Live(card', e),
                   card'[d].parent = card'[e].parent, card'[d].parent # NoThread
            PROVE  card'[d].back \/ card'[e].back
        BY <4>2, <4>3, <4>4
      <4> QED BY <4>4 DEF ThreadHasOneCard, Live
    <3> QED BY <2>2, <3>1, <3>2
  <2>7. MovedEventIsTrue'
    BY <2>1, <2>3 DEF MovedEventIsTrue, RequestStep, Idle
  <2>8. LoadedIsCurrent'
    <3> SUFFICES ASSUME NEW r \in Requests, req'[r].pc = "loaded"
                 PROVE  /\ req'[r].card \in Cards
                        /\ r \in fresh' /\ card'[req'[r].card] # Nil
                             => req'[r].from = card'[req'[r].card].col
      BY DEF LoadedIsCurrent, Here
    <3>1. RequestStep(r)
      BY <2>3
    <3>2. CASE req'[r] = req[r] /\ (r \in fresh' /\ req[r].pc = "loaded" => r \in fresh)
      BY <2>1, <2>2, <3>2 DEF LoadedIsCurrent, Here
    <3> QED BY <3>1, <3>2 DEF RequestStep, Idle
  <2> QED BY <2>4, <2>5, <2>6, <2>7, <2>8 DEF BoardInv
<1> QED BY <1>1, <1>2, PTL DEF Spec

\* Rows, edges and handlers keep their types; no rank leaves 1..MaxRank.
THEOREM TypeCorrect == Spec => []TypeOK
BY BoardInvariant, PTL DEF BoardInv

\* A card is in done exactly when GET /cards shows it there, and then with its
\* resolution and evidence.
THEOREM DoneStaysConsistent == Spec => []DoneIsConsistent
BY BoardInvariant, PTL DEF BoardInv

\* The column that card_moved names is the one the card left.
THEOREM EventsTellTheColumn == Spec => []MovedEventIsTrue
BY BoardInvariant, PTL DEF BoardInv

\* Only a restored card shares its thread with another live card of the board.
THEOREM OneCardPerThread == Spec => []ThreadHasOneCard
BY BoardInvariant, PTL DEF BoardInv

-----------------------------------------------------------------------------
(* Places.                                                                 *)

OrderKept == \A k \in Columns : \A d, e \in (Standing(k) \cap Standing(k)') \ Moving :
               Ahead(card, d, e)' <=> Ahead(card, d, e)

\* A step that changes one card only disturbs an order in which this card stands
\* before and after it.
LEMMA OneCardDisturbs ==
    ASSUME NEW c \in Cards, Changes(c),
           c \in Moving \/ ~Live(card, c) \/ ~Live(card', c)
    PROVE  OrderKept
<1> SUFFICES ASSUME NEW k \in Columns, NEW d \in (Standing(k) \cap Standing(k)') \ Moving,
                    NEW e \in (Standing(k) \cap Standing(k)') \ Moving
             PROVE  Ahead(card, d, e)' <=> Ahead(card, d, e)
  BY DEF OrderKept
<1>1. d # c /\ e # c
  BY DEF Standing, Live
<1>2. d \in Others(c, k) \cap Others(c, k)' /\ e \in Others(c, k) \cap Others(c, k)'
  BY <1>1 DEF Standing, Others
<1> QED BY <1>2 DEF Changes, KeepsOrder

\* A patch leaves every rank as it is.
LEMMA PatchKeepsOrder ==
    ASSUME TypeOK, NEW c \in Cards, NEW resolution, NEW refs \in Refs \union {"keep"},
           NEW other \in BOOLEAN, PatchCard(c, resolution, refs, other)
    PROVE  OrderKept
<1>1. card[c] \in Card
  BY DEF PatchCard, Live, TypeOK
<1>2. PICK done, proof :
        card' = [card EXCEPT ![c].resolved = done, ![c].refs = proof, ![c].listed = card[c].col]
  BY Zenon DEF PatchCard
<1>3. card'[c].rank = card[c].rank /\ \A d \in Cards \ {c} : card'[d] = card[d]
  BY <1>1, <1>2 DEF TypeOK, Card
<1>4. \A d \in Cards : card'[d].rank = card[d].rank
  BY <1>3
<1> QED BY <1>4 DEF OrderKept, Standing, Ahead

LEMMA StepKeepsOrder ==
    ASSUME TypeOK, DoneIsConsistent, LoadedIsCurrent, [Next]_vars
    PROVE  OrderKept
<1>1. ASSUME NEW c \in Cards, NEW k \in Columns, NEW at \in Places,
             NEW resolved \in BOOLEAN, NEW refs \in Refs, CreateCard(c, k, at, resolved, refs)
      PROVE  OrderKept
  <2>1. Changes(c)
    BY <1>1, CreateChanges
  <2>2. ~Live(card, c)
    BY <1>1 DEF CreateCard, Here, Live
  <2> QED BY <2>1, <2>2, OneCardDisturbs
<1>2. ASSUME NEW c \in Cards, NEW resolution, NEW refs \in Refs \union {"keep"},
             NEW other \in BOOLEAN, PatchCard(c, resolution, refs, other)
      PROVE  OrderKept
  BY <1>2, PatchKeepsOrder
<1>3. ASSUME NEW c \in Cards,
             \/ ArchiveBoardCard(c) \/ TrashBoardCard(c)
             \/ RestoreArchivedBoardCard(c) \/ PurgeArchivedBoardCard(c)
      PROVE  OrderKept
  <2>1. Changes(c)
    BY <1>3, LaneChanges
  <2>2. ~Live(card, c) \/ ~Live(card', c)
    <3>1. CASE RestoreArchivedBoardCard(c) \/ PurgeArchivedBoardCard(c)
      BY <3>1 DEF RestoreArchivedBoardCard, PurgeArchivedBoardCard
    <3>2. CASE ArchiveBoardCard(c) \/ TrashBoardCard(c)
      <4>1. card[c] \in Card
        BY <3>2 DEF ArchiveBoardCard, TrashBoardCard, Here, Live, TypeOK
      <4> QED BY <3>2, <4>1 DEF ArchiveBoardCard, TrashBoardCard, Rewrite, Live, TypeOK, Card
    <3> QED BY <1>3, <3>1, <3>2
  <2> QED BY <2>1, <2>2, OneCardDisturbs
<1>4. ASSUME NEW r \in Requests, NEW k \in Columns, NEW at \in Places,
             NEW proof \in BOOLEAN, MoveBoardCard(r, k, at, proof)
      PROVE  OrderKept
  <2>1. PICK c \in Cards : c = req[r].card /\ Changes(c)
    BY <1>4, MoveChanges
  <2>2. c \in Moving
    BY <1>4, <2>1 DEF MoveBoardCard, Moving, TypeOK
  <2> QED BY <2>1, <2>2, OneCardDisturbs
<1>5. ASSUME card' = card
      PROVE  OrderKept
  BY <1>5 DEF OrderKept, Ahead
<1>6. ASSUME NEW c \in Cards, ReviseCard(c)
      PROVE  card' = card
  BY <1>6 DEF ReviseCard
<1>7. ASSUME NEW r \in Requests,
             \/ ReadBoard(r) \/ (\E c \in Cards : LoadCardForEvent(r, c))
             \/ RefuseMove(r) \/ EmitMoved(r)
      PROVE  card' = card
  BY <1>7 DEF ReadBoard, LoadCardForEvent, RefuseMove, EmitMoved
<1>8. UNCHANGED vars => card' = card
  BY DEF vars
<1> QED BY <1>1, <1>2, <1>3, <1>4, <1>5, <1>6, <1>7, <1>8 DEF Next

\* Created and moved cards land where the call asks, and all others that stay in
\* their column keep their order.
THEOREM CardsLandWhereAsked == Spec => LandsWhereAsked
<1>1. ASSUME BoardInv, [Next]_vars
      PROVE  [/\ \A c \in Cards : ~Here(c) /\ Here(c)' =>
                   \A k \in Columns, at \in Places, s \in BOOLEAN, f \in Refs :
                     CreateCard(c, k, at, s, f) => StandsAt(c, k, at)'
              /\ \A r \in Requests, c \in Cards : req[r].card = c /\ req'[r].pc = "moved" =>
                   \A k \in Columns, at \in Places, p \in BOOLEAN :
                     MoveBoardCard(r, k, at, p) => StandsAt(c, k, at)'
              /\ \A k \in Columns : \A d, e \in (Standing(k) \cap Standing(k)') \ Moving :
                   Ahead(card, d, e)' <=> Ahead(card, d, e)]_vars
  <2>1. TypeOK /\ DoneIsConsistent /\ LoadedIsCurrent
    BY <1>1 DEF BoardInv
  <2>2. \A c \in Cards, k \in Columns, at \in Places, s \in BOOLEAN, f \in Refs :
          CreateCard(c, k, at, s, f) => StandsAt(c, k, at)'
    BY <2>1, CreateChanges
  <2>3. \A r \in Requests, c \in Cards, k \in Columns, at \in Places, p \in BOOLEAN :
          req[r].card = c /\ MoveBoardCard(r, k, at, p) => StandsAt(c, k, at)'
    BY <2>1, MoveChanges
  <2>4. OrderKept
    BY <1>1, <2>1, StepKeepsOrder
  <2> QED BY <2>2, <2>3, <2>4 DEF OrderKept
<1> QED BY <1>1, BoardInvariant, PTL DEF Spec, LandsWhereAsked
=============================================================================
