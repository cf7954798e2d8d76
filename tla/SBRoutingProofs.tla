--------------------------- MODULE SBRoutingProofs ---------------------------
(***************************************************************************)
(* Proofs about SBRouting: the lists of destination blocks stay lists,     *)
(* and every destination leads to a pipe in use.  The blocks of a list are *)
(* what a walk from its head reaches; the first part says what that is     *)
(* after a block was put in front of a list or taken out of it.            *)
(***************************************************************************)
EXTENDS SBRouting, FiniteSetTheorems, TLAPS

-----------------------------------------------------------------------------
(* Walks: From and List with the links and the head as parameters.          *)

ClosedIn(N, S) == \A x \in S : N[x] # NULL => N[x] \in S
Reach(N, c) ==
  {b \in Blocks : \A S \in SUBSET Blocks : c \in S /\ ClosedIn(N, S) => b \in S}
ListOf(N, h) == IF h = NULL THEN {} ELSE Reach(N, h)

\* The first block of a list has no Prev, and any other has the one before.
Linked(N, V, h) ==
  /\ h # NULL => V[h] = NULL
  /\ \A b \in ListOf(N, h) : N[b] # NULL => V[N[b]] = b

Links == [Blocks -> Ptr]

LEMMA ReachFacts ==
  ASSUME NEW N \in Links, NEW c \in Blocks
  PROVE  Reach(N, c) \subseteq Blocks /\ c \in Reach(N, c) /\ ClosedIn(N, Reach(N, c))
<1>1. Reach(N, c) \subseteq Blocks /\ c \in Reach(N, c)
  BY DEF Reach
<1>2. ASSUME NEW x \in Reach(N, c), N[x] # NULL PROVE N[x] \in Reach(N, c)
  <2>1. N[x] \in Blocks
    BY <1>1, <1>2 DEF Links, Ptr
  <2>2. ASSUME NEW S \in SUBSET Blocks, c \in S, ClosedIn(N, S) PROVE N[x] \in S
    <3>1. x \in S
      BY <2>2 DEF Reach
    <3> QED
      BY <1>2, <2>2, <3>1 DEF ClosedIn
  <2> QED
    BY <2>1, <2>2 DEF Reach
<1> QED
  BY <1>1, <1>2 DEF ClosedIn

LEMMA ReachLeast ==
  ASSUME NEW N, NEW c, NEW S \in SUBSET Blocks, c \in S, ClosedIn(N, S)
  PROVE  Reach(N, c) \subseteq S
BY DEF Reach

\* A walk that meets no changed link visits what it did before.
LEMMA ReachSame ==
  ASSUME NEW N \in Links, NEW M \in Links, NEW c \in Blocks,
         \A x \in Reach(N, c) : M[x] = N[x]
  PROVE  Reach(M, c) = Reach(N, c)
<1>1. /\ Reach(N, c) \subseteq Blocks /\ c \in Reach(N, c) /\ ClosedIn(N, Reach(N, c))
      /\ Reach(M, c) \subseteq Blocks /\ c \in Reach(M, c) /\ ClosedIn(M, Reach(M, c))
  BY ReachFacts
<1>2. ClosedIn(M, Reach(N, c))
  BY <1>1 DEF ClosedIn
<1>3. Reach(M, c) \subseteq Reach(N, c)
  BY <1>1, <1>2, ReachLeast
<1>4. ClosedIn(N, Reach(M, c))
  BY <1>1, <1>3 DEF ClosedIn
<1>5. Reach(N, c) \subseteq Reach(M, c)
  BY <1>1, <1>4, ReachLeast
<1> QED
  BY <1>3, <1>5

LEMMA ListSame ==
  ASSUME NEW N \in Links, NEW M \in Links, NEW h \in Ptr,
         \A x \in ListOf(N, h) : M[x] = N[x]
  PROVE  ListOf(M, h) = ListOf(N, h)
BY ReachSame DEF ListOf, Ptr

LEMMA ListFacts ==
  ASSUME NEW N \in Links, NEW h \in Ptr
  PROVE  /\ ListOf(N, h) \subseteq Blocks /\ ClosedIn(N, ListOf(N, h))
         /\ h # NULL => h \in ListOf(N, h)
<1>1. CASE h = NULL
  BY <1>1 DEF ListOf, ClosedIn
<1>2. CASE h # NULL
  BY <1>2, ReachFacts DEF ListOf, Ptr
<1> QED
  BY <1>1, <1>2

\* Every block of a list but its head is the next of the one before it.
LEMMA LinkedFacts ==
  ASSUME NEW N \in Links, NEW V \in Links, NEW h \in Ptr, Linked(N, V, h),
         NEW b \in ListOf(N, h)
  PROVE  /\ V[b] = NULL <=> b = h
         /\ V[b] # NULL => V[b] \in ListOf(N, h) /\ N[V[b]] = b
         /\ N[b] # b
<1>0. h \in Blocks /\ h # NULL
  BY RoutingAssumption DEF ListOf, Ptr
<1>1. /\ ListOf(N, h) \subseteq Blocks /\ ClosedIn(N, ListOf(N, h)) /\ h \in ListOf(N, h)
      /\ ListOf(N, h) = Reach(N, h)
  BY <1>0, ListFacts DEF ListOf
<1>2. b # h => \E x \in ListOf(N, h) : N[x] = b
  <2> SUFFICES ASSUME b # h, \A x \in ListOf(N, h) : N[x] # b PROVE FALSE
    OBVIOUS
  <2> DEFINE S == ListOf(N, h) \ {b}
  <2>1. S \in SUBSET Blocks /\ h \in S /\ ClosedIn(N, S)
    BY <1>1 DEF ClosedIn
  <2>2. Reach(N, h) \subseteq S
    BY <2>1, ReachLeast
  <2> QED
    BY <1>1, <2>2
<1>3. V[h] = NULL /\ \A x \in ListOf(N, h) : N[x] # NULL => V[N[x]] = x
  BY <1>0 DEF Linked
<1>4. b # NULL /\ NULL \notin ListOf(N, h)
  BY <1>1, RoutingAssumption
<1>5. V[b] = NULL <=> b = h
  BY <1>2, <1>3, <1>4
<1>6. V[b] # NULL => V[b] \in ListOf(N, h) /\ N[V[b]] = b
  BY <1>2, <1>3, <1>4
<1>7. N[b] # b
  <2> SUFFICES ASSUME N[b] = b PROVE FALSE
    OBVIOUS
  <2>1. V[b] = b /\ b # h
    BY <1>3, <1>4
  <2> DEFINE S == ListOf(N, h) \ {b}
  <2>2. \A x \in S : N[x] # b
    BY <1>3, <1>4, <2>1
  <2>3. S \in SUBSET Blocks /\ h \in S /\ ClosedIn(N, S)
    BY <1>1, <2>1, <2>2 DEF ClosedIn
  <2>4. Reach(N, h) \subseteq S
    BY <2>3, ReachLeast
  <2> QED
    BY <1>1, <2>4
<1> QED
  BY <1>5, <1>6, <1>7

\* CFE_SB_AddDest puts one block in front.
LEMMA InsertList ==
  ASSUME NEW N \in Links, NEW V \in Links, NEW h \in Ptr, Linked(N, V, h),
         NEW b \in Blocks, b \notin ListOf(N, h),
         NEW M \in Links, M[b] = h, \A x \in Blocks \ {b} : M[x] = N[x],
         NEW W \in Links, W[b] = NULL,
         \A x \in Blocks \ {b} : W[x] = IF x = h THEN b ELSE V[x]
  PROVE  ListOf(M, b) = ListOf(N, h) \cup {b} /\ Linked(M, W, b)
<1>1. /\ ListOf(N, h) \subseteq Blocks /\ ClosedIn(N, ListOf(N, h))
      /\ h # NULL => h \in ListOf(N, h)
  BY ListFacts
<1>3. b # NULL /\ NULL \notin Blocks
  BY RoutingAssumption
<1>4. M[b] = h /\ \A x \in Blocks \ {b} : M[x] = N[x]
  OBVIOUS
<1>5. ListOf(M, b) = Reach(M, b)
  BY <1>3 DEF ListOf
<1>6. b \in Reach(M, b) /\ ClosedIn(M, Reach(M, b)) /\ Reach(M, b) \subseteq Blocks
  BY ReachFacts
<1>7. Reach(M, b) \subseteq ListOf(N, h) \cup {b}
  <2>1. ClosedIn(M, ListOf(N, h) \cup {b})
    BY <1>1, <1>4 DEF ClosedIn
  <2> QED
    BY <1>1, <2>1, ReachLeast
<1>8. ListOf(N, h) \subseteq Reach(M, b)
  <2>1. CASE h = NULL
    BY <2>1 DEF ListOf
  <2>2. CASE h # NULL
    <3> DEFINE S == Reach(M, b) \ {b}
    <3>1. h \in S
      BY <1>1, <1>4, <1>6, <2>2 DEF ClosedIn
    <3>2. ClosedIn(N, S)
      BY <1>1, <1>4, <1>6, <1>7 DEF ClosedIn
    <3>3. S \in SUBSET Blocks
      BY <1>6
    <3> HIDE DEF S
    <3>4. Reach(N, h) \subseteq S
      BY <3>1, <3>2, <3>3, ReachLeast
    <3> QED
      BY <2>2, <3>4 DEF ListOf, S
  <2> QED
    BY <2>1, <2>2
<1>9. ListOf(M, b) = ListOf(N, h) \cup {b}
  BY <1>5, <1>6, <1>7, <1>8
<1>11. ASSUME NEW x \in ListOf(M, b), M[x] # NULL PROVE W[M[x]] = x
  <2>1. CASE x = b
    BY <1>1, <1>4, <1>11, <2>1
  <2>2. CASE x # b
    <3>1. x \in ListOf(N, h) /\ M[x] = N[x] /\ h # NULL
      BY <1>1, <1>4, <1>9, <2>2 DEF ListOf
    <3>2. N[x] \in ListOf(N, h) /\ V[N[x]] = x /\ V[h] = NULL
      BY <1>1, <1>11, <3>1 DEF Linked, ClosedIn
    <3>3. N[x] # h /\ N[x] # b
      BY <1>1, <1>3, <3>1, <3>2
    <3> QED
      BY <1>1, <3>1, <3>2, <3>3
  <2> QED
    BY <2>1, <2>2
<1> QED
  BY <1>9, <1>11 DEF Linked

\* CFE_SB_RemoveDest takes out one block, at the head or further on.
LEMMA DeleteList ==
  ASSUME NEW N \in Links, NEW V \in Links, NEW h \in Ptr, Linked(N, V, h),
         NEW b \in ListOf(N, h),
         NEW M, M = [x \in Blocks |-> IF x = b THEN NULL
                                      ELSE IF x = V[b] THEN N[b] ELSE N[x]],
         NEW W, W = [x \in Blocks |-> IF x = b THEN NULL
                                      ELSE IF x = N[b] THEN V[b] ELSE V[x]],
         NEW k, k = IF V[b] = NULL THEN N[b] ELSE h
  PROVE  /\ M \in Links /\ W \in Links /\ k \in Ptr
         /\ ListOf(M, k) = ListOf(N, h) \ {b} /\ Linked(M, W, k)
<1>0. h \in Blocks /\ h # NULL /\ NULL \notin Blocks
  BY RoutingAssumption DEF ListOf, Ptr
<1>1. /\ ListOf(N, h) \subseteq Blocks /\ ClosedIn(N, ListOf(N, h)) /\ h \in ListOf(N, h)
      /\ ListOf(N, h) = Reach(N, h) /\ b \in Blocks /\ b # NULL
  BY <1>0, ListFacts DEF ListOf
<1>2. M \in Links /\ W \in Links /\ k \in Ptr
  BY <1>1 DEF Links, Ptr
<1>3. V[h] = NULL /\ \A x \in ListOf(N, h) : N[x] # NULL => V[N[x]] = x
  BY <1>0 DEF Linked
<1>4. /\ V[b] = NULL <=> b = h
      /\ V[b] # NULL => V[b] \in ListOf(N, h) /\ N[V[b]] = b
      /\ N[b] # b
  BY LinkedFacts
<1>5. \A x \in ListOf(N, h) : N[x] = b => x = V[b]
  BY <1>1, <1>3
<1>6. N[b] # NULL => N[b] \in ListOf(N, h) \ {b} /\ V[N[b]] = b
  BY <1>1, <1>3, <1>4 DEF ClosedIn
<1>7. M[b] = NULL /\ \A x \in Blocks \ {b} : M[x] = IF x = V[b] THEN N[b] ELSE N[x]
  BY <1>1
<1>8. W[b] = NULL /\ \A x \in Blocks \ {b} : W[x] = IF x = N[b] THEN V[b] ELSE V[x]
  BY <1>1
<1> DEFINE R == ListOf(N, h) \ {b}
<1>9. ClosedIn(M, R)
  <2> SUFFICES ASSUME NEW x \in R, M[x] # NULL PROVE M[x] \in R
    BY DEF ClosedIn
  <2>1. CASE x = V[b]
    BY <1>1, <1>6, <1>7, <2>1
  <2>2. CASE x # V[b]
    BY <1>1, <1>5, <1>7, <2>2 DEF ClosedIn
  <2> QED
    BY <2>1, <2>2
<1>10. ListOf(M, k) = R
  <2>1. CASE V[b] = NULL /\ N[b] = NULL
    <3>1. ClosedIn(N, {b}) /\ {b} \in SUBSET Blocks
      BY <1>1, <2>1 DEF ClosedIn
    <3>2. Reach(N, h) \subseteq {b}
      BY <1>4, <2>1, <3>1, ReachLeast
    <3> QED
      BY <1>1, <2>1, <3>2 DEF ListOf
  <2>2. CASE V[b] = NULL /\ N[b] # NULL
    <3>1. k = N[b] /\ k \in R /\ k \in Blocks /\ b = h
      BY <1>1, <1>4, <1>6, <2>2
    <3>2. ListOf(M, k) = Reach(M, k)
      BY <1>0, <3>1 DEF ListOf
    <3>3. Reach(M, k) \subseteq R
      BY <1>1, <1>9, <3>1, ReachLeast
    <3>4. k \in Reach(M, k) /\ ClosedIn(M, Reach(M, k)) /\ Reach(M, k) \subseteq Blocks
      BY <1>2, <3>1, ReachFacts
    <3>5. ClosedIn(N, Reach(M, k) \cup {b})
      <4> SUFFICES ASSUME NEW x \in Reach(M, k) \cup {b}, N[x] # NULL
                   PROVE  N[x] \in Reach(M, k) \cup {b}
        BY DEF ClosedIn
      <4>1. CASE x = b
        BY <3>1, <3>4, <4>1
      <4>2. CASE x # b
        <5>1. x \in Reach(M, k) /\ x \in Blocks /\ x # V[b]
          BY <1>0, <2>2, <3>4, <4>2
        <5>2. M[x] = N[x]
          BY <1>7, <4>2, <5>1
        <5> QED
          BY <3>4, <5>1, <5>2 DEF ClosedIn
      <4> QED
        BY <4>1, <4>2
    <3>6. Reach(N, h) \subseteq Reach(M, k) \cup {b}
      BY <1>1, <3>1, <3>4, <3>5, ReachLeast
    <3> QED
      BY <1>1, <3>2, <3>3, <3>6
  <2>3. CASE V[b] # NULL
    <3>1. k = h /\ b # h /\ h \in R /\ V[b] \in R /\ N[V[b]] = b
      BY <1>1, <1>4, <2>3
    <3>2. ListOf(M, k) = Reach(M, h)
      BY <1>0, <3>1 DEF ListOf
    <3>3. Reach(M, h) \subseteq R
      BY <1>1, <1>9, <3>1, ReachLeast
    <3>4. h \in Reach(M, h) /\ ClosedIn(M, Reach(M, h)) /\ Reach(M, h) \subseteq Blocks
      BY <1>0, <1>2, ReachFacts
    <3>5. \A x \in Reach(M, h) : x \in Blocks \ {b}
      BY <1>1, <3>3
    <3>6. V[b] \in Reach(M, h)
      <4> SUFFICES ASSUME V[b] \notin Reach(M, h) PROVE FALSE
        OBVIOUS
      <4>1. \A x \in Reach(M, h) : M[x] = N[x]
        BY <1>7, <3>5
      <4>2. ClosedIn(N, Reach(M, h))
        BY <3>4, <4>1 DEF ClosedIn
      <4>3. Reach(N, h) \subseteq Reach(M, h)
        BY <3>4, <4>2, ReachLeast
      <4> QED
        BY <1>1, <3>1, <4>3
    <3>7. ClosedIn(N, Reach(M, h) \cup {b})
      <4> SUFFICES ASSUME NEW x \in Reach(M, h) \cup {b}, N[x] # NULL
                   PROVE  N[x] \in Reach(M, h) \cup {b}
        BY DEF ClosedIn
      <4>1. CASE x = b
        <5>1. M[V[b]] = N[b]
          BY <1>7, <3>5, <3>6
        <5> QED
          BY <3>4, <3>6, <4>1, <5>1 DEF ClosedIn
      <4>2. CASE x = V[b]
        BY <3>1, <4>2
      <4>3. CASE x # b /\ x # V[b]
        BY <1>7, <3>4, <3>5, <4>3 DEF ClosedIn
      <4> QED
        BY <4>1, <4>2, <4>3
    <3>8. Reach(N, h) \subseteq Reach(M, h) \cup {b}
      BY <1>1, <3>4, <3>7, ReachLeast
    <3> QED
      BY <1>1, <3>2, <3>3, <3>8
  <2> QED
    BY <2>1, <2>2, <2>3
<1>11. k # NULL => W[k] = NULL
  <2>1. CASE V[b] = NULL
    BY <1>1, <1>6, <1>8, <2>1
  <2>2. CASE V[b] # NULL
    <3>1. k = h /\ h # b /\ h # N[b]
      BY <1>0, <1>1, <1>3, <1>4, <1>6, <2>2
    <3> QED
      BY <1>0, <1>3, <1>8, <3>1
  <2> QED
    BY <2>1, <2>2
<1>12. ASSUME NEW x \in R, M[x] # NULL PROVE W[M[x]] = x
  <2>1. x \in Blocks \ {b} /\ x \in ListOf(N, h) /\ M[x] \in R
    BY <1>1, <1>9, <1>12 DEF ClosedIn
  <2>2. CASE x = V[b]
    BY <1>1, <1>7, <1>8, <2>1, <2>2
  <2>3. CASE x # V[b]
    <3>1. M[x] = N[x] /\ V[N[x]] = x
      BY <1>3, <1>7, <1>12, <2>1, <2>3
    <3>2. N[x] # N[b]
      BY <1>6, <1>12, <2>1, <3>1
    <3> QED
      BY <1>1, <1>8, <2>1, <3>1, <3>2
  <2> QED
    BY <2>2, <2>3
<1> QED
  BY <1>2, <1>10, <1>11, <1>12 DEF Linked

LEMMA LinkedSame ==
  ASSUME NEW N \in Links, NEW M \in Links, NEW V \in Links, NEW W \in Links,
         NEW h \in Ptr, Linked(N, V, h),
         \A x \in ListOf(N, h) : M[x] = N[x] /\ W[x] = V[x]
  PROVE  ListOf(M, h) = ListOf(N, h) /\ Linked(M, W, h)
<1>1. ListOf(M, h) = ListOf(N, h)
  BY ListSame
<1>2. ClosedIn(N, ListOf(N, h)) /\ (h # NULL => h \in ListOf(N, h))
  BY ListFacts
<1> QED
  BY <1>1, <1>2 DEF Linked, ClosedIn

-----------------------------------------------------------------------------
(* The lists of the routing table.                                          *)

LEMMA Lists ==
  /\ \A m \in MsgIds : List(m) = ListOf(Next, ListHeadPtr[m])
  /\ \A m \in MsgIds : List(m)' = ListOf(Next', ListHeadPtr'[m])
BY DEF List, From, ListOf, Reach, ClosedIn

\* ListsSound with the links of each list taken together.
Sound ==
  /\ \A m \in MsgIds :
       /\ List(m) \subseteq Blocks /\ Cardinality(List(m)) = Destinations[m]
       /\ Linked(Next, Prev, ListHeadPtr[m])
       /\ \A b, c \in List(m) : PipeId[b] = PipeId[c] => b = c
  /\ \A m, n \in MsgIds : m # n => List(m) \cap List(n) = {}
  /\ {b \in Blocks : taken[b]} = UNION {List(m) : m \in MsgIds}

LEMMA SoundForm ==
  /\ TypeOK /\ ListsSound => Sound
  /\ Sound => ListsSound
  /\ Sound' => ListsSound'
<1>1. TypeOK => \A m \in MsgIds : List(m) \subseteq Blocks
  BY Lists, ListFacts DEF TypeOK, Links
<1>2. Sound => ListsSound
  BY Lists DEF Sound, ListsSound, Linked
<1>3. Sound' => ListsSound'
  BY Lists DEF Sound, ListsSound, Linked
<1> QED
  BY <1>1, <1>2, <1>3, Lists DEF Sound, ListsSound, Linked

LinksOK ==
  /\ ListHeadPtr \in [MsgIds -> Ptr] /\ Destinations \in [MsgIds -> 0 .. MaxDests]
  /\ PipeId \in [Blocks -> Pipes \cup {NoPipe}] /\ Active \in [Blocks -> BOOLEAN]
  /\ Prev \in Links /\ Next \in Links /\ taken \in [Blocks -> BOOLEAN]

LEMMA AddDestFacts ==
  ASSUME TypeOK, Sound, NEW m \in MsgIds, NEW b \in Blocks, NEW p \in Pipes, ~taken[b],
         Found(ListHeadPtr[m], p) = {}, Destinations[m] < MaxDests, AddDest(m, b, p)
  PROVE  /\ LinksOK' /\ Sound'
         /\ ListHeadPtr' = [ListHeadPtr EXCEPT ![m] = b] /\ PipeId' = [PipeId EXCEPT ![b] = p]
         /\ \A n \in MsgIds : /\ List(n)' = IF n = m THEN List(m) \cup {b} ELSE List(n)
                              /\ b \notin List(n)
<1>0. /\ Next \in Links /\ Prev \in Links /\ ListHeadPtr \in [MsgIds -> Ptr]
      /\ taken \in [Blocks -> BOOLEAN] /\ Destinations \in [MsgIds -> 0 .. MaxDests]
      /\ PipeId \in [Blocks -> Pipes \cup {NoPipe}] /\ Active \in [Blocks -> BOOLEAN]
  BY DEF TypeOK, Links
<1>1. \A n \in MsgIds : b \notin List(n) /\ List(n) \subseteq Blocks
  BY DEF Sound
<1>2. /\ Next' = [Next EXCEPT ![b] = ListHeadPtr[m]]
      /\ Prev' = IF ListHeadPtr[m] = NULL THEN [Prev EXCEPT ![b] = NULL]
                 ELSE [Prev EXCEPT ![b] = NULL, ![ListHeadPtr[m]] = b]
      /\ ListHeadPtr' = [ListHeadPtr EXCEPT ![m] = b]
      /\ PipeId' = [PipeId EXCEPT ![b] = p] /\ Active' = [Active EXCEPT ![b] = TRUE]
      /\ taken' = [taken EXCEPT ![b] = TRUE]
      /\ Destinations' = [Destinations EXCEPT ![m] = Destinations[m] + 1]
  BY DEF AddDest
<1>3. PICK h \in Ptr : h = ListHeadPtr[m]
  BY <1>0
<1>4. Linked(Next, Prev, h) /\ b \notin ListOf(Next, h) /\ List(m) = ListOf(Next, h)
  BY <1>1, <1>3, Lists DEF Sound
<1>5. /\ Next' \in Links /\ Prev' \in Links /\ Linked(Next', Prev', b)
      /\ ListOf(Next', b) = ListOf(Next, h) \cup {b}
  <2>1. Next' \in Links /\ Next'[b] = h /\ \A x \in Blocks \ {b} : Next'[x] = Next[x]
    BY <1>0, <1>2, <1>3 DEF Links
  <2>2. h # b
    BY <1>0, <1>4, ListFacts, RoutingAssumption
  <2>3. Prev' = IF h = NULL THEN [Prev EXCEPT ![b] = NULL]
                ELSE [Prev EXCEPT ![b] = NULL, ![h] = b]
    BY <1>2, <1>3
  <2>4. /\ Prev' \in Links /\ Prev'[b] = NULL
        /\ \A x \in Blocks \ {b} : Prev'[x] = IF x = h THEN b ELSE Prev[x]
    BY <1>0, <2>2, <2>3, RoutingAssumption DEF Links, Ptr
  <2> QED
    BY <1>0, <1>4, <2>1, <2>4, InsertList
<1>6. LinksOK'
  <2>1. ListHeadPtr' \in [MsgIds -> Ptr]
    BY <1>0, <1>2 DEF Ptr
  <2>2. Destinations' \in [MsgIds -> 0 .. MaxDests]
    BY <1>0, <1>2, RoutingAssumption
  <2>3. /\ PipeId' \in [Blocks -> Pipes \cup {NoPipe}] /\ Active' \in [Blocks -> BOOLEAN]
        /\ taken' \in [Blocks -> BOOLEAN]
    BY <1>0, <1>2
  <2> QED
    BY <1>5, <2>1, <2>2, <2>3 DEF LinksOK
<1>7. List(m)' = List(m) \cup {b} /\ Linked(Next', Prev', ListHeadPtr'[m])
  BY <1>0, <1>2, <1>4, <1>5, Lists
<1>8. ASSUME NEW n \in MsgIds, n # m
      PROVE  List(n)' = List(n) /\ Linked(Next', Prev', ListHeadPtr'[n])
  <2>1. PICK k \in Ptr : k = ListHeadPtr[n] /\ k = ListHeadPtr'[n]
    BY <1>0, <1>2, <1>8
  <2>2. Linked(Next, Prev, k) /\ List(n) = ListOf(Next, k) /\ List(n) \cap List(m) = {}
    BY <1>8, <2>1, Lists DEF Sound
  <2>3. h # NULL => h \in List(m)
    BY <1>0, <1>4, ListFacts
  <2>4. \A x \in ListOf(Next, k) : x # b /\ x # h /\ x \in Blocks
    BY <1>1, <2>2, <2>3, RoutingAssumption
  <2>5. \A x \in ListOf(Next, k) : Next'[x] = Next[x] /\ Prev'[x] = Prev[x]
    BY <1>0, <1>2, <1>3, <2>4 DEF Links
  <2>6. ListOf(Next', k) = ListOf(Next, k) /\ Linked(Next', Prev', k)
    BY <1>0, <1>5, <2>2, <2>5, LinkedSame
  <2> QED
    BY <2>1, <2>2, <2>6, Lists
<1>9. \A n \in MsgIds : List(n)' = IF n = m THEN List(m) \cup {b} ELSE List(n)
  BY <1>7, <1>8
<1>10. ASSUME NEW n \in MsgIds
       PROVE  /\ List(n)' \subseteq Blocks /\ Cardinality(List(n)') = Destinations'[n]
              /\ \A c, d \in List(n)' : PipeId'[c] = PipeId'[d] => c = d
  <2>1. CASE n = m
    <3>1. IsFiniteSet(List(m)) /\ Cardinality(List(m)) = Destinations[m] /\ b \notin List(m)
      BY <1>1, FS_Subset, RoutingAssumption DEF Sound
    <3>2. Cardinality(List(m) \cup {b}) = Destinations[m] + 1
      BY <3>1, FS_AddElement
    <3>3. \A c \in List(m) : PipeId'[c] = PipeId[c] /\ PipeId[c] # p
      <4>1. \A c \in List(m) : PipeId[c] # p
        BY <1>3, <1>4 DEF Found, List
      <4> QED
        BY <1>0, <1>1, <1>2, <4>1
    <3>4. PipeId'[b] = p /\ Destinations'[m] = Destinations[m] + 1
      BY <1>0, <1>2
    <3>5. \A c, d \in List(m) : PipeId[c] = PipeId[d] => c = d
      BY DEF Sound
    <3> QED
      BY <1>1, <1>7, <2>1, <3>2, <3>3, <3>4, <3>5
  <2>2. CASE n # m
    <3>1. \A c \in List(n) : PipeId'[c] = PipeId[c]
      BY <1>0, <1>1, <1>2
    <3> QED
      BY <1>0, <1>1, <1>2, <1>8, <2>2, <3>1 DEF Sound
  <2> QED
    BY <2>1, <2>2
<1>11. \A k, n \in MsgIds : k # n => List(k)' \cap List(n)' = {}
  BY <1>1, <1>9 DEF Sound
<1>12. {c \in Blocks : taken'[c]} = UNION {List(n)' : n \in MsgIds}
  <2>1. {c \in Blocks : taken'[c]} = {c \in Blocks : taken[c]} \cup {b}
    BY <1>0, <1>2
  <2>2. UNION {List(n)' : n \in MsgIds} = (UNION {List(n) : n \in MsgIds}) \cup {b}
    BY <1>9
  <2> QED
    BY <2>1, <2>2 DEF Sound
<1>13. Sound'
  BY <1>7, <1>8, <1>10, <1>11, <1>12 DEF Sound
<1> QED
  BY <1>1, <1>2, <1>6, <1>9, <1>13

LEMMA RemoveDestFacts ==
  ASSUME TypeOK, Sound, NEW m \in MsgIds, NEW b \in List(m), RemoveDest(m, b),
         UNCHANGED <<PipeId, Active>>
  PROVE  /\ LinksOK' /\ Sound'
         /\ \A n \in MsgIds : /\ List(n)' = IF n = m THEN List(m) \ {b} ELSE List(n)
                              /\ ListHeadPtr'[n] # NULL => ListHeadPtr[n] # NULL
<1>0. /\ Next \in Links /\ Prev \in Links /\ ListHeadPtr \in [MsgIds -> Ptr]
      /\ taken \in [Blocks -> BOOLEAN] /\ Destinations \in [MsgIds -> 0 .. MaxDests]
      /\ PipeId \in [Blocks -> Pipes \cup {NoPipe}] /\ Active \in [Blocks -> BOOLEAN]
  BY DEF TypeOK, Links
<1>1. (\A n \in MsgIds : List(n) \subseteq Blocks) /\ b \in Blocks
  BY DEF Sound
<1>2. PICK h \in Ptr : h = ListHeadPtr[m]
  BY <1>0
<1>3. /\ Next' = [x \in Blocks |-> IF x = b THEN NULL
                                   ELSE IF x = Prev[b] THEN Next[b] ELSE Next[x]]
      /\ Prev' = [x \in Blocks |-> IF x = b THEN NULL
                                   ELSE IF x = Next[b] THEN Prev[b] ELSE Prev[x]]
      /\ ListHeadPtr' = [ListHeadPtr EXCEPT ![m] = IF Prev[b] = NULL THEN Next[b] ELSE h]
      /\ taken' = [taken EXCEPT ![b] = FALSE]
      /\ Destinations' = [Destinations EXCEPT ![m] = Destinations[m] - 1]
      /\ PipeId' = PipeId /\ Active' = Active
  BY <1>0, <1>2 DEF RemoveDest
<1>4. Linked(Next, Prev, h) /\ b \in ListOf(Next, h) /\ List(m) = ListOf(Next, h)
  BY <1>2, Lists DEF Sound
<1>5. PICK k : k = IF Prev[b] = NULL THEN Next[b] ELSE h
  OBVIOUS
<1>6. /\ Next' \in Links /\ Prev' \in Links /\ k \in Ptr
      /\ ListOf(Next', k) = ListOf(Next, h) \ {b} /\ Linked(Next', Prev', k)
  BY <1>0, <1>3, <1>4, <1>5, DeleteList
<1>7. ListHeadPtr' = [ListHeadPtr EXCEPT ![m] = k]
  BY <1>3, <1>5
<1>8. IsFiniteSet(List(m)) /\ Cardinality(List(m)) = Destinations[m]
  BY <1>1, FS_Subset, RoutingAssumption DEF Sound
<1>9. Cardinality(List(m) \ {b}) = Destinations[m] - 1
  BY <1>8, FS_RemoveElement
<1>10. LinksOK'
  <2>1. Destinations[m] # 0
    BY <1>8, FS_EmptySet
  <2>2. Destinations' \in [MsgIds -> 0 .. MaxDests]
    BY <1>0, <1>3, <2>1, RoutingAssumption
  <2>3. ListHeadPtr' \in [MsgIds -> Ptr]
    BY <1>0, <1>6, <1>7
  <2> QED
    BY <1>0, <1>3, <1>6, <2>2, <2>3 DEF LinksOK
<1>11. List(m)' = List(m) \ {b} /\ Linked(Next', Prev', ListHeadPtr'[m])
  BY <1>0, <1>4, <1>6, <1>7, Lists
<1>12. \A x \in Blocks : x \notin List(m) => Next'[x] = Next[x] /\ Prev'[x] = Prev[x]
  <2>1. /\ Prev[b] # NULL => Prev[b] \in List(m)
        /\ Next[b] # NULL => Next[b] \in List(m)
    BY <1>0, <1>4, LinkedFacts, ListFacts DEF ClosedIn
  <2> QED
    BY <1>3, <2>1, RoutingAssumption
<1>13. ASSUME NEW n \in MsgIds, n # m
       PROVE  List(n)' = List(n) /\ Linked(Next', Prev', ListHeadPtr'[n])
  <2>1. PICK j \in Ptr : j = ListHeadPtr[n] /\ j = ListHeadPtr'[n]
    BY <1>0, <1>7, <1>13
  <2>2. Linked(Next, Prev, j) /\ List(n) = ListOf(Next, j) /\ List(n) \cap List(m) = {}
    BY <1>13, <2>1, Lists DEF Sound
  <2>3. \A x \in ListOf(Next, j) : Next'[x] = Next[x] /\ Prev'[x] = Prev[x]
    BY <1>1, <1>12, <2>2
  <2>4. ListOf(Next', j) = ListOf(Next, j) /\ Linked(Next', Prev', j)
    BY <1>0, <1>6, <2>2, <2>3, LinkedSame
  <2> QED
    BY <2>1, <2>2, <2>4, Lists
<1>14. \A n \in MsgIds : List(n)' = IF n = m THEN List(m) \ {b} ELSE List(n)
  BY <1>11, <1>13
<1>15. ASSUME NEW n \in MsgIds
       PROVE  /\ List(n)' \subseteq Blocks /\ Cardinality(List(n)') = Destinations'[n]
              /\ \A c, d \in List(n)' : PipeId'[c] = PipeId'[d] => c = d
  <2>1. List(n)' \subseteq List(n) /\ List(n) \subseteq Blocks
    BY <1>1, <1>14
  <2>2. \A c, d \in List(n) : PipeId[c] = PipeId[d] => c = d
    BY DEF Sound
  <2>3. Cardinality(List(n)') = Destinations'[n]
    BY <1>0, <1>3, <1>9, <1>14 DEF Sound
  <2> QED
    BY <1>3, <2>1, <2>2, <2>3
<1>16. \A j, n \in MsgIds : j # n => List(j)' \cap List(n)' = {}
  BY <1>14 DEF Sound
<1>17. {c \in Blocks : taken'[c]} = UNION {List(n)' : n \in MsgIds}
  <2>1. {c \in Blocks : taken'[c]} = {c \in Blocks : taken[c]} \ {b}
    BY <1>0, <1>3
  <2>2. UNION {List(n)' : n \in MsgIds} = (UNION {List(n) : n \in MsgIds}) \ {b}
    <3>1. \A n \in MsgIds : n # m => b \notin List(n)
      BY DEF Sound
    <3> QED
      BY <1>14, <3>1
  <2> QED
    BY <2>1, <2>2 DEF Sound
<1>18. Sound'
  BY <1>11, <1>13, <1>15, <1>16, <1>17 DEF Sound
<1>19. h # NULL
  BY <1>4, RoutingAssumption DEF ListOf
<1> QED
  BY <1>0, <1>2, <1>7, <1>10, <1>14, <1>18, <1>19

-----------------------------------------------------------------------------
(* What is left of a pipe in the lists.                                     *)

Clean(p, j) == \A b \in List(RoutingTbl[j]) : PipeId[b] # p

LEMMA CleanMeans ==
  SearchedClean <=>
    \A p \in Pipes : pc[p] \in {"unsub", "next"} =>
      /\ idx[p] \in 1 .. Len(RoutingTbl)
      /\ \A j \in 1 .. idx[p] : j < idx[p] \/ pc[p] = "next" => Clean(p, j)
BY DEF SearchedClean, Clean

\* What a walk finds is in the list it is on, so a list that has nothing for p
\* is clean of it.
LEMMA FoundAll ==
  ASSUME NEW m \in MsgIds, NEW p, Found(ListHeadPtr[m], p) = {}
  PROVE  \A b \in List(m) : PipeId[b] # p
BY DEF Found, List

\* A step that takes nothing but destinations out of lists.
LEMMA FewerDestinations ==
  ASSUME TypeOK, SearchedClean, DestinationsArePipes, ListsRouted,
         PipeId' = PipeId, RoutingTbl' = RoutingTbl,
         \A n \in MsgIds : /\ List(n)' \subseteq List(n)
                           /\ ListHeadPtr'[n] # NULL => ListHeadPtr[n] # NULL
  PROVE  /\ DestinationsArePipes' /\ ListsRouted'
         /\ \A p \in Pipes, j \in 1 .. Len(RoutingTbl) : Clean(p, j) => Clean(p, j)'
<1>1. DestinationsArePipes'
  BY DEF DestinationsArePipes
<1>2. ListsRouted'
  BY DEF ListsRouted, IsRouted
<1>3. ASSUME NEW p \in Pipes, NEW j \in 1 .. Len(RoutingTbl), Clean(p, j)
      PROVE  Clean(p, j)'
  <2>1. RoutingTbl[j] \in MsgIds /\ RoutingTbl'[j] = RoutingTbl[j]
    BY <1>3 DEF TypeOK
  <2>2. PICK m \in MsgIds : m = RoutingTbl[j]
    BY <2>1
  <2>3. \A b \in List(m) : PipeId[b] # p
    BY <1>3, <2>2 DEF Clean
  <2>4. \A b \in List(m)' : PipeId'[b] # p
    BY <2>3
  <2>5. List(m)' = List(RoutingTbl[j])'
    BY <2>1, <2>2 DEF List, From
  <2> QED
    BY <2>4, <2>5 DEF Clean
<1> QED
  BY <1>1, <1>2, <1>3

LEMMA ListsStay ==
  ASSUME ListHeadPtr' = ListHeadPtr, Next' = Next
  PROVE  \A m \in MsgIds : List(m)' = List(m)
BY DEF List, From

\* A step that changes no list.
LEMMA QuietStep ==
  ASSUME TypeOK, ListsSound, SearchedClean, DestinationsArePipes, ListsRouted,
         UNCHANGED <<entryVars, PipeId, Prev, Next, taken>>
  PROVE  /\ ListsSound' /\ DestinationsArePipes' /\ ListsRouted'
         /\ \A m \in MsgIds : List(m)' = List(m)
         /\ \A p \in Pipes, j \in 1 .. Len(RoutingTbl) : Clean(p, j) => Clean(p, j)'
<1>0. /\ RoutingTbl' = RoutingTbl /\ ListHeadPtr' = ListHeadPtr /\ Destinations' = Destinations
      /\ PipeId' = PipeId /\ Prev' = Prev /\ Next' = Next /\ taken' = taken
  BY DEF entryVars
<1>1. \A m \in MsgIds : List(m)' = List(m)
  BY <1>0, ListsStay
<1>2. UNION {List(m)' : m \in MsgIds} = UNION {List(m) : m \in MsgIds}
  BY <1>1
<1>3. ListsSound'
  <2>1. ASSUME NEW m \in MsgIds
        PROVE  /\ Cardinality(List(m)') = Destinations'[m]
               /\ ListHeadPtr'[m] # NULL => Prev'[ListHeadPtr'[m]] = NULL
               /\ \A b \in List(m)' : Next'[b] # NULL => Prev'[Next'[b]] = b
               /\ \A b, c \in List(m)' : PipeId'[b] = PipeId'[c] => b = c
    BY <1>0, <1>1 DEF ListsSound
  <2>2. \A m, n \in MsgIds : m # n => List(m)' \cap List(n)' = {}
    BY <1>1 DEF ListsSound
  <2>3. {b \in Blocks : taken'[b]} = UNION {List(m)' : m \in MsgIds}
    BY <1>0, <1>2 DEF ListsSound
  <2> QED
    BY <2>1, <2>2, <2>3 DEF ListsSound
<1> QED
  BY <1>0, <1>1, <1>3, FewerDestinations

-----------------------------------------------------------------------------
(* The search of a deletion.                                                *)

LEMMA SearchFacts ==
  ASSUME TypeOK, NEW p \in Pipes, NEW i \in 0 .. Len(RoutingTbl), NEW c, Search(p, i, c),
         i = 0 => c = NULL, \A j \in 1 .. i : Clean(p, j)
  PROVE  \/ /\ pc' = [pc EXCEPT ![p] = "drain"] /\ UNCHANGED <<idx, DestPtr>>
            /\ \A j \in 1 .. Len(RoutingTbl) : Clean(p, j)
         \/ \E k \in 1 .. Len(RoutingTbl), b \in Blocks :
              /\ pc' = [pc EXCEPT ![p] = "unsub"] /\ idx' = [idx EXCEPT ![p] = k]
              /\ DestPtr' = [DestPtr EXCEPT ![p] = b]
              /\ \A j \in 1 .. k : j < k => Clean(p, j)
<1> DEFINE Hits(j) == Found(IF j = i THEN c ELSE ListHeadPtr[RoutingTbl[j]], p)
           entries == {j \in 0 .. Len(RoutingTbl) : j >= i /\ Hits(j) # {}}
<1>0. Len(RoutingTbl) \in Nat /\ i \in Nat /\ RoutingTbl \in Seq(MsgIds)
  BY DEF TypeOK
<1>1. ASSUME NEW j \in 1 .. Len(RoutingTbl), j \notin entries PROVE Clean(p, j)
  <2>1. CASE j <= i
    BY <1>0, <2>1
  <2>2. CASE j > i
    <3>1. Hits(j) = {}
      BY <1>0, <1>1, <2>2
    <3>2. Found(ListHeadPtr[RoutingTbl[j]], p) = {}
      BY <1>0, <2>2, <3>1
    <3>3. RoutingTbl[j] \in MsgIds
      BY <1>0
    <3> QED
      BY <3>2, <3>3, FoundAll DEF Clean
  <2> QED
    BY <1>0, <2>1, <2>2
<1>2. CASE entries = {}
  BY <1>1, <1>2 DEF Search
<1>3. CASE entries # {}
  <2>1. PICK k \in entries : /\ \A j \in entries : k <= j
                             /\ \E b \in Hits(k) : DestPtr' = [DestPtr EXCEPT ![p] = b]
                             /\ idx' = [idx EXCEPT ![p] = k]
                             /\ pc' = [pc EXCEPT ![p] = "unsub"]
    BY <1>3 DEF Search
  <2>2. k # 0
    <3>1. k = 0 => Hits(k) = {}
      BY <1>0, RoutingAssumption DEF Found
    <3> QED
      BY <3>1
  <2>3. k \in 1 .. Len(RoutingTbl)
    BY <1>0, <2>2
  <2>4. PICK b \in Blocks : DestPtr' = [DestPtr EXCEPT ![p] = b]
    BY <2>1 DEF Found, From
  <2>5. \A j \in 1 .. k : j < k => Clean(p, j)
    <3>0. \A j \in entries : k <= j
      BY <2>1
    <3> HIDE DEF entries
    <3>1. \A j \in 1 .. k : j < k => j \in 1 .. Len(RoutingTbl) /\ j \notin entries
      BY <1>0, <2>3, <3>0
    <3> QED
      BY <1>1, <3>1
  <2> QED
    BY <2>1, <2>3, <2>4, <2>5
<1> QED
  BY <1>2, <1>3

-----------------------------------------------------------------------------
(* The body of CFE_SB_UnsubscribeFull.                                      *)

LEMMA UnrouteFacts ==
  ASSUME IInv, NEW m \in MsgIds, NEW p \in Pipes, Unroute(m, p)
  PROVE  /\ LinksOK' /\ ListsSound' /\ crashed' \in BOOLEAN
         /\ RoutingTbl' = RoutingTbl /\ PipeId' = PipeId
         /\ DestinationsArePipes' /\ ListsRouted'
         /\ \A n \in MsgIds : List(n)' \subseteq List(n)
         /\ \A q \in Pipes, j \in 1 .. Len(RoutingTbl) : Clean(q, j) => Clean(q, j)'
         /\ \A b \in List(m)' : PipeId'[b] # p
<1>0. TypeOK /\ Sound /\ ListsSound /\ SearchedClean /\ DestinationsArePipes /\ ListsRouted
  BY SoundForm DEF IInv
<1>1. CASE UNCHANGED <<entryVars, blockVars>> /\ \A b \in List(m) : PipeId[b] # p
  <2>1. UNCHANGED <<entryVars, PipeId, Prev, Next, taken, Active>>
    BY <1>1 DEF blockVars
  <2>2. LinksOK'
    BY <1>0, <2>1 DEF TypeOK, LinksOK, Links, entryVars
  <2>3. \A n \in MsgIds : List(n)' = List(n)
    BY <1>0, <2>1, QuietStep
  <2>4. crashed' \in BOOLEAN
    BY <1>0 DEF Unroute, TypeOK
  <2> QED
    BY <1>0, <1>1, <2>1, <2>2, <2>3, <2>4, QuietStep DEF entryVars
<1>2. CASE /\ ListHeadPtr[m] # NULL
           /\ \E b \in Found(ListHeadPtr[m], p) : RemoveDest(m, b)
           /\ UNCHANGED <<PipeId, Active, RoutingTbl, crashed>>
  <2>1. PICK b \in List(m) : PipeId[b] = p /\ RemoveDest(m, b)
    BY <1>2 DEF Found, List
  <2>2. /\ LinksOK' /\ Sound'
        /\ \A n \in MsgIds : /\ List(n)' = IF n = m THEN List(m) \ {b} ELSE List(n)
                             /\ ListHeadPtr'[n] # NULL => ListHeadPtr[n] # NULL
    BY <1>0, <1>2, <2>1, RemoveDestFacts
  <2>3. \A n \in MsgIds : List(n)' \subseteq List(n)
    BY <2>2
  <2>4. /\ DestinationsArePipes' /\ ListsRouted'
        /\ \A q \in Pipes, j \in 1 .. Len(RoutingTbl) : Clean(q, j) => Clean(q, j)'
    BY <1>0, <1>2, <2>2, <2>3, FewerDestinations
  <2>5. \A c \in List(m)' : PipeId'[c] # p
    BY <1>0, <1>2, <2>1, <2>2 DEF Sound
  <2> QED
    BY <1>0, <1>2, <2>2, <2>3, <2>4, <2>5, SoundForm DEF TypeOK
<1> QED
  <2>1. ListHeadPtr[m] = NULL => \A b \in List(m) : PipeId[b] # p
    BY DEF List
  <2>2. Found(ListHeadPtr[m], p) = {} => \A b \in List(m) : PipeId[b] # p
    BY FoundAll
  <2> QED
    BY <1>1, <1>2, <2>1, <2>2 DEF Unroute, entryVars

-----------------------------------------------------------------------------
(* The steps.                                                               *)

LEMMA SearchedMeans ==
  ASSUME NEW p \in Pipes, SearchedClean, pc[p] \in {"unsub", "next"}
  PROVE  /\ idx[p] \in 1 .. Len(RoutingTbl)
         /\ \A j \in 1 .. idx[p] : j < idx[p] \/ pc[p] = "next" => Clean(p, j)
BY CleanMeans

LEMMA SearchedAgain ==
  ASSUME \A p \in Pipes : pc'[p] \in {"unsub", "next"} =>
           /\ idx'[p] \in 1 .. Len(RoutingTbl')
           /\ \A j \in 1 .. idx'[p] : j < idx'[p] \/ pc'[p] = "next" => Clean(p, j)'
  PROVE  SearchedClean'
BY DEF SearchedClean, Clean

\* A list that holds something for a pipe is one of the lists searched.
LEMMA CleanEverywhere ==
  ASSUME TypeOK, ListsRouted, NEW p \in Pipes,
         \A j \in 1 .. Len(RoutingTbl) : Clean(p, j)
  PROVE  \A m \in MsgIds : \A b \in List(m) : PipeId[b] # p
<1> SUFFICES ASSUME NEW m \in MsgIds, NEW b \in List(m) PROVE PipeId[b] # p
  OBVIOUS
<1>1. IsRouted(m)
  BY DEF ListsRouted, List
<1>2. PICK j \in 1 .. Len(RoutingTbl) : RoutingTbl[j] = m
  BY <1>1 DEF IsRouted, TypeOK
<1> QED
  BY <1>2 DEF Clean

\* A step that changes no list and no deletion.
LEMMA QuietCall ==
  ASSUME IInv, TypeOK', CommandAtBlock', UNCHANGED <<pc, idx>>,
         UNCHANGED <<entryVars, PipeId, Prev, Next, taken>>,
         \A p \in Pipes : inUse[p] => inUse'[p]
  PROVE  IInv'
<1>0. TypeOK /\ ListsSound /\ SearchedClean /\ DestinationsArePipes /\ ListsRouted
      /\ RoutesLeadToPipes
  BY DEF IInv
<1>1. /\ ListsSound' /\ DestinationsArePipes' /\ ListsRouted'
      /\ \A m \in MsgIds : List(m)' = List(m)
      /\ \A p \in Pipes, j \in 1 .. Len(RoutingTbl) : Clean(p, j) => Clean(p, j)'
  BY <1>0, QuietStep
<1>2. RoutingTbl' = RoutingTbl /\ PipeId' = PipeId
  BY DEF entryVars
<1>3. SearchedClean'
  <2>1. ASSUME NEW p \in Pipes, pc'[p] \in {"unsub", "next"}
        PROVE  /\ idx'[p] \in 1 .. Len(RoutingTbl')
               /\ \A j \in 1 .. idx'[p] : j < idx'[p] \/ pc'[p] = "next" => Clean(p, j)'
    <3>1. /\ idx[p] \in 1 .. Len(RoutingTbl)
          /\ \A j \in 1 .. idx[p] : j < idx[p] \/ pc[p] = "next" => Clean(p, j)
      BY <1>0, <2>1, SearchedMeans
    <3>2. Len(RoutingTbl) \in Nat
      BY <1>0 DEF TypeOK
    <3>3. \A j \in 1 .. idx[p] : j \in 1 .. Len(RoutingTbl)
      BY <3>1, <3>2
    <3> QED
      BY <1>1, <1>2, <3>1, <3>3
  <2> QED
    BY <2>1, SearchedAgain
<1>4. RoutesLeadToPipes'
  <2>1. ASSUME NEW m \in MsgIds, NEW b \in List(m)'
        PROVE  inUse'[PipeId'[b]] /\ pc'[PipeId'[b]] # "drain"
    BY <1>0, <1>1, <1>2 DEF RoutesLeadToPipes, DestinationsArePipes
  <2> QED
    BY <2>1 DEF RoutesLeadToPipes
<1> QED
  BY <1>1, <1>3, <1>4 DEF IInv

LEMMA CreatePipeStep ==
  ASSUME IInv, NEW p \in Pipes, CreatePipe(p)
  PROVE  IInv'
<1>1. TypeOK'
  BY DEF IInv, TypeOK, CreatePipe, entryVars, blockVars, callVars, cmdVars
<1>2. CommandAtBlock'
  BY DEF IInv, CommandAtBlock, CreatePipe, cmdVars
<1>3. \A q \in Pipes : inUse[q] => inUse'[q]
  BY DEF IInv, TypeOK, CreatePipe
<1>4. UNCHANGED <<pc, idx>> /\ UNCHANGED <<entryVars, PipeId, Prev, Next, taken>>
  BY DEF CreatePipe, blockVars, callVars
<1> QED
  BY <1>1, <1>2, <1>3, <1>4, QuietCall

LEMMA SubscribeStep ==
  ASSUME IInv, NEW p \in Pipes, NEW m \in MsgIds, Subscribe(p, m)
  PROVE  IInv'
<1>0. TypeOK /\ ListsSound /\ SearchedClean /\ DestinationsArePipes /\ ListsRouted
      /\ RoutesLeadToPipes /\ Sound
  BY SoundForm DEF IInv
<1>1. /\ UNCHANGED <<inUse, pc, idx, DestPtr, cpc, cmd, cPtr, crashed>>
      /\ pc[p] = "idle" /\ inUse[p] /\ Found(ListHeadPtr[m], p) = {}
  BY DEF Subscribe, callVars, cmdVars
<1>2. /\ RoutingTbl' \in Seq(MsgIds) /\ Len(RoutingTbl') <= MaxMsgIds
      /\ Len(RoutingTbl) \in Nat /\ Len(RoutingTbl') \in Nat /\ Len(RoutingTbl) <= Len(RoutingTbl')
      /\ \A j \in 1 .. Len(RoutingTbl) : RoutingTbl'[j] = RoutingTbl[j] /\ RoutingTbl[j] \in MsgIds
  <2>1. RoutingTbl \in Seq(MsgIds) /\ Len(RoutingTbl) <= MaxMsgIds /\ Len(RoutingTbl) \in Nat
    BY <1>0 DEF TypeOK
  <2>2. CASE RoutingTbl' = RoutingTbl
    BY <2>1, <2>2
  <2>3. CASE Len(RoutingTbl) < MaxMsgIds /\ RoutingTbl' = Append(RoutingTbl, m)
    BY <2>1, <2>3, RoutingAssumption
  <2> QED
    BY <2>2, <2>3 DEF Subscribe
<1>3. \A n \in MsgIds : n = m \/ IsRouted(n) => IsRouted(n)'
  <2>1. CASE IsRouted(m) /\ UNCHANGED RoutingTbl
    BY <2>1 DEF IsRouted
  <2>2. CASE RoutingTbl' = Append(RoutingTbl, m)
    <3>1. RoutingTbl \in Seq(MsgIds)
      BY <1>0 DEF TypeOK
    <3> QED
      BY <2>2, <3>1 DEF IsRouted
  <2> QED
    BY <2>1, <2>2 DEF Subscribe
<1>4. /\ LinksOK' /\ Sound'
      /\ \A n \in MsgIds : /\ n = m \/ List(n)' = List(n)
                           /\ ListHeadPtr'[n] # NULL => n = m \/ ListHeadPtr[n] # NULL
                           /\ \A b \in List(n)' : \/ PipeId'[b] = p
                                                  \/ b \in List(n) /\ PipeId'[b] = PipeId[b]
  <2>1. CASE UNCHANGED <<ListHeadPtr, Destinations, blockVars>>
    <3>1. LinksOK'
      BY <1>0, <2>1 DEF TypeOK, LinksOK, Links, blockVars
    <3>2. \A n \in MsgIds : List(n)' = List(n)
      BY <2>1, ListsStay DEF blockVars
    <3>3. Sound'
      <4>1. UNION {List(n)' : n \in MsgIds} = UNION {List(n) : n \in MsgIds}
        BY <3>2
      <4>2. ASSUME NEW n \in MsgIds
            PROVE  /\ List(n)' \subseteq Blocks /\ Cardinality(List(n)') = Destinations'[n]
                   /\ Linked(Next', Prev', ListHeadPtr'[n])
                   /\ \A b, c \in List(n)' : PipeId'[b] = PipeId'[c] => b = c
        BY <1>0, <2>1, <3>2 DEF Sound, blockVars
      <4>3. \A k, n \in MsgIds : k # n => List(k)' \cap List(n)' = {}
        BY <1>0, <3>2 DEF Sound
      <4>4. {b \in Blocks : taken'[b]} = UNION {List(n)' : n \in MsgIds}
        BY <1>0, <2>1, <4>1 DEF Sound, blockVars
      <4> QED
        BY <4>2, <4>3, <4>4 DEF Sound
    <3> QED
      BY <2>1, <3>1, <3>2, <3>3 DEF blockVars
  <2>2. CASE Destinations[m] < MaxDests /\ \E b \in Blocks : ~taken[b] /\ AddDest(m, b, p)
    <3>1. PICK b \in Blocks : ~taken[b] /\ AddDest(m, b, p)
      BY <2>2
    <3>2. /\ LinksOK' /\ Sound'
          /\ ListHeadPtr' = [ListHeadPtr EXCEPT ![m] = b] /\ PipeId' = [PipeId EXCEPT ![b] = p]
          /\ \A n \in MsgIds : /\ List(n)' = IF n = m THEN List(m) \cup {b} ELSE List(n)
                               /\ b \notin List(n)
      BY <1>0, <1>1, <2>2, <3>1, AddDestFacts
    <3>3. PipeId'[b] = p /\ \A n \in MsgIds : \A c \in List(n) : PipeId'[c] = PipeId[c]
      BY <1>0, <3>2 DEF TypeOK, Sound
    <3>4. \A n \in MsgIds : ListHeadPtr'[n] # NULL => n = m \/ ListHeadPtr[n] # NULL
      BY <1>0, <3>2 DEF TypeOK
    <3> QED
      BY <3>2, <3>3, <3>4
  <2> QED
    BY <2>1, <2>2 DEF Subscribe
<1>5. TypeOK'
  BY <1>0, <1>1, <1>2, <1>4 DEF TypeOK, LinksOK, Links
<1>6. ListsSound' /\ ListsRouted'
  BY <1>0, <1>3, <1>4, SoundForm DEF ListsRouted
<1>7. DestinationsArePipes' /\ RoutesLeadToPipes'
  <2>1. ASSUME NEW n \in MsgIds, NEW b \in List(n)'
        PROVE  /\ PipeId'[b] \in Pipes
               /\ inUse'[PipeId'[b]] /\ pc'[PipeId'[b]] # "drain"
    BY <1>0, <1>1, <1>4 DEF DestinationsArePipes, RoutesLeadToPipes
  <2> QED
    BY <2>1 DEF DestinationsArePipes, RoutesLeadToPipes
<1>8. SearchedClean'
  <2>1. ASSUME NEW q \in Pipes, pc'[q] \in {"unsub", "next"}
        PROVE  /\ idx'[q] \in 1 .. Len(RoutingTbl')
               /\ \A j \in 1 .. idx'[q] : j < idx'[q] \/ pc'[q] = "next" => Clean(q, j)'
    <3>1. /\ idx[q] \in 1 .. Len(RoutingTbl) /\ q # p
          /\ \A j \in 1 .. idx[q] : j < idx[q] \/ pc[q] = "next" => Clean(q, j)
      BY <1>0, <1>1, <2>1, SearchedMeans
    <3>2. ASSUME NEW j \in 1 .. idx[q], Clean(q, j) PROVE Clean(q, j)'
      <4>1. PICK n \in MsgIds : n = RoutingTbl[j] /\ n = RoutingTbl'[j]
        BY <1>2, <3>1
      <4>2. \A b \in List(n) : PipeId[b] # q
        BY <3>2, <4>1 DEF Clean
      <4>3. \A b \in List(n)' : PipeId'[b] # q
        BY <1>4, <3>1, <4>2
      <4>4. List(n)' = List(RoutingTbl[j])'
        BY <4>1 DEF List, From
      <4> QED
        BY <4>3, <4>4 DEF Clean
    <3> QED
      BY <1>1, <1>2, <3>1, <3>2
  <2> QED
    BY <2>1, SearchedAgain
<1>9. CommandAtBlock'
  BY <1>1 DEF IInv, CommandAtBlock
<1> QED
  BY <1>5, <1>6, <1>7, <1>8, <1>9 DEF IInv

LEMMA UnsubscribeStep ==
  ASSUME IInv, NEW p \in Pipes, NEW m \in MsgIds, Unsubscribe(p, m)
  PROVE  IInv'
<1>0. TypeOK /\ SearchedClean /\ DestinationsArePipes /\ RoutesLeadToPipes
  BY DEF IInv
<1>1. /\ UNCHANGED <<inUse, pc, idx, DestPtr, cpc, cmd, cPtr>> /\ Unroute(m, p)
  BY DEF Unsubscribe, callVars, cmdVars
<1>2. /\ LinksOK' /\ ListsSound' /\ crashed' \in BOOLEAN
      /\ RoutingTbl' = RoutingTbl /\ PipeId' = PipeId
      /\ DestinationsArePipes' /\ ListsRouted'
      /\ \A n \in MsgIds : List(n)' \subseteq List(n)
      /\ \A q \in Pipes, j \in 1 .. Len(RoutingTbl) : Clean(q, j) => Clean(q, j)'
  BY <1>1, UnrouteFacts
<1>3. TypeOK'
  BY <1>0, <1>1, <1>2 DEF TypeOK, LinksOK, Links
<1>4. RoutesLeadToPipes'
  BY <1>0, <1>1, <1>2 DEF RoutesLeadToPipes
<1>5. SearchedClean'
  <2>1. ASSUME NEW q \in Pipes, pc'[q] \in {"unsub", "next"}
        PROVE  /\ idx'[q] \in 1 .. Len(RoutingTbl')
               /\ \A j \in 1 .. idx'[q] : j < idx'[q] \/ pc'[q] = "next" => Clean(q, j)'
    <3>1. /\ idx[q] \in 1 .. Len(RoutingTbl)
          /\ \A j \in 1 .. idx[q] : j < idx[q] \/ pc[q] = "next" => Clean(q, j)
      BY <1>0, <1>1, <2>1, SearchedMeans
    <3>2. \A j \in 1 .. idx[q] : j \in 1 .. Len(RoutingTbl)
      BY <1>0, <3>1 DEF TypeOK
    <3> QED
      BY <1>1, <1>2, <3>1, <3>2
  <2> QED
    BY <2>1, SearchedAgain
<1>6. CommandAtBlock'
  BY <1>1 DEF IInv, CommandAtBlock
<1> QED
  BY <1>2, <1>3, <1>4, <1>5, <1>6 DEF IInv

\* The two steps of a deletion that search: a destination of the pipe is found
\* in a list that was not searched yet, or there is none any more.
LEMMA SearchStep ==
  ASSUME IInv, NEW p \in Pipes, NEW i \in 0 .. Len(RoutingTbl), NEW c, Search(p, i, c),
         i = 0 => c = NULL, \A j \in 1 .. i : Clean(p, j),
         UNCHANGED <<inUse, entryVars, blockVars, cmdVars, crashed>>
  PROVE  IInv'
<1>0. TypeOK /\ ListsSound /\ SearchedClean /\ DestinationsArePipes /\ ListsRouted
      /\ RoutesLeadToPipes
  BY DEF IInv
<1>1. UNCHANGED <<inUse, entryVars, PipeId, Active, Prev, Next, taken, cpc, cmd, cPtr, crashed>>
      /\ RoutingTbl' = RoutingTbl
  BY DEF entryVars, blockVars, cmdVars
<1>2. /\ ListsSound' /\ DestinationsArePipes' /\ ListsRouted'
      /\ \A m \in MsgIds : List(m)' = List(m)
      /\ \A q \in Pipes, j \in 1 .. Len(RoutingTbl) : Clean(q, j) => Clean(q, j)'
  BY <1>0, <1>1, QuietStep
<1>3. \/ /\ pc' = [pc EXCEPT ![p] = "drain"] /\ UNCHANGED <<idx, DestPtr>>
         /\ \A j \in 1 .. Len(RoutingTbl) : Clean(p, j)
      \/ \E k \in 1 .. Len(RoutingTbl), b \in Blocks :
           /\ pc' = [pc EXCEPT ![p] = "unsub"] /\ idx' = [idx EXCEPT ![p] = k]
           /\ DestPtr' = [DestPtr EXCEPT ![p] = b]
           /\ \A j \in 1 .. k : j < k => Clean(p, j)
  BY <1>0, SearchFacts
<1>4. /\ pc' \in [Pipes -> {"idle", "unsub", "next", "drain"}] /\ idx' \in [Pipes -> Nat]
      /\ DestPtr' \in [Pipes -> Ptr]
      /\ \A q \in Pipes \ {p} : pc'[q] = pc[q] /\ idx'[q] = idx[q]
  <2>1. CASE pc' = [pc EXCEPT ![p] = "drain"] /\ UNCHANGED <<idx, DestPtr>>
    BY <1>0, <2>1 DEF TypeOK
  <2>2. CASE \E k \in 1 .. Len(RoutingTbl), b \in Blocks :
               /\ pc' = [pc EXCEPT ![p] = "unsub"] /\ idx' = [idx EXCEPT ![p] = k]
               /\ DestPtr' = [DestPtr EXCEPT ![p] = b]
    <3>1. PICK k \in 1 .. Len(RoutingTbl), b \in Blocks :
            /\ pc' = [pc EXCEPT ![p] = "unsub"] /\ idx' = [idx EXCEPT ![p] = k]
            /\ DestPtr' = [DestPtr EXCEPT ![p] = b]
      BY <2>2
    <3>2. k \in Nat /\ b \in Ptr
      BY DEF Ptr
    <3> QED
      BY <1>0, <3>1, <3>2 DEF TypeOK
  <2> QED
    BY <1>3, <2>1, <2>2
<1>5. \/ /\ pc'[p] = "drain" /\ \A j \in 1 .. Len(RoutingTbl) : Clean(p, j)
      \/ /\ pc'[p] = "unsub" /\ idx'[p] \in 1 .. Len(RoutingTbl)
         /\ \A j \in 1 .. idx'[p] : j < idx'[p] => Clean(p, j)
  BY <1>0, <1>3 DEF TypeOK
<1>6. TypeOK'
  BY <1>0, <1>1, <1>4 DEF TypeOK, entryVars
<1>7. SearchedClean'
  <2>1. ASSUME NEW q \in Pipes, pc'[q] \in {"unsub", "next"}
        PROVE  /\ idx'[q] \in 1 .. Len(RoutingTbl')
               /\ \A j \in 1 .. idx'[q] : j < idx'[q] \/ pc'[q] = "next" => Clean(q, j)'
    <3>1. /\ idx'[q] \in 1 .. Len(RoutingTbl)
          /\ \A j \in 1 .. idx'[q] : j < idx'[q] \/ pc'[q] = "next" => Clean(q, j)
      <4>1. CASE q = p
        BY <1>5, <2>1, <4>1
      <4>2. CASE q # p
        <5>1. pc[q] \in {"unsub", "next"} /\ pc'[q] = pc[q] /\ idx'[q] = idx[q]
          BY <1>4, <2>1, <4>2
        <5> QED
          BY <1>0, <5>1, SearchedMeans
      <4> QED
        BY <4>1, <4>2
    <3>2. \A j \in 1 .. idx'[q] : j \in 1 .. Len(RoutingTbl)
      BY <1>0, <3>1 DEF TypeOK
    <3> QED
      BY <1>1, <1>2, <3>1, <3>2
  <2> QED
    BY <2>1, SearchedAgain
<1>8. RoutesLeadToPipes'
  <2>1. ASSUME NEW m \in MsgIds, NEW b \in List(m)'
        PROVE  inUse'[PipeId'[b]] /\ pc'[PipeId'[b]] # "drain"
    <3>1. b \in List(m) /\ PipeId'[b] = PipeId[b] /\ PipeId[b] \in Pipes
      BY <1>0, <1>1, <1>2, <2>1 DEF DestinationsArePipes
    <3>2. CASE PipeId[b] = p
      <4>1. ~ \A j \in 1 .. Len(RoutingTbl) : Clean(p, j)
        BY <1>0, <3>1, <3>2, CleanEverywhere
      <4> QED
        BY <1>0, <1>1, <1>5, <3>1, <3>2, <4>1 DEF RoutesLeadToPipes
    <3>3. CASE PipeId[b] # p
      BY <1>0, <1>1, <1>4, <3>1, <3>3 DEF RoutesLeadToPipes
    <3> QED
      BY <3>2, <3>3
  <2> QED
    BY <2>1 DEF RoutesLeadToPipes
<1>9. CommandAtBlock'
  BY <1>1 DEF IInv, CommandAtBlock
<1> QED
  BY <1>2, <1>6, <1>7, <1>8, <1>9 DEF IInv

LEMMA DeletePipeStep ==
  ASSUME IInv, NEW p \in Pipes, DeletePipe(p)
  PROVE  IInv'
<1>1. 0 \in 0 .. Len(RoutingTbl) /\ \A j \in 1 .. 0 : Clean(p, j)
  BY DEF IInv, TypeOK
<1>2. Search(p, 0, NULL) /\ UNCHANGED <<inUse, entryVars, blockVars, cmdVars, crashed>>
  BY DEF DeletePipe
<1> QED
  BY <1>1, <1>2, SearchStep

LEMMA DelNextStep ==
  ASSUME IInv, NEW p \in Pipes, DelNext(p)
  PROVE  IInv'
<1>1. pc[p] = "next" /\ Search(p, idx[p], Next[DestPtr[p]])
      /\ UNCHANGED <<inUse, entryVars, blockVars, cmdVars, crashed>>
  BY DEF DelNext
<1>2. idx[p] \in 1 .. Len(RoutingTbl) /\ \A j \in 1 .. idx[p] : Clean(p, j)
  BY <1>1, SearchedMeans DEF IInv
<1>3. idx[p] \in 0 .. Len(RoutingTbl) /\ idx[p] # 0
  BY <1>2 DEF IInv, TypeOK
<1> QED
  BY <1>1, <1>2, <1>3, SearchStep

LEMMA DelUnsubStep ==
  ASSUME IInv, NEW p \in Pipes, DelUnsub(p)
  PROVE  IInv'
<1>0. TypeOK /\ SearchedClean /\ DestinationsArePipes /\ RoutesLeadToPipes
  BY DEF IInv
<1>1. /\ UNCHANGED <<inUse, idx, DestPtr, cpc, cmd, cPtr>> /\ pc[p] = "unsub"
      /\ pc' = [pc EXCEPT ![p] = "next"] /\ Unroute(RoutingTbl[idx[p]], p)
  BY DEF DelUnsub, cmdVars
<1>2. /\ idx[p] \in 1 .. Len(RoutingTbl) /\ RoutingTbl[idx[p]] \in MsgIds
      /\ \A j \in 1 .. idx[p] : j < idx[p] => Clean(p, j)
  BY <1>0, <1>1, SearchedMeans DEF TypeOK
<1>3. PICK m \in MsgIds : m = RoutingTbl[idx[p]]
  BY <1>2
<1>4. /\ LinksOK' /\ ListsSound' /\ crashed' \in BOOLEAN
      /\ RoutingTbl' = RoutingTbl /\ PipeId' = PipeId
      /\ DestinationsArePipes' /\ ListsRouted'
      /\ \A n \in MsgIds : List(n)' \subseteq List(n)
      /\ \A q \in Pipes, j \in 1 .. Len(RoutingTbl) : Clean(q, j) => Clean(q, j)'
      /\ \A b \in List(m)' : PipeId'[b] # p
  BY <1>1, <1>3, UnrouteFacts
<1>5. /\ pc' \in [Pipes -> {"idle", "unsub", "next", "drain"}] /\ pc'[p] = "next"
      /\ \A q \in Pipes \ {p} : pc'[q] = pc[q]
  BY <1>0, <1>1 DEF TypeOK
<1>6. TypeOK'
  BY <1>0, <1>1, <1>4, <1>5 DEF TypeOK, LinksOK, Links
<1>7. RoutesLeadToPipes'
  <2>1. ASSUME NEW n \in MsgIds, NEW b \in List(n)'
        PROVE  inUse'[PipeId'[b]] /\ pc'[PipeId'[b]] # "drain"
    BY <1>0, <1>1, <1>4, <1>5 DEF RoutesLeadToPipes, DestinationsArePipes
  <2> QED
    BY <2>1 DEF RoutesLeadToPipes
<1>8. Clean(p, idx[p])'
  <2>1. List(m)' = List(RoutingTbl[idx[p]])'
    BY <1>1, <1>3, <1>4 DEF List, From
  <2> QED
    BY <1>4, <2>1 DEF Clean
<1>9. SearchedClean'
  <2>1. ASSUME NEW q \in Pipes, pc'[q] \in {"unsub", "next"}
        PROVE  /\ idx'[q] \in 1 .. Len(RoutingTbl')
               /\ \A j \in 1 .. idx'[q] : j < idx'[q] \/ pc'[q] = "next" => Clean(q, j)'
    <3>1. pc[q] \in {"unsub", "next"} /\ idx'[q] = idx[q]
      BY <1>1, <1>5, <2>1
    <3>2. /\ idx[q] \in 1 .. Len(RoutingTbl)
          /\ \A j \in 1 .. idx[q] : j < idx[q] \/ pc[q] = "next" => Clean(q, j)
      BY <1>0, <3>1, SearchedMeans
    <3>3. \A j \in 1 .. idx[q] : j \in 1 .. Len(RoutingTbl)
      BY <1>0, <3>2 DEF TypeOK
    <3>4. CASE q # p
      BY <1>4, <1>5, <3>1, <3>2, <3>3, <3>4
    <3>5. CASE q = p
      <4> SUFFICES ASSUME NEW j \in 1 .. idx[p] PROVE Clean(p, j)'
        BY <1>4, <3>1, <3>2, <3>5
      <4>1. CASE j = idx[p]
        <5>1. Clean(p, j)' <=> Clean(p, idx[p])'
          BY <1>1, <4>1 DEF Clean, List, From
        <5> QED
          BY <1>8, <5>1
      <4>2. CASE j # idx[p]
        <5>1. j < idx[p]
          BY <1>0, <4>2 DEF TypeOK
        <5> QED
          BY <1>2, <1>4, <3>3, <3>5, <5>1
      <4> QED
        BY <4>1, <4>2
    <3> QED
      BY <3>4, <3>5
  <2> QED
    BY <2>1, SearchedAgain
<1>10. CommandAtBlock'
  BY <1>1 DEF IInv, CommandAtBlock
<1> QED
  BY <1>4, <1>6, <1>7, <1>9, <1>10 DEF IInv

LEMMA DelFinalStep ==
  ASSUME IInv, NEW p \in Pipes, DelFinal(p)
  PROVE  IInv'
<1>0. TypeOK /\ ListsSound /\ SearchedClean /\ DestinationsArePipes /\ ListsRouted
      /\ RoutesLeadToPipes
  BY DEF IInv
<1>1. /\ pc[p] = "drain" /\ pc' = [pc EXCEPT ![p] = "idle"] /\ idx' = [idx EXCEPT ![p] = 0]
      /\ DestPtr' = [DestPtr EXCEPT ![p] = NULL] /\ inUse' = [inUse EXCEPT ![p] = FALSE]
      /\ UNCHANGED <<entryVars, PipeId, Active, Prev, Next, taken, cpc, cmd, cPtr, crashed>>
      /\ RoutingTbl' = RoutingTbl
  BY DEF DelFinal, entryVars, blockVars, cmdVars
<1>2. /\ ListsSound' /\ DestinationsArePipes' /\ ListsRouted'
      /\ \A m \in MsgIds : List(m)' = List(m)
      /\ \A q \in Pipes, j \in 1 .. Len(RoutingTbl) : Clean(q, j) => Clean(q, j)'
  BY <1>0, <1>1, QuietStep
<1>3. /\ pc' \in [Pipes -> {"idle", "unsub", "next", "drain"}] /\ idx' \in [Pipes -> Nat]
      /\ DestPtr' \in [Pipes -> Ptr] /\ inUse' \in [Pipes -> BOOLEAN] /\ pc'[p] = "idle"
      /\ \A q \in Pipes \ {p} : pc'[q] = pc[q] /\ idx'[q] = idx[q] /\ inUse'[q] = inUse[q]
  BY <1>0, <1>1 DEF TypeOK, Ptr
<1>4. TypeOK'
  BY <1>0, <1>1, <1>3 DEF TypeOK, entryVars
<1>5. SearchedClean'
  <2>1. ASSUME NEW q \in Pipes, pc'[q] \in {"unsub", "next"}
        PROVE  /\ idx'[q] \in 1 .. Len(RoutingTbl')
               /\ \A j \in 1 .. idx'[q] : j < idx'[q] \/ pc'[q] = "next" => Clean(q, j)'
    <3>1. pc[q] \in {"unsub", "next"} /\ pc'[q] = pc[q] /\ idx'[q] = idx[q]
      BY <1>3, <2>1
    <3>2. /\ idx[q] \in 1 .. Len(RoutingTbl)
          /\ \A j \in 1 .. idx[q] : j < idx[q] \/ pc[q] = "next" => Clean(q, j)
      BY <1>0, <3>1, SearchedMeans
    <3>3. \A j \in 1 .. idx[q] : j \in 1 .. Len(RoutingTbl)
      BY <1>0, <3>2 DEF TypeOK
    <3> QED
      BY <1>1, <1>2, <3>1, <3>2, <3>3
  <2> QED
    BY <2>1, SearchedAgain
<1>6. RoutesLeadToPipes'
  <2>1. ASSUME NEW m \in MsgIds, NEW b \in List(m)'
        PROVE  inUse'[PipeId'[b]] /\ pc'[PipeId'[b]] # "drain"
    BY <1>0, <1>1, <1>2, <1>3 DEF RoutesLeadToPipes, DestinationsArePipes
  <2> QED
    BY <2>1 DEF RoutesLeadToPipes
<1>7. CommandAtBlock'
  BY <1>1 DEF IInv, CommandAtBlock
<1> QED
  BY <1>2, <1>4, <1>5, <1>6, <1>7 DEF IInv

\* The task of the Software Bus writes nothing but Active and its own state.
LEMMA RouteCommandStep ==
  ASSUME IInv, RouteCmd \/ CmdTest \/ CmdNext \/ CmdWrite
  PROVE  IInv'
<1>0. TypeOK /\ CommandAtBlock
  BY DEF IInv
<1>1. /\ UNCHANGED <<inUse, entryVars, PipeId, Prev, Next, taken, pc, idx, DestPtr, crashed>>
      /\ RoutingTbl' = RoutingTbl
  BY DEF RouteCmd, CmdTest, CmdNext, CmdWrite, entryVars, blockVars, callVars
<1>2. Active' \in [Blocks -> BOOLEAN]
  <2>1. CASE CmdWrite
    <3>1. CASE cmd \in Commands
      <4>1. cmd.active \in BOOLEAN
        BY <3>1 DEF Commands
      <4> QED
        BY <1>0, <2>1, <4>1 DEF TypeOK, CmdWrite
    <3>2. CASE cmd = NoCommand
      <4>1. Active' = [Active EXCEPT ![cPtr] = TRUE]
        BY <2>1, <3>2 DEF CmdWrite, NoCommand
      <4> QED
        BY <1>0, <4>1 DEF TypeOK
    <3> QED
      BY <1>0, <3>1, <3>2 DEF TypeOK
  <2>2. CASE RouteCmd \/ CmdTest \/ CmdNext
    BY <1>0, <2>2 DEF TypeOK, RouteCmd, CmdTest, CmdNext, blockVars
  <2> QED
    BY <2>1, <2>2
<1>3. /\ cpc' \in {"idle", "test", "next", "write"} /\ cmd' \in Commands \cup {NoCommand}
      /\ cPtr' \in Ptr /\ CommandAtBlock'
  <2>1. CASE RouteCmd
    <3>1. PICK c \in Commands : cmd' = c /\ cPtr' = ListHeadPtr[c.msg] /\ cpc' = "test"
      BY <2>1 DEF RouteCmd
    <3>2. c.msg \in MsgIds
      BY DEF Commands
    <3> QED
      BY <1>0, <3>1, <3>2 DEF TypeOK, CommandAtBlock
  <2>2. CASE CmdTest
    BY <1>0, <2>2 DEF TypeOK, CommandAtBlock, CmdTest, CmdEnd, Ptr
  <2>3. CASE CmdNext
    BY <1>0, <2>3 DEF TypeOK, CommandAtBlock, CmdNext, Ptr
  <2>4. CASE CmdWrite
    BY <1>0, <2>4 DEF TypeOK, CommandAtBlock, CmdWrite, CmdEnd, Ptr
  <2> QED
    BY <2>1, <2>2, <2>3, <2>4
<1>4. TypeOK'
  BY <1>0, <1>1, <1>2, <1>3 DEF TypeOK, entryVars
<1> QED
  BY <1>1, <1>3, <1>4, QuietCall

-----------------------------------------------------------------------------
(* The theorems.                                                            *)

LEMMA EveryStep ==
  ASSUME IInv, [NextStep]_vars
  PROVE  IInv'
<1>1. CASE UNCHANGED vars
  <2>1. TypeOK' /\ CommandAtBlock'
    BY <1>1 DEF vars, entryVars, blockVars, callVars, cmdVars, IInv, TypeOK, CommandAtBlock
  <2> QED
    BY <1>1, <2>1, QuietCall DEF vars, blockVars, callVars
<1> QED
  BY <1>1, CreatePipeStep, SubscribeStep, UnsubscribeStep, DeletePipeStep, DelUnsubStep,
     DelNextStep, DelFinalStep, RouteCommandStep DEF NextStep, Step

LEMMA InitInv == Init => IInv
<1> SUFFICES ASSUME Init PROVE IInv
  OBVIOUS
<1>1. \A m \in MsgIds : List(m) = {}
  BY DEF Init, List
<1>2. TypeOK
  <2>1. /\ inUse \in [Pipes -> BOOLEAN] /\ RoutingTbl \in Seq(MsgIds)
        /\ Len(RoutingTbl) <= MaxMsgIds
    BY RoutingAssumption DEF Init
  <2>2. /\ ListHeadPtr \in [MsgIds -> Ptr] /\ Destinations \in [MsgIds -> 0 .. MaxDests]
        /\ PipeId \in [Blocks -> Pipes \cup {NoPipe}] /\ Active \in [Blocks -> BOOLEAN]
        /\ Prev \in [Blocks -> Ptr] /\ Next \in [Blocks -> Ptr] /\ taken \in [Blocks -> BOOLEAN]
    BY RoutingAssumption DEF Init, Ptr
  <2>3. /\ pc \in [Pipes -> {"idle", "unsub", "next", "drain"}] /\ idx \in [Pipes -> Nat]
        /\ DestPtr \in [Pipes -> Ptr] /\ cpc \in {"idle", "test", "next", "write"}
        /\ cmd \in Commands \cup {NoCommand} /\ cPtr \in Ptr /\ crashed \in BOOLEAN
    BY DEF Init, Ptr
  <2> QED
    BY <2>1, <2>2, <2>3 DEF TypeOK
<1>3. ListsSound
  <2>1. UNION {List(m) : m \in MsgIds} = {}
    BY <1>1
  <2>2. {b \in Blocks : taken[b]} = {}
    BY DEF Init
  <2>3. \A m \in MsgIds : Cardinality(List(m)) = Destinations[m]
    BY <1>1, FS_EmptySet DEF Init
  <2> QED
    BY <1>1, <2>1, <2>2, <2>3 DEF Init, ListsSound
<1>4. ListsRouted /\ SearchedClean /\ CommandAtBlock
  BY DEF Init, ListsRouted, SearchedClean, CommandAtBlock
<1>5. DestinationsArePipes /\ RoutesLeadToPipes
  BY <1>1 DEF DestinationsArePipes, RoutesLeadToPipes
<1> QED
  BY <1>2, <1>3, <1>4, <1>5 DEF IInv

LEMMA Invariance == Spec => []IInv
<1>1. IInv /\ [NextStep]_vars => IInv'
  BY EveryStep
<1> QED
  BY <1>1, InitInv, PTL DEF Spec

\* The lists of destinations stay lists: Destinations blocks before a NULL,
\* linked both ways, one for a pipe, apart from each other, and all that the
\* pool has given out, whatever deletions and route commands point to.
THEOREM RoutingCorrect == Spec => []RoutingInv
<1>1. IInv => RoutingInv
  BY DEF IInv, RoutingInv
<1> QED
  BY <1>1, Invariance, PTL

\* When a deletion has ended, no list has a destination of its pipe, although
\* the mutex was given up at each of them and the search went on from a block
\* that others may have taken.
THEOREM RoutesEndAtPipes == Spec => []RoutesLeadToPipes
<1>1. IInv => RoutesLeadToPipes
  BY DEF IInv
<1> QED
  BY <1>1, Invariance, PTL

=============================================================================
