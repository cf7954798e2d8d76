---------------------------- MODULE MemPoolProofs ----------------------------
(***************************************************************************)
(* Theorems about MemPool, for any pool and any table of sizes.            *)
(*                                                                         *)
(* A new block starts behind CurrentAddr, so it meets no older one; that   *)
(* it ends in the pool although the comparison wraps is FitsExact.  A      *)
(* block goes back to the list it came from because the class of its size  *)
(* is the class it was made for (ClassStable).  A taken block is on no     *)
(* list any more because no block follows two others (ListsSound).  No     *)
(* block is lost because the list of a size leads to all its free blocks   *)
(* (CountedInv), so each round of a walk meets a new one until it has all  *)
(* (WalkGrows).                                                            *)
(***************************************************************************)
EXTENDS MemPool, FiniteSetTheorems, WellFoundedInduction, TLAPS

\* A nonempty set of numbers has a least one.
LEMMA LeastNumber ==
  ASSUME NEW T \in SUBSET Nat, T # {}
  PROVE  \E x \in T : \A y \in T : x <= y
<1> DEFINE F == {0 .. n : n \in T}
<1>1. IsWellFoundedOn(StrictSubsetOrdering(Nat), FiniteSubsetsOf(Nat))
  BY FS_StrictSubsetOrderingWellFounded
<1>2. F \subseteq FiniteSubsetsOf(Nat)
  <2> SUFFICES ASSUME NEW n \in T PROVE 0 .. n \in FiniteSubsetsOf(Nat)
    OBVIOUS
  <2> QED BY FS_Interval DEF FiniteSubsetsOf
<1>3. PICK x \in F : \A y \in F : ~(<<y, x>> \in StrictSubsetOrdering(Nat))
  <2>1. F # {}
    OBVIOUS
  <2> HIDE DEF F
  <2> QED BY <1>1, <1>2, <2>1, WFMin
<1>4. PICK n \in T : x = 0 .. n
  BY <1>3
<1>5. ASSUME NEW m \in T PROVE n <= m
  <2> SUFFICES ASSUME m < n PROVE FALSE
    BY <1>4, <1>5
  <2>1. 0 .. m \in F
    OBVIOUS
  <2>2. /\ 0 .. m \subseteq Nat /\ 0 .. n \subseteq Nat
        /\ 0 .. m \subseteq 0 .. n /\ 0 .. m # 0 .. n
    BY <1>4, <1>5
  <2> QED BY <1>3, <1>4, <2>1, <2>2 DEF StrictSubsetOrdering
<1> QED BY <1>4, <1>5

-----------------------------------------------------------------------------
(* The table of sizes. *)

\* The table is in order, and the places from i + 1 on are still empty.
SortedTo(t, i) ==
  /\ t \in [Classes -> Nat] /\ Descending(t)
  /\ \A j \in Classes : j > i => t[j] = 0

\* A round of the sorting loop of CFE_ES_PoolCreateEx.
LEMMA InsertSorts ==
  ASSUME NEW i \in Classes, NEW x \in Nat, NEW t, SortedTo(t, i - 1)
  PROVE  SortedTo(InsertSize(t, i, x), i)
<1> DEFINE smaller == {j \in Classes : x > t[j]}
           at == CHOOSE j \in smaller : \A k \in smaller : j <= k
<1>1. i \in Nat /\ Classes \subseteq Nat /\ \A c \in Classes : t[c] \in Nat /\ 1 <= c
  BY LayoutAssumption DEF SortedTo, Classes
<1>2. CASE smaller = {}
  <2>1. InsertSize(t, i, x) = t
    BY <1>2 DEF InsertSize
  <2> QED
    BY <1>1, <2>1 DEF SortedTo
<1>3. CASE smaller # {}
  <2>1. smaller \in SUBSET Nat
    BY <1>1
  <2>2. \E j \in smaller : \A k \in smaller : j <= k
    <3> HIDE DEF smaller
    <3> QED
      BY <1>3, <2>1, LeastNumber
  <2>3. at \in smaller /\ \A k \in smaller : at <= k
    BY <2>2
  <2>4. i \in smaller
    <3>1. PICK j \in Classes : x > t[j]
      BY <1>3
    <3>2. x > 0
      BY <1>1, <3>1
    <3>3. t[i] = 0
      BY <1>1 DEF SortedTo
    <3> QED
      BY <3>2, <3>3
  <2> DEFINE u == [k \in Classes |-> IF k < at \/ k > i THEN t[k]
                                     ELSE IF k = at THEN x ELSE t[k - 1]]
  <2>5. InsertSize(t, i, x) = u
    BY <1>3 DEF InsertSize
  <2>6. at \in Classes /\ at <= i /\ x > t[at] /\ \A k \in Classes : k < at => x <= t[k]
    <3>1. at \in Classes /\ at <= i /\ x > t[at]
      BY <2>3, <2>4
    <3>2. ASSUME NEW k \in Classes, k < at PROVE x <= t[k]
      <4>1. k \in Nat /\ at \in Nat /\ t[k] \in Nat
        BY <1>1, <3>1
      <4>2. k \notin smaller
        <5> HIDE DEF smaller, at
        <5> QED
          BY <2>3, <3>2, <4>1
      <4>3. ~(x > t[k])
        BY <4>2
      <4> QED
        BY <4>1, <4>3
    <3> QED
      BY <3>1, <3>2
  <2> HIDE DEF at, smaller
  <2>7. \A k \in Classes : k > at => k - 1 \in Classes /\ k - 1 >= at
    BY <1>1, <2>6, LayoutAssumption DEF Classes
  <2>8. \A j, k \in Classes : j <= k => t[j] >= t[k]
    BY DEF SortedTo, Descending
  <2>9. \A k \in Classes : /\ u[k] \in Nat
                           /\ k < at => u[k] = t[k] /\ u[k] >= x
                           /\ k = at => u[k] = x
                           /\ k > at /\ k <= i => u[k] = t[k - 1] /\ x > u[k]
                           /\ k > i => u[k] = 0
    <3> SUFFICES ASSUME NEW k \in Classes
                 PROVE  /\ u[k] \in Nat
                        /\ k < at => u[k] = t[k] /\ u[k] >= x
                        /\ k = at => u[k] = x
                        /\ k > at /\ k <= i => u[k] = t[k - 1] /\ x > u[k]
                        /\ k > i => u[k] = 0
      OBVIOUS
    <3>1. k > at => k - 1 \in Classes /\ t[at] >= t[k - 1]
      BY <2>6, <2>7, <2>8
    <3>2. k > i => t[k] = 0
      BY <1>1 DEF SortedTo
    <3> QED
      BY <1>1, <2>6, <3>1, <3>2
  <2>10. u \in [Classes -> Nat]
    BY <2>9
  <2> HIDE DEF u
  <2>11. Descending(u)
    <3> SUFFICES ASSUME NEW j \in Classes, NEW k \in Classes, j <= k PROVE u[j] >= u[k]
      BY DEF Descending
    <3>1. j \in Nat /\ k \in Nat /\ at \in Nat
      BY <1>1, <2>6
    <3>2. CASE k > i
      BY <2>9, <3>2
    <3>3. CASE k <= i /\ j > at
      <4>1. t[j - 1] >= t[k - 1]
        BY <2>7, <2>8, <3>1, <3>3
      <4> QED
        BY <1>1, <2>9, <3>1, <3>3, <4>1
    <3>4. CASE k <= i /\ j = at
      BY <1>1, <2>9, <3>1, <3>4
    <3>5. CASE k <= i /\ j < at /\ k < at
      BY <2>8, <2>9, <3>5
    <3>6. CASE k <= i /\ j < at /\ k >= at
      BY <1>1, <2>9, <3>1, <3>6
    <3> QED
      BY <1>1, <2>6, <3>1, <3>2, <3>3, <3>4, <3>5, <3>6
  <2> QED
    BY <2>5, <2>9, <2>10, <2>11 DEF SortedTo
<1> QED
  BY <1>2, <1>3

\* t holds the table after each of the first n rounds.
TableSteps(t, s, n) ==
  t = [i \in 0 .. n |-> IF i = 0 THEN [k \in Classes |-> 0]
                        ELSE InsertSize(t[i - 1], i, s[i])]

LEMMA TableStepsExist ==
  ASSUME NEW s, NEW n \in Nat
  PROVE  \E t : TableSteps(t, s, n)
<1> DEFINE T == {m \in Nat : ~\E t : TableSteps(t, s, m)}
<1> SUFFICES ASSUME T # {} PROVE FALSE
  OBVIOUS
<1>1. PICK m \in T : \A k \in T : m <= k
  BY LeastNumber
<1>2. CASE m = 0
  <2>1. TableSteps([i \in 0 .. 0 |-> [k \in Classes |-> 0]], s, 0)
    BY DEF TableSteps
  <2> QED
    BY <1>1, <1>2, <2>1
<1>3. CASE m # 0
  <2>1. m - 1 \in Nat /\ m - 1 \notin T
    BY <1>1, <1>3
  <2>2. PICK t : TableSteps(t, s, m - 1)
    BY <2>1
  <2> DEFINE q == [i \in 0 .. m |-> IF i = 0 THEN [k \in Classes |-> 0]
                                    ELSE InsertSize(t[i - 1], i, s[i])]
  <2>3. \A i \in 0 .. m - 1 : t[i] = IF i = 0 THEN [k \in Classes |-> 0]
                                     ELSE InsertSize(t[i - 1], i, s[i])
    BY <2>2 DEF TableSteps
  <2>4. \A i \in 0 .. m : i # 0 => i - 1 \in 0 .. m - 1
    BY <2>1
  <2>5. ASSUME NEW i \in 0 .. m - 1 PROVE q[i] = t[i]
    <3>1. i \in 0 .. m
      BY <2>1
    <3>2. q[i] = IF i = 0 THEN [k \in Classes |-> 0] ELSE InsertSize(t[i - 1], i, s[i])
      BY <3>1
    <3> HIDE DEF q
    <3> QED
      BY <2>3, <3>2
  <2>6. \A i \in 0 .. m : i # 0 => q[i - 1] = t[i - 1]
    BY <2>4, <2>5
  <2>7. q = [i \in 0 .. m |-> IF i = 0 THEN [k \in Classes |-> 0]
                              ELSE InsertSize(q[i - 1], i, s[i])]
    BY <2>6
  <2> HIDE DEF q
  <2>8. TableSteps(q, s, m)
    BY <2>7 DEF TableSteps
  <2> QED
    BY <1>1, <2>8
<1> QED
  BY <1>2, <1>3

\* CFE_ES_PoolCreateEx leaves the sizes in descending order, whatever list it
\* was given (cfe_esmempool.c:246-295).
THEOREM TableSorted == MaxSize \in [Classes -> Nat] /\ Descending(MaxSize)
<1>1. PICK n \in Nat : n = Len(BlockSizes) /\ n <= NumSizes
  BY TableAssumption
<1>2. PICK t : t = CHOOSE f : TableSteps(f, BlockSizes, n)
  OBVIOUS
<1>3. TableSteps(t, BlockSizes, n)
  BY <1>2, TableStepsExist
<1>4. MaxSize = t[n]
  BY <1>1, <1>2 DEF MaxSize, SizeTable, TableSteps
<1>5. t[0] = [k \in Classes |-> 0]
  BY <1>3 DEF TableSteps
<1>6. ASSUME NEW i \in 1 .. n
      PROVE  t[i] = InsertSize(t[i - 1], i, BlockSizes[i]) /\ i \in Classes
             /\ BlockSizes[i] \in Nat
  <2>1. i \in 0 .. n /\ i # 0
    OBVIOUS
  <2>2. t[i] = InsertSize(t[i - 1], i, BlockSizes[i])
    BY <1>3, <2>1 DEF TableSteps
  <2>3. i \in Classes /\ i \in DOMAIN BlockSizes
    BY <1>1, TableAssumption, LayoutAssumption DEF Classes
  <2>4. BlockSizes[i] \in Nat
    BY <2>3, TableAssumption
  <2> QED
    BY <2>2, <2>3, <2>4
<1> DEFINE T == {i \in 0 .. n : ~SortedTo(t[i], i)}
<1>7. T = {}
  <2> SUFFICES ASSUME T # {} PROVE FALSE
    OBVIOUS
  <2>1. PICK i \in T : \A k \in T : i <= k
    <3>1. T \in SUBSET Nat
      OBVIOUS
    <3> QED
      BY <3>1, LeastNumber
  <2>2. SortedTo(t[0], 0)
    BY <1>5, LayoutAssumption DEF SortedTo, Descending, Classes
  <2>3. i \in 1 .. n /\ SortedTo(t[i - 1], i - 1)
    BY <2>1, <2>2
  <2> QED
    BY <1>6, <2>1, <2>3, InsertSorts
<1>8. SortedTo(t[n], n)
  BY <1>7
<1> QED
  BY <1>4, <1>8 DEF SortedTo

\* What CFE_ES_GetBlockSize returns: the last of the sizes that hold n bytes.
LEMMA ClassOfFound ==
  ASSUME NEW n \in Nat, n <= MaxSize[1]
  PROVE  /\ ClassOf(n) \in Classes
         /\ n <= MaxSize[ClassOf(n)]
         /\ \A k \in 2 .. ClassOf(n) : n <= MaxSize[k]
         /\ ClassOf(n) = NumSizes \/ ~(n <= MaxSize[ClassOf(n) + 1])
<1> DEFINE Ends == {c \in Classes : c = NumSizes \/ ~(n <= MaxSize[c + 1])}
<1>1. Ends \in SUBSET Nat /\ NumSizes \in Ends
  BY LayoutAssumption DEF Classes
<1>2. PICK c \in Ends : \A d \in Ends : c <= d
  BY <1>1, LeastNumber
<1>3. ASSUME NEW k \in 2 .. c PROVE n <= MaxSize[k]
  <2>1. k - 1 \in Classes /\ k - 1 < c /\ (k - 1) + 1 = k
    BY LayoutAssumption DEF Classes
  <2>2. k - 1 \notin Ends
    BY <1>2, <2>1 DEF Classes
  <2> QED BY <2>1, <2>2
<1>4. \E x \in Classes : /\ \A k \in 2 .. x : n <= MaxSize[k]
                         /\ x = NumSizes \/ ~(n <= MaxSize[x + 1])
  BY <1>3
<1>5. /\ ClassOf(n) \in Classes
      /\ \A k \in 2 .. ClassOf(n) : n <= MaxSize[k]
      /\ ClassOf(n) = NumSizes \/ ~(n <= MaxSize[ClassOf(n) + 1])
  BY <1>4 DEF ClassOf
<1>6. n <= MaxSize[ClassOf(n)]
  <2>1. CASE ClassOf(n) = 1
    BY <2>1
  <2>2. CASE ClassOf(n) # 1
    BY <1>5, <2>2, LayoutAssumption DEF Classes
  <2> QED BY <2>1, <2>2
<1> QED BY <1>5, <1>6

LEMMA MaxSizeFacts ==
  /\ 1 \in Classes /\ Classes \subseteq Nat
  /\ \A c \in Classes : MaxSize[c] \in Nat /\ MaxSize[c] <= MaxSize[1]
<1>1. 1 \in Classes /\ Classes \subseteq Nat /\ \A c \in Classes : 1 <= c
  BY LayoutAssumption DEF Classes
<1>2. \A c \in Classes : MaxSize[c] \in Nat /\ MaxSize[1] >= MaxSize[c]
  BY <1>1, TableSorted DEF Descending
<1> QED BY <1>1, <1>2

\* A block of the size found for a request has the class of the request.
LEMMA ClassStable ==
  ASSUME NEW n \in Nat, n <= MaxSize[1]
  PROVE  ClassOf(MaxSize[ClassOf(n)]) = ClassOf(n)
<1> DEFINE c == ClassOf(n)
           d == ClassOf(MaxSize[c])
<1>1. /\ c \in Classes /\ n <= MaxSize[c]
      /\ c = NumSizes \/ ~(n <= MaxSize[c + 1])
  BY ClassOfFound
<1>2. MaxSize[c] \in Nat /\ MaxSize[c] <= MaxSize[1]
  BY <1>1, MaxSizeFacts
<1>3. /\ d \in Classes
      /\ \A k \in 2 .. d : MaxSize[c] <= MaxSize[k]
      /\ d = NumSizes \/ ~(MaxSize[c] <= MaxSize[d + 1])
  BY <1>2, ClassOfFound
<1> HIDE DEF c, d
<1>4. c \in Nat /\ d \in Nat /\ 1 <= c /\ 1 <= d
      /\ c <= NumSizes /\ d <= NumSizes /\ NumSizes \in Nat
  BY <1>1, <1>3, LayoutAssumption DEF Classes
<1>5. ~(d < c)
  <2> SUFFICES ASSUME d < c PROVE FALSE
    OBVIOUS
  <2>1. d + 1 \in Classes /\ d + 1 <= c /\ d # NumSizes
    BY <1>4 DEF Classes
  <2>2. MaxSize[d + 1] >= MaxSize[c]
    BY <1>1, <2>1, TableSorted DEF Descending
  <2>3. MaxSize[d + 1] \in Nat
    BY <2>1, MaxSizeFacts
  <2> QED BY <1>2, <1>3, <2>1, <2>2, <2>3
<1>6. ~(c < d)
  <2> SUFFICES ASSUME c < d PROVE FALSE
    OBVIOUS
  <2>1. c + 1 \in 2 .. d /\ c + 1 \in Classes /\ c # NumSizes
    BY <1>4 DEF Classes
  <2>2. MaxSize[c + 1] \in Nat
    BY <2>1, MaxSizeFacts
  <2> QED BY <1>1, <1>2, <1>3, <2>1, <2>2
<1> QED BY <1>4, <1>5, <1>6 DEF c, d

-----------------------------------------------------------------------------
(* Addresses. *)

LEMMA AlignUpBounds ==
  ASSUME NEW x \in Nat
  PROVE  AlignUp(x) \in Nat /\ x <= AlignUp(x) /\ AlignUp(x) < x + Align
<1> DEFINE q == (x + Align - 1) \div Align
<1>1. q \in Nat /\ q * Align <= x + Align - 1 /\ x + Align - 1 < (q + 1) * Align
  BY LayoutAssumption
<1>2. (q + 1) * Align = q * Align + Align /\ q * Align \in Nat
  BY <1>1, LayoutAssumption
<1> HIDE DEF q
<1> QED BY <1>1, <1>2, LayoutAssumption DEF AlignUp, q

\* A block that passes the wrapping comparison of CFE_ES_GetPoolBuf starts
\* behind the used part, with room for its descriptor, and ends in the pool.
LEMMA FitsExact ==
  ASSUME PoolInv, NEW c \in Classes, Fits(NewAddr, MaxSize[c])
  PROVE  /\ NewAddr \in Addr /\ CurrentAddr + BdT <= NewAddr
         /\ Add(NewAddr, MaxSize[c]) = NewAddr + MaxSize[c]
         /\ NewAddr + MaxSize[c] <= End
<1> DEFINE x == AlignUp(CurrentAddr + BdT)
           m == MaxSize[c]
           y == Add(NewAddr, m)
<1>1. /\ CurrentAddr \in Nat /\ PoolHandle + PoolT <= CurrentAddr
      /\ CurrentAddr <= End
  BY DEF PoolInv, TypeOK, Placed
<1>2. x \in Nat /\ CurrentAddr + BdT <= x /\ x < CurrentAddr + BdT + Align
  BY <1>1, AlignUpBounds, LayoutAssumption
<1>3. m \in Nat /\ m <= MaxSize[1] /\ MaxSize[1] \in Nat
  BY MaxSizeFacts
<1>4. NewAddr = IF x < AddrMod THEN x ELSE x - AddrMod
  BY DEF NewAddr
<1>5. /\ End \in Nat /\ AddrMod \in Nat /\ BdT \in Nat /\ Align \in Nat
      /\ PoolHandle \in Nat /\ PoolT \in Nat /\ End < AddrMod
      /\ PoolHandle <= End
      /\ MaxSize[1] + BdT + Align <= AddrMod - (End - PoolHandle)
  BY <1>3, LayoutAssumption, WrapAssumption DEF PoolSize
<1>6. y = IF NewAddr + m < AddrMod THEN NewAddr + m ELSE NewAddr + m - AddrMod
  BY DEF Add
<1>7. (IF y <= End THEN End - y ELSE End - y + AddrMod) < End - PoolHandle
  BY DEF Fits, Sub, PoolSize
<1> HIDE DEF x, m, y
<1>8. x + m < AddrMod
  BY <1>1, <1>2, <1>3, <1>4, <1>5, <1>6, <1>7
<1>9. NewAddr = x /\ y = x + m
  BY <1>2, <1>3, <1>4, <1>5, <1>6, <1>8
<1>10. x + m <= End
  BY <1>1, <1>2, <1>3, <1>5, <1>7, <1>8, <1>9
<1> QED BY <1>1, <1>2, <1>3, <1>5, <1>8, <1>9, <1>10 DEF Addr, m, y

-----------------------------------------------------------------------------
(* The inductive invariant. *)

LEMMA InitInv == Init => PoolInv
<1> SUFFICES ASSUME Init PROVE PoolInv
  OBVIOUS
<1>1. Blocks = {}
  BY DEF Init, Blocks
<1>2. \A c \in Classes : Free(c) = {}
  BY <1>1 DEF Free
<1>3. TypeOK
  BY <1>1, LayoutAssumption DEF Init, TypeOK, Blocks
<1>4. Placed
  BY <1>1, LayoutAssumption DEF Init, Placed
<1>5. ListsSound
  BY <1>2 DEF Init, ListsSound
<1> QED BY <1>1, <1>3, <1>4, <1>5 DEF PoolInv, BlocksDisjoint, SizesExact

\* A step that changes neither the places nor the sizes of the blocks.
LEMMA PlacesKept ==
  ASSUME PoolInv, CurrentAddr' = CurrentAddr, DOMAIN bd' = DOMAIN bd,
         \A a \in Blocks : bd'[a].Size = bd[a].Size
  PROVE  Placed' /\ BlocksDisjoint' /\ SizesExact'
<1>1. Placed'
  BY DEF PoolInv, Placed, Blocks
<1>2. BlocksDisjoint'
  BY DEF PoolInv, BlocksDisjoint, Blocks
<1>3. SizesExact'
  BY DEF PoolInv, SizesExact, Blocks, ClassOf
<1> QED BY <1>1, <1>2, <1>3

LEMMA ReuseStep ==
  ASSUME PoolInv, NEW n \in Sizes, n <= MaxSize[1], NEW c, c = ClassOf(n),
         Top[c] # Null, Reuse(c)
  PROVE  /\ PoolInv'
         /\ Top[c] \in Blocks /\ ~bd[Top[c]].Allocated
         /\ bd[Top[c]].Size = MaxSize[c]
<1> DEFINE a == Top[c]
<1>1. c \in Classes /\ ClassOf(MaxSize[c]) = c
  BY ClassOfFound, ClassStable, LayoutAssumption
<1>2. a \in Free(c) /\ a \in Blocks /\ ~bd[a].Allocated
  BY <1>1 DEF PoolInv, ListsSound, Free
<1>3. bd[a].Size = MaxSize[c]
  BY <1>2 DEF Free, PoolInv, SizesExact
<1>4. /\ bd' = [bd EXCEPT ![a] = [Allocated |-> TRUE, Intact |-> TRUE,
                                  Size |-> MaxSize[c], Next |-> Null]]
      /\ Top' = [Top EXCEPT ![c] = bd[a].Next]
      /\ NumFree' = [NumFree EXCEPT ![c] = @ - 1]
      /\ UNCHANGED <<CurrentAddr, NumCreated>>
  BY DEF Reuse
<1> HIDE DEF a
<1>5. /\ DOMAIN bd' = DOMAIN bd
      /\ bd'[a].Allocated /\ bd'[a].Size = bd[a].Size
      /\ \A b \in Blocks : b # a => bd'[b] = bd[b]
  BY <1>2, <1>3, <1>4 DEF Blocks
<1>6. TypeOK'
  <2>1. MaxSize[c] \in Nat
    BY <1>1, MaxSizeFacts
  <2>2. [Allocated |-> TRUE, Intact |-> TRUE, Size |-> MaxSize[c],
         Next |-> Null] \in BD
    BY <2>1 DEF BD
  <2>3. bd[a].Next \in Addr \cup {Null}
    BY <1>2 DEF PoolInv, TypeOK, BD
  <2> QED BY <1>1, <1>2, <1>4, <2>2, <2>3 DEF PoolInv, TypeOK, Blocks
<1>7. Placed' /\ BlocksDisjoint' /\ SizesExact'
  BY <1>3, <1>4, <1>5, PlacesKept DEF Blocks
<1>8. \A d \in Classes : Free(d)' = Free(d) \ {a}
  BY <1>5 DEF Free, Blocks, ClassOf
<1>9. ListsSound'
  <2> SUFFICES ASSUME NEW d \in Classes
               PROVE  /\ Top'[d] \in Free(d)' \cup {Null}
                      /\ \A x \in Free(d)' :
                           /\ bd'[x].Next \in Free(d)' \cup {Null}
                           /\ bd'[x].Next # Null => bd'[x].Next # Top'[d]
                           /\ \A y \in Free(d)' :
                                bd'[x].Next = bd'[y].Next /\ bd'[x].Next # Null
                                  => x = y
    BY DEF ListsSound
  <2>1. \A x \in Free(d)' : x \in Free(d) /\ x # a /\ bd'[x] = bd[x]
    BY <1>5, <1>8 DEF Free
  <2>2. CASE d = c
    <3>1. Top'[c] = bd[a].Next
      BY <1>1, <1>4 DEF PoolInv, TypeOK
    <3>2. a # Null /\ a = Top[c]
      BY DEF a
    <3> QED BY <1>1, <1>2, <1>8, <2>1, <2>2, <3>1, <3>2 DEF PoolInv, ListsSound
  <2>3. CASE d # c
    <3>1. Top'[d] = Top[d]
      BY <1>4, <2>3 DEF PoolInv, TypeOK
    <3>2. a \notin Free(d)
      BY <1>2, <2>3 DEF Free
    <3> QED BY <1>8, <2>1, <3>1, <3>2 DEF PoolInv, ListsSound
  <2> QED BY <2>2, <2>3
<1> QED BY <1>2, <1>3, <1>6, <1>7, <1>9 DEF PoolInv, a

LEMMA MakeStep ==
  ASSUME PoolInv, NEW n \in Sizes, n <= MaxSize[1], NEW c, c = ClassOf(n),
         Make(c)
  PROVE  PoolInv' /\ NewAddr \notin Blocks
<1> DEFINE a == NewAddr
           new == [Allocated |-> TRUE, Intact |-> TRUE,
                   Size |-> MaxSize[c], Next |-> Null]
<1>1. c \in Classes /\ ClassOf(MaxSize[c]) = c
  BY ClassOfFound, ClassStable, LayoutAssumption
<1>2. /\ a \in Addr /\ CurrentAddr + BdT <= a
      /\ Add(a, MaxSize[c]) = a + MaxSize[c]
      /\ a + MaxSize[c] <= End
  BY <1>1, FitsExact DEF Make
<1>3. /\ CurrentAddr' = a + MaxSize[c]
      /\ NumCreated' = [NumCreated EXCEPT ![c] = @ + 1]
      /\ bd' = [x \in DOMAIN bd \cup {a} |-> IF x = a THEN new ELSE bd[x]]
      /\ UNCHANGED <<Top, NumFree>>
  BY <1>2 DEF Make
<1>4. MaxSize[c] \in Nat /\ CurrentAddr \in Nat /\ BdT \in Nat /\ 0 < BdT
  BY <1>1, MaxSizeFacts, LayoutAssumption DEF PoolInv, TypeOK
<1>5. new \in BD /\ new.Size = MaxSize[c] /\ new.Allocated
  BY <1>4 DEF BD
<1>6. \A b \in Blocks : /\ b \in Nat /\ bd[b].Size \in Nat
                        /\ b + bd[b].Size <= CurrentAddr
                        /\ PoolHandle + PoolT + BdT <= b
  BY DEF PoolInv, TypeOK, Placed, BD, Addr
<1>7. a \in Nat /\ a \notin Blocks /\ \A b \in Blocks : b < a
  BY <1>2, <1>4, <1>6 DEF Addr
<1> HIDE DEF a, new
<1>8. /\ Blocks' = Blocks \cup {a} /\ bd'[a] = new
      /\ \A b \in Blocks : bd'[b] = bd[b]
  BY <1>3, <1>7 DEF Blocks
<1>9. TypeOK'
  BY <1>1, <1>2, <1>3, <1>4, <1>5, <1>7, <1>8 DEF PoolInv, TypeOK, Blocks
<1>10. Placed'
  <2>1. PoolHandle + PoolT <= CurrentAddr
    BY DEF PoolInv, Placed
  <2> QED BY <1>2, <1>3, <1>4, <1>5, <1>6, <1>7, <1>8, <2>1, LayoutAssumption
          DEF Placed
<1>11. BlocksDisjoint'
  <2> SUFFICES ASSUME NEW x \in Blocks', NEW y \in Blocks', x < y
               PROVE  x + bd'[x].Size <= y - BdT
    BY DEF BlocksDisjoint
  <2>1. CASE x \in Blocks /\ y \in Blocks
    BY <1>8, <2>1 DEF PoolInv, BlocksDisjoint
  <2>2. CASE x \in Blocks /\ y = a
    BY <1>2, <1>4, <1>6, <1>7, <1>8, <2>2
  <2>3. x # a
    BY <1>6, <1>7, <1>8
  <2> QED BY <1>8, <2>1, <2>2, <2>3
<1>12. SizesExact'
  <2> SUFFICES ASSUME NEW x \in Blocks'
               PROVE  \E d \in Classes : /\ bd'[x].Size = MaxSize[d]
                                         /\ ClassOf(MaxSize[d]) = d
    BY DEF SizesExact, ClassOf
  <2>1. CASE x \in Blocks
    BY <1>8, <2>1 DEF PoolInv, SizesExact
  <2>2. CASE x = a
    BY <1>1, <1>5, <1>8, <2>2
  <2> QED BY <1>8, <2>1, <2>2
<1>13. \A d \in Classes : Free(d)' = Free(d)
  BY <1>5, <1>8 DEF Free, ClassOf
<1>14. ListsSound'
  <2>1. \A d \in Classes : \A x \in Free(d) : bd'[x] = bd[x]
    BY <1>8 DEF Free
  <2>2. ASSUME NEW d \in Classes
        PROVE  /\ Top'[d] \in Free(d)' \cup {Null}
               /\ \A x \in Free(d)' :
                    /\ bd'[x].Next \in Free(d)' \cup {Null}
                    /\ bd'[x].Next # Null => bd'[x].Next # Top'[d]
                    /\ \A y \in Free(d)' :
                         bd'[x].Next = bd'[y].Next /\ bd'[x].Next # Null
                           => x = y
    <3>1. Free(d)' = Free(d) /\ Top'[d] = Top[d]
      BY <1>3, <1>13
    <3>2. \A x \in Free(d) : bd'[x] = bd[x]
      BY <2>1
    <3>3. /\ Top[d] \in Free(d) \cup {Null}
          /\ \A x \in Free(d) :
               /\ bd[x].Next \in Free(d) \cup {Null}
               /\ bd[x].Next # Null => bd[x].Next # Top[d]
               /\ \A y \in Free(d) :
                    bd[x].Next = bd[y].Next /\ bd[x].Next # Null => x = y
      BY DEF PoolInv, ListsSound
    <3> QED BY <3>1, <3>2, <3>3
  <2> QED BY <2>2 DEF ListsSound
<1> QED BY <1>7, <1>9, <1>10, <1>11, <1>12, <1>14 DEF PoolInv, a

LEMMA PutStep ==
  ASSUME PoolInv, NEW a \in DOMAIN bd, PutPoolBuf(a)
  PROVE  PoolInv'
<1> DEFINE c == ClassOf(bd[a].Size)
<1>1. c \in Classes /\ a \in Blocks /\ a \in Addr /\ bd[a] \in BD
  <2>1. PICK d \in Classes : bd[a].Size = MaxSize[d] /\ ClassOf(MaxSize[d]) = d
    BY DEF PoolInv, SizesExact, Blocks
  <2> QED BY <2>1 DEF PoolInv, TypeOK, Blocks
<1>2. /\ bd[a].Allocated /\ bd[a].Intact
      /\ bd' = [bd EXCEPT ![a].Allocated = FALSE, ![a].Next = Top[c]]
      /\ Top' = [Top EXCEPT ![c] = a]
      /\ NumFree' = [NumFree EXCEPT ![c] = @ + 1]
      /\ UNCHANGED <<CurrentAddr, NumCreated>>
  BY DEF PutPoolBuf
<1> HIDE DEF c
<1>3. Top[c] \in Free(c) \cup {Null}
  BY <1>1 DEF PoolInv, ListsSound
<1>4. /\ DOMAIN bd' = DOMAIN bd
      /\ ~bd'[a].Allocated /\ bd'[a].Intact /\ bd'[a].Size = bd[a].Size
      /\ bd'[a].Next = Top[c]
      /\ \A b \in Blocks : b # a => bd'[b] = bd[b]
  BY <1>1, <1>2 DEF Blocks, BD
<1>5. TypeOK'
  <2>1. Top[c] \in Addr \cup {Null}
    BY <1>1 DEF PoolInv, TypeOK
  <2>2. bd'[a] \in BD
    BY <1>1, <1>2, <2>1 DEF BD, Blocks
  <2>3. bd' \in [Blocks -> BD]
    BY <1>2, <1>4, <2>2 DEF PoolInv, TypeOK, Blocks
  <2> QED BY <1>1, <1>2, <1>4, <2>3 DEF PoolInv, TypeOK, Blocks
<1>6. Placed' /\ BlocksDisjoint' /\ SizesExact'
  BY <1>2, <1>4, PlacesKept DEF Blocks
<1>7. \A d \in Classes : Free(d)' = IF d = c THEN Free(d) \cup {a} ELSE Free(d)
  <2> SUFFICES ASSUME NEW d \in Classes, NEW x
               PROVE  x \in Free(d)' <=> x \in Free(d) \/ (d = c /\ x = a)
    OBVIOUS
  <2>1. x \in Free(d)' <=> /\ x \in Blocks /\ ~bd'[x].Allocated
                           /\ ClassOf(bd'[x].Size) = d
    BY <1>4 DEF Free, Blocks, ClassOf
  <2>2. CASE x = a
    BY <1>1, <1>2, <1>4, <2>1, <2>2 DEF Free, c
  <2>3. CASE x # a
    BY <1>4, <2>1, <2>3 DEF Free
  <2> QED BY <2>2, <2>3
<1>8. \A d \in Classes : a \notin Free(d)
  BY <1>2 DEF Free
<1>9. ListsSound'
  <2> SUFFICES ASSUME NEW d \in Classes
               PROVE  /\ Top'[d] \in Free(d)' \cup {Null}
                      /\ \A x \in Free(d)' :
                           /\ bd'[x].Next \in Free(d)' \cup {Null}
                           /\ bd'[x].Next # Null => bd'[x].Next # Top'[d]
                           /\ \A y \in Free(d)' :
                                bd'[x].Next = bd'[y].Next /\ bd'[x].Next # Null
                                  => x = y
    BY DEF ListsSound
  <2>1. \A x \in Free(d) : bd'[x] = bd[x]
    BY <1>4, <1>8 DEF Free
  <2>2. CASE d = c
    <3>1. Top'[d] = a
      BY <1>1, <1>2, <2>2 DEF PoolInv, TypeOK
    <3>2. a # Null
      BY <1>1, LayoutAssumption
    <3> QED BY <1>1, <1>3, <1>4, <1>7, <1>8, <2>1, <2>2, <3>1, <3>2
            DEF PoolInv, ListsSound
  <2>3. CASE d # c
    <3>1. Top'[d] = Top[d]
      BY <1>2, <2>3 DEF PoolInv, TypeOK
    <3> QED BY <1>7, <2>1, <2>3, <3>1 DEF PoolInv, ListsSound
  <2> QED BY <2>2, <2>3
<1> QED BY <1>5, <1>6, <1>9 DEF PoolInv

LEMMA OverrunStep ==
  ASSUME PoolInv, NEW a \in DOMAIN bd, Overrun(a)
  PROVE  PoolInv'
<1>1. /\ a \in Blocks /\ bd[a] \in BD
      /\ bd' = [bd EXCEPT ![a].Intact = FALSE]
      /\ UNCHANGED <<CurrentAddr, Top, NumFree, NumCreated>>
  BY DEF Overrun, PoolInv, TypeOK, Blocks
<1>2. /\ DOMAIN bd' = DOMAIN bd
      /\ \A b \in Blocks : /\ bd'[b].Allocated = bd[b].Allocated
                           /\ bd'[b].Size = bd[b].Size
                           /\ bd'[b].Next = bd[b].Next
      /\ \A b \in Blocks : b # a => bd'[b] = bd[b]
  BY <1>1 DEF Blocks, BD
<1>3. TypeOK'
  <2>1. bd'[a] \in BD
    BY <1>1 DEF BD, Blocks
  <2>2. bd' \in [Blocks -> BD]
    BY <1>1, <1>2, <2>1 DEF PoolInv, TypeOK, Blocks
  <2> QED BY <1>1, <1>2, <2>2 DEF PoolInv, TypeOK, Blocks
<1>4. Placed' /\ BlocksDisjoint' /\ SizesExact'
  BY <1>1, <1>2, PlacesKept DEF Blocks
<1>5. \A d \in Classes : Free(d)' = Free(d)
  BY <1>1, <1>2 DEF Free, Blocks, ClassOf
<1>6. ListsSound'
  <2>1. \A d \in Classes : \A x \in Free(d) : bd'[x].Next = bd[x].Next
    BY <1>2 DEF Free
  <2>2. ASSUME NEW d \in Classes
        PROVE  /\ Top'[d] \in Free(d)' \cup {Null}
               /\ \A x \in Free(d)' :
                    /\ bd'[x].Next \in Free(d)' \cup {Null}
                    /\ bd'[x].Next # Null => bd'[x].Next # Top'[d]
                    /\ \A y \in Free(d)' :
                         bd'[x].Next = bd'[y].Next /\ bd'[x].Next # Null
                           => x = y
    <3>1. Free(d)' = Free(d) /\ Top'[d] = Top[d]
      BY <1>1, <1>5
    <3>2. \A x \in Free(d) : bd'[x].Next = bd[x].Next
      BY <2>1
    <3>3. /\ Top[d] \in Free(d) \cup {Null}
          /\ \A x \in Free(d) :
               /\ bd[x].Next \in Free(d) \cup {Null}
               /\ bd[x].Next # Null => bd[x].Next # Top[d]
               /\ \A y \in Free(d) :
                    bd[x].Next = bd[y].Next /\ bd[x].Next # Null => x = y
      BY DEF PoolInv, ListsSound
    <3> QED BY <3>1, <3>2, <3>3
  <2> QED BY <2>2 DEF ListsSound
<1> QED BY <1>3, <1>4, <1>6 DEF PoolInv

LEMMA NextInv == PoolInv /\ [Next]_vars => PoolInv'
<1> SUFFICES ASSUME PoolInv, [Next]_vars PROVE PoolInv'
  OBVIOUS
<1>1. ASSUME NEW n \in Sizes, GetPoolBuf(n) PROVE PoolInv'
  BY <1>1, ReuseStep, MakeStep DEF GetPoolBuf
<1>2. ASSUME NEW a \in DOMAIN bd, PutPoolBuf(a) \/ Overrun(a) PROVE PoolInv'
  BY <1>2, PutStep, OverrunStep
<1>3. CASE UNCHANGED vars
  <2>1. \A d \in Classes : Free(d)' = Free(d)
    BY <1>3 DEF Free, Blocks, vars, ClassOf
  <2>2. ListsSound'
    BY <1>3, <2>1 DEF PoolInv, ListsSound, vars
  <2>3. Placed' /\ BlocksDisjoint' /\ SizesExact'
    BY <1>3, PlacesKept DEF vars, Blocks
  <2>4. TypeOK'
    BY <1>3 DEF PoolInv, TypeOK, vars, Blocks
  <2> QED BY <2>2, <2>3, <2>4 DEF PoolInv
<1> QED BY <1>1, <1>2, <1>3 DEF Next

\* The inductive invariant of the pool holds: blocks lie apart in the pool and
\* the lists hold free blocks of their size (cfe_esmempool.c:307-586).
THEOREM Invariance == Spec => []PoolInv
<1> QED BY InitInv, NextInv, PTL DEF Spec

\* No two blocks share an address, for any sizes and any order of calls, also
\* when blocks are returned twice (cfe_esmempool.c:385-420).
THEOREM Disjoint == Spec => []BlocksDisjoint
<1>1. PoolInv => BlocksDisjoint
  BY DEF PoolInv
<1> QED BY <1>1, Invariance, PTL
-----------------------------------------------------------------------------
(* The pool implements the abstract allocator. *)

Buffer(a) == [addr |-> a, size |-> bd[a].Size]

LEMMA LiveBuffers ==
  /\ \A r : r \in Live <=> \E a \in Blocks : bd[a].Allocated /\ r = Buffer(a)
  /\ \A r \in Live : r.addr \in Blocks /\ r = Buffer(r.addr)
                     /\ bd[r.addr].Allocated
BY DEF Live, Buffer

\* A buffer that was not in use and is apart from all others is handed out.
LEMMA AllocStep ==
  ASSUME PoolInv, PoolInv', NEW n \in Sizes, NEW a \in Blocks',
         n <= bd'[a].Size, bd'[a].Allocated, a \in Blocks => ~bd[a].Allocated,
         Blocks \subseteq Blocks', \A b \in Blocks' : b = a \/ b \in Blocks,
         \A b \in Blocks : b # a => bd'[b] = bd[b]
  PROVE  Abstract!Next
<1> DEFINE r == [addr |-> a, size |-> bd'[a].Size]
           First == PoolHandle + PoolT + BdT
<1>1. /\ a \in Nat /\ bd'[a].Size \in Nat /\ First <= a
      /\ a + bd'[a].Size <= End
  <2>1. a \in Nat /\ bd'[a].Size \in Nat /\ CurrentAddr' \in Nat
    BY DEF PoolInv, TypeOK, BD, Addr
  <2>2. /\ First <= a /\ a + bd'[a].Size <= CurrentAddr'
        /\ CurrentAddr' <= End
    BY DEF PoolInv, Placed
  <2>3. ASSUME NEW i \in Nat, NEW j \in Nat, NEW k \in Nat,
               i + j <= k, k <= End
        PROVE  i + j <= End
    BY <2>3, LayoutAssumption
  <2> QED BY <2>1, <2>2, <2>3
<1>2. /\ First \in Nat /\ End \in Nat /\ n \in Nat /\ BdT \in Nat
  BY LayoutAssumption
<1>3. a \in First .. End /\ bd'[a].Size \in n .. End - First
  BY <1>1, <1>2
<1>4. r \notin Live
  <2> SUFFICES ASSUME r \in Live PROVE FALSE
    OBVIOUS
  <2>1. r.addr \in Blocks /\ bd[r.addr].Allocated
    BY LiveBuffers
  <2> QED BY <2>1
<1>5. \A s \in Live : Abstract!Apart(r, s)
  <2> SUFFICES ASSUME NEW s \in Live PROVE Abstract!Apart(r, s)
    OBVIOUS
  <2>1. /\ s.addr \in Blocks /\ s.addr # a
        /\ s.size = bd[s.addr].Size
    <3>1. s.addr \in Blocks /\ s = Buffer(s.addr) /\ bd[s.addr].Allocated
      BY LiveBuffers
    <3> QED BY <3>1 DEF Buffer
  <2>2. /\ s.addr \in Nat /\ s.size \in Nat /\ s.addr \in Blocks'
        /\ bd'[s.addr].Size = s.size
    <3>1. s.addr \in Blocks' /\ bd'[s.addr] = bd[s.addr]
      BY <2>1
    <3>2. \A b \in Blocks : b \in Nat /\ bd[b].Size \in Nat
      BY DEF PoolInv, TypeOK, BD, Addr
    <3>3. s.addr \in Nat /\ bd[s.addr].Size \in Nat
      BY ONLY <2>1, <3>2
    <3> QED BY ONLY <2>1, <3>1, <3>3
  <2>3. /\ s.addr < a => s.addr + s.size <= a - BdT
        /\ a < s.addr => a + bd'[a].Size <= s.addr - BdT
    <3>1. \A x, y \in Blocks' : x < y => x + bd'[x].Size <= y - BdT
      BY DEF PoolInv, BlocksDisjoint
    <3>2. a \in Blocks'
      OBVIOUS
    <3>3. /\ s.addr < a => s.addr + bd'[s.addr].Size <= a - BdT
          /\ a < s.addr => a + bd'[a].Size <= s.addr - BdT
      BY ONLY <2>2, <3>1, <3>2
    <3> QED BY ONLY <2>2, <3>3
  <2>4. r.addr = a /\ r.size = bd'[a].Size
    OBVIOUS
  <2> HIDE DEF r
  <2> QED BY <1>1, <1>2, <2>1, <2>2, <2>3, <2>4 DEF Abstract!Apart
<1>6. Live' = Live \cup {r}
  <2>1. \A x : x \in Live' <=> \E b \in Blocks' : /\ bd'[b].Allocated
                               /\ x = [addr |-> b, size |-> bd'[b].Size]
    BY DEF Live, Blocks
  <2>2. \A x : x \in Live' <=> x \in Live \/ x = r
    BY <2>1, LiveBuffers DEF Buffer
  <2> QED BY <2>2
<1>7. Abstract!Alloc(n)
  BY <1>1, <1>3, <1>4, <1>5, <1>6 DEF Abstract!Alloc
<1> QED BY <1>7 DEF Abstract!Next

LEMMA StepSimulation ==
  PoolInv /\ PoolInv' /\ [Next]_vars => [Abstract!Next]_Live
<1> SUFFICES ASSUME PoolInv, PoolInv', [Next]_vars PROVE [Abstract!Next]_Live
  OBVIOUS
<1>1. ASSUME NEW n \in Sizes, GetPoolBuf(n) PROVE Abstract!Next
  <2> DEFINE c == ClassOf(n)
  <2>1. n <= MaxSize[1] /\ c \in Classes /\ n <= MaxSize[c]
    BY <1>1, ClassOfFound, LayoutAssumption DEF GetPoolBuf
  <2>2. CASE Top[c] # Null
    <3>1. Reuse(c)
      BY <1>1, <2>2 DEF GetPoolBuf
    <3>2. Top[c] \in Blocks /\ ~bd[Top[c]].Allocated
      BY <2>1, <2>2, <3>1, ReuseStep
    <3>3. /\ bd' = [bd EXCEPT ![Top[c]] =
                      [Allocated |-> TRUE, Intact |-> TRUE,
                       Size |-> MaxSize[c], Next |-> Null]]
      BY <3>1 DEF Reuse
    <3>4. /\ Blocks' = Blocks /\ bd'[Top[c]].Allocated
          /\ bd'[Top[c]].Size = MaxSize[c]
          /\ \A b \in Blocks : b # Top[c] => bd'[b] = bd[b]
      BY <3>2, <3>3 DEF Blocks
    <3> QED BY <2>1, <3>2, <3>4, AllocStep
  <2>3. CASE Top[c] = Null
    <3>1. Make(c)
      BY <1>1, <2>3 DEF GetPoolBuf
    <3>2. NewAddr \notin Blocks
      BY <2>1, <3>1, MakeStep
    <3>3. bd' = [x \in DOMAIN bd \cup {NewAddr} |->
                   IF x = NewAddr THEN [Allocated |-> TRUE, Intact |-> TRUE,
                                        Size |-> MaxSize[c], Next |-> Null]
                   ELSE bd[x]]
      BY <3>1 DEF Make
    <3>4. /\ Blocks' = Blocks \cup {NewAddr} /\ bd'[NewAddr].Allocated
          /\ bd'[NewAddr].Size = MaxSize[c]
          /\ \A b \in Blocks : b # NewAddr => bd'[b] = bd[b]
      BY <3>2, <3>3 DEF Blocks
    <3> QED BY <2>1, <3>2, <3>4, AllocStep
  <2> QED BY <2>2, <2>3
<1>2. ASSUME NEW a \in DOMAIN bd, PutPoolBuf(a) PROVE Abstract!Next
  <2>1. /\ bd[a].Allocated /\ a \in Blocks
        /\ Blocks' = Blocks /\ ~bd'[a].Allocated
        /\ \A b \in Blocks : b # a => bd'[b] = bd[b]
    BY <1>2 DEF PutPoolBuf, PoolInv, TypeOK, Blocks, BD
  <2>2. Buffer(a) \in Live
    BY <2>1, LiveBuffers
  <2>3. \A x : x \in Live' <=> x \in Live /\ x # Buffer(a)
    <3>1. \A x : x \in Live' <=> \E b \in Blocks' : /\ bd'[b].Allocated
                                 /\ x = [addr |-> b, size |-> bd'[b].Size]
      BY DEF Live, Blocks
    <3> QED BY <2>1, <3>1, LiveBuffers DEF Buffer
  <2>4. Live' = Live \ {Buffer(a)}
    BY <2>3
  <2> QED BY <2>2, <2>4 DEF Abstract!Next, Abstract!Free
<1>3. ASSUME NEW a \in DOMAIN bd, Overrun(a) PROVE UNCHANGED Live
  <2>1. /\ Blocks' = Blocks
        /\ \A b \in Blocks : bd'[b].Allocated = bd[b].Allocated
                             /\ bd'[b].Size = bd[b].Size
    BY <1>3 DEF Overrun, PoolInv, TypeOK, Blocks, BD
  <2>2. \A x : x \in Live' <=> \E b \in Blocks' : /\ bd'[b].Allocated
                               /\ x = [addr |-> b, size |-> bd'[b].Size]
    BY DEF Live, Blocks
  <2>3. \A x : x \in Live' <=> x \in Live
    BY <2>1, <2>2, LiveBuffers DEF Buffer
  <2> QED BY <2>3
<1>4. CASE UNCHANGED vars
  BY <1>4 DEF vars, Live, Blocks
<1> QED BY <1>1, <1>2, <1>3, <1>4 DEF Next

\* The pool implements the abstract allocator, for any sizes, any layout and
\* any order of calls (cfe_esmempool.c:307-586).
THEOREM Refinement == Spec => ImplementsAllocator
<1>1. Init => Abstract!Init
  BY DEF Init, Abstract!Init, Live, Blocks
<1>2. PoolInv /\ PoolInv' /\ [Next]_vars => [Abstract!Next]_Live
  BY StepSimulation
<1> QED BY <1>1, <1>2, Invariance, PTL
        DEF Spec, ImplementsAllocator, Abstract!Spec

-----------------------------------------------------------------------------
(* Damaged blocks: a call that takes a block back looks at its check pattern *)
(* first, and one that hands it out takes it from a list, where no block is  *)
(* allocated.                                                                *)

\* A block whose check pattern is lost while a user has it is never taken back
\* nor handed out again (cfe_esmempool.c:543-550).
THEOREM DamagedBlocksKept == Spec => DamagedStayOut
<1>1. ASSUME PoolInv, Next, NEW a \in Blocks, bd[a].Allocated, ~bd[a].Intact
      PROVE  bd'[a] = bd[a]
  <2>1. ASSUME NEW n \in Sizes, n <= MaxSize[1], NEW c, c = ClassOf(n), Top[c] # Null, Reuse(c)
        PROVE  bd'[a] = bd[a]
    <3>1. c \in Classes
      BY <2>1, ClassOfFound, LayoutAssumption
    <3>2. Top[c] \in Free(c) /\ ~bd[Top[c]].Allocated
      BY <1>1, <2>1, <3>1 DEF PoolInv, ListsSound, Free
    <3> QED
      BY <1>1, <2>1, <3>2 DEF Reuse, Free, Blocks
  <2>2. ASSUME NEW n \in Sizes, n <= MaxSize[1], NEW c, c = ClassOf(n), Make(c)
        PROVE  bd'[a] = bd[a]
    <3>1. NewAddr \notin Blocks
      BY <1>1, <2>2, MakeStep
    <3> QED
      BY <1>1, <2>2, <3>1 DEF Make, Blocks
  <2>3. ASSUME NEW b \in DOMAIN bd, PutPoolBuf(b) \/ Overrun(b) PROVE bd'[a] = bd[a]
    BY <1>1, <2>3 DEF PutPoolBuf, Overrun, Blocks
  <2> QED
    BY <1>1, <2>1, <2>2, <2>3 DEF Next, GetPoolBuf
<1>2. PoolInv /\ [Next]_vars =>
        [\A a \in Blocks : bd[a].Allocated /\ ~bd[a].Intact => bd'[a] = bd[a]]_vars
  BY <1>1
<1> QED
  BY <1>2, Invariance, PTL DEF Spec, DamagedStayOut

-----------------------------------------------------------------------------
(* The lists hold all free blocks, and the counters count them.             *)

Made(c) == {a \in Blocks : ClassOf(bd[a].Size) = c}

LEMMA BlocksFinite ==
  ASSUME PoolInv
  PROVE  /\ IsFiniteSet(Blocks)
         /\ \A c \in Classes : /\ IsFiniteSet(Free(c)) /\ IsFiniteSet(Made(c))
                               /\ Free(c) \subseteq Blocks
<1>1. IsFiniteSet(Addr)
  BY FS_Interval, LayoutAssumption DEF Addr
<1>2. IsFiniteSet(Blocks)
  BY <1>1, FS_Subset DEF PoolInv, TypeOK
<1> QED
  BY <1>2, FS_Subset DEF Free, Made

\* A step that leaves the lists and the sizes of the blocks as they are.
LEMMA CountsKept ==
  ASSUME CountedInv, UNCHANGED <<Top, NumFree, NumCreated>>,
         \A d \in Classes : /\ Free(d)' = Free(d) /\ Made(d)' = Made(d)
                            /\ \A x \in Free(d) : bd'[x].Next = bd[x].Next
  PROVE  CountedInv'
<1> SUFFICES ASSUME NEW d \in Classes
             PROVE  /\ ListLeadsToAll(d)' /\ NumFree'[d] = Cardinality(Free(d)')
                    /\ NumCreated'[d] = Cardinality(Made(d)')
  BY DEF CountedInv, Made
<1>1. ListLeadsToAll(d)'
  <2> SUFFICES ASSUME NEW S \in SUBSET Free(d), Top[d] # Null => Top[d] \in S,
                      \A a \in S : bd'[a].Next # Null => bd'[a].Next \in S
               PROVE  S = Free(d)
    BY DEF ListLeadsToAll
  <2>1. \A a \in S : bd[a].Next # Null => bd[a].Next \in S
    OBVIOUS
  <2> QED
    BY <2>1 DEF CountedInv, ListLeadsToAll
<1> QED
  BY <1>1 DEF CountedInv, Made

LEMMA CountedInit == Init => CountedInv
<1> SUFFICES ASSUME Init PROVE CountedInv
  OBVIOUS
<1>1. Blocks = {}
  BY DEF Init, Blocks
<1>2. \A c \in Classes : Free(c) = {} /\ {a \in Blocks : ClassOf(bd[a].Size) = c} = {}
  BY <1>1 DEF Free
<1>3. \A c \in Classes : ListLeadsToAll(c)
  BY <1>2 DEF ListLeadsToAll
<1> QED
  BY <1>2, <1>3, FS_EmptySet DEF Init, CountedInv

LEMMA CountedReuse ==
  ASSUME PoolInv, CountedInv, NEW n \in Sizes, n <= MaxSize[1], NEW c, c = ClassOf(n),
         Top[c] # Null, Reuse(c)
  PROVE  CountedInv'
<1>1. c \in Classes
  BY ClassOfFound, LayoutAssumption
<1>2. PICK a : a = Top[c]
  OBVIOUS
<1>3. a \in Free(c) /\ a \in Blocks /\ a # Null /\ bd[a].Size = MaxSize[c]
  BY <1>1, <1>2, ReuseStep DEF PoolInv, ListsSound
<1>4. /\ bd' = [bd EXCEPT ![a] = [Allocated |-> TRUE, Intact |-> TRUE,
                                  Size |-> MaxSize[c], Next |-> Null]]
      /\ Top' = [Top EXCEPT ![c] = bd[a].Next]
      /\ NumFree' = [NumFree EXCEPT ![c] = @ - 1] /\ NumCreated' = NumCreated
  BY <1>2 DEF Reuse
<1>5. /\ DOMAIN bd' = DOMAIN bd
      /\ bd'[a].Allocated /\ bd'[a].Size = bd[a].Size
      /\ \A b \in Blocks : b # a => bd'[b] = bd[b]
  BY <1>3, <1>4 DEF Blocks
<1>6. \A d \in Classes : Free(d)' = Free(d) \ {a} /\ Made(d)' = Made(d)
  BY <1>5 DEF Free, Made, Blocks, ClassOf
<1> SUFFICES ASSUME NEW d \in Classes
             PROVE  /\ ListLeadsToAll(d)' /\ NumFree'[d] = Cardinality(Free(d)')
                    /\ NumCreated'[d] = Cardinality(Made(d)')
  BY DEF CountedInv, Made
<1>7. /\ ListLeadsToAll(d) /\ NumFree[d] = Cardinality(Free(d))
      /\ NumCreated[d] = Cardinality(Made(d))
  BY DEF CountedInv, Made
<1>8. \A x \in Free(d) \ {a} : bd'[x] = bd[x]
  BY <1>5 DEF Free
<1>9. CASE d = c
  <2>1. Top'[c] = bd[a].Next /\ NumFree'[c] = NumFree[c] - 1
    BY <1>1, <1>4 DEF PoolInv, TypeOK
  <2>2. Cardinality(Free(c)') = Cardinality(Free(c)) - 1
    BY <1>1, <1>3, <1>6, BlocksFinite, FS_RemoveElement
  <2>3. ListLeadsToAll(c)'
    <3> SUFFICES ASSUME NEW S \in SUBSET (Free(c) \ {a}), Top'[c] # Null => Top'[c] \in S,
                        \A x \in S : bd'[x].Next # Null => bd'[x].Next \in S
                 PROVE  S = Free(c) \ {a}
      BY <1>1, <1>6 DEF ListLeadsToAll
    <3>1. S \cup {a} \in SUBSET Free(c) /\ Top[c] \in S \cup {a}
      BY <1>2, <1>3
    <3>2. \A x \in S \cup {a} : bd[x].Next # Null => bd[x].Next \in S \cup {a}
      BY <1>8, <1>9, <2>1
    <3>3. S \cup {a} = Free(c)
      BY <1>7, <1>9, <3>1, <3>2 DEF ListLeadsToAll
    <3> QED
      BY <3>3
  <2> QED
    BY <1>4, <1>6, <1>7, <1>9, <2>1, <2>2, <2>3
<1>10. CASE d # c
  <2>1. Top'[d] = Top[d] /\ NumFree'[d] = NumFree[d]
    BY <1>4, <1>10 DEF PoolInv, TypeOK
  <2>2. Free(d)' = Free(d) /\ \A x \in Free(d) : bd'[x] = bd[x]
    BY <1>3, <1>6, <1>8, <1>10 DEF Free
  <2>3. ListLeadsToAll(d)'
    <3> SUFFICES ASSUME NEW S \in SUBSET Free(d), Top[d] # Null => Top[d] \in S,
                        \A x \in S : bd'[x].Next # Null => bd'[x].Next \in S
                 PROVE  S = Free(d)
      BY <2>1, <2>2 DEF ListLeadsToAll
    <3>1. \A x \in S : bd[x].Next # Null => bd[x].Next \in S
      BY <2>2
    <3> QED
      BY <1>7, <3>1 DEF ListLeadsToAll
  <2> QED
    BY <1>4, <1>6, <1>7, <2>1, <2>2, <2>3
<1> QED
  BY <1>9, <1>10

LEMMA CountedMake ==
  ASSUME PoolInv, CountedInv, NEW n \in Sizes, n <= MaxSize[1], NEW c, c = ClassOf(n),
         Make(c)
  PROVE  CountedInv'
<1>1. c \in Classes /\ ClassOf(MaxSize[c]) = c
  BY ClassOfFound, ClassStable, LayoutAssumption
<1>2. PICK a : a = NewAddr
  OBVIOUS
<1>3. a \notin Blocks
  BY <1>2, MakeStep
<1>4. /\ bd' = [x \in DOMAIN bd \cup {a} |->
                  IF x = a THEN [Allocated |-> TRUE, Intact |-> TRUE,
                                 Size |-> MaxSize[c], Next |-> Null]
                  ELSE bd[x]]
      /\ NumCreated' = [NumCreated EXCEPT ![c] = @ + 1] /\ UNCHANGED <<Top, NumFree>>
  BY <1>2 DEF Make
<1>5. /\ Blocks' = Blocks \cup {a} /\ bd'[a].Allocated /\ bd'[a].Size = MaxSize[c]
      /\ \A b \in Blocks : bd'[b] = bd[b]
  BY <1>3, <1>4 DEF Blocks
<1>6. \A d \in Classes : /\ Free(d)' = Free(d)
                         /\ Made(d)' = IF d = c THEN Made(d) \cup {a} ELSE Made(d)
  <2>1. \A d \in Classes : Free(d)' = Free(d)
    BY <1>5 DEF Free, ClassOf
  <2>2. ASSUME NEW d \in Classes, NEW x
        PROVE  x \in Made(d)' <=> x \in Made(d) \/ (d = c /\ x = a)
    <3>1. x \in Made(d)' <=> x \in Blocks' /\ ClassOf(bd'[x].Size) = d
      BY DEF Made, ClassOf
    <3>2. CASE x = a
      BY <1>1, <1>3, <1>5, <3>1, <3>2 DEF Made
    <3>3. CASE x # a
      BY <1>5, <3>1, <3>3 DEF Made
    <3> QED
      BY <3>2, <3>3
  <2> QED
    BY <2>1, <2>2
<1> SUFFICES ASSUME NEW d \in Classes
             PROVE  /\ ListLeadsToAll(d)' /\ NumFree'[d] = Cardinality(Free(d)')
                    /\ NumCreated'[d] = Cardinality(Made(d)')
  BY DEF CountedInv, Made
<1>7. /\ ListLeadsToAll(d) /\ NumFree[d] = Cardinality(Free(d))
      /\ NumCreated[d] = Cardinality(Made(d))
  BY DEF CountedInv, Made
<1>8. ListLeadsToAll(d)'
  <2> SUFFICES ASSUME NEW S \in SUBSET Free(d), Top[d] # Null => Top[d] \in S,
                      \A x \in S : bd'[x].Next # Null => bd'[x].Next \in S
               PROVE  S = Free(d)
    BY <1>4, <1>6 DEF ListLeadsToAll
  <2>1. \A x \in S : bd[x].Next # Null => bd[x].Next \in S
    BY <1>5 DEF Free
  <2> QED
    BY <1>7, <2>1 DEF ListLeadsToAll
<1>9. NumCreated'[d] = Cardinality(Made(d)')
  <2>1. CASE d = c
    <3>1. a \notin Made(c)
      BY <1>3 DEF Made
    <3>2. Cardinality(Made(c) \cup {a}) = Cardinality(Made(c)) + 1
      BY <1>1, <3>1, BlocksFinite, FS_AddElement
    <3> QED
      BY <1>1, <1>4, <1>6, <1>7, <2>1, <3>2 DEF PoolInv, TypeOK
  <2>2. CASE d # c
    BY <1>4, <1>6, <1>7, <2>2 DEF PoolInv, TypeOK
  <2> QED
    BY <2>1, <2>2
<1> QED
  BY <1>4, <1>6, <1>7, <1>8, <1>9

LEMMA CountedPut ==
  ASSUME PoolInv, CountedInv, NEW a \in DOMAIN bd, PutPoolBuf(a)
  PROVE  CountedInv'
<1>1. PICK c \in Classes : c = ClassOf(bd[a].Size)
  BY DEF PoolInv, SizesExact, Blocks
<1>2. a \in Blocks /\ a \in Addr /\ bd[a] \in BD /\ a # Null
  BY LayoutAssumption DEF PoolInv, TypeOK, Blocks
<1>3. /\ bd[a].Allocated
      /\ bd' = [bd EXCEPT ![a].Allocated = FALSE, ![a].Next = Top[c]]
      /\ Top' = [Top EXCEPT ![c] = a]
      /\ NumFree' = [NumFree EXCEPT ![c] = @ + 1] /\ NumCreated' = NumCreated
  BY <1>1 DEF PutPoolBuf
<1>4. /\ DOMAIN bd' = DOMAIN bd
      /\ ~bd'[a].Allocated /\ bd'[a].Size = bd[a].Size /\ bd'[a].Next = Top[c]
      /\ \A b \in Blocks : b # a => bd'[b] = bd[b]
  BY <1>2, <1>3 DEF Blocks, BD
<1>5. \A d \in Classes : a \notin Free(d)
  BY <1>3 DEF Free
<1>6. \A d \in Classes : /\ Free(d)' = IF d = c THEN Free(d) \cup {a} ELSE Free(d)
                         /\ Made(d)' = Made(d)
  <2>1. \A d \in Classes : Made(d)' = Made(d)
    BY <1>4 DEF Made, Blocks, ClassOf
  <2>2. ASSUME NEW d \in Classes, NEW x
        PROVE  x \in Free(d)' <=> x \in Free(d) \/ (d = c /\ x = a)
    <3>1. x \in Free(d)' <=> /\ x \in Blocks /\ ~bd'[x].Allocated
                             /\ ClassOf(bd'[x].Size) = d
      BY <1>4 DEF Free, Blocks, ClassOf
    <3>2. CASE x = a
      BY <1>1, <1>2, <1>4, <1>5, <3>1, <3>2
    <3>3. CASE x # a
      BY <1>4, <3>1, <3>3 DEF Free
    <3> QED
      BY <3>2, <3>3
  <2> QED
    BY <2>1, <2>2
<1> SUFFICES ASSUME NEW d \in Classes
             PROVE  /\ ListLeadsToAll(d)' /\ NumFree'[d] = Cardinality(Free(d)')
                    /\ NumCreated'[d] = Cardinality(Made(d)')
  BY DEF CountedInv, Made
<1>7. /\ ListLeadsToAll(d) /\ NumFree[d] = Cardinality(Free(d))
      /\ NumCreated[d] = Cardinality(Made(d))
  BY DEF CountedInv, Made
<1>8. \A x \in Free(d) : bd'[x] = bd[x]
  BY <1>4, <1>5 DEF Free
<1>9. CASE d = c
  <2>1. Top'[c] = a /\ NumFree'[c] = NumFree[c] + 1
    BY <1>1, <1>3 DEF PoolInv, TypeOK
  <2>2. Cardinality(Free(c)') = Cardinality(Free(c)) + 1
    BY <1>1, <1>5, <1>6, BlocksFinite, FS_AddElement
  <2>3. ListLeadsToAll(c)'
    <3> SUFFICES ASSUME NEW S \in SUBSET (Free(c) \cup {a}), a \in S,
                        \A x \in S : bd'[x].Next # Null => bd'[x].Next \in S
                 PROVE  S = Free(c) \cup {a}
      BY <1>2, <1>6, <2>1 DEF ListLeadsToAll
    <3>1. S \ {a} \in SUBSET Free(c)
      OBVIOUS
    <3>2. Top[c] # Null => Top[c] \in S \ {a}
      BY <1>4, <1>5 DEF PoolInv, ListsSound
    <3>3. \A x \in S \ {a} : bd[x].Next # Null => bd[x].Next \in S \ {a}
      <4> SUFFICES ASSUME NEW x \in S \ {a}, bd[x].Next # Null
                   PROVE  bd[x].Next \in S \ {a}
        OBVIOUS
      <4>1. bd[x].Next \in Free(c) /\ bd'[x] = bd[x]
        BY <1>8, <1>9, <3>1 DEF PoolInv, ListsSound
      <4> QED
        BY <1>5, <4>1
    <3>4. S \ {a} = Free(c)
      BY <1>7, <1>9, <3>1, <3>2, <3>3 DEF ListLeadsToAll
    <3> QED
      BY <3>4
  <2> QED
    BY <1>3, <1>6, <1>7, <1>9, <2>1, <2>2, <2>3
<1>10. CASE d # c
  <2>1. Top'[d] = Top[d] /\ NumFree'[d] = NumFree[d] /\ Free(d)' = Free(d)
    BY <1>3, <1>6, <1>10 DEF PoolInv, TypeOK
  <2>2. ListLeadsToAll(d)'
    <3> SUFFICES ASSUME NEW S \in SUBSET Free(d), Top[d] # Null => Top[d] \in S,
                        \A x \in S : bd'[x].Next # Null => bd'[x].Next \in S
                 PROVE  S = Free(d)
      BY <2>1 DEF ListLeadsToAll
    <3>1. \A x \in S : bd[x].Next # Null => bd[x].Next \in S
      BY <1>8
    <3> QED
      BY <1>7, <3>1 DEF ListLeadsToAll
  <2> QED
    BY <1>3, <1>6, <1>7, <2>1, <2>2
<1> QED
  BY <1>9, <1>10

LEMMA CountedNext == PoolInv /\ CountedInv /\ [Next]_vars => CountedInv'
<1> SUFFICES ASSUME PoolInv, CountedInv, [Next]_vars PROVE CountedInv'
  OBVIOUS
<1>1. ASSUME NEW a \in DOMAIN bd, Overrun(a) PROVE CountedInv'
  <2>1. /\ a \in Blocks /\ bd[a] \in BD
        /\ bd' = [bd EXCEPT ![a].Intact = FALSE]
        /\ UNCHANGED <<Top, NumFree, NumCreated>>
    BY <1>1 DEF Overrun, PoolInv, TypeOK, Blocks
  <2>2. /\ DOMAIN bd' = DOMAIN bd
        /\ \A b \in Blocks : /\ bd'[b].Allocated = bd[b].Allocated
                             /\ bd'[b].Size = bd[b].Size
                             /\ bd'[b].Next = bd[b].Next
    BY <2>1 DEF Blocks, BD
  <2>3. \A d \in Classes : /\ Free(d)' = Free(d) /\ Made(d)' = Made(d)
                           /\ \A x \in Free(d) : bd'[x].Next = bd[x].Next
    BY <2>2 DEF Free, Made, Blocks, ClassOf
  <2> QED
    BY <2>1, <2>3, CountsKept
<1>2. CASE UNCHANGED vars
  <2>1. \A d \in Classes : Free(d)' = Free(d) /\ Made(d)' = Made(d)
    BY <1>2 DEF Free, Made, Blocks, vars, ClassOf
  <2> QED
    BY <1>2, <2>1, CountsKept DEF vars
<1> QED
  BY <1>1, <1>2, CountedReuse, CountedMake, CountedPut DEF Next, GetPoolBuf

-----------------------------------------------------------------------------
(* The walk along a list, as OnList takes it: after i rounds it has at      *)
(* least i blocks or all of them.                                           *)

\* A block set with the blocks that follow one of it.
Onward(S) == S \cup ({bd[a].Next : a \in S} \ {Null})

\* r holds what n rounds from Top reach.
Rounds(r, c, n) ==
  r = [i \in 0 .. n |-> IF i = 0 THEN {Top[c]} \ {Null}
                        ELSE r[i - 1] \cup ({bd[a].Next : a \in r[i - 1]} \ {Null})]

LEMMA RoundsExist ==
  ASSUME NEW c, NEW n \in Nat
  PROVE  \E r : Rounds(r, c, n)
<1> DEFINE T == {m \in Nat : ~\E r : Rounds(r, c, m)}
<1> SUFFICES ASSUME T # {} PROVE FALSE
  OBVIOUS
<1>1. PICK m \in T : \A k \in T : m <= k
  BY LeastNumber
<1>2. CASE m = 0
  <2>1. Rounds([i \in 0 .. 0 |-> {Top[c]} \ {Null}], c, 0)
    BY DEF Rounds
  <2> QED
    BY <1>1, <1>2, <2>1
<1>3. CASE m # 0
  <2>1. m - 1 \in Nat /\ m - 1 \notin T
    BY <1>1, <1>3
  <2>2. PICK r : Rounds(r, c, m - 1)
    BY <2>1
  <2> DEFINE q == [i \in 0 .. m |-> IF i = 0 THEN {Top[c]} \ {Null}
                                    ELSE Onward(r[i - 1])]
  <2>3. \A i \in 0 .. m - 1 : r[i] = IF i = 0 THEN {Top[c]} \ {Null} ELSE Onward(r[i - 1])
    BY <2>2 DEF Rounds, Onward
  <2>4. \A i \in 0 .. m : i # 0 => i - 1 \in 0 .. m - 1 /\ i - 1 \in 0 .. m
    BY <2>1
  <2>5. ASSUME NEW i \in 0 .. m - 1 PROVE q[i] = r[i]
    <3>1. i \in 0 .. m
      BY <2>1
    <3>2. q[i] = IF i = 0 THEN {Top[c]} \ {Null} ELSE Onward(r[i - 1])
      BY <3>1
    <3> HIDE DEF q
    <3> QED
      BY <2>3, <3>2
  <2>6. \A i \in 0 .. m : i # 0 => q[i - 1] = r[i - 1]
    BY <2>4, <2>5
  <2>7. q = [i \in 0 .. m |-> IF i = 0 THEN {Top[c]} \ {Null} ELSE Onward(q[i - 1])]
    BY <2>6
  <2> HIDE DEF q
  <2>8. Rounds(q, c, m)
    BY <2>7 DEF Rounds, Onward
  <2> QED
    BY <1>1, <2>8
<1> QED
  BY <1>2, <1>3

LEMMA WalkTaken ==
  ASSUME PoolInv, NEW c \in Classes
  PROVE  \E r : /\ OnList(c) = r[Cardinality(Blocks)]
                /\ r[0] = {Top[c]} \ {Null}
                /\ \A i \in 1 .. Cardinality(Blocks) : r[i] = Onward(r[i - 1])
<1>1. Cardinality(Blocks) \in Nat
  BY BlocksFinite, FS_CardinalityType
<1> DEFINE n == Cardinality(Blocks)
           r == CHOOSE f : Rounds(f, c, n)
<1>2. \E f : Rounds(f, c, n)
  BY <1>1, RoundsExist
<1>3. Rounds(r, c, n)
  BY <1>2
<1>4. OnList(c) = r[n]
  BY DEF OnList, Rounds
<1> HIDE DEF r, n
<1>5. n \in Nat
  BY <1>1 DEF n
<1>6. \A i \in 0 .. n : r[i] = IF i = 0 THEN {Top[c]} \ {Null} ELSE Onward(r[i - 1])
  BY <1>3 DEF Rounds, Onward
<1>7. r[0] = {Top[c]} \ {Null} /\ \A i \in 1 .. n : r[i] = Onward(r[i - 1])
  BY <1>5, <1>6
<1> QED
  BY <1>4, <1>7 DEF n

\* What a round adds to a part of the list that begins at Top.
LEMMA OneRound ==
  ASSUME PoolInv, CountedInv, NEW c \in Classes, NEW S \in SUBSET Free(c),
         Top[c] # Null => Top[c] \in S
  PROVE  /\ S \subseteq Onward(S) /\ Onward(S) \subseteq Free(c)
         /\ S = Free(c) \/ Cardinality(Onward(S)) >= Cardinality(S) + 1
<1>1. S \subseteq Onward(S)
  BY DEF Onward
<1>2. Onward(S) \subseteq Free(c)
  BY DEF Onward, PoolInv, ListsSound
<1>3. ASSUME S # Free(c) PROVE Cardinality(Onward(S)) >= Cardinality(S) + 1
  <2>1. ~\A a \in S : bd[a].Next # Null => bd[a].Next \in S
    BY <1>3 DEF CountedInv, ListLeadsToAll
  <2>2. PICK x : x \in Onward(S) /\ x \notin S
    BY <2>1 DEF Onward
  <2>3. IsFiniteSet(Free(c))
    BY BlocksFinite
  <2>4. IsFiniteSet(Onward(S)) /\ IsFiniteSet(S)
    BY <1>2, <2>3, FS_Subset
  <2>5. S \cup {x} \subseteq Onward(S)
    BY <1>1, <2>2
  <2>6. Cardinality(S \cup {x}) = Cardinality(S) + 1
    BY <2>2, <2>4, FS_AddElement
  <2>7. Cardinality(S \cup {x}) <= Cardinality(Onward(S))
    BY <2>4, <2>5, FS_Subset
  <2>8. Cardinality(S) \in Nat /\ Cardinality(Onward(S)) \in Nat
    BY <2>4, FS_CardinalityType
  <2> QED
    BY <2>6, <2>7, <2>8
<1> QED
  BY <1>1, <1>2, <1>3

\* Part i of the walk lies on the list and has at least i blocks or all.
LEMMA WalkGrows ==
  ASSUME PoolInv, CountedInv, NEW c \in Classes, NEW n \in Nat, NEW r,
         r[0] = {Top[c]} \ {Null},
         \A i \in 1 .. n : r[i] = Onward(r[i - 1])
  PROVE  /\ r[n] \subseteq Free(c)
         /\ r[n] = Free(c) \/ Cardinality(r[n]) >= n
<1> DEFINE Good(i) == /\ r[i] \subseteq Free(c)
                      /\ Top[c] # Null => Top[c] \in r[i]
                      /\ r[i] = Free(c) \/ Cardinality(r[i]) >= i
           T == {i \in 0 .. n : ~Good(i)}
<1>1. Good(0)
  <2>1. r[0] \subseteq Free(c) /\ (Top[c] # Null => Top[c] \in r[0])
    BY DEF PoolInv, ListsSound
  <2>2. IsFiniteSet(r[0])
    BY <2>1, BlocksFinite, FS_Subset
  <2>3. Cardinality(r[0]) \in Nat
    BY <2>2, FS_CardinalityType
  <2> QED
    BY <2>1, <2>3
<1>2. ASSUME NEW i \in 1 .. n, Good(i - 1) PROVE Good(i)
  <2>1. PICK S : S = r[i - 1]
    OBVIOUS
  <2>2. /\ S \subseteq Free(c) /\ (Top[c] # Null => Top[c] \in S)
        /\ S = Free(c) \/ Cardinality(S) >= i - 1
        /\ r[i] = Onward(S)
    BY <1>2, <2>1
  <2>3. /\ S \subseteq Onward(S) /\ Onward(S) \subseteq Free(c)
        /\ S = Free(c) \/ Cardinality(Onward(S)) >= Cardinality(S) + 1
    BY <2>2, OneRound
  <2>4. IsFiniteSet(S) /\ IsFiniteSet(Onward(S))
    BY <2>2, <2>3, BlocksFinite, FS_Subset
  <2>5. Cardinality(S) \in Nat /\ Cardinality(Onward(S)) \in Nat
    BY <2>4, FS_CardinalityType
  <2>6. CASE S = Free(c)
    BY <2>2, <2>3, <2>6
  <2>7. CASE Cardinality(S) >= i - 1 /\ Cardinality(Onward(S)) >= Cardinality(S) + 1
    <3>1. Cardinality(Onward(S)) >= i
      BY <2>5, <2>7
    <3> QED
      BY <2>2, <2>3, <3>1
  <2> QED
    BY <2>2, <2>3, <2>6, <2>7
<1> HIDE DEF Good
<1>3. T = {}
  <2> SUFFICES ASSUME T # {} PROVE FALSE
    OBVIOUS
  <2>1. T \in SUBSET Nat
    OBVIOUS
  <2>2. PICK m \in T : \A k \in T : m <= k
    BY <2>1, LeastNumber
  <2>3. m \in 1 .. n
    BY <1>1, <2>2
  <2>4. Good(m - 1)
    BY <2>2, <2>3
  <2> QED
    BY <1>2, <2>2, <2>3, <2>4
<1>4. Good(n)
  BY <1>3
<1> QED
  BY <1>4 DEF Good

LEMMA ListHoldsFree ==
  ASSUME PoolInv, CountedInv, NEW c \in Classes
  PROVE  OnList(c) = Free(c)
<1>1. PICK r : /\ OnList(c) = r[Cardinality(Blocks)]
               /\ r[0] = {Top[c]} \ {Null}
               /\ \A i \in 1 .. Cardinality(Blocks) : r[i] = Onward(r[i - 1])
  BY WalkTaken
<1>2. IsFiniteSet(Blocks) /\ IsFiniteSet(Free(c)) /\ Free(c) \subseteq Blocks
  BY BlocksFinite
<1>3. Cardinality(Blocks) \in Nat /\ Cardinality(Free(c)) \in Nat
  BY <1>2, FS_CardinalityType
<1>4. PICK S : S = OnList(c)
  OBVIOUS
<1>5. S \subseteq Free(c) /\ (S = Free(c) \/ Cardinality(S) >= Cardinality(Blocks))
  BY <1>1, <1>3, <1>4, WalkGrows
<1>6. CASE Cardinality(S) >= Cardinality(Blocks)
  <2>1. Cardinality(S) <= Cardinality(Free(c)) /\ Cardinality(Free(c)) <= Cardinality(Blocks)
    BY <1>2, <1>5, FS_Subset
  <2>2. IsFiniteSet(S)
    BY <1>2, <1>5, FS_Subset
  <2>3. Cardinality(S) = Cardinality(Free(c))
    BY <1>3, <1>6, <2>1, <2>2, FS_CardinalityType
  <2> QED
    BY <1>2, <1>4, <1>5, <2>3, FS_Subset
<1> QED
  BY <1>4, <1>5, <1>6

LEMMA CountedHolds == Spec => [](PoolInv /\ CountedInv)
<1>1. Init => PoolInv /\ CountedInv
  BY InitInv, CountedInit
<1>2. PoolInv /\ CountedInv /\ [Next]_vars => (PoolInv /\ CountedInv)'
  BY NextInv, CountedNext
<1> QED
  BY <1>1, <1>2, PTL DEF Spec

\* No returned block is lost: the list of a size holds exactly its free
\* blocks, and NumFree and NumCreated count them (cfe_esmempool.c:358-421,
\* 565-568).
THEOREM NoBlockLost == Spec => []ListsComplete
<1>1. PoolInv /\ CountedInv => ListsComplete
  BY ListHoldsFree DEF CountedInv, ListsComplete
<1> QED
  BY <1>1, CountedHolds, PTL

=============================================================================
