------------------------------- MODULE MemPool -------------------------------
(***************************************************************************)
(* The memory pool of Executive Services (es/cfe_esmempool.c), from which  *)
(* the Software Bus takes its messages and Table Services its buffers.     *)
(*                                                                         *)
(* Blocks are cut from the unused end of the pool and never merged.  A     *)
(* block has a descriptor in front of the user's buffer; a returned block  *)
(* goes on the list of its size, last in, first out.  Every call runs      *)
(* under the mutex of the pool (a pool made without one is used under a    *)
(* lock of its user), so a call is one step.                               *)
(*                                                                         *)
(* An address is a number below AddrMod and wraps there.  A pointer that   *)
(* is passed to the pool was once returned by it; it may have been         *)
(* returned before, also twice.  Counters nobody reads back are left out.  *)
(***************************************************************************)
EXTENDS Integers, Sequences, FiniteSets

CONSTANTS
  AddrMod,      \* 2^32 or 2^64: where an address wraps
  PoolHandle,   \* address of the pool, and of its Pool_t
  PoolT,        \* sizeof(Pool_t)
  End,          \* first address after the pool
  BdT,          \* sizeof(BD_t)
  Align,        \* AlignMask + 1
  BlockSizes,   \* the sizes given to CFE_ES_PoolCreateEx, in any order
  NumSizes,     \* CFE_ES_MAX_MEMPOOL_BLOCK_SIZES
  Sizes,        \* the sizes users ask for
  Null

Addr == 0 .. AddrMod - 1
Classes == 1 .. NumSizes

\* One round of the sorting loop: size x, the i-th, is inserted before the
\* first smaller one, and those up to place i move up by one.
InsertSize(t, i, x) ==
  LET smaller == {j \in Classes : x > t[j]}
      at == CHOOSE j \in smaller : \A k \in smaller : j <= k
  IN IF smaller = {} THEN t
     ELSE [k \in Classes |-> IF k < at \/ k > i THEN t[k]
                             ELSE IF k = at THEN x ELSE t[k - 1]]

\* The sizes of SizeDesc after CFE_ES_PoolCreateEx; 0 where there is none.
SizeTable(s) ==
  LET t[i \in 0 .. Len(s)] == IF i = 0 THEN [k \in Classes |-> 0]
                              ELSE InsertSize(t[i - 1], i, s[i])
  IN t[Len(s)]

MaxSize == SizeTable(BlockSizes)

Descending(t) == \A j, k \in Classes : j <= k => t[j] >= t[k]

PoolSize == End - PoolHandle

ASSUME LayoutAssumption ==
  /\ AddrMod \in Nat /\ PoolHandle \in Nat /\ End \in Nat
  /\ PoolT \in Nat /\ BdT \in Nat \ {0} /\ Align \in Nat \ {0}
  /\ PoolHandle + PoolT <= End /\ End < AddrMod
  /\ NumSizes \in Nat \ {0} /\ Sizes \subseteq Nat /\ Null \notin Addr
\* CFE_ES_PoolCreateEx refuses a longer list.
ASSUME TableAssumption ==
  BlockSizes \in Seq(Nat) /\ Len(BlockSizes) <= NumSizes
\* A block cannot be so large that it wraps around to the pool.
ASSUME WrapAssumption ==
  MaxSize[1] + BdT + Align <= AddrMod - PoolSize

Add(x, y) == IF x + y < AddrMod THEN x + y ELSE x + y - AddrMod
Sub(x, y) == IF y <= x THEN x - y ELSE x - y + AddrMod
AlignUp(x) == ((x + Align - 1) \div Align) * Align

VARIABLES
  CurrentAddr,   \* end of the blocks made so far
  bd,            \* BD_t of each block, by the address of its user buffer
  Top, NumFree, NumCreated    \* of each size

vars == <<CurrentAddr, bd, Top, NumFree, NumCreated>>

BD == [Allocated : BOOLEAN, Intact : BOOLEAN, Size : Nat,
       Next : Addr \cup {Null}]

Init ==
  /\ CurrentAddr = PoolHandle + PoolT
  /\ bd = <<>>
  /\ Top = [c \in Classes |-> Null]
  /\ NumFree = [c \in Classes |-> 0]
  /\ NumCreated = [c \in Classes |-> 0]

-----------------------------------------------------------------------------
(* The calls. *)

\* CFE_ES_GetBlockSize: the smallest size that holds n <= MaxSize[1] bytes.
ClassOf(n) ==
  CHOOSE c \in Classes :
    /\ \A k \in 2 .. c : n <= MaxSize[k]
    /\ c = NumSizes \/ ~(n <= MaxSize[c + 1])

\* Mutant: the list keeps the block that is handed out.
Reuse_top(c) ==
  LET a == Top[c] IN
  /\ Top' = [Top EXCEPT ![c] = a]
  /\ NumFree' = [NumFree EXCEPT ![c] = @ - 1]
  /\ bd' = [bd EXCEPT ![a] = [Allocated |-> TRUE, Intact |-> TRUE,
                              Size |-> MaxSize[c], Next |-> Null]]
  /\ UNCHANGED <<CurrentAddr, NumCreated>>

\* The first block of the list is taken.
Reuse(c) ==
  LET a == Top[c] IN
  /\ Top' = [Top EXCEPT ![c] = bd[a].Next]
  /\ NumFree' = [NumFree EXCEPT ![c] = @ - 1]
  /\ bd' = [bd EXCEPT ![a] = [Allocated |-> TRUE, Intact |-> TRUE,
                              Size |-> MaxSize[c], Next |-> Null]]
  /\ UNCHANGED <<CurrentAddr, NumCreated>>

\* Mutant: no room for the descriptor.
NewAddr_bare ==
  LET x == AlignUp(CurrentAddr)
  IN IF x < AddrMod THEN x ELSE x - AddrMod

\* The user buffer of the next new block: its descriptor fits in front of it.
NewAddr ==
  LET x == AlignUp(CurrentAddr + BdT)
  IN IF x < AddrMod THEN x ELSE x - AddrMod

\* Mutant: a comparison of addresses instead of the unsigned difference.
Fits_plain(a, n) == Add(a, n) <= End

\* Whether a block ends in the pool: the difference wraps when it does not.
Fits(a, n) == Sub(End, Add(a, n)) < PoolSize

\* A new block; nothing changes if it does not fit.
Make(c) ==
  LET a == NewAddr IN
  /\ Fits(a, MaxSize[c])
  /\ CurrentAddr' = Add(a, MaxSize[c])
  /\ NumCreated' = [NumCreated EXCEPT ![c] = @ + 1]
  /\ bd' = [x \in DOMAIN bd \cup {a} |->
              IF x = a THEN [Allocated |-> TRUE, Intact |-> TRUE,
                             Size |-> MaxSize[c], Next |-> Null]
              ELSE bd[x]]
  /\ UNCHANGED <<Top, NumFree>>

GetPoolBuf(n) ==
  /\ n <= MaxSize[1]
  /\ LET c == ClassOf(n) IN IF Top[c] # Null THEN Reuse(c) ELSE Make(c)

\* Mutant: the block is returned whatever its Allocated flag says.
PutPoolBuf_twice(a) ==
  /\ PoolHandle + PoolT + BdT <= a /\ a < End
  /\ bd[a].Intact
  /\ LET c == ClassOf(bd[a].Size) IN
       /\ bd' = [bd EXCEPT ![a].Allocated = FALSE, ![a].Next = Top[c]]
       /\ Top' = [Top EXCEPT ![c] = a]
       /\ NumFree' = [NumFree EXCEPT ![c] = @ + 1]
  /\ UNCHANGED <<CurrentAddr, NumCreated>>

\* Mutant: the check pattern is not looked at.
PutPoolBuf_unchecked(a) ==
  /\ PoolHandle + PoolT + BdT <= a /\ a < End
  /\ bd[a].Allocated
  /\ LET c == ClassOf(bd[a].Size) IN
       /\ bd' = [bd EXCEPT ![a].Allocated = FALSE, ![a].Next = Top[c]]
       /\ Top' = [Top EXCEPT ![c] = a]
       /\ NumFree' = [NumFree EXCEPT ![c] = @ + 1]
  /\ UNCHANGED <<CurrentAddr, NumCreated>>

\* Only an intact, allocated block is taken back.
PutPoolBuf(a) ==
  /\ PoolHandle + PoolT + BdT <= a /\ a < End
  /\ bd[a].Allocated /\ bd[a].Intact
  /\ LET c == ClassOf(bd[a].Size) IN
       /\ bd' = [bd EXCEPT ![a].Allocated = FALSE, ![a].Next = Top[c]]
       /\ Top' = [Top EXCEPT ![c] = a]
       /\ NumFree' = [NumFree EXCEPT ![c] = @ + 1]
  /\ UNCHANGED <<CurrentAddr, NumCreated>>

\* A user writes past the end of the buffer before this one, allocated or
\* free, into CheckBits.
Overrun(a) ==
  /\ bd[a].Intact
  /\ bd' = [bd EXCEPT ![a].Intact = FALSE]
  /\ UNCHANGED <<CurrentAddr, Top, NumFree, NumCreated>>

Next ==
  \/ \E n \in Sizes : GetPoolBuf(n)
  \/ \E a \in DOMAIN bd : PutPoolBuf(a) \/ Overrun(a)

Spec == Init /\ [][Next]_vars

-----------------------------------------------------------------------------
(* Properties. *)

Blocks == DOMAIN bd
Free(c) == {a \in Blocks : ~bd[a].Allocated /\ ClassOf(bd[a].Size) = c}

\* Every variable has its type.
TypeOK ==
  /\ CurrentAddr \in Nat
  /\ bd \in [Blocks -> BD] /\ Blocks \subseteq Addr
  /\ Top \in [Classes -> Addr \cup {Null}]
  /\ NumFree \in [Classes -> Int]
  /\ NumCreated \in [Classes -> Nat]

\* Every block, with its descriptor, lies in the used part of the pool.
Placed ==
  /\ PoolHandle + PoolT <= CurrentAddr /\ CurrentAddr <= End
  /\ \A a \in Blocks : /\ PoolHandle + PoolT + BdT <= a
                       /\ a + bd[a].Size <= CurrentAddr

\* No block reaches into another one or its descriptor, also where addresses
\* wrap (cfe_esmempool.c:385-420).
BlocksDisjoint ==
  \A a, b \in Blocks : a < b => a + bd[a].Size <= b - BdT

\* A block has one of the table's sizes, so it returns to the list it is
\* taken from (GetBlockSize on the size asked for, then on the block's size).
SizesExact == \A a \in Blocks :
  \E c \in Classes : bd[a].Size = MaxSize[c] /\ ClassOf(MaxSize[c]) = c

\* The lists hold unallocated blocks of their size, and no block
\* follows two others: a block that is taken is on no list any more.
ListsSound ==
  \A c \in Classes :
    /\ Top[c] \in Free(c) \cup {Null}
    /\ \A a \in Free(c) :
         /\ bd[a].Next \in Free(c) \cup {Null}
         /\ bd[a].Next # Null => bd[a].Next # Top[c]
         /\ \A b \in Free(c) : bd[a].Next = bd[b].Next /\ bd[a].Next # Null
                                 => a = b

\* The inductive invariant of the pool (cfe_esmempool.c:307-586).
PoolInv == TypeOK /\ Placed /\ BlocksDisjoint /\ SizesExact /\ ListsSound

\* The blocks on a list, followed from Top.
OnList(c) ==
  LET reach[i \in 0 .. Cardinality(Blocks)] ==
        IF i = 0 THEN {Top[c]} \ {Null}
        ELSE reach[i - 1] \cup ({bd[a].Next : a \in reach[i - 1]} \ {Null})
  IN reach[Cardinality(Blocks)]

\* No returned block is lost: each list holds exactly the free blocks of its
\* size, and NumFree and NumCreated count them (cfe_esmempool.c:358-421,
\* 565-568).
ListsComplete ==
  \A c \in Classes :
    /\ OnList(c) = Free(c)
    /\ NumFree[c] = Cardinality(Free(c))
    /\ NumCreated[c] =
         Cardinality({a \in Blocks : ClassOf(bd[a].Size) = c})

Live == {[addr |-> a, size |-> bd[a].Size] :
           a \in {x \in Blocks : bd[x].Allocated}}
Abstract == INSTANCE Allocator WITH First <- PoolHandle + PoolT + BdT,
                                    Last <- End, live <- Live

\* The pool implements the abstract allocator (cfe_esmempool.c:307-586).
ImplementsAllocator == Abstract!Spec

\* A block whose check pattern is lost while a user has it is taken back by no
\* call and never handed out again (cfe_esmempool.c:543-550).  It is not so
\* for a free block: CFE_ES_GetPoolBuf hands it out without a look at its
\* pattern and writes a new one (cfe_esmempool.c:358-374).
DamagedStayOut ==
  [][\A a \in Blocks : bd[a].Allocated /\ ~bd[a].Intact => bd'[a] = bd[a]]_vars

-----------------------------------------------------------------------------
(* The invariant behind ListsComplete. *)

\* A walk along the list of c from Top passes every free block of its size:
\* no other set of free blocks has the first one and all that follow.
ListLeadsToAll(c) ==
  \A S \in SUBSET Free(c) :
    /\ Top[c] # Null => Top[c] \in S
    /\ \A a \in S : bd[a].Next # Null => bd[a].Next \in S
    => S = Free(c)

CountedInv ==
  \A c \in Classes :
    /\ ListLeadsToAll(c)
    /\ NumFree[c] = Cardinality(Free(c))
    /\ NumCreated[c] =
         Cardinality({a \in Blocks : ClassOf(bd[a].Size) = c})
=============================================================================
