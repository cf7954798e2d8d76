------------------------------ MODULE SBRouting ------------------------------
(***************************************************************************)
(* The routing table of the cFE Software Bus as it lies in memory: a list  *)
(* of destination blocks for each message identifier, linked by Prev and   *)
(* Next, the blocks taken from the memory pool and returned to it.         *)
(*                                                                         *)
(* SoftwareBus takes a subscription as a value; here it is a block that    *)
(* other code may still point to.  Two calls do that.  CFE_SB_DeletePipe   *)
(* gives up the mutex while it stands on a block it asks to be removed,    *)
(* and the route commands, executed by the task of the Software Bus, walk  *)
(* the list and write the block without the mutex.                         *)
(*                                                                         *)
(* Each pipe has a task of its own that makes the calls about it, which    *)
(* interleaves more than tasks that own several pipes.  Messages are left  *)
(* out, and so are zero-copy descriptors, which share the block size of    *)
(* destinations.                                                           *)
(***************************************************************************)
EXTENDS Naturals, Sequences, FiniteSets

CONSTANTS
  Pipes,        \* slots of CFE_SB.PipeTbl
  MsgIds,       \* message identifiers
  Blocks,       \* what the pool can give to destinations
  MaxMsgIds,    \* CFE_PLATFORM_SB_MAX_MSG_IDS
  MaxDests,     \* CFE_PLATFORM_SB_MAX_DEST_PER_PKT
  NULL, NoPipe

ASSUME RoutingAssumption ==
  /\ MaxMsgIds \in Nat /\ MaxDests \in Nat
  /\ NULL \notin Blocks /\ NoPipe \notin Pipes
  /\ IsFiniteSet(Blocks)

VARIABLES
  inUse,                        \* PipeTbl[p].InUse
  RoutingTbl,                   \* MsgId of each entry in use
  ListHeadPtr, Destinations,    \* fields of CFE_SB_RouteEntry_t, by MsgId
  PipeId, Active, Prev, Next,   \* fields of CFE_SB_DestinationD_t, by block
  taken,                        \* whether the pool has given the block out
  pc, idx, DestPtr,             \* the deletion each pipe is in
  cpc, cmd, cPtr,               \* the route command of the SB task
  crashed                       \* a NULL pointer was followed

entryVars == <<RoutingTbl, ListHeadPtr, Destinations>>
blockVars == <<PipeId, Active, Prev, Next, taken>>
callVars == <<pc, idx, DestPtr>>
cmdVars == <<cpc, cmd, cPtr>>
vars == <<inUse, entryVars, blockVars, callVars, cmdVars, crashed>>

Ptr == Blocks \cup {NULL}
Commands == [msg : MsgIds, pipe : Pipes, active : BOOLEAN]
NoCommand == [msg |-> CHOOSE m \in MsgIds : TRUE, pipe |-> NoPipe,
              active |-> TRUE]

Init ==
  /\ inUse = [p \in Pipes |-> FALSE]
  /\ RoutingTbl = <<>>
  /\ ListHeadPtr = [m \in MsgIds |-> NULL]
  /\ Destinations = [m \in MsgIds |-> 0]
  /\ PipeId = [b \in Blocks |-> NoPipe]
  /\ Active = [b \in Blocks |-> FALSE]
  /\ Prev = [b \in Blocks |-> NULL]
  /\ Next = [b \in Blocks |-> NULL]
  /\ taken = [b \in Blocks |-> FALSE]
  /\ pc = [p \in Pipes |-> "idle"]
  /\ idx = [p \in Pipes |-> 0]
  /\ DestPtr = [p \in Pipes |-> NULL]
  /\ cpc = "idle" /\ cmd = NoCommand /\ cPtr = NULL
  /\ crashed = FALSE

-----------------------------------------------------------------------------
(* Lists. *)

\* What a walk that starts at c visits: the least set that has c and, with a
\* block, the block after it.
From(c) ==
  {b \in Blocks : \A S \in SUBSET Blocks :
     c \in S /\ (\A x \in S : Next[x] # NULL => Next[x] \in S) => b \in S}

\* The blocks a walk for p along the list from c can stop at.
Found(c, p) == IF c = NULL THEN {} ELSE {b \in From(c) : PipeId[b] = p}

IsRouted(m) == \E i \in DOMAIN RoutingTbl : RoutingTbl[i] = m

\* CFE_SB_AddDest: block b becomes the head of the list of m.
AddDest(m, b, p) ==
  LET head == ListHeadPtr[m] IN
  /\ PipeId' = [PipeId EXCEPT ![b] = p]
  /\ Active' = [Active EXCEPT ![b] = TRUE]
  /\ Next' = [Next EXCEPT ![b] = head]
  /\ Prev' = IF head = NULL THEN [Prev EXCEPT ![b] = NULL]
             ELSE [Prev EXCEPT ![b] = NULL, ![head] = b]
  /\ ListHeadPtr' = [ListHeadPtr EXCEPT ![m] = b]
  /\ taken' = [taken EXCEPT ![b] = TRUE]
  /\ Destinations' = [Destinations EXCEPT ![m] = @ + 1]

\* Mutant: the next node keeps its Prev when the first node is removed.
RemoveDest_prev(m, b) ==
  LET before == Prev[b]
      after == Next[b]
  IN
  /\ ListHeadPtr' = IF before = NULL THEN [ListHeadPtr EXCEPT ![m] = after]
                    ELSE ListHeadPtr
  /\ Next' = [x \in Blocks |-> IF x = b THEN NULL
                               ELSE IF x = before THEN after ELSE Next[x]]
  /\ Prev' = [x \in Blocks |-> IF x = b THEN NULL
                               ELSE IF x = after /\ before # NULL
                                    THEN before ELSE Prev[x]]
  /\ taken' = [taken EXCEPT ![b] = FALSE]
  /\ Destinations' = [Destinations EXCEPT ![m] = @ - 1]

\* CFE_SB_RemoveDest and CFE_SB_PutDestinationBlk: the neighbours of b are
\* linked to each other, and b returns to the pool with both links NULL.  The
\* pool keeps its own links outside the block.
RemoveDest(m, b) ==
  LET before == Prev[b]
      after == Next[b]
  IN
  /\ ListHeadPtr' = IF before = NULL THEN [ListHeadPtr EXCEPT ![m] = after]
                    ELSE ListHeadPtr
  /\ Next' = [x \in Blocks |-> IF x = b THEN NULL
                               ELSE IF x = before THEN after ELSE Next[x]]
  /\ Prev' = [x \in Blocks |-> IF x = b THEN NULL
                               ELSE IF x = after THEN before ELSE Prev[x]]
  /\ taken' = [taken EXCEPT ![b] = FALSE]
  /\ Destinations' = [Destinations EXCEPT ![m] = @ - 1]

-----------------------------------------------------------------------------
(* Calls of the applications, each under the mutex. *)

CreatePipe(p) ==
  /\ pc[p] = "idle" /\ ~inUse[p]
  /\ inUse' = [inUse EXCEPT ![p] = TRUE]
  /\ UNCHANGED <<entryVars, blockVars, callVars, cmdVars, crashed>>

\* A new message identifier takes an entry of the routing table, and keeps it
\* when the pool has no block for the destination.
Subscribe(p, m) ==
  /\ pc[p] = "idle" /\ inUse[p]
  /\ Found(ListHeadPtr[m], p) = {}
  /\ \/ IsRouted(m) /\ UNCHANGED RoutingTbl
     \/ /\ ~IsRouted(m) /\ Len(RoutingTbl) < MaxMsgIds
        /\ RoutingTbl' = Append(RoutingTbl, m)
  /\ IF Destinations[m] < MaxDests /\ \E b \in Blocks : ~taken[b]
     THEN \E b \in Blocks : ~taken[b] /\ AddDest(m, b, p)
     ELSE UNCHANGED <<ListHeadPtr, Destinations, blockVars>>
  /\ UNCHANGED <<inUse, callVars, cmdVars, crashed>>

\* The body of CFE_SB_UnsubscribeFull for a routed identifier: its loop reads
\* the head of the list before it looks whether there is one.
Unroute(m, p) ==
  IF ListHeadPtr[m] = NULL
  THEN crashed' = TRUE /\ UNCHANGED <<entryVars, blockVars>>
  ELSE /\ IF Found(ListHeadPtr[m], p) = {}
          THEN UNCHANGED <<ListHeadPtr, Destinations, blockVars>>
          ELSE /\ \E b \in Found(ListHeadPtr[m], p) : RemoveDest(m, b)
               /\ UNCHANGED <<PipeId, Active>>
       /\ UNCHANGED <<RoutingTbl, crashed>>

Unsubscribe(p, m) ==
  /\ pc[p] = "idle" /\ inUse[p] /\ IsRouted(m)
  /\ Unroute(m, p)
  /\ UNCHANGED <<inUse, callVars, cmdVars>>

-----------------------------------------------------------------------------
(* CFE_SB_DeletePipeFull: its search for destinations of p. *)

\* Mutant: the search stops at the first list it leaves.
Search_stop(p, i, c) ==
  IF Found(c, p) # {}
  THEN /\ \E b \in Found(c, p) : DestPtr' = [DestPtr EXCEPT ![p] = b]
       /\ pc' = [pc EXCEPT ![p] = "unsub"]
       /\ idx' = [idx EXCEPT ![p] = i]
  ELSE /\ pc' = [pc EXCEPT ![p] = "drain"]
       /\ UNCHANGED <<idx, DestPtr>>

\* The search goes on along the list from c, then in the lists of the entries
\* after the i-th; it stops at a destination of p, or ends.
Search(p, i, c) ==
  LET Hits(j) == Found(IF j = i THEN c ELSE ListHeadPtr[RoutingTbl[j]], p)
      entries == {j \in 0 .. Len(RoutingTbl) : j >= i /\ Hits(j) # {}}
  IN IF entries = {}
     THEN /\ pc' = [pc EXCEPT ![p] = "drain"]
          /\ UNCHANGED <<idx, DestPtr>>
     ELSE \E j \in entries :
            /\ \A k \in entries : j <= k
            /\ \E b \in Hits(j) : DestPtr' = [DestPtr EXCEPT ![p] = b]
            /\ idx' = [idx EXCEPT ![p] = j]
            /\ pc' = [pc EXCEPT ![p] = "unsub"]

DeletePipe(p) ==
  /\ pc[p] = "idle" /\ inUse[p]
  /\ Search(p, 0, NULL)
  /\ UNCHANGED <<inUse, entryVars, blockVars, cmdVars, crashed>>

\* The mutex is given up and CFE_SB_UnsubscribeWithAppId takes it.
DelUnsub(p) ==
  /\ pc[p] = "unsub"
  /\ Unroute(RoutingTbl[idx[p]], p)
  /\ pc' = [pc EXCEPT ![p] = "next"]
  /\ UNCHANGED <<inUse, idx, DestPtr, cmdVars>>

\* With the mutex again, the search goes to the Next of the block it was on,
\* which is in the pool by now, or taken for another destination.
DelNext(p) ==
  /\ pc[p] = "next"
  /\ Search(p, idx[p], Next[DestPtr[p]])
  /\ UNCHANGED <<inUse, entryVars, blockVars, cmdVars, crashed>>

\* The messages are drained; the slot is free.
DelFinal(p) ==
  /\ pc[p] = "drain"
  /\ pc' = [pc EXCEPT ![p] = "idle"]
  /\ idx' = [idx EXCEPT ![p] = 0]
  /\ DestPtr' = [DestPtr EXCEPT ![p] = NULL]
  /\ inUse' = [inUse EXCEPT ![p] = FALSE]
  /\ UNCHANGED <<entryVars, blockVars, cmdVars, crashed>>

-----------------------------------------------------------------------------
(* CFE_SB_EnableRouteCmd and CFE_SB_DisableRouteCmd, in the task of the      *)
(* Software Bus, without the mutex: CFE_SB_GetDestPtr step by step.          *)

RouteCmd ==
  /\ cpc = "idle"
  /\ \E c \in Commands : inUse[c.pipe] /\ IsRouted(c.msg) /\ cmd' = c
  /\ cPtr' = ListHeadPtr[cmd'.msg]
  /\ cpc' = "test"
  /\ UNCHANGED <<inUse, entryVars, blockVars, callVars, crashed>>

CmdEnd == cpc' = "idle" /\ cmd' = NoCommand /\ cPtr' = NULL

CmdTest ==
  /\ cpc = "test"
  /\ \/ cPtr = NULL /\ CmdEnd
     \/ /\ cPtr # NULL
        /\ cpc' = IF PipeId[cPtr] = cmd.pipe THEN "write" ELSE "next"
        /\ UNCHANGED <<cmd, cPtr>>
  /\ UNCHANGED <<inUse, entryVars, blockVars, callVars, crashed>>

CmdNext ==
  /\ cpc = "next"
  /\ cPtr' = Next[cPtr] /\ cpc' = "test"
  /\ UNCHANGED <<inUse, entryVars, blockVars, callVars, cmd, crashed>>

CmdWrite ==
  /\ cpc = "write"
  /\ Active' = [Active EXCEPT ![cPtr] = cmd.active]
  /\ CmdEnd
  /\ UNCHANGED <<inUse, entryVars, PipeId, Prev, Next, taken, callVars, crashed>>

-----------------------------------------------------------------------------

Step ==
  \/ \E p \in Pipes :
       \/ CreatePipe(p)
       \/ \E m \in MsgIds : Subscribe(p, m) \/ Unsubscribe(p, m)
       \/ DeletePipe(p) \/ DelUnsub(p) \/ DelNext(p) \/ DelFinal(p)
  \/ RouteCmd \/ CmdTest \/ CmdNext \/ CmdWrite

\* Following NULL ends the program.
NextStep == ~crashed /\ Step

Spec == Init /\ [][NextStep]_vars

-----------------------------------------------------------------------------
(* Properties. *)

\* Every variable has its type.
TypeOK ==
  /\ inUse \in [Pipes -> BOOLEAN]
  /\ RoutingTbl \in Seq(MsgIds) /\ Len(RoutingTbl) <= MaxMsgIds
  /\ ListHeadPtr \in [MsgIds -> Ptr]
  /\ Destinations \in [MsgIds -> 0 .. MaxDests]
  /\ PipeId \in [Blocks -> Pipes \cup {NoPipe}]
  /\ Active \in [Blocks -> BOOLEAN]
  /\ Prev \in [Blocks -> Ptr]
  /\ Next \in [Blocks -> Ptr]
  /\ taken \in [Blocks -> BOOLEAN]
  /\ pc \in [Pipes -> {"idle", "unsub", "next", "drain"}]
  /\ idx \in [Pipes -> Nat]
  /\ DestPtr \in [Pipes -> Ptr]
  /\ cpc \in {"idle", "test", "next", "write"}
  /\ cmd \in Commands \cup {NoCommand}
  /\ cPtr \in Ptr
  /\ crashed \in BOOLEAN

List(m) == IF ListHeadPtr[m] = NULL THEN {} ELSE From(ListHeadPtr[m])

\* The lists stay what CFE_SB_SendMsgFull walks them for, whatever stale
\* pointers deletions and commands follow: Destinations blocks of its message
\* before a NULL, so that none is missed and the loop's own check for NULL
\* never strikes; one block for a pipe; each block the pool gave out in one
\* list and none of the others.
ListsSound ==
  /\ \A m \in MsgIds :
       /\ Cardinality(List(m)) = Destinations[m]
       /\ ListHeadPtr[m] # NULL => Prev[ListHeadPtr[m]] = NULL
       /\ \A b \in List(m) : Next[b] # NULL => Prev[Next[b]] = b
       /\ \A b, c \in List(m) : PipeId[b] = PipeId[c] => b = c
  /\ \A m, n \in MsgIds : m # n => List(m) \cap List(n) = {}
  /\ {b \in Blocks : taken[b]} = UNION {List(m) : m \in MsgIds}

RoutingInv == TypeOK /\ ListsSound

\* A block of a list belongs to a pipe in use: when a deletion ends, every
\* destination of the pipe is gone, although the search may have left the
\* list it was in.
RoutesLeadToPipes ==
  \A m \in MsgIds : \A b \in List(m) :
    /\ inUse[PipeId[b]]
    /\ pc[PipeId[b]] # "drain"

\* The comment in CFE_SB_UnsubscribeFull: "the value of 'ListHeadPtr' will not
\* be NULL by design".  An entry of the routing table outlives its last
\* destination.
ListHeadPtrNotNull == ~crashed

\* What cfe_sb_msg.h says of the route commands: they enable or disable the
\* destination given by the MsgId and the PipeId in the command, so they leave
\* every other destination as it is.
CommandKeepsOtherRoutes ==
  [][\A m \in MsgIds : \A b \in List(m) :
       CmdWrite /\ Active'[b] # Active[b]
         => m = cmd.msg /\ PipeId[b] = cmd.pipe]_vars

-----------------------------------------------------------------------------
(* The inductive invariant behind RoutingInv and RoutesLeadToPipes.         *)

\* A list belongs to an identifier that has an entry of the routing table.
ListsRouted == \A m \in MsgIds : ListHeadPtr[m] # NULL => IsRouted(m)

\* What a deletion has searched holds no destination of its pipe: the entries
\* before the one it is at, and that one too once it was unsubscribed from.
SearchedClean ==
  \A p \in Pipes : pc[p] \in {"unsub", "next"} =>
    /\ idx[p] \in 1 .. Len(RoutingTbl)
    /\ \A j \in 1 .. idx[p] : j < idx[p] \/ pc[p] = "next" =>
         \A b \in List(RoutingTbl[j]) : PipeId[b] # p

\* A destination is a pipe, and a route command follows no NULL.
DestinationsArePipes == \A m \in MsgIds : \A b \in List(m) : PipeId[b] \in Pipes
CommandAtBlock == cpc \in {"next", "write"} => cPtr # NULL

IInv ==
  /\ TypeOK
  /\ ListsSound
  /\ ListsRouted
  /\ SearchedClean
  /\ DestinationsArePipes
  /\ RoutesLeadToPipes
  /\ CommandAtBlock
=============================================================================
