----------------------------- MODULE SoftwareBus -----------------------------
(***************************************************************************)
(* The cFE Software Bus (cfe-core/src/sb): pipes, subscriptions, message   *)
(* buffers with their use counts, and the calls several application tasks  *)
(* make concurrently.                                                      *)
(*                                                                         *)
(* A step is the code between two places where the shared-data mutex is    *)
(* free, or one of the accesses CFE_SB_RcvMsg makes without that mutex.    *)
(* Each application is one task, its main task, so an element of Apps is   *)
(* both the AppId that owns a pipe and the thread that calls the API, and  *)
(* an application receives from its own pipes only.                        *)
(*                                                                         *)
(* Left out: event messages, peak and error counters (telemetry that no    *)
(* call reads back), names, sizes, quality of service, subscription        *)
(* reports, and errors of the operating system's queues other than full,   *)
(* empty and time-out.  A call the code refuses changes nothing else, so   *)
(* it is a stuttering step here.                                           *)
(***************************************************************************)
EXTENDS Integers, Sequences, FiniteSets

CONSTANTS
  Apps,         \* application tasks
  PendForever,  \* those that receive with CFE_SB_PEND_FOREVER
  Pipes,        \* slots of CFE_SB.PipeTbl
  MsgIds,       \* message identifiers
  TlmIds,       \* those whose packet type is telemetry
  Bufs,         \* message buffers the memory pool can hold
  Depths,       \* pipe depths applications ask for
  MsgLims,      \* message limits applications ask for
  MaxMsgIds,    \* CFE_PLATFORM_SB_MAX_MSG_IDS
  MaxDests,     \* CFE_PLATFORM_SB_MAX_DEST_PER_PKT
  SeqMod,       \* modulus of the telemetry sequence count (2^14 on board)
  NoApp, NoPipe, NoBuf, NoDest, NoContent

ASSUME ConstAssumption ==
  /\ PendForever \subseteq Apps
  /\ Depths \subseteq Nat \ {0}
  /\ MsgLims \subseteq Nat
  /\ TlmIds \subseteq MsgIds
  /\ MaxMsgIds \in Nat
  /\ MaxDests \in Nat
  /\ SeqMod \in Nat \ {0}

ASSUME PipesAssumption ==
  /\ IsFiniteSet(Pipes)
  /\ IsFiniteSet(Apps)
  /\ NoPipe \notin Pipes
  /\ Apps \cap Pipes = {}
  /\ NoBuf \notin Bufs
  /\ NoApp \notin Apps

Content == [msg : MsgIds, seq : 0 .. SeqMod - 1, from : Apps]
Dest == [lim : MsgLims, active : BOOLEAN, cnt : Nat]

ASSUME NoneAssumption == NoContent \notin Content /\ NoDest \notin Dest

VARIABLES
  inUse, owner, depth, ignoreMine,   \* fields of CFE_SB_PipeD_t, by pipe
  queue,                             \* its OS queue: a sequence of buffers
  CurrentBuff, ToTrashBuff,          \* fields of CFE_SB_PipeD_t, by pipe
  statInUse,                         \* PipeDepthStats[pipe].InUse
  rtbl,                              \* MsgId of each routing table entry
  dest,                              \* CFE_SB_DestinationD_t by MsgId and pipe
  seqCnt,                            \* CFE_SB_RouteEntry_t.SeqCnt by MsgId
  UseCount, content,                 \* CFE_SB_BufferD_t; 0: in the pool
  pc, pipeOf, hand, idx, deleting,   \* the call each application is in
  zc                                 \* the zero-copy buffer it holds

pipeVars == <<inUse, owner, depth, ignoreMine>>
routeVars == <<rtbl, dest, seqCnt>>
bufVars == <<UseCount, content>>
callVars == <<pc, pipeOf, hand, idx, deleting>>
vars == <<inUse, owner, depth, ignoreMine, queue, CurrentBuff, ToTrashBuff,
          statInUse, rtbl, dest, seqCnt, UseCount, content,
          pc, pipeOf, hand, idx, deleting, zc>>

Locations == {"idle", "rcvClear", "rcvGet", "rcvFinish",
              "delUnsub", "delScan", "delDrain", "delFinal",
              "zcSend", "zcFree"}

Image(s) == {s[i] : i \in DOMAIN s}

Init ==
  /\ inUse = [p \in Pipes |-> FALSE]
  /\ owner = [p \in Pipes |-> NoApp]
  /\ depth = [p \in Pipes |-> 0]
  /\ ignoreMine = [p \in Pipes |-> FALSE]
  /\ queue = [p \in Pipes |-> <<>>]
  /\ CurrentBuff = [p \in Pipes |-> NoBuf]
  /\ ToTrashBuff = [p \in Pipes |-> NoBuf]
  /\ statInUse = [p \in Pipes |-> 0]
  /\ rtbl = <<>>
  /\ dest = [m \in MsgIds |-> [p \in Pipes |-> NoDest]]
  /\ seqCnt = [m \in MsgIds |-> 0]
  /\ UseCount = [b \in Bufs |-> 0]
  /\ content = [b \in Bufs |-> NoContent]
  /\ pc = [a \in Apps |-> "idle"]
  /\ pipeOf = [a \in Apps |-> NoPipe]
  /\ hand = [a \in Apps |-> NoBuf]
  /\ idx = [a \in Apps |-> 0]
  /\ deleting = [a \in Apps |-> FALSE]
  /\ zc = [a \in Apps |-> NoBuf]

-----------------------------------------------------------------------------
(* Buffers. *)

\* Mutant: the block goes back to the pool one reference early.
DecrBufUseCnt_early(b) ==
  IF b # NoBuf /\ UseCount[b] > 0
  THEN /\ UseCount' = [UseCount EXCEPT ![b] = @ - 1]
       /\ content' = IF UseCount[b] <= 2
                     THEN [content EXCEPT ![b] = NoContent] ELSE content
  ELSE UNCHANGED bufVars

\* CFE_SB_DecrBufUseCnt: one reference less, and back to the pool at zero.
\* A pooled block has no content.
DecrBufUseCnt(b) ==
  IF b # NoBuf /\ UseCount[b] > 0
  THEN /\ UseCount' = [UseCount EXCEPT ![b] = @ - 1]
       /\ content' = IF UseCount[b] = 1
                     THEN [content EXCEPT ![b] = NoContent] ELSE content
  ELSE UNCHANGED bufVars

-----------------------------------------------------------------------------
(* Pipes and subscriptions: each call is one critical section. *)

OwnedBy(p, a) == inUse[p] /\ owner[p] = a

\* Mutant: the depth is stored in the depth statistic of the slot.
CreatePipe_depth(a, p, d) ==
  /\ pc[a] = "idle" /\ ~inUse[p]
  /\ inUse' = [inUse EXCEPT ![p] = TRUE]
  /\ owner' = [owner EXCEPT ![p] = a]
  /\ depth' = [depth EXCEPT ![p] = d]
  /\ statInUse' = [statInUse EXCEPT ![p] = d]
  /\ UNCHANGED <<ignoreMine, queue, CurrentBuff, ToTrashBuff, routeVars,
                 bufVars, callVars, zc>>

\* Opts is the one field of the slot that creation does not set.
CreatePipe(a, p, d) ==
  /\ pc[a] = "idle" /\ ~inUse[p]
  /\ inUse' = [inUse EXCEPT ![p] = TRUE]
  /\ owner' = [owner EXCEPT ![p] = a]
  /\ depth' = [depth EXCEPT ![p] = d]
  /\ queue' = [queue EXCEPT ![p] = <<>>]
  /\ CurrentBuff' = [CurrentBuff EXCEPT ![p] = NoBuf]
  /\ ToTrashBuff' = [ToTrashBuff EXCEPT ![p] = NoBuf]
  /\ statInUse' = [statInUse EXCEPT ![p] = 0]
  /\ UNCHANGED <<ignoreMine, routeVars, bufVars, callVars, zc>>

SetPipeOpts(a, p, ignore) ==
  /\ pc[a] = "idle" /\ OwnedBy(p, a)
  /\ ignoreMine' = [ignoreMine EXCEPT ![p] = ignore]
  /\ UNCHANGED <<inUse, owner, depth, queue, CurrentBuff, ToTrashBuff,
                 statInUse, routeVars, bufVars, callVars, zc>>

Subscribers(m) == {p \in Pipes : dest[m][p] # NoDest}

\* The routing table entry a first subscription takes stays taken, also when
\* the destination is refused after it.
Subscribe(a, m, p, lim) ==
  /\ pc[a] = "idle" /\ OwnedBy(p, a)
  /\ dest[m][p] = NoDest
  /\ m \in Image(rtbl) \/ Len(rtbl) < MaxMsgIds
  /\ rtbl' = IF m \in Image(rtbl) THEN rtbl ELSE Append(rtbl, m)
  /\ dest' = IF Cardinality(Subscribers(m)) < MaxDests
             THEN [dest EXCEPT ![m][p] =
                     [lim |-> lim, active |-> TRUE, cnt |-> 0]]
             ELSE dest
  /\ UNCHANGED <<pipeVars, queue, CurrentBuff, ToTrashBuff, statInUse,
                 seqCnt, bufVars, callVars, zc>>

\* CFE_SB_UnsubscribeFull for a subscription that exists.
RemoveDest(m, p) == dest' = [dest EXCEPT ![m][p] = NoDest]

Unsubscribe(a, m, p) ==
  /\ pc[a] = "idle" /\ OwnedBy(p, a)
  /\ dest[m][p] # NoDest
  /\ RemoveDest(m, p)
  /\ UNCHANGED <<pipeVars, queue, CurrentBuff, ToTrashBuff, statInUse,
                 rtbl, seqCnt, bufVars, callVars, zc>>

\* The enable and disable route commands of the SB task.
SetRoute(m, p, act) ==
  /\ inUse[p] /\ dest[m][p] # NoDest
  /\ dest' = [dest EXCEPT ![m][p].active = act]
  /\ UNCHANGED <<pipeVars, queue, CurrentBuff, ToTrashBuff, statInUse,
                 rtbl, seqCnt, bufVars, callVars, zc>>

-----------------------------------------------------------------------------
(* Sending. *)

\* Mutant: the message limit is off by one.
Targets_limit(a, m) ==
  {p \in Subscribers(m) :
     /\ dest[m][p].active
     /\ ~(ignoreMine[p] /\ owner[p] = a)
     /\ dest[m][p].cnt <= dest[m][p].lim
     /\ Len(queue[p]) < depth[p]}

\* The destinations that take a message of a: active, not ignoring their
\* owner's own messages, below the message limit, with room in the queue.
Targets(a, m) ==
  {p \in Subscribers(m) :
     /\ dest[m][p].active
     /\ ~(ignoreMine[p] /\ owner[p] = a)
     /\ dest[m][p].cnt < dest[m][p].lim
     /\ Len(queue[p]) < depth[p]}

NextSeq(m) == (seqCnt[m] + 1) % SeqMod

\* CFE_SB_SendMsgFull from the point where it has a buffer with use count 1:
\* one reference for each queue that takes it, and the sender's dropped.
Deliver(a, m, b, inc) ==
  LET T == Targets(a, m)
      counted == m \in TlmIds /\ inc
      msg == [msg |-> m, seq |-> IF counted THEN NextSeq(m) ELSE 0, from |-> a]
  IN /\ seqCnt' = IF counted THEN [seqCnt EXCEPT ![m] = NextSeq(m)] ELSE seqCnt
     /\ queue' = [p \in Pipes |-> IF p \in T THEN Append(queue[p], b)
                                  ELSE queue[p]]
     /\ dest' = [dest EXCEPT ![m] = [p \in Pipes |->
                   IF p \in T THEN [dest[m][p] EXCEPT !.cnt = @ + 1]
                   ELSE dest[m][p]]]
     /\ statInUse' = [p \in Pipes |-> IF p \in T THEN statInUse[p] + 1
                                      ELSE statInUse[p]]
     /\ UseCount' = [UseCount EXCEPT ![b] = Cardinality(T)]
     /\ content' = [content EXCEPT ![b] = IF T = {} THEN NoContent ELSE msg]
     /\ UNCHANGED <<pipeVars, rtbl, CurrentBuff, ToTrashBuff>>

\* SendMsg (inc) and PassMsg; without a route or a free block they only count.
SendMsg(a, m, b, inc) ==
  /\ pc[a] = "idle"
  /\ m \in Image(rtbl)
  /\ UseCount[b] = 0
  /\ Deliver(a, m, b, inc)
  /\ UNCHANGED <<callVars, zc>>

-----------------------------------------------------------------------------
(* Zero copy: the application fills a buffer of the pool in place. *)

ZeroCopyGetPtr(a, b) ==
  /\ pc[a] = "idle" /\ zc[a] = NoBuf
  /\ UseCount[b] = 0
  /\ zc' = [zc EXCEPT ![a] = b]
  /\ UseCount' = [UseCount EXCEPT ![b] = 1]
  /\ UNCHANGED <<pipeVars, queue, CurrentBuff, ToTrashBuff, statInUse,
                 routeVars, content, callVars>>

\* ZeroCopyReleaseDesc, the first critical section of a send and a release.
ZeroCopyReleaseDesc(a, next) ==
  /\ pc[a] = "idle" /\ zc[a] # NoBuf
  /\ pc' = [pc EXCEPT ![a] = next]
  /\ UNCHANGED <<pipeVars, queue, CurrentBuff, ToTrashBuff, statInUse,
                 routeVars, bufVars, pipeOf, hand, idx, deleting, zc>>

ZeroCopyReleasePtr(a) ==
  /\ pc[a] = "zcFree"
  /\ UseCount' = [UseCount EXCEPT ![zc[a]] = 0]
  /\ zc' = [zc EXCEPT ![a] = NoBuf]
  /\ pc' = [pc EXCEPT ![a] = "idle"]
  /\ UNCHANGED <<pipeVars, queue, CurrentBuff, ToTrashBuff, statInUse,
                 routeVars, content, pipeOf, hand, idx, deleting>>

ZeroCopySend(a, m, inc) ==
  /\ pc[a] = "zcSend"
  /\ IF m \in Image(rtbl)
     THEN Deliver(a, m, zc[a], inc)
     ELSE /\ DecrBufUseCnt(zc[a])
          /\ UNCHANGED <<pipeVars, queue, CurrentBuff, ToTrashBuff, statInUse,
                         routeVars>>
  /\ zc' = [zc EXCEPT ![a] = NoBuf]
  /\ pc' = [pc EXCEPT ![a] = "idle"]
  /\ UNCHANGED <<pipeOf, hand, idx, deleting>>

-----------------------------------------------------------------------------
(* Receiving: the buffer of the last call goes to the trash and the queue is *)
(* read without the mutex; the counts are updated under it.                  *)

\* Mutant: the buffer of the last call is forgotten.
RcvSwap_forget(a, p) ==
  /\ pipeOf' = [pipeOf EXCEPT ![a] = p]
  /\ pc' = [pc EXCEPT ![a] = "rcvClear"]
  /\ UNCHANGED <<pipeVars, queue, CurrentBuff, ToTrashBuff, statInUse, routeVars,
                 bufVars, hand, idx, deleting, zc>>

RcvSwap(a, p) ==
  /\ ToTrashBuff' = [ToTrashBuff EXCEPT ![p] = CurrentBuff[p]]
  /\ pipeOf' = [pipeOf EXCEPT ![a] = p]
  /\ pc' = [pc EXCEPT ![a] = "rcvClear"]
  /\ UNCHANGED <<pipeVars, queue, CurrentBuff, statInUse, routeVars, bufVars,
                 hand, idx, deleting, zc>>

RcvMsg(a, p) == pc[a] = "idle" /\ OwnedBy(p, a) /\ RcvSwap(a, p)

RcvClear(a) ==
  /\ pc[a] = "rcvClear"
  /\ CurrentBuff' = [CurrentBuff EXCEPT ![pipeOf[a]] = NoBuf]
  /\ pc' = [pc EXCEPT ![a] = "rcvGet"]
  /\ UNCHANGED <<pipeVars, queue, ToTrashBuff, statInUse, routeVars, bufVars,
                 pipeOf, hand, idx, deleting, zc>>

\* Mutant: the newest message is taken.
RcvGet_newest(a) ==
  LET p == pipeOf[a] IN
  /\ pc[a] = "rcvGet"
  /\ queue[p] # <<>>
  /\ hand' = [hand EXCEPT ![a] = queue[p][Len(queue[p])]]
  /\ queue' = [queue EXCEPT ![p] = SubSeq(@, 1, Len(@) - 1)]
  /\ pc' = [pc EXCEPT ![a] = "rcvFinish"]
  /\ UNCHANGED <<pipeVars, CurrentBuff, ToTrashBuff, statInUse, routeVars,
                 bufVars, pipeOf, idx, deleting, zc>>

\* OS_QueueGet: the message at the head, or none when a poll finds the queue
\* empty or a time-out expires.  A task that pends forever stays in the call
\* while the queue is empty; the drain of a deletion is always a poll.
RcvGet(a) ==
  LET p == pipeOf[a] IN
  /\ pc[a] = "rcvGet"
  /\ queue[p] # <<>>
  /\ hand' = [hand EXCEPT ![a] = Head(queue[p])]
  /\ queue' = [queue EXCEPT ![p] = Tail(@)]
  /\ pc' = [pc EXCEPT ![a] = "rcvFinish"]
  /\ UNCHANGED <<pipeVars, CurrentBuff, ToTrashBuff, statInUse, routeVars,
                 bufVars, pipeOf, idx, deleting, zc>>

RcvNone(a) ==
  /\ pc[a] = "rcvGet"
  /\ a \in PendForever => deleting[a]
  /\ queue[pipeOf[a]] = <<>>
  /\ pc' = [pc EXCEPT ![a] = "rcvFinish"]
  /\ UNCHANGED <<pipeVars, queue, CurrentBuff, ToTrashBuff, statInUse,
                 routeVars, bufVars, pipeOf, hand, idx, deleting, zc>>

\* The message limit count goes down for the subscription there is now, which
\* need not be the one the message was sent to.
RcvFinish(a) ==
  LET p == pipeOf[a]
      b == hand[a]
      got == b # NoBuf
      m == content[b].msg
  IN
  /\ pc[a] = "rcvFinish"
  /\ DecrBufUseCnt(ToTrashBuff[p])
  /\ ToTrashBuff' = [ToTrashBuff EXCEPT ![p] = NoBuf]
  /\ CurrentBuff' = IF got THEN [CurrentBuff EXCEPT ![p] = b] ELSE CurrentBuff
  /\ dest' = IF got /\ dest[m][p] # NoDest /\ dest[m][p].cnt > 0
             THEN [dest EXCEPT ![m][p].cnt = @ - 1] ELSE dest
  /\ statInUse' = IF got THEN [statInUse EXCEPT ![p] = @ - 1] ELSE statInUse
  /\ hand' = [hand EXCEPT ![a] = NoBuf]
  /\ pc' = [pc EXCEPT ![a] = IF ~deleting[a] THEN "idle"
                             ELSE IF got THEN "delDrain" ELSE "delFinal"]
  /\ pipeOf' = IF deleting[a] THEN pipeOf ELSE [pipeOf EXCEPT ![a] = NoPipe]
  /\ UNCHANGED <<pipeVars, queue, rtbl, seqCnt, idx, deleting, zc>>

-----------------------------------------------------------------------------
(* Deleting a pipe: the mutex is given up around every unsubscription and    *)
(* every message drained.                                                    *)

\* Mutant: the scan skips the entry it should look at first.
Matches_skip(p, i) == {j \in i + 1 .. Len(rtbl) : dest[rtbl[j]][p] # NoDest}

\* Routing table entries from i on that still lead to p.
Matches(p, i) == {j \in i .. Len(rtbl) : dest[rtbl[j]][p] # NoDest}

\* The scan of the routing table stops at the next match, or ends and drops
\* the buffer in the trash.
Scan(a, p, i) ==
  /\ IF Matches(p, i) # {}
     THEN /\ \E j \in Matches(p, i) :
               /\ \A k \in Matches(p, i) : j <= k
               /\ idx' = [idx EXCEPT ![a] = j]
          /\ pc' = [pc EXCEPT ![a] = "delUnsub"]
          /\ UNCHANGED <<bufVars, ToTrashBuff>>
     ELSE /\ DecrBufUseCnt(ToTrashBuff[p])
          /\ ToTrashBuff' = [ToTrashBuff EXCEPT ![p] = NoBuf]
          /\ pc' = [pc EXCEPT ![a] = "delDrain"]
          /\ idx' = [idx EXCEPT ![a] = 0]
  /\ UNCHANGED <<pipeVars, queue, CurrentBuff, statInUse, hand, zc>>

DeletePipe(a, p) ==
  /\ pc[a] = "idle" /\ OwnedBy(p, a)
  /\ Scan(a, p, 1)
  /\ pipeOf' = [pipeOf EXCEPT ![a] = p]
  /\ deleting' = [deleting EXCEPT ![a] = TRUE]
  /\ UNCHANGED routeVars

DelUnsub(a) ==
  /\ pc[a] = "delUnsub"
  /\ RemoveDest(rtbl[idx[a]], pipeOf[a])
  /\ pc' = [pc EXCEPT ![a] = "delScan"]
  /\ UNCHANGED <<pipeVars, queue, CurrentBuff, ToTrashBuff, statInUse, rtbl,
                 seqCnt, bufVars, pipeOf, hand, idx, deleting, zc>>

DelScan(a) ==
  /\ pc[a] = "delScan"
  /\ Scan(a, pipeOf[a], idx[a] + 1)
  /\ UNCHANGED <<routeVars, pipeOf, deleting>>

DelDrain(a) == pc[a] = "delDrain" /\ RcvSwap(a, pipeOf[a])

DelFinal(a) ==
  LET p == pipeOf[a] IN
  /\ pc[a] = "delFinal"
  /\ inUse' = [inUse EXCEPT ![p] = FALSE]
  /\ queue' = [queue EXCEPT ![p] = <<>>]
  /\ CurrentBuff' = [CurrentBuff EXCEPT ![p] = NoBuf]
  /\ statInUse' = [statInUse EXCEPT ![p] = 0]
  /\ pc' = [pc EXCEPT ![a] = "idle"]
  /\ pipeOf' = [pipeOf EXCEPT ![a] = NoPipe]
  /\ deleting' = [deleting EXCEPT ![a] = FALSE]
  /\ UNCHANGED <<owner, depth, ignoreMine, ToTrashBuff, routeVars, bufVars,
                 hand, idx, zc>>

-----------------------------------------------------------------------------
\* Calls an application may start, and steps of the calls it is in.
Call(a) ==
  \/ \E p \in Pipes, d \in Depths : CreatePipe(a, p, d)
  \/ \E p \in Pipes, ignore \in BOOLEAN : SetPipeOpts(a, p, ignore)
  \/ \E m \in MsgIds, p \in Pipes, lim \in MsgLims : Subscribe(a, m, p, lim)
  \/ \E m \in MsgIds, p \in Pipes : Unsubscribe(a, m, p)
  \/ \E m \in MsgIds, b \in Bufs, inc \in BOOLEAN : SendMsg(a, m, b, inc)
  \/ \E b \in Bufs : ZeroCopyGetPtr(a, b)
  \/ ZeroCopyReleaseDesc(a, "zcSend")
  \/ ZeroCopyReleaseDesc(a, "zcFree")
  \/ \E p \in Pipes : RcvMsg(a, p)
  \/ \E p \in Pipes : DeletePipe(a, p)

Step(a) ==
  \/ ZeroCopyReleasePtr(a)
  \/ \E m \in MsgIds, inc \in BOOLEAN : ZeroCopySend(a, m, inc)
  \/ RcvClear(a)
  \/ RcvGet(a)
  \/ RcvNone(a)
  \/ RcvFinish(a)
  \/ DelUnsub(a)
  \/ DelScan(a)
  \/ DelDrain(a)
  \/ DelFinal(a)

Next ==
  \/ \E a \in Apps : Call(a) \/ Step(a)
  \/ \E m \in MsgIds, p \in Pipes, act \in BOOLEAN : SetRoute(m, p, act)

Spec == Init /\ [][Next]_vars

-----------------------------------------------------------------------------
(* Properties. *)

\* Every variable has its type.
TypeOK ==
  /\ inUse \in [Pipes -> BOOLEAN]
  /\ owner \in [Pipes -> Apps \cup {NoApp}]
  /\ depth \in [Pipes -> Nat]
  /\ ignoreMine \in [Pipes -> BOOLEAN]
  /\ queue \in [Pipes -> Seq(Bufs)]
  /\ CurrentBuff \in [Pipes -> Bufs \cup {NoBuf}]
  /\ ToTrashBuff \in [Pipes -> Bufs \cup {NoBuf}]
  /\ statInUse \in [Pipes -> Int]
  /\ rtbl \in Seq(MsgIds)
  /\ dest \in [MsgIds -> [Pipes -> Dest \cup {NoDest}]]
  /\ seqCnt \in [MsgIds -> 0 .. SeqMod - 1]
  /\ UseCount \in [Bufs -> Nat]
  /\ content \in [Bufs -> Content \cup {NoContent}]
  /\ pc \in [Apps -> Locations]
  /\ pipeOf \in [Apps -> Pipes \cup {NoPipe}]
  /\ hand \in [Apps -> Bufs \cup {NoBuf}]
  /\ idx \in [Apps -> Nat]
  /\ deleting \in [Apps -> BOOLEAN]
  /\ zc \in [Apps -> Bufs \cup {NoBuf}]

\* Where a buffer can be on its way through pipe p: queued, taken from the
\* queue by the receiver, handed to the application, in the trash.
InHand(p) == {hand[a] : a \in {x \in Apps : pipeOf[x] = p}} \ {NoBuf}
OnPipe(b, p) ==
  b \in Image(queue[p]) \cup InHand(p) \cup {CurrentBuff[p], ToTrashBuff[p]}

Holders(b) == {p \in Pipes : OnPipe(b, p)} \cup {a \in Apps : zc[a] = b}

\* The use count of a buffer is the number of pipes that hold it, plus one
\* while an application fills it in place.  So a buffer no pipe holds is back
\* in the pool (none leaks) and a buffer some pipe holds is not (none is
\* reused under a reader), whatever calls interleave.
UseCountExact == \A b \in Bufs : UseCount[b] = Cardinality(Holders(b))

\* A message that is queued or in the hands of an application is intact: its
\* buffer still has the contents some sender gave it.
HeldIntact ==
  \A p \in Pipes, b \in Bufs : OnPipe(b, p) => content[b] # NoContent

Pending(m, p) ==
  {i \in DOMAIN queue[p] : content[queue[p][i]].msg = m}
PendingInHand(m, p) == {b \in InHand(p) : content[b].msg = m}

\* The message limit count of a subscription never exceeds its limit, nor the
\* messages of that identifier that are on the pipe: it cannot block a sender
\* for messages that are gone, also after an unsubscription and a new
\* subscription while messages were queued.
LimitCountSound ==
  \A m \in MsgIds, p \in Pipes : dest[m][p] # NoDest =>
    /\ dest[m][p].cnt <= dest[m][p].lim
    /\ dest[m][p].cnt <=
         Cardinality(Pending(m, p)) + Cardinality(PendingInHand(m, p))

\* The depth statistic of a pipe counts the messages sent to it and not yet
\* received; as an unsigned field it must never be decremented below zero.
DepthStatExact ==
  \A p \in Pipes :
    statInUse[p] = Len(queue[p]) + Cardinality(InHand(p))

\* A slot that is not in use has no subscription and holds no buffer, so the
\* next pipe created there starts empty.
ReleasedPipeClean ==
  \A p \in Pipes : ~inUse[p] =>
    /\ \A m \in MsgIds : dest[m][p] = NoDest
    /\ \A b \in Bufs : ~OnPipe(b, p)

\* The bus implements PubSub: a message on its way is the contents of the
\* buffer the receiver has in hand, then of those in the queue.
FifoOf(p) ==
  LET taken == {a \in Apps : pipeOf[a] = p /\ hand[a] # NoBuf}
      queued == [i \in DOMAIN queue[p] |-> content[queue[p][i]]]
  IN IF taken = {} THEN queued
     ELSE <<content[hand[CHOOSE a \in taken : TRUE]]>> \o queued

ViewOf(p) == IF CurrentBuff[p] = NoBuf THEN NoContent
             ELSE content[CurrentBuff[p]]

Bus == INSTANCE PubSub WITH
  Msgs <- Content, Nothing <- NoContent,
  subs <- [m \in MsgIds |-> Subscribers(m)],
  fifo <- [p \in Pipes |-> FifoOf(p)],
  view <- [p \in Pipes |-> ViewOf(p)]

ImplementsPubSub == Bus!Spec

-----------------------------------------------------------------------------
(* Fairness: a task keeps executing the call it is in, and the main loop of  *)
(* an application that is not waiting in a call returns to CFE_SB_RcvMsg for *)
(* each of its pipes.  The call ends without a message only for those that   *)
(* poll or use a time-out (to_lab_app.c, ci_lab_app.c); the others           *)
(* (sample_app.c, the core services' tasks) stay in it.                      *)

FairSpec ==
  /\ Spec
  /\ \A a \in Apps : WF_vars(Step(a))
  /\ \A a \in Apps, p \in Pipes : SF_vars(RcvMsg(a, p))

\* Deleting a pipe terminates, although the loop that drains it gives up the
\* mutex before every message and senders keep sending.
DeleteTerminates == \A a \in Apps : deleting[a] ~> ~deleting[a]

\* A task that waits forever for a message on an empty queue.
WaitsForever(a) ==
  /\ a \in PendForever /\ ~deleting[a]
  /\ pc[a] = "rcvGet" /\ queue[pipeOf[a]] = <<>>

\* Every message that is sent is eventually disposed of: its buffer goes back
\* to the pool, or the last place it is kept in is the trash of a task that
\* waits forever for its next message.  A task that polls, or waits with a
\* time-out, keeps no buffer for good.
BuffersRecycled ==
  \A b \in Bufs : (\E p \in Pipes : OnPipe(b, p)) ~>
    \/ UseCount[b] = 0
    \/ \E a \in Apps : WaitsForever(a) /\ ToTrashBuff[pipeOf[a]] = b

-----------------------------------------------------------------------------
(* The inductive invariant behind UseCountExact and ReleasedPipeClean.       *)

Receiving == {"rcvClear", "rcvGet", "rcvFinish"}
Unrouting == {"delUnsub", "delScan"}
Draining == {"delDrain", "delFinal"}

\* A call works on a pipe of the application that makes it, so no two
\* applications ever work on one pipe.
CallsOwnPipe ==
  \A a \in Apps :
    /\ (pipeOf[a] # NoPipe) <=> pc[a] \in Receiving \cup Unrouting \cup Draining
    /\ pipeOf[a] # NoPipe => OwnedBy(pipeOf[a], a)
    /\ pc[a] \in Unrouting \cup Draining => deleting[a]
    /\ deleting[a] => pipeOf[a] # NoPipe
    /\ hand[a] # NoBuf => pc[a] = "rcvFinish"
    /\ pc[a] \in {"zcSend", "zcFree"} => zc[a] # NoBuf

\* Where the buffers of a pipe are at each step of a receive.
BuffersInStep ==
  /\ \A a \in Apps, p \in Pipes : pipeOf[a] = p =>
       /\ pc[a] = "rcvClear" => ToTrashBuff[p] = CurrentBuff[p]
       /\ pc[a] \in {"rcvGet", "rcvFinish", "delFinal"} => CurrentBuff[p] = NoBuf
       /\ deleting[a] /\ pc[a] = "rcvFinish" /\ hand[a] = NoBuf
            => queue[p] = <<>>
       /\ pc[a] = "delFinal" => queue[p] = <<>>
  /\ \A p \in Pipes : ToTrashBuff[p] # NoBuf =>
       \E a \in Apps : pipeOf[a] = p /\ pc[a] \in Receiving

\* A buffer is at one place of a pipe.
OnePlace ==
  \A p \in Pipes :
    /\ \A i, j \in DOMAIN queue[p] : queue[p][i] = queue[p][j] => i = j
    /\ \A i \in DOMAIN queue[p] :
         /\ queue[p][i] # CurrentBuff[p] /\ queue[p][i] # ToTrashBuff[p]
         /\ \A a \in Apps : pipeOf[a] = p => hand[a] # queue[p][i]
    /\ \A a \in Apps : pipeOf[a] = p /\ hand[a] # NoBuf =>
         hand[a] # CurrentBuff[p] /\ hand[a] # ToTrashBuff[p]

\* The routing table lists every message identifier with a subscription, and
\* while a pipe is deleted the entries scanned so far do not lead to it.
RoutesScanned ==
  /\ \A m \in MsgIds, p \in Pipes : dest[m][p] # NoDest =>
       m \in Image(rtbl) /\ inUse[p]
  /\ \A a \in Apps, p \in Pipes : pipeOf[a] = p /\ deleting[a] =>
       /\ pc[a] \in Unrouting =>
            /\ idx[a] \in DOMAIN rtbl
            /\ \A k \in DOMAIN rtbl :
                 k < idx[a] => dest[rtbl[k]][p] = NoDest
       /\ pc[a] = "delScan" => dest[rtbl[idx[a]]][p] = NoDest
       /\ pc[a] \notin Unrouting => \A m \in MsgIds : dest[m][p] = NoDest

\* An application alone holds the buffer it fills in place.
ZeroCopyAlone == \A a \in Apps : zc[a] # NoBuf => UseCount[zc[a]] = 1

IdlePipeEmpty ==
  \A p \in Pipes : ~inUse[p] =>
    queue[p] = <<>> /\ CurrentBuff[p] = NoBuf /\ ToTrashBuff[p] = NoBuf

IInv ==
  /\ TypeOK
  /\ CallsOwnPipe
  /\ BuffersInStep
  /\ OnePlace
  /\ RoutesScanned
  /\ ZeroCopyAlone
  /\ IdlePipeEmpty
  /\ HeldIntact
  /\ UseCountExact

=============================================================================
