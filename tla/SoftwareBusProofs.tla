--------------------------- MODULE SoftwareBusProofs ---------------------------
(***************************************************************************)
(* Proofs about SoftwareBus, for any number of applications, pipes,        *)
(* messages and buffers.                                                   *)
(***************************************************************************)
EXTENDS SoftwareBus, FiniteSetTheorems, TLAPS

LEMMA AppendFacts ==
  ASSUME NEW S, NEW s \in Seq(S), NEW e \in S
  PROVE  /\ Append(s, e) \in Seq(S)
         /\ DOMAIN s = 1 .. Len(s)
         /\ Len(s) \in Nat
         /\ DOMAIN Append(s, e) = 1 .. Len(s) + 1
         /\ \A i \in 1 .. Len(s) : Append(s, e)[i] = s[i]
         /\ Append(s, e)[Len(s) + 1] = e
  OBVIOUS

LEMMA TailFacts ==
  ASSUME NEW S, NEW s \in Seq(S), s # <<>>
  PROVE  /\ Tail(s) \in Seq(S)
         /\ Head(s) \in S
         /\ Head(s) = s[1]
         /\ DOMAIN s = 1 .. Len(s)
         /\ Len(s) \in Nat \ {0}
         /\ DOMAIN Tail(s) = 1 .. Len(s) - 1
         /\ \A i \in 1 .. Len(s) - 1 : Tail(s)[i] = s[i + 1]
  OBVIOUS

LEMMA DestFacts ==
  ASSUME NEW d \in Dest
  PROVE  /\ d.cnt \in Nat /\ d.lim \in MsgLims
         /\ [d EXCEPT !.cnt = @ + 1] \in Dest
         /\ d.cnt > 0 => [d EXCEPT !.cnt = @ - 1] \in Dest
         /\ \A act \in BOOLEAN : [d EXCEPT !.active = act] \in Dest
  BY DEF Dest

LEMMA DestUpdate ==
  ASSUME NEW f \in [MsgIds -> [Pipes -> Dest \cup {NoDest}]],
         NEW m \in MsgIds, NEW p \in Pipes, NEW d \in Dest \cup {NoDest}
  PROVE  [f EXCEPT ![m] = [f[m] EXCEPT ![p] = d]]
           \in [MsgIds -> [Pipes -> Dest \cup {NoDest}]]
  OBVIOUS

LEMMA TypeInit == Init => TypeOK
<1> USE ConstAssumption, PipesAssumption, NoneAssumption
<1> SUFFICES ASSUME Init PROVE TypeOK
  OBVIOUS
<1>1. <<>> \in Seq(Bufs) /\ <<>> \in Seq(MsgIds)
  OBVIOUS
<1> QED
  BY <1>1 DEF Init, TypeOK, Locations

LEMMA TypeStep ==
  ASSUME IInv, [Next]_vars
  PROVE  TypeOK'
<1> USE ConstAssumption, PipesAssumption, NoneAssumption
<1>0. TypeOK /\ CallsOwnPipe
  BY DEF IInv
<1>100. \A a \in Apps :
        /\ pc[a] \in Receiving \cup Unrouting \cup Draining => pipeOf[a] \in Pipes
        /\ pc[a] \in {"zcSend", "zcFree"} => zc[a] \in Bufs
  BY <1>0 DEF CallsOwnPipe, TypeOK
<1> USE <1>0 DEF TypeOK
<1>1. ASSUME NEW a \in Apps, NEW p \in Pipes, NEW d \in Depths,
             CreatePipe(a, p, d)
      PROVE  TypeOK'
  BY <1>1 DEF CreatePipe, routeVars, bufVars, callVars
<1>2. ASSUME NEW a \in Apps, NEW p \in Pipes, NEW ignore \in BOOLEAN,
             SetPipeOpts(a, p, ignore)
      PROVE  TypeOK'
  BY <1>2 DEF SetPipeOpts, routeVars, bufVars, callVars
<1>3. ASSUME NEW a \in Apps, NEW m \in MsgIds, NEW p \in Pipes,
             NEW lim \in MsgLims, Subscribe(a, m, p, lim)
      PROVE  TypeOK'
  <2>1. rtbl' \in Seq(MsgIds)
    BY <1>3 DEF Subscribe
  <2>2. dest' \in [MsgIds -> [Pipes -> Dest \cup {NoDest}]]
    <3>1. PICK d \in Dest : d = [lim |-> lim, active |-> TRUE, cnt |-> 0]
      BY DEF Dest
    <3>2. dest' = dest \/ dest' = [dest EXCEPT ![m] = [dest[m] EXCEPT ![p] = d]]
      BY <1>3, <3>1 DEF Subscribe
    <3>3. [dest EXCEPT ![m] = [dest[m] EXCEPT ![p] = d]]
            \in [MsgIds -> [Pipes -> Dest \cup {NoDest}]]
      BY <3>1, DestUpdate
    <3> QED
      BY <3>2, <3>3
  <2> QED
    BY <1>3, <2>1, <2>2 DEF Subscribe, pipeVars, bufVars, callVars
<1>4. ASSUME NEW a \in Apps, NEW m \in MsgIds, NEW p \in Pipes,
             Unsubscribe(a, m, p)
      PROVE  TypeOK'
  BY <1>4 DEF Unsubscribe, RemoveDest, pipeVars, bufVars, callVars
<1>5. ASSUME NEW m \in MsgIds, NEW p \in Pipes, NEW act \in BOOLEAN,
             SetRoute(m, p, act)
      PROVE  TypeOK'
  <2>0. dest[m][p] \in Dest
    BY <1>5 DEF SetRoute
  <2>1. [dest[m][p] EXCEPT !.active = act] \in Dest
    BY <2>0, DestFacts
  <2>2. dest' = [dest EXCEPT ![m] = [dest[m] EXCEPT ![p] =
                                       [dest[m][p] EXCEPT !.active = act]]]
    BY <1>5 DEF SetRoute
  <2>3. dest' \in [MsgIds -> [Pipes -> Dest \cup {NoDest}]]
    BY <2>1, <2>2, DestUpdate
  <2> QED
    BY <1>5, <2>3 DEF SetRoute, pipeVars, bufVars, callVars
<1>6. ASSUME NEW a \in Apps, NEW m \in MsgIds, NEW b \in Bufs,
             NEW inc \in BOOLEAN, Deliver(a, m, b, inc),
             UNCHANGED <<pipeOf, hand, idx, deleting>>,
             zc' \in [Apps -> Bufs \cup {NoBuf}], pc' \in [Apps -> Locations]
      PROVE  TypeOK'
  <2> DEFINE T == Targets(a, m)
  <2>1. T \subseteq Pipes /\ Cardinality(T) \in Nat
    BY FS_Subset, FS_CardinalityType DEF Targets, Subscribers
  <2>2. NextSeq(m) \in 0 .. SeqMod - 1
    BY DEF NextSeq
  <2>3. seqCnt' \in [MsgIds -> 0 .. SeqMod - 1]
    BY <1>6, <2>2 DEF Deliver
  <2>4. queue' \in [Pipes -> Seq(Bufs)]
    BY <1>6 DEF Deliver
  <2>5. ASSUME NEW p \in T
        PROVE  [dest[m][p] EXCEPT !.cnt = @ + 1] \in Dest
    <3>1. p \in Pipes /\ dest[m][p] # NoDest
      BY DEF Targets, Subscribers
    <3>2. dest[m][p] \in Dest
      BY <3>1
    <3> QED
      BY <3>2, DestFacts
  <2>6. dest' \in [MsgIds -> [Pipes -> Dest \cup {NoDest}]]
    BY <1>6, <2>5 DEF Deliver
  <2>7. content' \in [Bufs -> Content \cup {NoContent}]
    BY <1>6, <2>2 DEF Deliver, Content
  <2>8. UseCount' \in [Bufs -> Nat] /\ statInUse' \in [Pipes -> Int]
    BY <1>6, <2>1 DEF Deliver
  <2> QED
    BY <1>6, <2>3, <2>4, <2>6, <2>7, <2>8 DEF Deliver, pipeVars, callVars
<1>7. ASSUME NEW a \in Apps, NEW m \in MsgIds, NEW b \in Bufs,
             NEW inc \in BOOLEAN, SendMsg(a, m, b, inc)
      PROVE  TypeOK'
  <2>1. Deliver(a, m, b, inc) /\ UNCHANGED <<pc, pipeOf, hand, idx, deleting, zc>>
    BY <1>7 DEF SendMsg, callVars
  <2>2. zc' \in [Apps -> Bufs \cup {NoBuf}] /\ pc' \in [Apps -> Locations]
    BY <2>1
  <2>3. Deliver(a, m, b, inc) /\ UNCHANGED <<pipeOf, hand, idx, deleting>>
    BY <2>1
  <2> HIDE DEF TypeOK
  <2> QED
    BY <1>6, <2>2, <2>3
<1>8. ASSUME NEW a \in Apps, NEW b \in Bufs, ZeroCopyGetPtr(a, b)
      PROVE  TypeOK'
  BY <1>8 DEF ZeroCopyGetPtr, pipeVars, routeVars, callVars
<1>9. ASSUME NEW a \in Apps, NEW next \in {"zcSend", "zcFree"},
             ZeroCopyReleaseDesc(a, next)
      PROVE  TypeOK'
  BY <1>9 DEF ZeroCopyReleaseDesc, Locations, pipeVars, routeVars, bufVars
<1>10. ASSUME NEW a \in Apps, ZeroCopyReleasePtr(a)
       PROVE  TypeOK'
  BY <1>10 DEF ZeroCopyReleasePtr, Locations, pipeVars, routeVars
<1>11. ASSUME NEW b \in Bufs \cup {NoBuf}, DecrBufUseCnt(b)
       PROVE  /\ UseCount' \in [Bufs -> Nat]
              /\ content' \in [Bufs -> Content \cup {NoContent}]
  <2>1. CASE b # NoBuf /\ UseCount[b] > 0
    <3>1. UseCount' = [UseCount EXCEPT ![b] = @ - 1]
      BY <1>11, <2>1 DEF DecrBufUseCnt
    <3>2. b \in Bufs /\ UseCount[b] \in Nat
      BY <2>1
    <3>3. UseCount' \in [Bufs -> Nat]
      BY <2>1, <3>1, <3>2
    <3>4. content' = [content EXCEPT ![b] = NoContent] \/ content' = content
      BY <1>11, <2>1 DEF DecrBufUseCnt
    <3> QED
      BY <3>3, <3>4
  <2>2. CASE ~(b # NoBuf /\ UseCount[b] > 0)
    BY <1>11, <2>2 DEF DecrBufUseCnt, bufVars
  <2> QED
    BY <2>1, <2>2
<1>12. ASSUME NEW a \in Apps, NEW m \in MsgIds, NEW inc \in BOOLEAN,
              ZeroCopySend(a, m, inc)
       PROVE  TypeOK'
  <2>1. zc[a] \in Bufs \cup {NoBuf}
    OBVIOUS
  <2>2. DecrBufUseCnt(zc[a]) =>
          /\ UseCount' \in [Bufs -> Nat]
          /\ content' \in [Bufs -> Content \cup {NoContent}]
    BY <1>11, <2>1
  <2>3. zc' \in [Apps -> Bufs \cup {NoBuf}] /\ pc' \in [Apps -> Locations]
    BY <1>12 DEF ZeroCopySend, Locations
  <2>4. CASE m \in Image(rtbl)
    <3>1. Deliver(a, m, zc[a], inc) /\ zc[a] \in Bufs
      BY <1>12, <2>4, <1>100 DEF ZeroCopySend
    <3>2. UNCHANGED <<pipeOf, hand, idx, deleting>>
      BY <1>12 DEF ZeroCopySend
    <3> HIDE DEF TypeOK
    <3> QED
      BY <2>3, <3>1, <3>2, <1>6
  <2>5. CASE m \notin Image(rtbl)
    BY <1>12, <2>2, <2>3, <2>5 DEF ZeroCopySend, pipeVars, routeVars
  <2> QED
    BY <2>4, <2>5
<1>13. ASSUME NEW a \in Apps, NEW p \in Pipes, RcvSwap(a, p)
       PROVE  TypeOK'
  BY <1>13 DEF RcvSwap, Locations, pipeVars, routeVars, bufVars
<1>14. ASSUME NEW a \in Apps, RcvClear(a)
       PROVE  TypeOK'
  BY <1>14 DEF RcvClear, Locations, pipeVars, routeVars, bufVars
<1>15. ASSUME NEW a \in Apps, RcvGet(a)
       PROVE  TypeOK'
  <2>1. pipeOf[a] \in Pipes
    BY <1>15, <1>100 DEF RcvGet, Receiving
  <2>2. queue[pipeOf[a]] \in Seq(Bufs) /\ queue[pipeOf[a]] # <<>>
    BY <1>15, <2>1 DEF RcvGet
  <2>3. Head(queue[pipeOf[a]]) \in Bufs /\ Tail(queue[pipeOf[a]]) \in Seq(Bufs)
    BY <2>2, TailFacts
  <2> QED
    BY <1>15, <2>1, <2>3 DEF RcvGet, Locations, pipeVars, routeVars, bufVars
<1>16. ASSUME NEW a \in Apps, RcvNone(a)
       PROVE  TypeOK'
  BY <1>16 DEF RcvNone, Locations, pipeVars, routeVars, bufVars
<1>17. ASSUME NEW a \in Apps, RcvFinish(a)
       PROVE  TypeOK'
  <2> DEFINE p == pipeOf[a]
             b == hand[a]
             m == content[b].msg
  <2>1. p \in Pipes /\ b \in Bufs \cup {NoBuf} /\ ToTrashBuff[p] \in Bufs \cup {NoBuf}
    BY <1>17, <1>100 DEF RcvFinish, Receiving
  <2>2. /\ UseCount' \in [Bufs -> Nat]
        /\ content' \in [Bufs -> Content \cup {NoContent}]
    BY <1>17, <1>11, <2>1 DEF RcvFinish
  <2>3. dest' \in [MsgIds -> [Pipes -> Dest \cup {NoDest}]]
    <3>1. CASE m \in MsgIds /\ dest[m][p] # NoDest /\ dest[m][p].cnt > 0
      <4>1. dest[m][p] \in Dest
        BY <2>1, <3>1
      <4>2. [dest[m][p] EXCEPT !.cnt = @ - 1] \in Dest
        BY <4>1, <3>1, DestFacts
      <4>3. \/ dest' = [dest EXCEPT ![m] = [dest[m] EXCEPT ![p] =
                           [dest[m][p] EXCEPT !.cnt = @ - 1]]]
            \/ dest' = dest
        BY <1>17 DEF RcvFinish
      <4>4. [dest EXCEPT ![m] = [dest[m] EXCEPT ![p] =
                [dest[m][p] EXCEPT !.cnt = @ - 1]]]
              \in [MsgIds -> [Pipes -> Dest \cup {NoDest}]]
        BY <2>1, <3>1, <4>2, DestUpdate
      <4> QED
        BY <4>3, <4>4
    <3>2. CASE ~(dest[m][p] # NoDest /\ dest[m][p].cnt > 0)
      <4>1. dest' = dest
        BY <1>17, <3>2 DEF RcvFinish
      <4> QED
        BY <4>1
    <3>3. CASE m \notin MsgIds
      <4>1. \/ dest' = [dest EXCEPT ![m] = [dest[m] EXCEPT ![p] =
                         [dest[m][p] EXCEPT !.cnt = @ - 1]]]
            \/ dest' = dest
        BY <1>17 DEF RcvFinish
      <4>2. dest' = dest
        BY <3>3, <4>1
      <4> QED
        BY <4>2
    <3> QED
      BY <3>1, <3>2, <3>3
  <2>4. statInUse' \in [Pipes -> Int]
    <3>1. \/ statInUse' = [statInUse EXCEPT ![p] = statInUse[p] - 1]
          \/ statInUse' = statInUse
      BY <1>17 DEF RcvFinish
    <3>2. statInUse \in [Pipes -> Int]
      OBVIOUS
    <3> HIDE DEF p
    <3> QED
      BY <2>1, <3>1, <3>2
  <2>5. /\ CurrentBuff' \in [Pipes -> Bufs \cup {NoBuf}]
        /\ ToTrashBuff' \in [Pipes -> Bufs \cup {NoBuf}]
        /\ hand' \in [Apps -> Bufs \cup {NoBuf}]
    BY <1>17, <2>1 DEF RcvFinish
  <2>6. pc' \in [Apps -> Locations] /\ pipeOf' \in [Apps -> Pipes \cup {NoPipe}]
    BY <1>17 DEF RcvFinish, Locations
  <2> QED
    BY <1>17, <2>2, <2>3, <2>4, <2>5, <2>6 DEF RcvFinish, pipeVars
<1>18. ASSUME NEW a \in Apps, NEW p \in Pipes, NEW i \in Nat, Scan(a, p, i)
       PROVE  /\ idx' \in [Apps -> Nat]
              /\ pc' \in [Apps -> Locations]
              /\ UseCount' \in [Bufs -> Nat]
              /\ content' \in [Bufs -> Content \cup {NoContent}]
              /\ ToTrashBuff' \in [Pipes -> Bufs \cup {NoBuf}]
  <2>1. CASE Matches(p, i) # {}
    <3>1. PICK j \in Matches(p, i) : idx' = [idx EXCEPT ![a] = j]
      BY <1>18, <2>1 DEF Scan
    <3>2. j \in Nat
      BY DEF Matches
    <3>3. /\ pc' = [pc EXCEPT ![a] = "delUnsub"]
          /\ UNCHANGED <<UseCount, content, ToTrashBuff>>
      BY <1>18, <2>1 DEF Scan, bufVars
    <3>4. pc' \in [Apps -> Locations]
      BY <3>3 DEF Locations
    <3>5. idx' \in [Apps -> Nat]
      BY <3>1, <3>2
    <3> QED
      BY <3>3, <3>4, <3>5
  <2>2. CASE Matches(p, i) = {}
    <3>1. ToTrashBuff[p] \in Bufs \cup {NoBuf} /\ DecrBufUseCnt(ToTrashBuff[p])
      BY <1>18, <2>2 DEF Scan
    <3>2. /\ UseCount' \in [Bufs -> Nat]
          /\ content' \in [Bufs -> Content \cup {NoContent}]
      BY <3>1, <1>11
    <3>3. /\ pc' = [pc EXCEPT ![a] = "delDrain"]
          /\ idx' = [idx EXCEPT ![a] = 0]
          /\ ToTrashBuff' = [ToTrashBuff EXCEPT ![p] = NoBuf]
      BY <1>18, <2>2 DEF Scan
    <3> QED
      BY <3>2, <3>3 DEF Locations
  <2> QED
    BY <2>1, <2>2
<1>19. ASSUME NEW a \in Apps, NEW p \in Pipes, DeletePipe(a, p)
       PROVE  TypeOK'
  <2>1. Scan(a, p, 1)
    BY <1>19 DEF DeletePipe
  <2>2. /\ idx' \in [Apps -> Nat]
        /\ pc' \in [Apps -> Locations]
        /\ UseCount' \in [Bufs -> Nat]
        /\ content' \in [Bufs -> Content \cup {NoContent}]
        /\ ToTrashBuff' \in [Pipes -> Bufs \cup {NoBuf}]
    BY <2>1, <1>18
  <2>3. UNCHANGED <<pipeVars, queue, CurrentBuff, statInUse, hand, zc>>
    BY <2>1 DEF Scan
  <2> QED
    BY <1>19, <2>2, <2>3 DEF DeletePipe, pipeVars, routeVars
<1>20. ASSUME NEW a \in Apps, DelUnsub(a)
       PROVE  TypeOK'
  BY <1>20 DEF DelUnsub, RemoveDest, Locations, pipeVars, bufVars
<1>21. ASSUME NEW a \in Apps, DelScan(a)
       PROVE  TypeOK'
  <2>1. pipeOf[a] \in Pipes /\ idx[a] + 1 \in Nat
    BY <1>21, <1>100 DEF DelScan, Unrouting
  <2>2. Scan(a, pipeOf[a], idx[a] + 1)
    BY <1>21 DEF DelScan
  <2>3. /\ idx' \in [Apps -> Nat]
        /\ pc' \in [Apps -> Locations]
        /\ UseCount' \in [Bufs -> Nat]
        /\ content' \in [Bufs -> Content \cup {NoContent}]
        /\ ToTrashBuff' \in [Pipes -> Bufs \cup {NoBuf}]
    BY <2>1, <2>2, <1>18
  <2>4. UNCHANGED <<pipeVars, queue, CurrentBuff, statInUse, hand, zc>>
    BY <2>2 DEF Scan
  <2> QED
    BY <1>21, <2>3, <2>4 DEF DelScan, pipeVars, routeVars
<1>22. ASSUME NEW a \in Apps, DelFinal(a)
       PROVE  TypeOK'
  <2>1. pipeOf[a] \in Pipes /\ <<>> \in Seq(Bufs)
    BY <1>22, <1>100 DEF DelFinal, Draining
  <2> QED
    BY <1>22, <2>1 DEF DelFinal, Locations, routeVars, bufVars
<1>23. ASSUME NEW a \in Apps, DelDrain(a)
       PROVE  TypeOK'
  <2>1. pipeOf[a] \in Pipes /\ RcvSwap(a, pipeOf[a])
    BY <1>23, <1>100 DEF DelDrain, Draining
  <2> QED
    BY <2>1, <1>13
<1>24. CASE UNCHANGED vars
  BY <1>24 DEF vars
<1> HIDE DEF TypeOK
<1>25. ASSUME NEW a \in Apps, Call(a)
       PROVE  TypeOK'
  BY <1>25, <1>1, <1>2, <1>3, <1>4, <1>7, <1>8, <1>9, <1>13, <1>19
     DEF Call, RcvMsg
<1>26. ASSUME NEW a \in Apps, Step(a)
       PROVE  TypeOK'
  BY <1>26, <1>10, <1>12, <1>14, <1>15, <1>16, <1>17, <1>20, <1>21, <1>22,
     <1>23 DEF Step
<1> HIDE DEF TypeOK
<1> QED
  BY <1>5, <1>24, <1>25, <1>26 DEF Next

-----------------------------------------------------------------------------
(* Buffers on pipes. *)

LEMMA OnPipeDef ==
  ASSUME NEW b, NEW p
  PROVE  /\ OnPipe(b, p) <=>
              \/ \E i \in DOMAIN queue[p] : queue[p][i] = b
              \/ b # NoBuf /\ \E a \in Apps : pipeOf[a] = p /\ hand[a] = b
              \/ b = CurrentBuff[p] \/ b = ToTrashBuff[p]
         /\ OnPipe(b, p)' <=>
              \/ \E i \in DOMAIN queue[p]' : queue'[p][i] = b
              \/ b # NoBuf /\ \E a \in Apps : pipeOf'[a] = p /\ hand'[a] = b
              \/ b = CurrentBuff'[p] \/ b = ToTrashBuff'[p]
  BY DEF OnPipe, Image, InHand

LEMMA HoldersFinite ==
  ASSUME NEW b
  PROVE  /\ IsFiniteSet(Holders(b)) /\ Cardinality(Holders(b)) \in Nat
         /\ IsFiniteSet(Holders(b)')
<1>1. IsFiniteSet(Pipes \cup Apps)
  BY PipesAssumption, FS_Union
<1>2. Holders(b) \subseteq Pipes \cup Apps /\ Holders(b)' \subseteq Pipes \cup Apps
  BY DEF Holders
<1> QED
  BY <1>1, <1>2, FS_Subset, FS_CardinalityType

\* A buffer in the pool is on no pipe and in no application's hands.
LEMMA PooledHeldByNone ==
  ASSUME IInv, NEW b \in Bufs, UseCount[b] = 0
  PROVE  Holders(b) = {} /\ (\A p \in Pipes : ~OnPipe(b, p))
                        /\ (\A a \in Apps : zc[a] # b)
<1>1. Cardinality(Holders(b)) = 0
  BY DEF IInv, UseCountExact
<1>2. Holders(b) = {}
  BY <1>1, HoldersFinite, FS_EmptySet
<1> QED
  BY <1>2 DEF Holders

\* A buffer an application fills in place is on no pipe, and no other
\* application's.
LEMMA ZeroCopyHeldByOne ==
  ASSUME IInv, NEW a \in Apps, zc[a] # NoBuf
  PROVE  Holders(zc[a]) = {a} /\ (\A p \in Pipes : ~OnPipe(zc[a], p))
                             /\ (\A c \in Apps : zc[c] = zc[a] => c = a)
<1>1. zc[a] \in Bufs /\ UseCount[zc[a]] = 1
  BY DEF IInv, TypeOK, ZeroCopyAlone
<1>2. Cardinality(Holders(zc[a])) = 1
  BY <1>1 DEF IInv, UseCountExact
<1>3. PICK x : Holders(zc[a]) = {x}
  BY <1>2, HoldersFinite, FS_Singleton
<1>4. a \in Holders(zc[a])
  BY DEF Holders
<1>5. Holders(zc[a]) = {a}
  BY <1>3, <1>4
<1> QED
  BY <1>5, PipesAssumption DEF Holders

\* A step that moves no buffer onto or off a pipe keeps the counts exact.
LEMMA SameHolders ==
  ASSUME IInv,
         \A b \in Bufs, p \in Pipes : OnPipe(b, p)' <=> OnPipe(b, p),
         UNCHANGED <<UseCount, content, zc>>
  PROVE  UseCountExact' /\ HeldIntact' /\ ZeroCopyAlone'
<1>1. \A b \in Bufs : Holders(b)' = Holders(b)
  BY DEF Holders
<1> QED
  BY <1>1 DEF IInv, UseCountExact, HeldIntact, ZeroCopyAlone

-----------------------------------------------------------------------------
(* One lemma per action: it preserves the invariant, its types apart.        *)

Rest ==
  /\ CallsOwnPipe
  /\ BuffersInStep
  /\ OnePlace
  /\ RoutesScanned
  /\ ZeroCopyAlone
  /\ IdlePipeEmpty
  /\ HeldIntact
  /\ UseCountExact

\* No two applications work on one pipe.
LEMMA OwnerAlone ==
  ASSUME CallsOwnPipe, NEW a \in Apps, NEW c \in Apps, NEW p \in Pipes,
         pipeOf[c] = p, OwnedBy(p, a)
  PROVE  c = a
  BY PipesAssumption DEF CallsOwnPipe, OwnedBy

LEMMA CreatePipeStep ==
  ASSUME IInv, NEW a \in Apps, NEW p \in Pipes, NEW d \in Depths,
         CreatePipe(a, p, d)
  PROVE  Rest'
<1> USE DEF IInv
<1>1. \A c \in Apps : pipeOf[c] # p
  BY PipesAssumption DEF CreatePipe, CallsOwnPipe, OwnedBy
<1>2. UNCHANGED <<ignoreMine, rtbl, dest, seqCnt, UseCount, content,
                  pc, pipeOf, hand, idx, deleting, zc>>
  BY DEF CreatePipe, routeVars, bufVars, callVars
<1>3. queue' = queue /\ CurrentBuff' = CurrentBuff /\ ToTrashBuff' = ToTrashBuff
  BY DEF CreatePipe, IdlePipeEmpty, TypeOK
<1>4. CallsOwnPipe'
  BY <1>1, <1>2 DEF CreatePipe, CallsOwnPipe, OwnedBy, TypeOK
<1>5. BuffersInStep' /\ OnePlace'
  BY <1>2, <1>3 DEF BuffersInStep, OnePlace
<1>6. RoutesScanned' /\ IdlePipeEmpty'
  BY <1>2, <1>3 DEF CreatePipe, RoutesScanned, IdlePipeEmpty, TypeOK, Unrouting
<1>7. \A b \in Bufs, q \in Pipes : OnPipe(b, q)' <=> OnPipe(b, q)
  BY <1>2, <1>3 DEF OnPipe, InHand
<1> QED
  BY <1>2, <1>4, <1>5, <1>6, <1>7, SameHolders DEF Rest

\* Steps that move no buffer and at most change destinations.
LEMMA DestStep ==
  ASSUME IInv, RoutesScanned', CallsOwnPipe',
         UNCHANGED <<inUse, queue, CurrentBuff, ToTrashBuff, UseCount, content,
                     pipeOf, hand, zc>>,
         BuffersInStep'
  PROVE  Rest'
<1>1. OnePlace' /\ IdlePipeEmpty'
  BY DEF IInv, OnePlace, IdlePipeEmpty
<1>2. \A b \in Bufs, q \in Pipes : OnPipe(b, q)' <=> OnPipe(b, q)
  BY DEF OnPipe, InHand
<1> QED
  BY <1>1, <1>2, SameHolders DEF Rest

LEMMA SetPipeOptsStep ==
  ASSUME IInv, NEW a \in Apps, NEW p \in Pipes, NEW ignore \in BOOLEAN,
         SetPipeOpts(a, p, ignore)
  PROVE  Rest'
<1>1. UNCHANGED <<inUse, owner, depth, queue, CurrentBuff, ToTrashBuff, statInUse,
                  rtbl, dest, seqCnt, UseCount, content,
                  pc, pipeOf, hand, idx, deleting, zc>>
  BY DEF SetPipeOpts, routeVars, bufVars, callVars
<1>2. CallsOwnPipe' /\ BuffersInStep'
  BY <1>1 DEF IInv, CallsOwnPipe, OwnedBy, BuffersInStep
<1>3. RoutesScanned'
  BY <1>1 DEF IInv, RoutesScanned
<1> QED
  BY <1>1, <1>2, <1>3, DestStep DEF IInv

LEMMA SubscribeStep ==
  ASSUME IInv, NEW a \in Apps, NEW m \in MsgIds, NEW p \in Pipes,
         NEW lim \in MsgLims, Subscribe(a, m, p, lim)
  PROVE  Rest'
<1> USE DEF IInv
<1>1. UNCHANGED <<inUse, owner, depth, ignoreMine, queue, CurrentBuff,
                  ToTrashBuff, UseCount, content,
                  pc, pipeOf, hand, idx, deleting, zc>>
  BY DEF Subscribe, pipeVars, bufVars, callVars
<1>2. CallsOwnPipe' /\ BuffersInStep'
  BY <1>1 DEF CallsOwnPipe, OwnedBy, BuffersInStep
<1>3. /\ DOMAIN rtbl \subseteq DOMAIN rtbl'
      /\ \A k \in DOMAIN rtbl : rtbl'[k] = rtbl[k]
      /\ Image(rtbl) \cup {m} \subseteq Image(rtbl')
      /\ DOMAIN rtbl \subseteq Nat /\ DOMAIN rtbl' \subseteq Nat
      /\ \A k \in DOMAIN rtbl' \ DOMAIN rtbl : \A j \in DOMAIN rtbl : k > j
  <2>1. rtbl \in Seq(MsgIds)
    BY DEF TypeOK
  <2>2. CASE m \in Image(rtbl)
    BY <2>1, <2>2 DEF Subscribe
  <2>3. CASE m \notin Image(rtbl)
    BY <2>1, <2>3, AppendFacts DEF Subscribe, Image
  <2> QED
    BY <2>2, <2>3
<1>4. \A c \in Apps : pipeOf[c] # p
  <2>1. OwnedBy(p, a) /\ pipeOf[a] = NoPipe
    BY DEF Subscribe, CallsOwnPipe, Receiving, Unrouting, Draining
  <2> QED
    BY <2>1, OwnerAlone, PipesAssumption
<1>5. \A n \in MsgIds, q \in Pipes : dest'[n][q] # dest[n][q] => n = m /\ q = p
  BY DEF Subscribe, TypeOK
<1>6. RoutesScanned'
  <2>1. ASSUME NEW n \in MsgIds, NEW q \in Pipes, dest'[n][q] # NoDest
        PROVE  n \in Image(rtbl)' /\ inUse'[q]
    BY <2>1, <1>1, <1>3, <1>5 DEF RoutesScanned, Subscribe, OwnedBy, Image
  <2>2. ASSUME NEW c \in Apps, NEW q \in Pipes, pipeOf'[c] = q, deleting'[c]
        PROVE  /\ pc'[c] \in Unrouting =>
                    /\ idx'[c] \in DOMAIN rtbl'
                    /\ \A k \in DOMAIN rtbl' :
                         k < idx'[c] => dest'[rtbl'[k]][q] = NoDest
               /\ pc'[c] = "delScan" => dest'[rtbl'[idx'[c]]][q] = NoDest
               /\ pc'[c] \notin Unrouting =>
                    \A n \in MsgIds : dest'[n][q] = NoDest
    <3>1. pipeOf[c] = q /\ deleting[c] /\ q # p
      BY <2>2, <1>1, <1>4
    <3>2. \A n \in MsgIds : dest'[n][q] = dest[n][q]
      BY <3>1, <1>5
    <3>3. \A k \in DOMAIN rtbl : rtbl[k] \in MsgIds
      BY DEF TypeOK
    <3>4. pc[c] \in Unrouting => idx[c] \in DOMAIN rtbl
      BY <3>1 DEF RoutesScanned
    <3>5. \A k \in DOMAIN rtbl' : pc[c] \in Unrouting /\ k < idx[c] => k \in DOMAIN rtbl
      BY <1>3, <3>4
    <3> QED
      BY <1>1, <1>3, <3>1, <3>2, <3>3, <3>4, <3>5 DEF RoutesScanned, Unrouting
  <2> QED
    BY <2>1, <2>2 DEF RoutesScanned
<1> QED
  BY <1>1, <1>2, <1>6, DestStep

LEMMA UnsubscribeStep ==
  ASSUME IInv, NEW a \in Apps, NEW m \in MsgIds, NEW p \in Pipes,
         Unsubscribe(a, m, p)
  PROVE  Rest'
<1> USE DEF IInv
<1>1. UNCHANGED <<inUse, owner, depth, ignoreMine, queue, CurrentBuff,
                  ToTrashBuff, rtbl, UseCount, content,
                  pc, pipeOf, hand, idx, deleting, zc>>
  BY DEF Unsubscribe, pipeVars, bufVars, callVars
<1>2. CallsOwnPipe' /\ BuffersInStep'
  BY <1>1 DEF CallsOwnPipe, OwnedBy, BuffersInStep
<1>3. \A n \in MsgIds, q \in Pipes :
        dest'[n][q] = dest[n][q] \/ dest'[n][q] = NoDest
  BY DEF Unsubscribe, RemoveDest, TypeOK
<1>4. \A k \in DOMAIN rtbl : rtbl[k] \in MsgIds
  BY DEF TypeOK
<1>5. RoutesScanned'
  BY <1>1, <1>3, <1>4 DEF RoutesScanned, Unrouting
<1> QED
  BY <1>1, <1>2, <1>5, DestStep

LEMMA SetRouteStep ==
  ASSUME IInv, NEW m \in MsgIds, NEW p \in Pipes, NEW act \in BOOLEAN,
         SetRoute(m, p, act)
  PROVE  Rest'
<1> USE DEF IInv
<1>1. UNCHANGED <<inUse, owner, depth, ignoreMine, queue, CurrentBuff,
                  ToTrashBuff, rtbl, UseCount, content,
                  pc, pipeOf, hand, idx, deleting, zc>>
  BY DEF SetRoute, pipeVars, bufVars, callVars
<1>2. CallsOwnPipe' /\ BuffersInStep'
  BY <1>1 DEF CallsOwnPipe, OwnedBy, BuffersInStep
<1>3. \A n \in MsgIds, q \in Pipes :
        dest[n][q] = NoDest => dest'[n][q] = NoDest
  BY DEF SetRoute, TypeOK
<1>4. \A k \in DOMAIN rtbl : rtbl[k] \in MsgIds
  BY DEF TypeOK
<1>5. RoutesScanned'
  BY <1>1, <1>3, <1>4 DEF RoutesScanned, Unrouting
<1> QED
  BY <1>1, <1>2, <1>5, DestStep

\* A step that disturbs the holders of one buffer at most.
LEMMA OneBuffer ==
  ASSUME IInv, NEW x \in Bufs,
         \A b \in Bufs \ {x} :
           /\ UseCount'[b] = UseCount[b] /\ content'[b] = content[b]
           /\ \A p \in Pipes : OnPipe(b, p)' <=> OnPipe(b, p)
           /\ \A a \in Apps : zc'[a] = b <=> zc[a] = b,
         UseCount'[x] = Cardinality(Holders(x)'),
         \A p \in Pipes : OnPipe(x, p)' => content'[x] # NoContent
  PROVE  UseCountExact' /\ HeldIntact'
<1>1. \A b \in Bufs \ {x} : Holders(b)' = Holders(b)
  BY DEF Holders
<1>2. UseCountExact'
  BY <1>1 DEF IInv, UseCountExact
<1>3. HeldIntact'
  BY DEF IInv, HeldIntact
<1> QED
  BY <1>2, <1>3

\* Sending a buffer that no pipe holds, from the pool or filled in place.
LEMMA DeliverStep ==
  ASSUME IInv, TypeOK', CallsOwnPipe',
         NEW a \in Apps, NEW m \in MsgIds, NEW b \in Bufs, NEW inc \in BOOLEAN,
         Deliver(a, m, b, inc),
         \A p \in Pipes : ~OnPipe(b, p),
         \A c \in Apps : zc'[c] # b /\ (zc[c] # b => zc'[c] = zc[c]),
         \A c \in Apps : zc[c] = b => zc'[c] = NoBuf,
         UNCHANGED <<pipeOf, hand, idx, deleting>>,
         \A c \in Apps : pipeOf[c] # NoPipe => pc'[c] = pc[c]
  PROVE  Rest'
<1> DEFINE T == Targets(a, m)
<1> USE DEF IInv
<1>1. T \subseteq Pipes /\ \A p \in T : dest[m][p] # NoDest /\ inUse[p]
  BY DEF Targets, Subscribers, RoutesScanned
<1>2. UNCHANGED <<inUse, owner, depth, ignoreMine, rtbl, CurrentBuff, ToTrashBuff>>
  BY DEF Deliver, pipeVars
<1>3. /\ \A p \in T : queue'[p] = Append(queue[p], b)
      /\ \A p \in Pipes \ T : queue'[p] = queue[p]
  BY <1>1 DEF Deliver
<1>4. \A n \in MsgIds, p \in Pipes : dest'[n][p] = NoDest <=> dest[n][p] = NoDest
  <2>1. ASSUME NEW p \in T
        PROVE  [dest[m][p] EXCEPT !.cnt = @ + 1] # NoDest
    <3>1. dest[m][p] \in Dest
      BY <1>1 DEF TypeOK
    <3>2. [dest[m][p] EXCEPT !.cnt = @ + 1] \in Dest
      BY <3>1, DestFacts
    <3> QED
      BY <3>2, NoneAssumption
  <2>2. ASSUME NEW n \in MsgIds, NEW p \in Pipes
        PROVE  \/ dest'[n][p] = dest[n][p]
               \/ n = m /\ p \in T /\ dest'[n][p] = [dest[m][p] EXCEPT !.cnt = @ + 1]
    BY DEF Deliver, TypeOK
  <2> SUFFICES ASSUME NEW n \in MsgIds, NEW p \in Pipes
               PROVE  dest'[n][p] = NoDest <=> dest[n][p] = NoDest
    OBVIOUS
  <2>3. CASE dest'[n][p] = dest[n][p]
    BY <2>3
  <2>4. CASE n = m /\ p \in T /\ dest'[n][p] = [dest[m][p] EXCEPT !.cnt = @ + 1]
    <3>1. dest'[n][p] # NoDest
      BY <2>1, <2>4
    <3>2. dest[n][p] # NoDest
      BY <2>4, <1>1
    <3> QED
      BY <3>1, <3>2
  <2> HIDE DEF T
  <2> QED
    BY <2>2, <2>3, <2>4
<1>5. \A p \in T : /\ queue[p] \in Seq(Bufs)
                   /\ \A i \in DOMAIN queue[p] : queue[p][i] # b
  BY <1>1 DEF TypeOK, OnPipe, Image
<1>6. \A p \in T : /\ DOMAIN queue[p] = 1 .. Len(queue[p]) /\ Len(queue[p]) \in Nat
                   /\ DOMAIN queue'[p] = 1 .. Len(queue[p]) + 1
                   /\ \A i \in 1 .. Len(queue[p]) : queue'[p][i] = queue[p][i]
                   /\ queue'[p][Len(queue[p]) + 1] = b
  BY <1>1, <1>3, <1>5, AppendFacts
<1>7. \A x \in Bufs \ {b}, p \in Pipes : OnPipe(x, p)' <=> OnPipe(x, p)
  <2> SUFFICES ASSUME NEW x \in Bufs \ {b}, NEW p \in Pipes
               PROVE  OnPipe(x, p)' <=> OnPipe(x, p)
    OBVIOUS
  <2>1. (\E i \in DOMAIN queue'[p] : queue'[p][i] = x)
          <=> \E i \in DOMAIN queue[p] : queue[p][i] = x
    <3>1. CASE p \in T
      BY <3>1, <1>6
    <3>2. CASE p \notin T
      BY <3>2, <1>3
    <3> QED
      BY <3>1, <3>2
  <2> QED
    BY <2>1, <1>2, OnPipeDef
<1>8. \A p \in Pipes : OnPipe(b, p)' <=> p \in T
  <2>1. ASSUME NEW p \in T PROVE OnPipe(b, p)'
    <3>1. Len(queue[p]) + 1 \in DOMAIN queue'[p] /\ queue'[p][Len(queue[p]) + 1] = b
      BY <1>6
    <3> QED
      BY <3>1, OnPipeDef
  <2>2. ASSUME NEW p \in Pipes \ T PROVE ~OnPipe(b, p)'
    BY <1>2, <1>3, OnPipeDef
  <2> QED
    BY <2>1, <2>2, <1>1
<1>9. Holders(b)' = T
  BY <1>1, <1>8 DEF Holders
<1>10. UseCount'[b] = Cardinality(T) /\ (T # {} => content'[b] # NoContent)
  <2>1. UseCount'[b] = Cardinality(T)
    BY DEF Deliver, TypeOK
  <2>2. NextSeq(m) \in 0 .. SeqMod - 1 /\ 0 \in 0 .. SeqMod - 1
    BY ConstAssumption DEF NextSeq, TypeOK
  <2>3. T # {} => content'[b] \in Content
    BY <2>2 DEF Deliver, TypeOK, Content
  <2> QED
    BY <2>1, <2>3, NoneAssumption
<1>11. \A x \in Bufs \ {b} : UseCount'[x] = UseCount[x] /\ content'[x] = content[x]
  BY DEF Deliver, TypeOK
<1>12. UseCountExact' /\ HeldIntact'
  <2>1. \A x \in Bufs \ {b}, c \in Apps : zc'[c] = x <=> zc[c] = x
    BY PipesAssumption
  <2> QED
    BY <2>1, <1>7, <1>8, <1>9, <1>10, <1>11, OneBuffer
<1>13. ZeroCopyAlone'
  BY <1>11 DEF ZeroCopyAlone, TypeOK
<1>14. IdlePipeEmpty'
  BY <1>1, <1>2, <1>3 DEF IdlePipeEmpty
<1>15. RoutesScanned'
  <2>1. \A k \in DOMAIN rtbl : rtbl[k] \in MsgIds
    BY DEF TypeOK
  <2>2. \A c \in Apps : pipeOf[c] \in Pipes => pc'[c] = pc[c]
    BY PipesAssumption
  <2> QED
    BY <2>1, <2>2, <1>2, <1>4 DEF RoutesScanned, Unrouting
<1>16. BuffersInStep'
  <2>1. ASSUME NEW c \in Apps, NEW p \in T, pipeOf[c] = p, deleting[c]
        PROVE  pc[c] \in Unrouting
    BY <2>1, <1>1 DEF RoutesScanned
  <2>2. \A c \in Apps : pipeOf[c] \in Pipes => pc'[c] = pc[c]
    BY PipesAssumption
  <2>3. \A c \in Apps : pc[c] = "delFinal" => deleting[c]
    BY DEF CallsOwnPipe, Draining
  <2> QED
    BY <2>1, <2>2, <2>3, <1>2, <1>3 DEF BuffersInStep, Unrouting
<1>17. OnePlace'
  <2> SUFFICES ASSUME NEW p \in Pipes
               PROVE  /\ \A i, j \in DOMAIN queue'[p] : queue'[p][i] = queue'[p][j] => i = j
                      /\ \A i \in DOMAIN queue'[p] :
                           /\ queue'[p][i] # CurrentBuff[p] /\ queue'[p][i] # ToTrashBuff[p]
                           /\ \A c \in Apps : pipeOf[c] = p => hand[c] # queue'[p][i]
    BY <1>2 DEF OnePlace
  <2>1. CASE p \in T
    <3>1. /\ b # CurrentBuff[p] /\ b # ToTrashBuff[p]
          /\ \A c \in Apps : pipeOf[c] = p => hand[c] # b
      BY PipesAssumption, OnPipeDef
    <3>2. /\ \A i, j \in 1 .. Len(queue[p]) : queue[p][i] = queue[p][j] => i = j
          /\ \A i \in 1 .. Len(queue[p]) :
               /\ queue[p][i] # CurrentBuff[p] /\ queue[p][i] # ToTrashBuff[p]
               /\ \A c \in Apps : pipeOf[c] = p => hand[c] # queue[p][i]
      BY <2>1, <1>6 DEF OnePlace
    <3>3. \A i \in DOMAIN queue'[p] :
            \/ i \in 1 .. Len(queue[p]) /\ queue'[p][i] = queue[p][i]
                                       /\ queue'[p][i] # b
            \/ i = Len(queue[p]) + 1 /\ queue'[p][i] = b
      BY <2>1, <1>5, <1>6
    <3> HIDE DEF T
    <3>4. \A i, j \in DOMAIN queue'[p] : queue'[p][i] = queue'[p][j] => i = j
      BY <3>2, <3>3
    <3>5. \A i \in DOMAIN queue'[p] :
            /\ queue'[p][i] # CurrentBuff[p] /\ queue'[p][i] # ToTrashBuff[p]
            /\ \A c \in Apps : pipeOf[c] = p => hand[c] # queue'[p][i]
      BY <3>1, <3>2, <3>3
    <3> QED
      BY <3>4, <3>5
  <2>2. CASE p \notin T
    BY <2>2, <1>3 DEF OnePlace
  <2> QED
    BY <2>1, <2>2
<1> QED
  BY <1>12, <1>13, <1>14, <1>15, <1>16, <1>17 DEF Rest

LEMMA SendMsgStep ==
  ASSUME IInv, TypeOK', NEW a \in Apps, NEW m \in MsgIds, NEW b \in Bufs,
         NEW inc \in BOOLEAN, SendMsg(a, m, b, inc)
  PROVE  Rest'
<1>1. UNCHANGED <<pc, pipeOf, hand, idx, deleting, zc>> /\ Deliver(a, m, b, inc)
  BY DEF SendMsg, callVars
<1>2. UNCHANGED <<inUse, owner>>
  BY <1>1 DEF Deliver, pipeVars
<1>3. CallsOwnPipe'
  BY <1>1, <1>2 DEF IInv, CallsOwnPipe, OwnedBy
<1>4. (\A p \in Pipes : ~OnPipe(b, p)) /\ (\A c \in Apps : zc[c] # b)
  BY PooledHeldByNone DEF SendMsg
<1> QED
  BY <1>1, <1>3, <1>4, DeliverStep

LEMMA ZeroCopyGetPtrStep ==
  ASSUME IInv, NEW a \in Apps, NEW b \in Bufs, ZeroCopyGetPtr(a, b)
  PROVE  Rest'
<1> USE DEF IInv
<1>1. UNCHANGED <<inUse, owner, depth, ignoreMine, queue, CurrentBuff,
                  ToTrashBuff, rtbl, dest, content, pc, pipeOf, hand, idx,
                  deleting>>
  BY DEF ZeroCopyGetPtr, pipeVars, routeVars, callVars
<1>2. (\A p \in Pipes : ~OnPipe(b, p)) /\ (\A c \in Apps : zc[c] # b)
  BY PooledHeldByNone DEF ZeroCopyGetPtr
<1>3. /\ zc' = [zc EXCEPT ![a] = b] /\ zc[a] = NoBuf
      /\ UseCount' = [UseCount EXCEPT ![b] = 1]
  BY DEF ZeroCopyGetPtr
<1>4. CallsOwnPipe' /\ BuffersInStep' /\ OnePlace' /\ RoutesScanned' /\ IdlePipeEmpty'
  <2>1. CallsOwnPipe'
    BY <1>1, <1>3, PipesAssumption DEF CallsOwnPipe, OwnedBy, TypeOK
  <2>2. BuffersInStep' /\ OnePlace'
    BY <1>1 DEF BuffersInStep, OnePlace
  <2>3. RoutesScanned' /\ IdlePipeEmpty'
    BY <1>1 DEF RoutesScanned, IdlePipeEmpty
  <2> QED
    BY <2>1, <2>2, <2>3
<1>5. \A x \in Bufs, p \in Pipes : OnPipe(x, p)' <=> OnPipe(x, p)
  BY <1>1, OnPipeDef
<1>6. \A c \in Apps : zc'[c] = IF c = a THEN b ELSE zc[c]
  BY <1>3 DEF TypeOK
<1>7. Holders(b)' = {a}
  BY <1>2, <1>5, <1>6 DEF Holders
<1>8. UseCount'[b] = Cardinality(Holders(b)')
  BY <1>3, <1>7, FS_Singleton DEF TypeOK
<1>9. UseCountExact' /\ HeldIntact'
  <2>1. \A x \in Bufs \ {b} :
          /\ UseCount'[x] = UseCount[x] /\ content'[x] = content[x]
          /\ \A c \in Apps : zc'[c] = x <=> zc[c] = x
    BY <1>1, <1>3, <1>6, PipesAssumption DEF TypeOK
  <2> QED
    BY <2>1, <1>2, <1>5, <1>8, OneBuffer
<1>10. ZeroCopyAlone'
  BY <1>2, <1>3, <1>6 DEF ZeroCopyAlone, TypeOK
<1> QED
  BY <1>4, <1>9, <1>10 DEF Rest

\* Steps that move application a from one program location to another, both
\* outside the calls that work on a pipe, and leave the pipes alone.
LEMMA OffPipeStep ==
  ASSUME IInv, NEW a \in Apps, NEW next \in {"idle", "zcSend", "zcFree"},
         pc[a] \in {"idle", "zcSend", "zcFree"},
         pc' = [pc EXCEPT ![a] = next],
         next # "idle" => zc'[a] # NoBuf,
         \A c \in Apps \ {a} : zc'[c] = zc[c],
         UNCHANGED <<inUse, owner, queue, CurrentBuff, ToTrashBuff,
                     rtbl, dest, pipeOf, hand, idx, deleting>>
  PROVE  CallsOwnPipe' /\ BuffersInStep' /\ OnePlace' /\ RoutesScanned' /\ IdlePipeEmpty'
<1> USE DEF IInv
<1>1. pipeOf[a] = NoPipe /\ hand[a] = NoBuf /\ ~deleting[a]
  BY DEF CallsOwnPipe, Receiving, Unrouting, Draining
<1>2. pc'[a] = next /\ \A c \in Apps \ {a} : pc'[c] = pc[c]
  BY DEF TypeOK
<1>3. CallsOwnPipe'
  <2> SUFFICES ASSUME NEW c \in Apps
               PROVE
    /\ (pipeOf'[c] # NoPipe) <=> pc'[c] \in Receiving \cup Unrouting \cup Draining
    /\ pipeOf'[c] # NoPipe => OwnedBy(pipeOf[c], c)'
    /\ pc'[c] \in Unrouting \cup Draining => deleting'[c]
    /\ deleting'[c] => pipeOf'[c] # NoPipe
    /\ hand'[c] # NoBuf => pc'[c] = "rcvFinish"
    /\ pc'[c] \in {"zcSend", "zcFree"} => zc'[c] # NoBuf
    BY DEF CallsOwnPipe
  <2>1. CASE c = a
    BY <2>1, <1>1, <1>2 DEF Receiving, Unrouting, Draining
  <2>2. CASE c # a
    BY <2>2, <1>2 DEF CallsOwnPipe, OwnedBy
  <2> QED
    BY <2>1, <2>2
<1>4. \A c \in Apps, p \in Pipes : pipeOf[c] = p => pc'[c] = pc[c]
  BY <1>1, <1>2, PipesAssumption
<1>5. BuffersInStep' /\ OnePlace'
  BY <1>4 DEF BuffersInStep, OnePlace
<1>6. RoutesScanned' /\ IdlePipeEmpty'
  BY <1>4 DEF RoutesScanned, IdlePipeEmpty
<1> QED
  BY <1>3, <1>5, <1>6

LEMMA ZeroCopyReleaseDescStep ==
  ASSUME IInv, NEW a \in Apps, NEW next \in {"zcSend", "zcFree"},
         ZeroCopyReleaseDesc(a, next)
  PROVE  Rest'
<1>1. UNCHANGED <<inUse, owner, depth, ignoreMine, queue, CurrentBuff,
                  ToTrashBuff, rtbl, dest, UseCount, content, pipeOf, hand, idx,
                  deleting, zc>>
  BY DEF ZeroCopyReleaseDesc, pipeVars, routeVars, bufVars
<1>2. CallsOwnPipe' /\ BuffersInStep' /\ OnePlace' /\ RoutesScanned' /\ IdlePipeEmpty'
  BY <1>1, OffPipeStep DEF ZeroCopyReleaseDesc
<1>3. \A x \in Bufs, p \in Pipes : OnPipe(x, p)' <=> OnPipe(x, p)
  BY <1>1, OnPipeDef
<1> QED
  BY <1>1, <1>2, <1>3, SameHolders DEF Rest

\* The buffer an application filled in place goes back to the pool.
LEMMA ZeroCopyFreeStep ==
  ASSUME IInv, NEW a \in Apps, zc[a] # NoBuf, pc[a] \in {"zcSend", "zcFree"},
         UseCount' = [UseCount EXCEPT ![zc[a]] = 0],
         \A b \in Bufs \ {zc[a]} : content'[b] = content[b],
         zc' = [zc EXCEPT ![a] = NoBuf],
         pc' = [pc EXCEPT ![a] = "idle"],
         UNCHANGED <<inUse, owner, queue, CurrentBuff, ToTrashBuff,
                     rtbl, dest, pipeOf, hand, idx, deleting>>
  PROVE  Rest'
<1> USE DEF IInv
<1>0. PICK b \in Bufs : b = zc[a]
  BY DEF TypeOK
<1>1. (\A p \in Pipes : ~OnPipe(b, p)) /\ (\A c \in Apps : zc[c] = b => c = a)
  BY <1>0, ZeroCopyHeldByOne
<1>2. \A c \in Apps : zc'[c] = IF c = a THEN NoBuf ELSE zc[c]
  BY DEF TypeOK
<1>3. CallsOwnPipe' /\ BuffersInStep' /\ OnePlace' /\ RoutesScanned' /\ IdlePipeEmpty'
  BY <1>2, OffPipeStep
<1>4. \A x \in Bufs, p \in Pipes : OnPipe(x, p)' <=> OnPipe(x, p)
  BY OnPipeDef
<1>5. Holders(b)' = {}
  BY <1>1, <1>2, <1>4, PipesAssumption DEF Holders
<1>6. UseCount'[b] = Cardinality(Holders(b)')
  BY <1>0, <1>5, FS_EmptySet DEF TypeOK
<1>7. \A x \in Bufs \ {b} : UseCount'[x] = UseCount[x] /\ content'[x] = content[x]
  BY <1>0 DEF TypeOK
<1>8. \A x \in Bufs \ {b}, c \in Apps : zc'[c] = x <=> zc[c] = x
  BY <1>0, <1>2, PipesAssumption
<1>9. UseCountExact' /\ HeldIntact'
  BY <1>1, <1>4, <1>6, <1>7, <1>8, OneBuffer
<1>10. ZeroCopyAlone'
  BY <1>0, <1>1, <1>2, <1>7 DEF ZeroCopyAlone, TypeOK
<1> QED
  BY <1>3, <1>9, <1>10 DEF Rest

LEMMA ZeroCopyReleasePtrStep ==
  ASSUME IInv, NEW a \in Apps, ZeroCopyReleasePtr(a)
  PROVE  Rest'
<1>1. UNCHANGED <<inUse, owner, depth, ignoreMine, queue, CurrentBuff,
                  ToTrashBuff, rtbl, dest, content, pipeOf, hand, idx, deleting>>
  BY DEF ZeroCopyReleasePtr, pipeVars, routeVars
<1>2. zc[a] # NoBuf
  BY DEF ZeroCopyReleasePtr, IInv, CallsOwnPipe
<1> QED
  BY <1>1, <1>2, ZeroCopyFreeStep DEF ZeroCopyReleasePtr

LEMMA ZeroCopySendStep ==
  ASSUME IInv, TypeOK', NEW a \in Apps, NEW m \in MsgIds, NEW inc \in BOOLEAN,
         ZeroCopySend(a, m, inc)
  PROVE  Rest'
<1> DEFINE b == zc[a]
<1>1. /\ b \in Bufs /\ b # NoBuf /\ UseCount[b] = 1
      /\ \A p \in Pipes : ~OnPipe(b, p)
      /\ \A c \in Apps : zc[c] = b => c = a
  BY ZeroCopyHeldByOne, PipesAssumption
     DEF ZeroCopySend, IInv, CallsOwnPipe, TypeOK, ZeroCopyAlone
<1>2. /\ zc' = [zc EXCEPT ![a] = NoBuf] /\ pc' = [pc EXCEPT ![a] = "idle"]
      /\ UNCHANGED <<pipeOf, hand, idx, deleting>> /\ pc[a] = "zcSend"
  BY DEF ZeroCopySend
<1>3. CASE m \in Image(rtbl)
  <2>1. Deliver(a, m, b, inc)
    BY <1>3 DEF ZeroCopySend
  <2>2. UNCHANGED <<inUse, owner>>
    BY <2>1 DEF Deliver, pipeVars
  <2>3. pipeOf[a] = NoPipe /\ hand[a] = NoBuf /\ ~deleting[a]
    BY <1>2 DEF IInv, CallsOwnPipe, Receiving, Unrouting, Draining
  <2>4. \A c \in Apps : /\ c # a => pc'[c] = pc[c] /\ zc'[c] = zc[c]
                        /\ c = a => pc'[c] = "idle" /\ zc'[c] = NoBuf
    BY <1>2 DEF IInv, TypeOK
  <2>5. CallsOwnPipe'
    <3> SUFFICES ASSUME NEW c \in Apps
                 PROVE
      /\ (pipeOf'[c] # NoPipe) <=> pc'[c] \in Receiving \cup Unrouting \cup Draining
      /\ pipeOf'[c] # NoPipe => OwnedBy(pipeOf[c], c)'
      /\ pc'[c] \in Unrouting \cup Draining => deleting'[c]
      /\ deleting'[c] => pipeOf'[c] # NoPipe
      /\ hand'[c] # NoBuf => pc'[c] = "rcvFinish"
      /\ pc'[c] \in {"zcSend", "zcFree"} => zc'[c] # NoBuf
      BY DEF CallsOwnPipe
    <3>1. CASE c = a
      BY <3>1, <1>2, <2>3, <2>4 DEF Receiving, Unrouting, Draining
    <3>2. CASE c # a
      BY <3>2, <1>2, <2>2, <2>4 DEF IInv, CallsOwnPipe, OwnedBy
    <3> QED
      BY <3>1, <3>2
  <2>6. /\ \A c \in Apps : zc'[c] # b /\ (zc[c] = b => zc'[c] = NoBuf)
                           /\ (zc[c] # b => zc'[c] = zc[c])
        /\ \A c \in Apps : pipeOf[c] # NoPipe => pc'[c] = pc[c]
    BY <1>1, <2>3, <2>4
  <2> HIDE DEF b
  <2> QED
    BY <1>1, <1>2, <2>1, <2>5, <2>6, DeliverStep
<1>4. CASE m \notin Image(rtbl)
  <2>1. /\ DecrBufUseCnt(b)
        /\ UNCHANGED <<inUse, owner, queue, CurrentBuff, ToTrashBuff, rtbl, dest>>
    BY <1>4 DEF ZeroCopySend, pipeVars, routeVars
  <2>2. /\ UseCount' = [UseCount EXCEPT ![b] = 0]
        /\ content' = [content EXCEPT ![b] = NoContent]
    <3>1. /\ UseCount' = [UseCount EXCEPT ![b] = @ - 1]
          /\ content' = [content EXCEPT ![b] = NoContent]
      BY <1>1, <2>1 DEF DecrBufUseCnt
    <3>2. UseCount[b] - 1 = 0
      BY <1>1
    <3> QED
      BY <3>1, <3>2
  <2>3. \A x \in Bufs \ {b} : content'[x] = content[x]
    BY <2>2 DEF IInv, TypeOK
  <2> QED
    BY <1>1, <1>2, <2>1, <2>2, <2>3, ZeroCopyFreeStep
<1> QED
  BY <1>3, <1>4

-----------------------------------------------------------------------------
(* The invariant seen from one application and the pipe it works on.         *)

CallOK(a) ==
  /\ (pipeOf[a] # NoPipe) <=> pc[a] \in Receiving \cup Unrouting \cup Draining
  /\ pipeOf[a] # NoPipe => OwnedBy(pipeOf[a], a)
  /\ pc[a] \in Unrouting \cup Draining => deleting[a]
  /\ deleting[a] => pipeOf[a] # NoPipe
  /\ hand[a] # NoBuf => pc[a] = "rcvFinish"
  /\ pc[a] \in {"zcSend", "zcFree"} => zc[a] # NoBuf

StepOK(a, p) ==
  pipeOf[a] = p =>
    /\ pc[a] = "rcvClear" => ToTrashBuff[p] = CurrentBuff[p]
    /\ pc[a] \in {"rcvGet", "rcvFinish", "delFinal"} => CurrentBuff[p] = NoBuf
    /\ deleting[a] /\ pc[a] = "rcvFinish" /\ hand[a] = NoBuf => queue[p] = <<>>
    /\ pc[a] = "delFinal" => queue[p] = <<>>

TrashOK(p) ==
  ToTrashBuff[p] # NoBuf => \E a \in Apps : pipeOf[a] = p /\ pc[a] \in Receiving

PlaceOK(p) ==
  /\ \A i, j \in DOMAIN queue[p] : queue[p][i] = queue[p][j] => i = j
  /\ \A i \in DOMAIN queue[p] :
       /\ queue[p][i] # CurrentBuff[p] /\ queue[p][i] # ToTrashBuff[p]
       /\ \A a \in Apps : pipeOf[a] = p => hand[a] # queue[p][i]
  /\ \A a \in Apps : pipeOf[a] = p /\ hand[a] # NoBuf =>
       hand[a] # CurrentBuff[p] /\ hand[a] # ToTrashBuff[p]

RouteOK(p) ==
  \A m \in MsgIds : dest[m][p] # NoDest => m \in Image(rtbl) /\ inUse[p]

ScanOK(a, p) ==
  pipeOf[a] = p /\ deleting[a] =>
    /\ pc[a] \in Unrouting =>
         /\ idx[a] \in DOMAIN rtbl
         /\ \A k \in DOMAIN rtbl : k < idx[a] => dest[rtbl[k]][p] = NoDest
    /\ pc[a] = "delScan" => dest[rtbl[idx[a]]][p] = NoDest
    /\ pc[a] \notin Unrouting => \A m \in MsgIds : dest[m][p] = NoDest

EmptyOK(p) ==
  ~inUse[p] => queue[p] = <<>> /\ CurrentBuff[p] = NoBuf /\ ToTrashBuff[p] = NoBuf

\* What holds of an application that works on pipe p.
LEMMA LocalForm ==
  ASSUME IInv, NEW a \in Apps, NEW p \in Pipes
  PROVE  /\ CallOK(a) /\ StepOK(a, p) /\ TrashOK(p) /\ PlaceOK(p) /\ RouteOK(p)
         /\ ScanOK(a, p) /\ EmptyOK(p)
<1> USE DEF IInv
<1>1. CallOK(a) /\ EmptyOK(p)
  BY DEF CallsOwnPipe, CallOK, IdlePipeEmpty, EmptyOK
<1>2. StepOK(a, p) /\ TrashOK(p)
  BY DEF BuffersInStep, StepOK, TrashOK
<1>3. PlaceOK(p)
  BY DEF OnePlace, PlaceOK
<1>4. RouteOK(p) /\ ScanOK(a, p)
  BY DEF RoutesScanned, RouteOK, ScanOK
<1> QED
  BY <1>1, <1>2, <1>3, <1>4

\* A step of application a in a call on its pipe p disturbs nothing else.
LEMMA PipeStep ==
  ASSUME IInv, NEW a \in Apps, NEW p \in Pipes, OwnedBy(p, a),
         pipeOf[a] \in {NoPipe, p}, pipeOf'[a] \in {NoPipe, p},
         \A c \in Apps \ {a} :
           /\ pc'[c] = pc[c] /\ pipeOf'[c] = pipeOf[c] /\ hand'[c] = hand[c]
           /\ deleting'[c] = deleting[c] /\ zc'[c] = zc[c] /\ idx'[c] = idx[c],
         \A q \in Pipes \ {p} :
           /\ inUse'[q] = inUse[q] /\ owner'[q] = owner[q] /\ queue'[q] = queue[q]
           /\ CurrentBuff'[q] = CurrentBuff[q] /\ ToTrashBuff'[q] = ToTrashBuff[q]
           /\ \A m \in MsgIds : dest'[m][q] = NoDest <=> dest[m][q] = NoDest,
         rtbl' = rtbl,
         CallOK(a)', StepOK(a, p)', TrashOK(p)', PlaceOK(p)', RouteOK(p)',
         ScanOK(a, p)', EmptyOK(p)'
  PROVE  CallsOwnPipe' /\ BuffersInStep' /\ OnePlace' /\ RoutesScanned' /\ IdlePipeEmpty'
<1> USE PipesAssumption
<1>1. \A c \in Apps \ {a} : pipeOf[c] # p
  BY OwnerAlone DEF IInv
<1>2. \A c \in Apps, q \in Pipes \ {p} :
        /\ CallOK(c) /\ StepOK(c, q) /\ TrashOK(q) /\ PlaceOK(q) /\ RouteOK(q)
        /\ ScanOK(c, q) /\ EmptyOK(q)
  BY LocalForm
<1>3. \A k \in DOMAIN rtbl : rtbl[k] \in MsgIds
  BY DEF IInv, TypeOK
<1>4. CallsOwnPipe'
  <2>1. ASSUME NEW c \in Apps \ {a} PROVE CallOK(c)'
    <3>1. CallOK(c) /\ pipeOf[c] \in (Pipes \ {p}) \cup {NoPipe}
      BY <1>1, <1>2, LocalForm DEF IInv, TypeOK
    <3>2. pipeOf[c] # NoPipe => OwnedBy(pipeOf[c], c)'
      BY <3>1 DEF CallOK, OwnedBy
    <3> QED
      BY <3>1, <3>2 DEF CallOK
  <2> QED
    BY <2>1 DEF CallsOwnPipe, CallOK
<1>5. BuffersInStep'
  <2>1. ASSUME NEW c \in Apps, NEW q \in Pipes, c # a \/ q # p
        PROVE  StepOK(c, q)'
    <3>1. CASE c # a /\ q # p
      BY <3>1, <1>2 DEF StepOK
    <3>2. CASE c # a /\ q = p
      BY <3>2, <1>1 DEF StepOK
    <3>3. CASE c = a
      BY <2>1, <3>3 DEF StepOK
    <3> QED
      BY <3>1, <3>2, <3>3
  <2>2. ASSUME NEW q \in Pipes \ {p} PROVE TrashOK(q)'
    BY <1>2, <2>2 DEF TrashOK
  <2>3. \A c \in Apps, q \in Pipes : StepOK(c, q)' /\ TrashOK(q)'
    BY <2>1, <2>2
  <2> QED
    BY <2>3 DEF BuffersInStep, StepOK, TrashOK
<1>6. OnePlace'
  <2>1. ASSUME NEW q \in Pipes \ {p} PROVE PlaceOK(q)'
    <3>1. \A c \in Apps : pipeOf'[c] = q <=> c # a /\ pipeOf[c] = q
      OBVIOUS
    <3> QED
      BY <1>2, <2>1, <3>1 DEF PlaceOK
  <2>2. \A q \in Pipes : PlaceOK(q)'
    BY <2>1
  <2> QED
    BY <2>2 DEF OnePlace, PlaceOK
<1>7. RoutesScanned'
  <2>1. ASSUME NEW q \in Pipes \ {p} PROVE RouteOK(q)'
    BY <1>2, <2>1 DEF RouteOK, Image
  <2>2. ASSUME NEW c \in Apps, NEW q \in Pipes, c # a \/ q # p
        PROVE  ScanOK(c, q)'
    <3>1. CASE c # a /\ q # p
      BY <3>1, <1>2, <1>3 DEF ScanOK, Unrouting
    <3>2. CASE c # a /\ q = p
      BY <3>2, <1>1 DEF ScanOK
    <3>3. CASE c = a
      BY <2>2, <3>3 DEF ScanOK
    <3> QED
      BY <3>1, <3>2, <3>3
  <2>3. \A c \in Apps, q \in Pipes : RouteOK(q)' /\ ScanOK(c, q)'
    BY <2>1, <2>2
  <2> QED
    BY <2>3 DEF RoutesScanned, RouteOK, ScanOK
<1>8. IdlePipeEmpty'
  BY <1>2 DEF IdlePipeEmpty, EmptyOK
<1> QED
  BY <1>4, <1>5, <1>6, <1>7, <1>8

-----------------------------------------------------------------------------
(* Receiving. *)

\* Nobody has a buffer in the trash of a pipe whose owner is not receiving.
LEMMA TrashEmpty ==
  ASSUME IInv, NEW a \in Apps, NEW p \in Pipes, OwnedBy(p, a),
         pc[a] \notin Receiving
  PROVE  ToTrashBuff[p] = NoBuf
  BY OwnerAlone, LocalForm DEF IInv, TrashOK

LEMMA RcvSwapStep ==
  ASSUME IInv, NEW a \in Apps, NEW p \in Pipes, OwnedBy(p, a),
         \/ pc[a] = "idle"
         \/ pc[a] = "delDrain" /\ pipeOf[a] = p,
         RcvSwap(a, p)
  PROVE  Rest'
<1>0. TypeOK
  BY DEF IInv
<1>1. UNCHANGED <<inUse, owner, depth, ignoreMine, queue, CurrentBuff, rtbl, dest,
                  UseCount, content, hand, idx, deleting, zc>>
  BY DEF RcvSwap, pipeVars, routeVars, bufVars
<1>2. /\ pc'[a] = "rcvClear" /\ pipeOf'[a] = p /\ ToTrashBuff'[p] = CurrentBuff[p]
      /\ \A c \in Apps \ {a} : pc'[c] = pc[c] /\ pipeOf'[c] = pipeOf[c]
      /\ \A q \in Pipes \ {p} : ToTrashBuff'[q] = ToTrashBuff[q]
  BY <1>0 DEF RcvSwap, TypeOK
<1>3. ToTrashBuff[p] = NoBuf
  BY TrashEmpty DEF Receiving
<1>4. pipeOf[a] \in {NoPipe, p} /\ hand[a] = NoBuf /\ (deleting[a] => pc[a] = "delDrain")
  BY LocalForm DEF CallOK, Receiving, Unrouting, Draining
<1>5. CallOK(a)'
  BY <1>1, <1>2, <1>4, PipesAssumption
     DEF CallOK, OwnedBy, Receiving, Unrouting, Draining
<1>6. StepOK(a, p)' /\ TrashOK(p)'
  BY <1>1, <1>2 DEF StepOK, TrashOK, Receiving
<1>7. PlaceOK(p)'
  <2>1. \A c \in Apps : pipeOf'[c] = p <=> c = a
    BY <1>2, OwnerAlone DEF IInv
  <2>2. PlaceOK(p)
    BY LocalForm
  <2>3. \A i \in DOMAIN queue[p] : queue[p][i] # NoBuf
    BY <1>0, PipesAssumption DEF TypeOK
  <2> QED
    BY <1>1, <1>2, <1>4, <2>1, <2>2, <2>3 DEF PlaceOK
<1>8. RouteOK(p)' /\ EmptyOK(p)'
  BY <1>1, LocalForm DEF RouteOK, EmptyOK, OwnedBy, Image
<1>9. ScanOK(a, p)'
  <2>1. deleting[a] => \A m \in MsgIds : dest[m][p] = NoDest
    BY <1>4, LocalForm DEF ScanOK, Unrouting, CallOK
  <2> QED
    BY <1>1, <1>2, <2>1 DEF ScanOK, Unrouting
<1>10. \A b \in Bufs, q \in Pipes : OnPipe(b, q)' <=> OnPipe(b, q)
  <2> SUFFICES ASSUME NEW b \in Bufs, NEW q \in Pipes
               PROVE  OnPipe(b, q)' <=> OnPipe(b, q)
    OBVIOUS
  <2>1. b # NoBuf
    BY PipesAssumption
  <2>2. \A c \in Apps : pipeOf'[c] = q /\ hand'[c] = b <=> pipeOf[c] = q /\ hand[c] = b
    BY <1>1, <1>2, <1>4, <2>1
  <2>3. (b = CurrentBuff'[q] \/ b = ToTrashBuff'[q]) <=>
        (b = CurrentBuff[q] \/ b = ToTrashBuff[q])
    BY <1>1, <1>2, <1>3, <2>1
  <2> QED
    BY <1>1, <2>2, <2>3, OnPipeDef
<1>11. CallsOwnPipe' /\ BuffersInStep' /\ OnePlace' /\ RoutesScanned' /\ IdlePipeEmpty'
  BY <1>1, <1>2, <1>4, <1>5, <1>6, <1>7, <1>8, <1>9, PipeStep
<1> QED
  BY <1>1, <1>10, <1>11, SameHolders DEF Rest

LEMMA RcvClearStep ==
  ASSUME IInv, NEW a \in Apps, RcvClear(a)
  PROVE  Rest'
<1>0. TypeOK
  BY DEF IInv
<1>1. UNCHANGED <<inUse, owner, depth, ignoreMine, queue, ToTrashBuff, rtbl, dest,
                  UseCount, content, pipeOf, hand, idx, deleting, zc>>
  BY DEF RcvClear, pipeVars, routeVars, bufVars
<1>2. PICK p \in Pipes : p = pipeOf[a] /\ OwnedBy(p, a)
  BY <1>0 DEF RcvClear, IInv, CallsOwnPipe, Receiving, TypeOK
<1>3. /\ pc[a] = "rcvClear" /\ pc'[a] = "rcvGet" /\ CurrentBuff'[p] = NoBuf
      /\ \A c \in Apps \ {a} : pc'[c] = pc[c]
      /\ \A q \in Pipes \ {p} : CurrentBuff'[q] = CurrentBuff[q]
  BY <1>0, <1>2 DEF RcvClear, TypeOK
<1>4. /\ CallOK(a) /\ StepOK(a, p) /\ TrashOK(p) /\ PlaceOK(p) /\ RouteOK(p)
      /\ ScanOK(a, p) /\ EmptyOK(p)
  BY LocalForm
<1>5. ToTrashBuff[p] = CurrentBuff[p] /\ hand[a] = NoBuf
  BY <1>2, <1>3, <1>4 DEF StepOK, CallOK
<1>6. CallOK(a)'
  BY <1>1, <1>2, <1>3, <1>4 DEF CallOK, OwnedBy, Receiving, Unrouting, Draining
<1>7. StepOK(a, p)' /\ TrashOK(p)'
  BY <1>1, <1>2, <1>3 DEF StepOK, TrashOK, Receiving
<1>8. PlaceOK(p)'
  <2>1. \A i \in DOMAIN queue[p] : queue[p][i] # NoBuf
    BY <1>0, PipesAssumption DEF TypeOK
  <2> QED
    BY <1>1, <1>3, <1>4, <2>1 DEF PlaceOK
<1>9. RouteOK(p)' /\ EmptyOK(p)' /\ ScanOK(a, p)'
  BY <1>1, <1>2, <1>3, <1>4 DEF RouteOK, EmptyOK, ScanOK, OwnedBy, Image, Unrouting
<1>10. \A b \in Bufs, q \in Pipes : OnPipe(b, q)' <=> OnPipe(b, q)
  <2> SUFFICES ASSUME NEW b \in Bufs, NEW q \in Pipes
               PROVE  OnPipe(b, q)' <=> OnPipe(b, q)
    OBVIOUS
  <2>1. b # NoBuf
    BY PipesAssumption
  <2>2. (b = CurrentBuff'[q] \/ b = ToTrashBuff'[q]) <=>
        (b = CurrentBuff[q] \/ b = ToTrashBuff[q])
    BY <1>1, <1>3, <1>5, <2>1
  <2> QED
    BY <1>1, <2>2, OnPipeDef
<1>11. CallsOwnPipe' /\ BuffersInStep' /\ OnePlace' /\ RoutesScanned' /\ IdlePipeEmpty'
  BY <1>1, <1>2, <1>3, <1>6, <1>7, <1>8, <1>9, PipeStep
<1> QED
  BY <1>1, <1>10, <1>11, SameHolders DEF Rest

LEMMA RcvNoneStep ==
  ASSUME IInv, NEW a \in Apps, RcvNone(a)
  PROVE  Rest'
<1>0. TypeOK
  BY DEF IInv
<1>1. UNCHANGED <<inUse, owner, depth, ignoreMine, queue, CurrentBuff, ToTrashBuff,
                  rtbl, dest, UseCount, content, pipeOf, hand, idx, deleting, zc>>
  BY DEF RcvNone, pipeVars, routeVars, bufVars
<1>2. PICK p \in Pipes : p = pipeOf[a] /\ OwnedBy(p, a)
  BY <1>0 DEF RcvNone, IInv, CallsOwnPipe, Receiving, TypeOK
<1>3. /\ pc[a] = "rcvGet" /\ pc'[a] = "rcvFinish" /\ queue[p] = <<>>
      /\ \A c \in Apps \ {a} : pc'[c] = pc[c]
  BY <1>0, <1>2 DEF RcvNone, TypeOK
<1>4. /\ CallOK(a) /\ StepOK(a, p) /\ TrashOK(p) /\ PlaceOK(p) /\ RouteOK(p)
      /\ ScanOK(a, p) /\ EmptyOK(p)
  BY LocalForm
<1>6. CallOK(a)'
  BY <1>1, <1>2, <1>3, <1>4 DEF CallOK, OwnedBy, Receiving, Unrouting, Draining
<1>7. StepOK(a, p)' /\ TrashOK(p)'
  BY <1>1, <1>2, <1>3, <1>4 DEF StepOK, TrashOK, Receiving
<1>8. PlaceOK(p)'
  BY <1>1, <1>4 DEF PlaceOK
<1>9. RouteOK(p)' /\ EmptyOK(p)' /\ ScanOK(a, p)'
  BY <1>1, <1>2, <1>3, <1>4 DEF RouteOK, EmptyOK, ScanOK, OwnedBy, Image, Unrouting
<1>10. \A b \in Bufs, q \in Pipes : OnPipe(b, q)' <=> OnPipe(b, q)
  BY <1>1, OnPipeDef
<1>11. CallsOwnPipe' /\ BuffersInStep' /\ OnePlace' /\ RoutesScanned' /\ IdlePipeEmpty'
  BY <1>1, <1>2, <1>3, <1>6, <1>7, <1>8, <1>9, PipeStep
<1> QED
  BY <1>1, <1>10, <1>11, SameHolders DEF Rest

LEMMA RcvGetStep ==
  ASSUME IInv, NEW a \in Apps, RcvGet(a)
  PROVE  Rest'
<1>0. TypeOK
  BY DEF IInv
<1>1. UNCHANGED <<inUse, owner, depth, ignoreMine, CurrentBuff, ToTrashBuff,
                  rtbl, dest, UseCount, content, pipeOf, idx, deleting, zc>>
  BY DEF RcvGet, pipeVars, routeVars, bufVars
<1>2. PICK p \in Pipes : p = pipeOf[a] /\ OwnedBy(p, a)
  BY <1>0 DEF RcvGet, IInv, CallsOwnPipe, Receiving, TypeOK
<1>3. /\ pc[a] = "rcvGet" /\ pc'[a] = "rcvFinish" /\ queue[p] # <<>>
      /\ hand'[a] = Head(queue[p]) /\ queue'[p] = Tail(queue[p])
      /\ \A c \in Apps \ {a} : pc'[c] = pc[c] /\ hand'[c] = hand[c]
      /\ \A q \in Pipes \ {p} : queue'[q] = queue[q]
  BY <1>0, <1>2 DEF RcvGet, TypeOK
<1>4. /\ CallOK(a) /\ StepOK(a, p) /\ TrashOK(p) /\ PlaceOK(p) /\ RouteOK(p)
      /\ ScanOK(a, p) /\ EmptyOK(p)
  BY LocalForm
<1>5. /\ hand[a] = NoBuf /\ hand'[a] \in Bufs /\ hand'[a] # NoBuf
      /\ hand'[a] = queue[p][1]
      /\ DOMAIN queue[p] = 1 .. Len(queue[p]) /\ Len(queue[p]) \in Nat \ {0}
      /\ DOMAIN queue'[p] = 1 .. Len(queue[p]) - 1
      /\ \A i \in 1 .. Len(queue[p]) - 1 : queue'[p][i] = queue[p][i + 1]
  <2>1. queue[p] \in Seq(Bufs)
    BY <1>0 DEF TypeOK
  <2>2. hand[a] = NoBuf
    BY <1>3, <1>4 DEF CallOK
  <2> QED
    BY <1>3, <2>1, <2>2, TailFacts, PipesAssumption
<1>6. CallOK(a)'
  BY <1>1, <1>2, <1>3, <1>4 DEF CallOK, OwnedBy, Receiving, Unrouting, Draining
<1>7. StepOK(a, p)' /\ TrashOK(p)'
  BY <1>1, <1>2, <1>3, <1>4, <1>5 DEF StepOK, TrashOK, Receiving
<1>8. PlaceOK(p)'
  <2>1. \A c \in Apps : pipeOf'[c] = p <=> c = a
    BY <1>1, <1>2, OwnerAlone DEF IInv
  <2>5. /\ \A i, j \in 1 .. Len(queue[p]) : queue[p][i] = queue[p][j] => i = j
        /\ \A i \in 1 .. Len(queue[p]) :
             queue[p][i] # CurrentBuff[p] /\ queue[p][i] # ToTrashBuff[p]
    BY <1>4, <1>5 DEF PlaceOK
  <2>6. \A i \in DOMAIN queue'[p] :
          /\ i \in Nat /\ i + 1 \in 1 .. Len(queue[p]) /\ i + 1 # 1
          /\ queue'[p][i] = queue[p][i + 1]
    BY <1>5
  <2>7. 1 \in 1 .. Len(queue[p])
    BY <1>5
  <2>2. \A i, j \in DOMAIN queue'[p] : queue'[p][i] = queue'[p][j] => i = j
    <3> SUFFICES ASSUME NEW i \in DOMAIN queue'[p], NEW j \in DOMAIN queue'[p],
                        queue'[p][i] = queue'[p][j]
                 PROVE  i = j
      OBVIOUS
    <3>1. i + 1 = j + 1
      BY <2>5, <2>6
    <3> QED
      BY <2>6, <3>1
  <2>3. \A i \in DOMAIN queue'[p] :
          /\ queue'[p][i] # CurrentBuff[p] /\ queue'[p][i] # ToTrashBuff[p]
          /\ hand'[a] # queue'[p][i]
    BY <1>5, <2>5, <2>6, <2>7
  <2>4. hand'[a] # CurrentBuff[p] /\ hand'[a] # ToTrashBuff[p]
    BY <1>4, <1>5 DEF PlaceOK
  <2> QED
    BY <1>1, <2>1, <2>2, <2>3, <2>4 DEF PlaceOK
<1>9. RouteOK(p)' /\ EmptyOK(p)' /\ ScanOK(a, p)'
  BY <1>1, <1>2, <1>3, <1>4 DEF RouteOK, EmptyOK, ScanOK, OwnedBy, Image, Unrouting
<1>10. \A b \in Bufs, q \in Pipes : OnPipe(b, q)' <=> OnPipe(b, q)
  <2> SUFFICES ASSUME NEW b \in Bufs, NEW q \in Pipes
               PROVE  OnPipe(b, q)' <=> OnPipe(b, q)
    OBVIOUS
  <2>1. b # NoBuf
    BY PipesAssumption
  <2>2. CASE q = p
    <3>1. (\E i \in DOMAIN queue[p] : queue[p][i] = b)
            <=> (\E i \in DOMAIN queue'[p] : queue'[p][i] = b) \/ hand'[a] = b
      <4>1. ASSUME NEW i \in DOMAIN queue[p], i # 1
            PROVE  i - 1 \in DOMAIN queue'[p] /\ queue'[p][i - 1] = queue[p][i]
        BY <1>5, <4>1
      <4>2. ASSUME NEW i \in DOMAIN queue'[p]
            PROVE  i + 1 \in DOMAIN queue[p] /\ queue'[p][i] = queue[p][i + 1]
        BY <1>5, <4>2
      <4>3. 1 \in DOMAIN queue[p]
        BY <1>5
      <4> QED
        BY <1>5, <4>1, <4>2, <4>3
    <3>2. \A c \in Apps : pipeOf[c] = p <=> c = a
      BY <1>2, OwnerAlone DEF IInv
    <3> QED
      BY <1>1, <1>5, <2>1, <2>2, <3>1, <3>2, OnPipeDef
  <2>3. CASE q # p
    <3>1. \A c \in Apps : pipeOf[c] = q => c # a
      BY <1>2, <2>3
    <3> QED
      BY <1>1, <1>3, <2>3, <3>1, OnPipeDef
  <2> QED
    BY <2>2, <2>3
<1>11. CallsOwnPipe' /\ BuffersInStep' /\ OnePlace' /\ RoutesScanned' /\ IdlePipeEmpty'
  BY <1>1, <1>2, <1>3, <1>6, <1>7, <1>8, <1>9, PipeStep
<1> QED
  BY <1>1, <1>10, <1>11, SameHolders DEF Rest

\* The end of a receive drops the buffer in the trash and makes the message in
\* hand the current one.
LEMMA RcvFinishStep ==
  ASSUME IInv, TypeOK', NEW a \in Apps, RcvFinish(a)
  PROVE  Rest'
<1>0. TypeOK
  BY DEF IInv
<1>1. UNCHANGED <<inUse, owner, depth, ignoreMine, queue, rtbl, idx, deleting, zc>>
  BY DEF RcvFinish, pipeVars
<1>2. PICK p \in Pipes : p = pipeOf[a] /\ OwnedBy(p, a)
  BY <1>0 DEF RcvFinish, IInv, CallsOwnPipe, Receiving, TypeOK
<1>3. /\ pc[a] = "rcvFinish"
      /\ pc'[a] = IF ~deleting[a] THEN "idle"
                  ELSE IF hand[a] # NoBuf THEN "delDrain" ELSE "delFinal"
      /\ pipeOf'[a] = IF deleting[a] THEN p ELSE NoPipe
      /\ hand'[a] = NoBuf /\ ToTrashBuff'[p] = NoBuf
      /\ CurrentBuff'[p] = IF hand[a] # NoBuf THEN hand[a] ELSE CurrentBuff[p]
      /\ \A c \in Apps \ {a} : /\ pc'[c] = pc[c] /\ hand'[c] = hand[c]
                              /\ pipeOf'[c] = pipeOf[c]
      /\ \A q \in Pipes \ {p} : /\ CurrentBuff'[q] = CurrentBuff[q]
                               /\ ToTrashBuff'[q] = ToTrashBuff[q]
  BY <1>0, <1>2 DEF RcvFinish, TypeOK
<1>4. /\ CallOK(a) /\ StepOK(a, p) /\ TrashOK(p) /\ PlaceOK(p) /\ RouteOK(p)
      /\ ScanOK(a, p) /\ EmptyOK(p)
  BY LocalForm
<1>5. CurrentBuff[p] = NoBuf /\ CurrentBuff'[p] = hand[a]
  BY <1>2, <1>3, <1>4 DEF StepOK
<1>6. \A c \in Apps : pipeOf[c] = p <=> c = a
  BY <1>2, OwnerAlone DEF IInv
<1>7. \A n \in MsgIds, q \in Pipes : dest'[n][q] = NoDest <=> dest[n][q] = NoDest
  <2> DEFINE m == content[hand[a]].msg
  <2>1. CASE dest' = dest
    BY <2>1
  <2>2. CASE dest' # dest
    <3>1. /\ dest[m][p] # NoDest /\ dest[m][p].cnt > 0
          /\ dest' = [dest EXCEPT ![m] = [dest[m] EXCEPT ![p] =
                        [dest[m][p] EXCEPT !.cnt = @ - 1]]]
      BY <1>2, <2>2 DEF RcvFinish
    <3>2. m \in MsgIds
      <4>1. PICK v : dest' = [dest EXCEPT ![m] = v]
        BY <3>1
      <4>2. dest = [n \in MsgIds |-> dest[n]]
        BY <1>0 DEF TypeOK
      <4> HIDE DEF m
      <4> QED
        BY ONLY <2>2, <4>1, <4>2
    <3>3. dest[m][p] \in Dest
      <4>1. dest \in [MsgIds -> [Pipes -> Dest \cup {NoDest}]]
        BY <1>0 DEF TypeOK
      <4> HIDE DEF m
      <4> QED
        BY <3>1, <3>2, <4>1
    <3>4. PICK d : d = [dest[m][p] EXCEPT !.cnt = @ - 1]
      OBVIOUS
    <3>5. d # NoDest
      BY <3>1, <3>3, <3>4, DestFacts, NoneAssumption
    <3>6. dest' = [dest EXCEPT ![m] = [dest[m] EXCEPT ![p] = d]]
      BY <3>1, <3>4
    <3>7. PICK n0 \in MsgIds : n0 = m
      BY <3>2
    <3> HIDE DEF m
    <3>8. dest' = [dest EXCEPT ![n0] = [dest[n0] EXCEPT ![p] = d]]
      BY <3>6, <3>7
    <3>9. dest[n0][p] # NoDest
      BY <3>1, <3>7
    <3>10. dest \in [MsgIds -> [Pipes -> Dest \cup {NoDest}]]
      BY <1>0 DEF TypeOK
    <3> QED
      BY <3>5, <3>8, <3>9, <3>10
  <2> QED
    BY <2>1, <2>2
<1>8. CallOK(a)'
  BY <1>1, <1>2, <1>3, <1>4 DEF CallOK, OwnedBy, Receiving, Unrouting, Draining
<1>9. StepOK(a, p)' /\ TrashOK(p)'
  BY <1>1, <1>2, <1>3, <1>4, <1>5 DEF StepOK, TrashOK, Receiving
<1>10. PlaceOK(p)'
  <2>1. \A i \in DOMAIN queue[p] : queue[p][i] # NoBuf
    BY <1>0, PipesAssumption DEF TypeOK
  <2>2. \A c \in Apps : pipeOf'[c] = p => hand'[c] = NoBuf
    BY <1>3, <1>6
  <2> QED
    BY <1>1, <1>2, <1>3, <1>4, <1>5, <2>1, <2>2 DEF PlaceOK
<1>11. RouteOK(p)' /\ EmptyOK(p)' /\ ScanOK(a, p)'
  <2>1. RouteOK(p)' /\ EmptyOK(p)'
    BY <1>1, <1>2, <1>4, <1>7 DEF RouteOK, EmptyOK, OwnedBy, Image
  <2>2. ScanOK(a, p)'
    BY <1>1, <1>2, <1>3, <1>4, <1>7 DEF ScanOK, Unrouting
  <2> QED
    BY <2>1, <2>2
<1>12. CallsOwnPipe' /\ BuffersInStep' /\ OnePlace' /\ RoutesScanned' /\ IdlePipeEmpty'
  BY <1>1, <1>2, <1>3, <1>7, <1>8, <1>9, <1>10, <1>11, PipeStep
<1>13. PICK x : x = ToTrashBuff[p]
  OBVIOUS
<1>14. \A b \in Bufs, q \in Pipes :
         OnPipe(b, q)' <=> OnPipe(b, q) /\ ~(q = p /\ b = x)
  <2> SUFFICES ASSUME NEW b \in Bufs, NEW q \in Pipes
               PROVE  OnPipe(b, q)' <=> OnPipe(b, q) /\ ~(q = p /\ b = x)
    OBVIOUS
  <2>1. b # NoBuf
    BY PipesAssumption
  <2>2. CASE q = p
    <3>1. ~\E c \in Apps : pipeOf'[c] = q /\ hand'[c] = b
      BY <1>3, <1>6, <2>1, <2>2
    <3>2. (\E c \in Apps : pipeOf[c] = q /\ hand[c] = b) <=> hand[a] = b
      BY <1>6, <2>2
    <3>3. b = x => b # hand[a] /\ \A i \in DOMAIN queue[p] : queue[p][i] # b
      BY <1>4, <1>6, <1>13, <2>1 DEF PlaceOK
    <3> QED
      BY <1>1, <1>3, <1>5, <1>13, <2>1, <2>2, <3>1, <3>2, <3>3, OnPipeDef
  <2>3. CASE q # p
    <3>1. \A c \in Apps : pipeOf'[c] = q /\ hand'[c] = b
                            <=> pipeOf[c] = q /\ hand[c] = b
      BY <1>3, <1>6, <2>1, <2>3, PipesAssumption
    <3> QED
      BY <1>1, <1>3, <2>3, <3>1, OnPipeDef
  <2> QED
    BY <2>2, <2>3
<1>15. CASE x = NoBuf
  <2>1. UNCHANGED <<UseCount, content>>
    BY <1>2, <1>13, <1>15 DEF RcvFinish, DecrBufUseCnt, bufVars
  <2>2. \A b \in Bufs, q \in Pipes : OnPipe(b, q)' <=> OnPipe(b, q)
    BY <1>14, <1>15, PipesAssumption
  <2> QED
    BY <1>1, <1>12, <2>1, <2>2, SameHolders DEF Rest
<1>16. CASE x # NoBuf
  <2>1. x \in Bufs
    BY <1>0, <1>13, <1>16 DEF TypeOK
  <2>2. p \in Holders(x)
    BY <1>13, <2>1, OnPipeDef DEF Holders
  <2>3. Holders(x)' = Holders(x) \ {p}
    BY <1>1, <1>14, <2>1, PipesAssumption DEF Holders
  <2>4. Cardinality(Holders(x)') = Cardinality(Holders(x)) - 1
    BY <2>2, <2>3, HoldersFinite, FS_RemoveElement
  <2>5. UseCount[x] = Cardinality(Holders(x)) /\ UseCount[x] > 0
    <3>1. UseCount[x] = Cardinality(Holders(x)) /\ UseCount[x] \in Nat
      BY <1>0, <2>1 DEF IInv, UseCountExact, TypeOK
    <3>2. Cardinality(Holders(x)) # 0
      BY <2>2, HoldersFinite, FS_EmptySet
    <3> QED
      BY <3>1, <3>2
  <2>6. /\ UseCount' = [UseCount EXCEPT ![x] = @ - 1]
        /\ content' = IF UseCount[x] = 1 THEN [content EXCEPT ![x] = NoContent]
                      ELSE content
    BY <1>2, <1>13, <1>16, <2>5 DEF RcvFinish, DecrBufUseCnt
  <2>7. UseCount'[x] = Cardinality(Holders(x)')
    BY <1>0, <2>1, <2>4, <2>5, <2>6 DEF TypeOK
  <2>8. \A b \in Bufs \ {x} : UseCount'[b] = UseCount[b] /\ content'[b] = content[b]
    BY <1>0, <2>6 DEF TypeOK
  <2>9. ASSUME NEW q \in Pipes, OnPipe(x, q)' PROVE content'[x] # NoContent
    <3>1. q \in Holders(x)' /\ OnPipe(x, q)
      BY <1>14, <2>1, <2>9 DEF Holders
    <3>2. Cardinality(Holders(x)') # 0
      BY <3>1, HoldersFinite, FS_EmptySet
    <3>3. UseCount[x] # 1
      BY <2>4, <2>5, <3>2
    <3> QED
      BY <2>1, <2>6, <3>1, <3>3 DEF IInv, HeldIntact
  <2>10. UseCountExact' /\ HeldIntact'
    BY <1>1, <1>14, <2>1, <2>7, <2>8, <2>9, OneBuffer
  <2>11. ZeroCopyAlone'
    <3>1. OnPipe(x, p)
      BY <1>13, OnPipeDef
    <3>2. \A c \in Apps : zc[c] # NoBuf => zc[c] # x
      BY <3>1, ZeroCopyHeldByOne
    <3> QED
      BY <1>0, <1>1, <2>8, <3>2 DEF IInv, ZeroCopyAlone, TypeOK
  <2> QED
    BY <1>12, <2>10, <2>11 DEF Rest
<1> QED
  BY <1>15, <1>16

-----------------------------------------------------------------------------
(* Deleting a pipe. *)

LEMMA ScanStep ==
  ASSUME IInv, TypeOK', NEW a \in Apps, NEW p \in Pipes, OwnedBy(p, a),
         \/ pc[a] = "idle"
         \/ pc[a] = "delScan" /\ pipeOf[a] = p,
         NEW i \in Nat \ {0},
         \A k \in DOMAIN rtbl : k < i => dest[rtbl[k]][p] = NoDest,
         Scan(a, p, i),
         pipeOf' = [pipeOf EXCEPT ![a] = p],
         deleting' = [deleting EXCEPT ![a] = TRUE],
         UNCHANGED routeVars
  PROVE  Rest'
<1>0. TypeOK
  BY DEF IInv
<1>1. UNCHANGED <<inUse, owner, depth, ignoreMine, queue, CurrentBuff, rtbl, dest,
                  hand, zc>>
  BY DEF Scan, pipeVars, routeVars
<1>2. ToTrashBuff[p] = NoBuf
  BY TrashEmpty DEF Receiving
<1>3. UNCHANGED <<UseCount, content>> /\ ToTrashBuff' = ToTrashBuff
  <2>1. CASE Matches(p, i) # {}
    BY <2>1 DEF Scan, bufVars
  <2>2. CASE Matches(p, i) = {}
    BY <1>0, <1>2, <2>2 DEF Scan, DecrBufUseCnt, bufVars, TypeOK
  <2> QED
    BY <2>1, <2>2
<1>4. /\ pipeOf'[a] = p /\ deleting'[a] /\ pipeOf[a] \in {NoPipe, p} /\ hand[a] = NoBuf
      /\ \A c \in Apps \ {a} : pipeOf'[c] = pipeOf[c] /\ deleting'[c] = deleting[c]
  <2>1. pipeOf[a] \in {NoPipe, p} /\ hand[a] = NoBuf
    <3>1. CallOK(a)
      BY LocalForm
    <3> QED
      BY <3>1 DEF CallOK, Receiving, Unrouting, Draining
  <2>2. pipeOf'[a] = p /\ \A c \in Apps \ {a} : pipeOf'[c] = pipeOf[c]
    BY <1>0 DEF TypeOK
  <2>3. deleting'[a] /\ \A c \in Apps \ {a} : deleting'[c] = deleting[c]
    BY <1>0 DEF TypeOK
  <2> QED
    BY <2>1, <2>2, <2>3
<1>5. /\ DOMAIN rtbl = 1 .. Len(rtbl) /\ Len(rtbl) \in Nat
      /\ \A k \in DOMAIN rtbl : rtbl[k] \in MsgIds
  BY <1>0 DEF TypeOK
<1>6. /\ \A c \in Apps \ {a} : pc'[c] = pc[c] /\ idx'[c] = idx[c]
      /\ \/ /\ pc'[a] = "delUnsub" /\ idx'[a] \in DOMAIN rtbl
            /\ \A k \in DOMAIN rtbl : k < idx'[a] => dest[rtbl[k]][p] = NoDest
         \/ /\ pc'[a] = "delDrain"
            /\ \A k \in DOMAIN rtbl : dest[rtbl[k]][p] = NoDest
  <2>1. CASE Matches(p, i) # {}
    <3>1. PICK j \in Matches(p, i) : /\ \A k \in Matches(p, i) : j <= k
                                     /\ idx' = [idx EXCEPT ![a] = j]
      BY <2>1 DEF Scan
    <3>2. pc' = [pc EXCEPT ![a] = "delUnsub"]
      BY <2>1 DEF Scan
    <3>3. j \in DOMAIN rtbl /\ j \in Nat
      BY <1>5, <3>1 DEF Matches
    <3>4. ASSUME NEW k \in DOMAIN rtbl, k < j
          PROVE  dest[rtbl[k]][p] = NoDest
      <4>1. k \notin Matches(p, i) /\ k \in Nat
        BY <1>5, <3>1, <3>3, <3>4
      <4>2. CASE k < i
        BY <4>2
      <4>3. CASE ~(k < i)
        BY <1>5, <4>1, <4>3 DEF Matches
      <4> QED
        BY <4>2, <4>3
    <3> QED
      BY <1>0, <3>1, <3>2, <3>3, <3>4 DEF TypeOK
  <2>2. CASE Matches(p, i) = {}
    <3>1. /\ pc' = [pc EXCEPT ![a] = "delDrain"]
          /\ idx' = [idx EXCEPT ![a] = 0]
      BY <2>2 DEF Scan
    <3>2. ASSUME NEW k \in DOMAIN rtbl PROVE dest[rtbl[k]][p] = NoDest
      <4>1. CASE k < i
        BY <4>1
      <4>2. CASE ~(k < i)
        BY <1>5, <2>2, <4>2 DEF Matches
      <4> QED
        BY <4>1, <4>2
    <3> QED
      BY <1>0, <3>1, <3>2 DEF TypeOK
  <2> QED
    BY <2>1, <2>2
<1>7. /\ CallOK(a) /\ StepOK(a, p) /\ TrashOK(p) /\ PlaceOK(p) /\ RouteOK(p)
      /\ ScanOK(a, p) /\ EmptyOK(p)
  BY LocalForm
<1>8. CallOK(a)'
  BY <1>1, <1>4, <1>6, PipesAssumption
     DEF CallOK, OwnedBy, Receiving, Unrouting, Draining
<1>9. StepOK(a, p)' /\ TrashOK(p)'
  BY <1>2, <1>3, <1>4, <1>6 DEF StepOK, TrashOK
<1>10. PlaceOK(p)'
  <2>1. \A c \in Apps : pipeOf'[c] = p <=> c = a
    BY <1>4, OwnerAlone DEF IInv
  <2>2. \A j \in DOMAIN queue[p] : queue[p][j] # NoBuf
    BY <1>0, PipesAssumption DEF TypeOK
  <2> QED
    BY <1>1, <1>3, <1>4, <1>7, <2>1, <2>2 DEF PlaceOK
<1>11. RouteOK(p)' /\ EmptyOK(p)'
  BY <1>1, <1>3, <1>7 DEF RouteOK, EmptyOK, Image
<1>12. ScanOK(a, p)'
  <2>1. CASE pc'[a] = "delUnsub"
    BY <1>1, <1>6, <2>1 DEF ScanOK, Unrouting
  <2>2. CASE pc'[a] = "delDrain"
    <3>1. \A k \in DOMAIN rtbl : dest[rtbl[k]][p] = NoDest
      BY <1>6, <2>2
    <3>2. \A m \in MsgIds : dest[m][p] = NoDest
      BY <1>7, <3>1 DEF RouteOK, Image
    <3> QED
      BY <1>1, <2>2, <3>2 DEF ScanOK, Unrouting
  <2> QED
    BY <1>6, <2>1, <2>2
<1>13. CallsOwnPipe' /\ BuffersInStep' /\ OnePlace' /\ RoutesScanned' /\ IdlePipeEmpty'
  BY <1>1, <1>3, <1>4, <1>6, <1>8, <1>9, <1>10, <1>11, <1>12, PipeStep
<1>14. \A b \in Bufs, q \in Pipes : OnPipe(b, q)' <=> OnPipe(b, q)
  <2> SUFFICES ASSUME NEW b \in Bufs, NEW q \in Pipes
               PROVE  OnPipe(b, q)' <=> OnPipe(b, q)
    OBVIOUS
  <2>1. b # NoBuf
    BY PipesAssumption
  <2>2. \A c \in Apps : pipeOf'[c] = q /\ hand'[c] = b <=> pipeOf[c] = q /\ hand[c] = b
    BY <1>1, <1>4, <2>1
  <2> QED
    BY <1>1, <1>3, <2>2, OnPipeDef
<1> QED
  BY <1>1, <1>3, <1>13, <1>14, SameHolders DEF Rest

LEMMA DeletePipeStep ==
  ASSUME IInv, TypeOK', NEW a \in Apps, NEW p \in Pipes, DeletePipe(a, p)
  PROVE  Rest'
<1>1. \A k \in DOMAIN rtbl : k < 1 => dest[rtbl[k]][p] = NoDest
  BY DEF IInv, TypeOK
<1>2. /\ pc[a] = "idle" /\ OwnedBy(p, a) /\ Scan(a, p, 1) /\ UNCHANGED routeVars
      /\ pipeOf' = [pipeOf EXCEPT ![a] = p]
      /\ deleting' = [deleting EXCEPT ![a] = TRUE]
  BY DEF DeletePipe
<1>3. 1 \in Nat \ {0}
  OBVIOUS
<1> QED
  BY <1>1, <1>2, <1>3, ScanStep

LEMMA DelScanStep ==
  ASSUME IInv, TypeOK', NEW a \in Apps, DelScan(a)
  PROVE  Rest'
<1>0. TypeOK
  BY DEF IInv
<1>1. PICK p \in Pipes : p = pipeOf[a] /\ OwnedBy(p, a)
  BY <1>0 DEF DelScan, IInv, CallsOwnPipe, Unrouting, TypeOK
<1>2. pc[a] = "delScan" /\ deleting[a]
  BY DEF DelScan, IInv, CallsOwnPipe, Unrouting
<1>3. pipeOf' = [pipeOf EXCEPT ![a] = p] /\ deleting' = [deleting EXCEPT ![a] = TRUE]
  <2>1. pipeOf' = pipeOf /\ deleting' = deleting
    BY DEF DelScan
  <2>2. pipeOf \in [Apps -> Pipes \cup {NoPipe}] /\ deleting \in [Apps -> BOOLEAN]
    BY <1>0 DEF TypeOK
  <2>3. pipeOf[a] = p /\ deleting[a] = TRUE
    BY <1>1, <1>2, <2>2
  <2> QED
    BY ONLY <2>1, <2>2, <2>3
<1>4. ScanOK(a, p)
  BY LocalForm
<1>5. idx[a] \in DOMAIN rtbl /\ idx[a] \in Nat /\ idx[a] + 1 \in Nat \ {0}
  <2>1. idx[a] \in DOMAIN rtbl
    BY <1>1, <1>2, <1>4 DEF ScanOK, Unrouting
  <2>2. idx[a] \in Nat
    BY <1>0 DEF TypeOK
  <2>3. \A i \in Nat : i + 1 \in Nat \ {0}
    OBVIOUS
  <2> QED
    BY ONLY <2>1, <2>2, <2>3
<1>6. \A k \in DOMAIN rtbl : k < idx[a] + 1 => dest[rtbl[k]][p] = NoDest
  <2>1. ASSUME NEW k \in DOMAIN rtbl, k < idx[a] + 1
        PROVE  k < idx[a] \/ k = idx[a]
    <3>1. rtbl \in Seq(MsgIds)
      BY <1>0 DEF TypeOK
    <3>2. k \in Nat
      BY <2>1, <3>1
    <3> QED
      BY <1>5, <2>1, <3>2
  <2> QED
    BY <1>1, <1>2, <1>4, <2>1 DEF ScanOK, Unrouting
<1>7. Scan(a, p, idx[a] + 1) /\ UNCHANGED routeVars
  BY <1>1 DEF DelScan
<1> QED
  BY <1>1, <1>2, <1>3, <1>5, <1>6, <1>7, ScanStep

LEMMA DelUnsubStep ==
  ASSUME IInv, NEW a \in Apps, DelUnsub(a)
  PROVE  Rest'
<1>0. TypeOK
  BY DEF IInv
<1>1. UNCHANGED <<inUse, owner, depth, ignoreMine, queue, CurrentBuff, ToTrashBuff,
                  rtbl, UseCount, content, pipeOf, hand, idx, deleting, zc>>
  BY DEF DelUnsub, pipeVars, bufVars
<1>2. PICK p \in Pipes : p = pipeOf[a] /\ OwnedBy(p, a)
  BY <1>0 DEF DelUnsub, IInv, CallsOwnPipe, Unrouting, TypeOK
<1>3. /\ CallOK(a) /\ StepOK(a, p) /\ TrashOK(p) /\ PlaceOK(p) /\ RouteOK(p)
      /\ ScanOK(a, p) /\ EmptyOK(p)
  BY LocalForm
<1>4. /\ pc[a] = "delUnsub" /\ pc'[a] = "delScan" /\ deleting[a]
      /\ \A c \in Apps \ {a} : pc'[c] = pc[c]
  BY <1>0, <1>3 DEF DelUnsub, CallOK, Unrouting, TypeOK
<1>5. idx[a] \in DOMAIN rtbl /\ rtbl[idx[a]] \in MsgIds
  BY <1>0, <1>2, <1>3, <1>4 DEF ScanOK, Unrouting, TypeOK
<1>6. /\ dest'[rtbl[idx[a]]][p] = NoDest
      /\ \A m \in MsgIds : dest'[m][p] = dest[m][p] \/ dest'[m][p] = NoDest
      /\ \A m \in MsgIds, q \in Pipes \ {p} : dest'[m][q] = dest[m][q]
  BY <1>0, <1>2, <1>5 DEF DelUnsub, RemoveDest, TypeOK
<1>7. CallOK(a)' /\ StepOK(a, p)' /\ TrashOK(p)'
  <2>1. CallOK(a)'
    BY <1>1, <1>3, <1>4 DEF CallOK, OwnedBy, Receiving, Unrouting, Draining
  <2>2. ToTrashBuff[p] = NoBuf
    BY <1>2, <1>4, TrashEmpty DEF Receiving
  <2> QED
    BY <1>1, <1>4, <2>1, <2>2 DEF StepOK, TrashOK
<1>8. PlaceOK(p)' /\ RouteOK(p)' /\ EmptyOK(p)'
  BY <1>1, <1>3, <1>6 DEF PlaceOK, RouteOK, EmptyOK, Image
<1>9. ScanOK(a, p)'
  <2>1. \A k \in DOMAIN rtbl : k < idx[a] => dest'[rtbl[k]][p] = NoDest
    <3>1. \A k \in DOMAIN rtbl : rtbl[k] \in MsgIds
      BY <1>0 DEF TypeOK
    <3> QED
      BY <1>2, <1>3, <1>4, <1>6, <3>1 DEF ScanOK, Unrouting
  <2> QED
    BY <1>1, <1>4, <1>5, <1>6, <2>1 DEF ScanOK, Unrouting
<1>10. CallsOwnPipe' /\ BuffersInStep' /\ OnePlace' /\ RoutesScanned' /\ IdlePipeEmpty'
  BY <1>1, <1>2, <1>4, <1>6, <1>7, <1>8, <1>9, PipeStep
<1>11. \A b \in Bufs, q \in Pipes : OnPipe(b, q)' <=> OnPipe(b, q)
  BY <1>1, OnPipeDef
<1> QED
  BY <1>1, <1>10, <1>11, SameHolders DEF Rest

LEMMA DelFinalStep ==
  ASSUME IInv, NEW a \in Apps, DelFinal(a)
  PROVE  Rest'
<1>0. TypeOK
  BY DEF IInv
<1>1. UNCHANGED <<owner, depth, ignoreMine, ToTrashBuff, rtbl, dest,
                  UseCount, content, hand, idx, zc>>
  BY DEF DelFinal, routeVars, bufVars
<1>2. PICK p \in Pipes : p = pipeOf[a] /\ OwnedBy(p, a)
  BY <1>0 DEF DelFinal, IInv, CallsOwnPipe, Draining, TypeOK
<1>3. /\ CallOK(a) /\ StepOK(a, p) /\ TrashOK(p) /\ PlaceOK(p) /\ RouteOK(p)
      /\ ScanOK(a, p) /\ EmptyOK(p)
  BY LocalForm
<1>4. /\ pc[a] = "delFinal" /\ pc'[a] = "idle" /\ pipeOf'[a] = NoPipe
      /\ ~deleting'[a] /\ ~inUse'[p]
      /\ \A c \in Apps \ {a} : /\ pc'[c] = pc[c] /\ pipeOf'[c] = pipeOf[c]
                              /\ deleting'[c] = deleting[c]
      /\ \A q \in Pipes \ {p} : inUse'[q] = inUse[q]
  BY <1>0, <1>2 DEF DelFinal, TypeOK
<1>5. queue[p] = <<>> /\ CurrentBuff[p] = NoBuf /\ ToTrashBuff[p] = NoBuf
  <2>1. ToTrashBuff[p] = NoBuf
    BY <1>2, <1>4, TrashEmpty DEF Receiving
  <2> QED
    BY <1>2, <1>3, <1>4, <2>1 DEF StepOK
<1>6. queue' = queue /\ CurrentBuff' = CurrentBuff
  BY <1>0, <1>2, <1>5 DEF DelFinal, TypeOK
<1>7. hand[a] = NoBuf /\ \A m \in MsgIds : dest[m][p] = NoDest
  <2>1. hand[a] = NoBuf /\ deleting[a]
    BY <1>3, <1>4 DEF CallOK, Draining
  <2> QED
    BY <1>2, <1>3, <1>4, <2>1 DEF ScanOK, Unrouting
<1>8. CallOK(a)' /\ StepOK(a, p)' /\ TrashOK(p)' /\ ScanOK(a, p)'
  BY <1>1, <1>4, <1>5, <1>7, PipesAssumption
     DEF CallOK, StepOK, TrashOK, ScanOK, Receiving, Unrouting, Draining
<1>9. PlaceOK(p)' /\ RouteOK(p)' /\ EmptyOK(p)'
  <2>1. \A c \in Apps : pipeOf'[c] # p
    BY <1>2, <1>4, OwnerAlone, PipesAssumption DEF IInv
  <2> QED
    BY <1>1, <1>5, <1>6, <1>7, <2>1 DEF PlaceOK, RouteOK, EmptyOK
<1>10. CallsOwnPipe' /\ BuffersInStep' /\ OnePlace' /\ RoutesScanned' /\ IdlePipeEmpty'
  BY <1>1, <1>2, <1>4, <1>6, <1>8, <1>9, PipeStep
<1>11. \A b \in Bufs, q \in Pipes : OnPipe(b, q)' <=> OnPipe(b, q)
  <2> SUFFICES ASSUME NEW b \in Bufs, NEW q \in Pipes
               PROVE  OnPipe(b, q)' <=> OnPipe(b, q)
    OBVIOUS
  <2>1. b # NoBuf
    BY PipesAssumption
  <2>2. \A c \in Apps : pipeOf'[c] = q /\ hand'[c] = b <=> pipeOf[c] = q /\ hand[c] = b
    BY <1>1, <1>2, <1>4, <1>7, <2>1, PipesAssumption
  <2> QED
    BY <1>1, <1>6, <2>2, OnPipeDef
<1> QED
  BY <1>1, <1>10, <1>11, SameHolders DEF Rest

-----------------------------------------------------------------------------
(* The theorems. *)

LEMMA RestInit == Init => Rest
<1> SUFFICES ASSUME Init PROVE Rest
  OBVIOUS
<1> USE PipesAssumption DEF Init
<1>1. CallsOwnPipe /\ BuffersInStep /\ OnePlace
  BY DEF CallsOwnPipe, BuffersInStep, OnePlace, Receiving, Unrouting, Draining
<1>2. RoutesScanned /\ ZeroCopyAlone /\ IdlePipeEmpty
  BY DEF RoutesScanned, ZeroCopyAlone, IdlePipeEmpty
<1>3. \A b \in Bufs, p \in Pipes : ~OnPipe(b, p)
  BY DEF OnPipe, Image, InHand
<1>4. \A b \in Bufs : Holders(b) = {}
  BY <1>3 DEF Holders
<1>5. HeldIntact /\ UseCountExact
  BY <1>3, <1>4, FS_EmptySet DEF HeldIntact, UseCountExact
<1> QED
  BY <1>1, <1>2, <1>5 DEF Rest

LEMMA RestStep ==
  ASSUME IInv, TypeOK', [Next]_vars
  PROVE  Rest'
<1>1. ASSUME NEW a \in Apps, Call(a) PROVE Rest'
  <2>1. ASSUME NEW p \in Pipes, RcvMsg(a, p) PROVE Rest'
    BY <2>1, RcvSwapStep DEF RcvMsg
  <2> QED
    BY <1>1, <2>1, CreatePipeStep, SetPipeOptsStep, SubscribeStep, UnsubscribeStep,
       SendMsgStep, ZeroCopyGetPtrStep, ZeroCopyReleaseDescStep, DeletePipeStep
       DEF Call
<1>2. ASSUME NEW a \in Apps, Step(a) PROVE Rest'
  <2>1. ASSUME DelDrain(a) PROVE Rest'
    <3>1. pipeOf[a] \in Pipes /\ OwnedBy(pipeOf[a], a)
      BY <2>1 DEF DelDrain, IInv, CallsOwnPipe, Draining, TypeOK
    <3> QED
      BY <2>1, <3>1, RcvSwapStep DEF DelDrain
  <2> QED
    BY <1>2, <2>1, ZeroCopyReleasePtrStep, ZeroCopySendStep, RcvClearStep,
       RcvGetStep, RcvNoneStep, RcvFinishStep, DelUnsubStep, DelScanStep,
       DelFinalStep DEF Step
<1>3. CASE UNCHANGED vars
  <2>1. UNCHANGED <<inUse, owner, depth, queue, CurrentBuff, ToTrashBuff, statInUse,
                    rtbl, dest, seqCnt, UseCount, content,
                    pc, pipeOf, hand, idx, deleting, zc>>
    BY <1>3 DEF vars
  <2>2. CallsOwnPipe' /\ BuffersInStep'
    BY <2>1 DEF IInv, CallsOwnPipe, OwnedBy, BuffersInStep
  <2>3. RoutesScanned'
    BY <2>1 DEF IInv, RoutesScanned
  <2> QED
    BY <2>1, <2>2, <2>3, DestStep
<1> QED
  BY <1>1, <1>2, <1>3, SetRouteStep DEF Next

LEMMA IInvIsTypeAndRest == IInv <=> TypeOK /\ Rest
  BY DEF IInv, Rest

\* In every behaviour of the bus the inductive invariant holds: whichever calls
\* of CFE_SB_* the applications interleave, every buffer is where the step of
\* each call says it is.
THEOREM Invariance == Spec => []IInv
<1>1. Init => IInv
  BY TypeInit, RestInit, IInvIsTypeAndRest
<1>2. IInv /\ [Next]_vars => IInv'
  BY TypeStep, RestStep, IInvIsTypeAndRest DEF IInv, Rest
<1> QED
  BY <1>1, <1>2, PTL DEF Spec

\* Every variable keeps its type, the routing table index and the sequence
\* counts included.
THEOREM TypeCorrect == Spec => []TypeOK
<1>1. IInv => TypeOK
  BY DEF IInv
<1> QED
  BY <1>1, Invariance, PTL

\* Use counts are exact: CFE_SB_BufferD_t.UseCount is the number of pipes that
\* hold the buffer, so no buffer leaks and none is reused while it is held.
THEOREM UseCountCorrect == Spec => []UseCountExact
<1>1. IInv => UseCountExact
  BY DEF IInv
<1> QED
  BY <1>1, Invariance, PTL

\* A message on its way, or in the hands of an application until its next
\* CFE_SB_RcvMsg, is intact.
THEOREM MessagesIntact == Spec => []HeldIntact
<1>1. IInv => HeldIntact
  BY DEF IInv
<1> QED
  BY <1>1, Invariance, PTL

\* CFE_SB_DeletePipe leaves no subscription and no buffer behind, whatever is
\* sent to the pipe while it is being deleted.
THEOREM DeletedPipeClean == Spec => []ReleasedPipeClean
<1>1. IInv => ReleasedPipeClean
  <2> SUFFICES ASSUME IInv, NEW p \in Pipes, ~inUse[p]
               PROVE  /\ \A m \in MsgIds : dest[m][p] = NoDest
                      /\ \A b \in Bufs : ~OnPipe(b, p)
    BY DEF ReleasedPipeClean
  <2>1. \A m \in MsgIds : dest[m][p] = NoDest
    BY DEF IInv, RoutesScanned
  <2>2. queue[p] = <<>> /\ CurrentBuff[p] = NoBuf /\ ToTrashBuff[p] = NoBuf
    BY DEF IInv, IdlePipeEmpty
  <2>3. \A a \in Apps : pipeOf[a] # p
    BY PipesAssumption DEF IInv, CallsOwnPipe, OwnedBy
  <2> QED
    BY <2>1, <2>2, <2>3, OnPipeDef, PipesAssumption
<1> QED
  BY <1>1, Invariance, PTL

-----------------------------------------------------------------------------
(* The messages on a pipe.  At most one application works on it, so at most  *)
(* one buffer has been taken from its queue and not yet been handed over.    *)

\* What the receiver of p has taken from the queue: h, or nothing if h is NoBuf.
PipeHas(p, h) ==
  /\ \A a \in Apps : pipeOf[a] = p => hand[a] \in {h, NoBuf}
  /\ h # NoBuf => \E a \in Apps : pipeOf[a] = p /\ hand[a] = h

Fifo(q, c, h) ==
  LET queued == [i \in DOMAIN q |-> c[q[i]]]
  IN IF h = NoBuf THEN queued ELSE <<c[h]>> \o queued

LEMMA PipeHasOne ==
  ASSUME IInv, NEW p \in Pipes
  PROVE  \E h \in Bufs \cup {NoBuf} : PipeHas(p, h)
<1>1. CASE \E a \in Apps : pipeOf[a] = p
  <2>1. PICK a \in Apps : pipeOf[a] = p
    BY <1>1
  <2>2. \A c \in Apps : pipeOf[c] = p => c = a
    BY <2>1, OwnerAlone, PipesAssumption DEF IInv, CallsOwnPipe
  <2>3. PipeHas(p, hand[a]) /\ hand[a] \in Bufs \cup {NoBuf}
    BY <2>1, <2>2 DEF PipeHas, IInv, TypeOK
  <2> QED
    BY <2>3
<1>2. CASE ~\E a \in Apps : pipeOf[a] = p
  BY <1>2 DEF PipeHas
<1> QED
  BY <1>1, <1>2

LEMMA PipeHasFifo ==
  ASSUME NEW p, NEW h, PipeHas(p, h)
  PROVE  FifoOf(p) = Fifo(queue[p], content, h) /\ InHand(p) = {h} \ {NoBuf}
<1> DEFINE taken == {a \in Apps : pipeOf[a] = p /\ hand[a] # NoBuf}
<1>1. InHand(p) = {h} \ {NoBuf}
  BY DEF PipeHas, InHand
<1>2. CASE h = NoBuf
  <2>1. taken = {}
    BY <1>2 DEF PipeHas
  <2> QED
    BY <1>1, <1>2, <2>1 DEF FifoOf, Fifo
<1>3. CASE h # NoBuf
  <2>1. taken # {} /\ \A a \in taken : hand[a] = h
    BY <1>3 DEF PipeHas
  <2>2. hand[CHOOSE a \in taken : TRUE] = h
    BY <2>1
  <2> QED
    BY <1>1, <1>3, <2>1, <2>2 DEF FifoOf, Fifo
<1> QED
  BY <1>2, <1>3

LEMMA PipeHasFifoNext ==
  ASSUME NEW p, NEW h, PipeHas(p, h)'
  PROVE  /\ FifoOf(p)' = Fifo(queue'[p], content', h)
         /\ InHand(p)' = {h} \ {NoBuf}
<1> DEFINE taken == {a \in Apps : pipeOf'[a] = p /\ hand'[a] # NoBuf}
<1>1. InHand(p)' = {h} \ {NoBuf}
  BY DEF PipeHas, InHand
<1>2. CASE h = NoBuf
  <2>1. taken = {}
    BY <1>2 DEF PipeHas
  <2> QED
    BY <1>1, <1>2, <2>1 DEF FifoOf, Fifo
<1>3. CASE h # NoBuf
  <2>1. taken # {} /\ \A a \in taken : hand'[a] = h
    BY <1>3 DEF PipeHas
  <2>2. hand'[CHOOSE a \in taken : TRUE] = h
    BY <2>1
  <2> QED
    BY <1>1, <1>3, <2>1, <2>2 DEF FifoOf, Fifo
<1> QED
  BY <1>2, <1>3

\* The buffers whose contents an application has seen or will see.
Shown(b, p) == b \in Image(queue[p]) \cup InHand(p) \cup {CurrentBuff[p]}

\* A step that leaves the queue, the buffer taken from it and the contents of
\* both alone keeps the messages of the pipe.
LEMMA PipeUntouched ==
  ASSUME IInv, NEW p \in Pipes, queue'[p] = queue[p],
         \A a \in Apps :
           /\ pipeOf'[a] = p /\ hand'[a] # NoBuf
                <=> pipeOf[a] = p /\ hand[a] # NoBuf
           /\ pipeOf[a] = p => hand'[a] = hand[a],
         \A b \in Bufs : Shown(b, p) => content'[b] = content[b]
  PROVE  /\ FifoOf(p)' = FifoOf(p) /\ InHand(p)' = InHand(p)
         /\ \A m : Pending(m, p)' = Pending(m, p)
         /\ \A m : PendingInHand(m, p)' = PendingInHand(m, p)
<1>1. PICK h \in Bufs \cup {NoBuf} : PipeHas(p, h)
  BY PipeHasOne
<1>2. PipeHas(p, h)'
  BY <1>1 DEF PipeHas
<1>3. InHand(p) = {h} \ {NoBuf} /\ InHand(p)' = {h} \ {NoBuf}
  BY <1>1, <1>2, PipeHasFifo, PipeHasFifoNext
<1>4. \A i \in DOMAIN queue[p] :
        queue[p][i] \in Bufs /\ content'[queue[p][i]] = content[queue[p][i]]
  BY DEF Shown, Image, IInv, TypeOK
<1>5. h # NoBuf => content'[h] = content[h]
  BY <1>3 DEF Shown
<1>6. Fifo(queue'[p], content', h) = Fifo(queue[p], content, h)
  BY <1>4, <1>5 DEF Fifo
<1>7. FifoOf(p)' = FifoOf(p)
  BY <1>1, <1>2, <1>6, PipeHasFifo, PipeHasFifoNext
<1>8. \A m : Pending(m, p)' = Pending(m, p)
  BY <1>4 DEF Pending
<1>9. \A m : PendingInHand(m, p)' = PendingInHand(m, p)
  BY <1>3, <1>5 DEF PendingInHand
<1> QED
  BY <1>3, <1>7, <1>8, <1>9

-----------------------------------------------------------------------------
(* Counting. *)

\* The places of a sequence that hold a member of G.
Places(s, G) == {i \in DOMAIN s : s[i] \in G}

LEMMA PlacesFinite ==
  ASSUME NEW S, NEW s \in Seq(S), NEW G
  PROVE  /\ IsFiniteSet(Places(s, G)) /\ Cardinality(Places(s, G)) \in Nat
         /\ Places(s, G) \subseteq 1 .. Len(s)
<1>1. DOMAIN s = 1 .. Len(s) /\ Len(s) \in Nat
  OBVIOUS
<1>2. IsFiniteSet(1 .. Len(s)) /\ Places(s, G) \subseteq 1 .. Len(s)
  BY <1>1, FS_Interval DEF Places
<1> QED
  BY <1>2, FS_Subset, FS_CardinalityType

LEMMA PlacesAppend ==
  ASSUME NEW S, NEW s \in Seq(S), NEW e \in S, NEW G
  PROVE  Cardinality(Places(Append(s, e), G)) =
           Cardinality(Places(s, G)) + (IF e \in G THEN 1 ELSE 0)
<1>1. /\ DOMAIN s = 1 .. Len(s) /\ Len(s) \in Nat
      /\ DOMAIN Append(s, e) = 1 .. Len(s) + 1
      /\ \A i \in 1 .. Len(s) : Append(s, e)[i] = s[i]
      /\ Append(s, e)[Len(s) + 1] = e
  BY AppendFacts
<1>2. CASE e \in G
  <2>1. Places(Append(s, e), G) = Places(s, G) \cup {Len(s) + 1}
    BY <1>1, <1>2 DEF Places
  <2>2. Len(s) + 1 \notin Places(s, G)
    BY <1>1 DEF Places
  <2> QED
    BY <1>2, <2>1, <2>2, PlacesFinite, FS_AddElement
<1>3. CASE e \notin G
  <2>1. Places(Append(s, e), G) = Places(s, G)
    BY <1>1, <1>3 DEF Places
  <2> QED
    BY <1>3, <2>1, PlacesFinite
<1> QED
  BY <1>2, <1>3

LEMMA PlacesTail ==
  ASSUME NEW S, NEW s \in Seq(S), s # <<>>, NEW G
  PROVE  Cardinality(Places(s, G)) =
           Cardinality(Places(Tail(s), G)) + (IF Head(s) \in G THEN 1 ELSE 0)
<1>1. /\ Tail(s) \in Seq(S) /\ Head(s) = s[1]
      /\ DOMAIN s = 1 .. Len(s) /\ Len(s) \in Nat \ {0}
      /\ DOMAIN Tail(s) = 1 .. Len(s) - 1
      /\ \A i \in 1 .. Len(s) - 1 : Tail(s)[i] = s[i + 1]
  BY TailFacts
<1> DEFINE P == Places(s, G) \ {1}
           Q == Places(Tail(s), G)
           f == [i \in Q |-> i + 1]
<1>2. IsFiniteSet(P) /\ IsFiniteSet(Q)
  BY <1>1, PlacesFinite, FS_Subset
<1>3. f \in Bijection(Q, P)
  <2>1. ASSUME NEW i \in Q PROVE i + 1 \in P
    BY <1>1 DEF Places
  <2>2. ASSUME NEW j \in P PROVE j - 1 \in Q /\ f[j - 1] = j
    BY <1>1 DEF Places
  <2>3. f \in [Q -> P]
    BY <2>1
  <2>4. \A i, k \in Q : f[i] = f[k] => i = k
    BY <1>1 DEF Places
  <2>5. \A j \in P : \E i \in Q : f[i] = j
    BY <2>2
  <2> HIDE DEF f, P, Q
  <2> QED
    BY <2>3, <2>4, <2>5 DEF Bijection, Injection, Surjection, IsInjective
<1>4. Cardinality(P) = Cardinality(Q)
  BY <1>2, <1>3, FS_Bijection, FS_CardinalityType DEF ExistsBijection
<1>5. CASE Head(s) \in G
  <2>1. 1 \in Places(s, G)
    BY <1>1, <1>5 DEF Places
  <2>2. Cardinality(P) = Cardinality(Places(s, G)) - 1
    BY <2>1, PlacesFinite, FS_RemoveElement
  <2> QED
    BY <1>4, <1>5, <2>2, PlacesFinite
<1>6. CASE Head(s) \notin G
  <2>1. P = Places(s, G)
    BY <1>1, <1>6 DEF Places
  <2>2. Cardinality(Q) \in Nat
    BY <1>1, PlacesFinite
  <2>3. Cardinality(Places(s, G)) = Cardinality(Q)
    BY <1>4, <2>1
  <2> HIDE DEF P
  <2> QED
    BY <1>6, <2>2, <2>3
<1> QED
  BY <1>5, <1>6

-----------------------------------------------------------------------------
(* What the steps keep: the depth statistics, the limit counts, and the      *)
(* refinement of PubSub, by the kinds of steps there are.                    *)

CountsInv == DepthStatExact /\ LimitCountSound

\* What the abstract bus shows of the state does not change.
SameBus ==
  /\ \A m \in MsgIds : Subscribers(m)' = Subscribers(m)
  /\ \A p \in Pipes : FifoOf(p)' = FifoOf(p) /\ ViewOf(p)' = ViewOf(p)

BusStep == [Bus!Next]_(Bus!vars) /\ CountsInv'

LEMMA SameBusStutters ==
  ASSUME SameBus
  PROVE  UNCHANGED Bus!vars
  BY DEF SameBus, Bus!vars

\* No message moves: the pipes are as they were, but for what is in the trash.
PipesStill ==
  \A p \in Pipes :
    /\ queue'[p] = queue[p]
    /\ CurrentBuff'[p] = CurrentBuff[p]
    /\ statInUse'[p] = statInUse[p]
    /\ \A a \in Apps :
         /\ pipeOf'[a] = p /\ hand'[a] # NoBuf
              <=> pipeOf[a] = p /\ hand[a] # NoBuf
         /\ pipeOf[a] = p => hand'[a] = hand[a]
    /\ \A b \in Bufs : Shown(b, p) => content'[b] = content[b]

\* A subscription is new, or has the limit and the count it had.
LimitsKept ==
  \A m \in MsgIds, p \in Pipes : dest'[m][p] # NoDest =>
    \/ dest'[m][p].cnt = 0 /\ dest'[m][p].lim \in MsgLims
    \/ /\ dest[m][p] # NoDest
       /\ dest'[m][p].cnt = dest[m][p].cnt /\ dest'[m][p].lim = dest[m][p].lim

LEMMA PendingFinite ==
  ASSUME IInv, NEW p \in Pipes, NEW m
  PROVE  /\ IsFiniteSet(Pending(m, p)) /\ Cardinality(Pending(m, p)) \in Nat
         /\ IsFiniteSet(InHand(p)) /\ Cardinality(InHand(p)) \in Nat
         /\ IsFiniteSet(PendingInHand(m, p))
         /\ Cardinality(PendingInHand(m, p)) \in Nat
<1>1. queue[p] \in Seq(Bufs)
  BY DEF IInv, TypeOK
<1>2. Len(queue[p]) \in Nat /\ DOMAIN queue[p] = 1 .. Len(queue[p])
  BY <1>1
<1>3. IsFiniteSet(Pending(m, p))
  <2>1. IsFiniteSet(1 .. Len(queue[p])) /\ Pending(m, p) \subseteq 1 .. Len(queue[p])
    BY <1>2, FS_Interval DEF Pending
  <2> QED
    BY <2>1, FS_Subset
<1>4. PICK h \in Bufs \cup {NoBuf} : InHand(p) = {h} \ {NoBuf}
  BY PipeHasOne, PipeHasFifo
<1>5. IsFiniteSet(InHand(p)) /\ IsFiniteSet(PendingInHand(m, p))
  <2>1. IsFiniteSet({h})
    BY FS_Singleton
  <2>2. InHand(p) \subseteq {h} /\ PendingInHand(m, p) \subseteq {h}
    BY <1>4 DEF PendingInHand
  <2> QED
    BY <2>1, <2>2, FS_Subset
<1> QED
  BY <1>3, <1>5, FS_CardinalityType

LEMMA StillStep ==
  ASSUME IInv, CountsInv, PipesStill
  PROVE  /\ \A p \in Pipes : FifoOf(p)' = FifoOf(p) /\ ViewOf(p)' = ViewOf(p)
         /\ DepthStatExact'
         /\ LimitsKept => LimitCountSound'
<1>1. \A p \in Pipes :
        /\ FifoOf(p)' = FifoOf(p) /\ InHand(p)' = InHand(p)
        /\ \A m : Pending(m, p)' = Pending(m, p)
        /\ \A m : PendingInHand(m, p)' = PendingInHand(m, p)
  BY PipeUntouched DEF PipesStill
<1>2. \A p \in Pipes : ViewOf(p)' = ViewOf(p)
  BY DEF PipesStill, ViewOf, Shown, IInv, TypeOK
<1>3. DepthStatExact'
  BY <1>1 DEF PipesStill, CountsInv, DepthStatExact
<1>4. ASSUME LimitsKept PROVE LimitCountSound'
  <2> SUFFICES ASSUME NEW m \in MsgIds, NEW p \in Pipes, dest'[m][p] # NoDest
               PROVE  /\ dest'[m][p].cnt <= dest'[m][p].lim
                      /\ dest'[m][p].cnt <=
                           Cardinality(Pending(m, p)) + Cardinality(PendingInHand(m, p))
    BY <1>1 DEF LimitCountSound
  <2>1. CASE dest'[m][p].cnt = 0 /\ dest'[m][p].lim \in MsgLims
    <3>1. dest'[m][p].lim \in Nat
      BY <2>1, ConstAssumption
    <3>2. Cardinality(Pending(m, p)) \in Nat /\ Cardinality(PendingInHand(m, p)) \in Nat
      BY PendingFinite
    <3> QED
      BY <2>1, <3>1, <3>2
  <2>2. CASE dest[m][p] # NoDest /\ dest'[m][p].cnt = dest[m][p].cnt
                                 /\ dest'[m][p].lim = dest[m][p].lim
    BY <2>2 DEF CountsInv, LimitCountSound
  <2> QED
    BY <1>4, <2>1, <2>2 DEF LimitsKept
<1> QED
  BY <1>1, <1>2, <1>3, <1>4

\* A step that moves no message and changes no subscription.
LEMMA QuietStep ==
  ASSUME IInv, CountsInv, PipesStill, UNCHANGED dest
  PROVE  BusStep
<1>1. SameBus
  BY StillStep DEF SameBus, Subscribers
<1>2. LimitsKept
  BY DEF LimitsKept
<1> QED
  BY <1>1, <1>2, StillStep, SameBusStutters DEF BusStep, CountsInv

LEMMA ShownOnPipe ==
  ASSUME NEW b \in Bufs, NEW p \in Pipes, Shown(b, p)
  PROVE  OnPipe(b, p)
  BY DEF Shown, OnPipe

\* The simplest steps: nothing but the calls, the options or buffers off the
\* pipes change.
LEMMA PipesStillPlain ==
  ASSUME UNCHANGED <<queue, CurrentBuff, statInUse>>,
         \A a \in Apps : hand'[a] = hand[a]
                         /\ (hand[a] # NoBuf => pipeOf'[a] = pipeOf[a]),
         \A b \in Bufs, p \in Pipes : OnPipe(b, p) => content'[b] = content[b]
  PROVE  PipesStill
  BY ShownOnPipe DEF PipesStill

LEMMA CreatePipeBus ==
  ASSUME IInv, CountsInv, NEW a \in Apps, NEW p \in Pipes, NEW d \in Depths,
         CreatePipe(a, p, d)
  PROVE  BusStep
<1>1. /\ UNCHANGED <<dest, content, pipeOf, hand>> /\ ~inUse[p]
      /\ queue' = [queue EXCEPT ![p] = <<>>]
      /\ CurrentBuff' = [CurrentBuff EXCEPT ![p] = NoBuf]
      /\ statInUse' = [statInUse EXCEPT ![p] = 0]
  BY DEF CreatePipe, routeVars, bufVars, callVars
<1>2. queue[p] = <<>> /\ CurrentBuff[p] = NoBuf
  BY <1>1 DEF IInv, IdlePipeEmpty
<1>3. statInUse[p] = 0
  <2>1. \A c \in Apps : pipeOf[c] # p
    BY <1>1, PipesAssumption DEF IInv, CallsOwnPipe, OwnedBy
  <2>2. InHand(p) = {}
    BY <2>1 DEF InHand
  <2>3. statInUse[p] = Len(queue[p]) + Cardinality({})
    BY <2>2 DEF CountsInv, DepthStatExact
  <2> QED
    BY <1>2, <2>3, FS_EmptySet
<1>4. PipesStill
  BY <1>1, <1>2, <1>3 DEF PipesStill, IInv, TypeOK
<1> QED
  BY <1>1, <1>4, QuietStep

LEMMA SetPipeOptsBus ==
  ASSUME IInv, CountsInv, NEW a \in Apps, NEW p \in Pipes, NEW ignore \in BOOLEAN,
         SetPipeOpts(a, p, ignore)
  PROVE  BusStep
<1>1. UNCHANGED <<queue, CurrentBuff, statInUse, dest, content, pipeOf, hand>>
  BY DEF SetPipeOpts, routeVars, bufVars, callVars
<1> QED
  BY <1>1, PipesStillPlain, QuietStep

LEMMA SubscribeBus ==
  ASSUME IInv, CountsInv, NEW a \in Apps, NEW m \in MsgIds, NEW p \in Pipes,
         NEW lim \in MsgLims, Subscribe(a, m, p, lim)
  PROVE  BusStep
<1>1. UNCHANGED <<queue, CurrentBuff, statInUse, content, pipeOf, hand>>
  BY DEF Subscribe, pipeVars, bufVars, callVars
<1>2. PipesStill
  BY <1>1, PipesStillPlain
<1>3. CASE UNCHANGED dest
  BY <1>2, <1>3, QuietStep
<1>4. CASE dest' # dest
  <2>1. dest' = [dest EXCEPT ![m] = [dest[m] EXCEPT ![p] =
                   [lim |-> lim, active |-> TRUE, cnt |-> 0]]]
    BY <1>4 DEF Subscribe
  <2>2. PICK d \in Dest : d = [lim |-> lim, active |-> TRUE, cnt |-> 0]
    BY DEF Dest
  <2>3. d # NoDest /\ d.cnt = 0 /\ d.lim \in MsgLims
    BY <2>2, NoneAssumption
  <2>4. \A n \in MsgIds, q \in Pipes :
          dest'[n][q] = IF n = m /\ q = p THEN d ELSE dest[n][q]
    BY <2>1, <2>2 DEF IInv, TypeOK
  <2>5. \A n \in MsgIds :
          Subscribers(n)' = IF n = m THEN Subscribers(n) \cup {p} ELSE Subscribers(n)
    BY <2>3, <2>4 DEF Subscribers
  <2>6. LimitsKept
    BY <2>3, <2>4 DEF LimitsKept
  <2>7. Bus!Join(m, p)
    BY <1>2, <2>5, StillStep DEF Bus!Join
  <2> QED
    BY <1>2, <2>6, <2>7, StillStep DEF BusStep, Bus!Next, CountsInv
<1> QED
  BY <1>3, <1>4

LEMMA RemoveDestBus ==
  ASSUME IInv, CountsInv, NEW m \in MsgIds, NEW p \in Pipes, RemoveDest(m, p),
         PipesStill
  PROVE  BusStep
<1>1. \A n \in MsgIds, q \in Pipes :
        dest'[n][q] = IF n = m /\ q = p THEN NoDest ELSE dest[n][q]
  BY DEF RemoveDest, IInv, TypeOK
<1>2. \A n \in MsgIds :
        Subscribers(n)' = IF n = m THEN Subscribers(n) \ {p} ELSE Subscribers(n)
  BY <1>1 DEF Subscribers
<1>3. LimitsKept
  BY <1>1 DEF LimitsKept
<1>4. Bus!Leave(m, p)
  BY <1>2, StillStep DEF Bus!Leave
<1> QED
  BY <1>3, <1>4, StillStep DEF BusStep, Bus!Next, CountsInv

LEMMA UnsubscribeBus ==
  ASSUME IInv, CountsInv, NEW a \in Apps, NEW m \in MsgIds, NEW p \in Pipes,
         Unsubscribe(a, m, p)
  PROVE  BusStep
<1>1. /\ UNCHANGED <<queue, CurrentBuff, statInUse, content, pipeOf, hand>>
      /\ RemoveDest(m, p)
  BY DEF Unsubscribe, bufVars, callVars
<1> QED
  BY <1>1, PipesStillPlain, RemoveDestBus

LEMMA DelUnsubBus ==
  ASSUME IInv, CountsInv, NEW a \in Apps, DelUnsub(a)
  PROVE  BusStep
<1>1. /\ UNCHANGED <<queue, CurrentBuff, statInUse, content, pipeOf, hand>>
      /\ RemoveDest(rtbl[idx[a]], pipeOf[a]) /\ pc[a] = "delUnsub"
  BY DEF DelUnsub, bufVars, callVars
<1>2. pipeOf[a] \in Pipes /\ deleting[a]
  BY <1>1 DEF IInv, CallsOwnPipe, Unrouting, TypeOK
<1>3. idx[a] \in DOMAIN rtbl
  BY <1>1, <1>2 DEF IInv, RoutesScanned, Unrouting
<1>4. rtbl[idx[a]] \in MsgIds
  BY <1>3 DEF IInv, TypeOK
<1> QED
  BY <1>1, <1>2, <1>4, PipesStillPlain, RemoveDestBus

LEMMA SetRouteBus ==
  ASSUME IInv, CountsInv, NEW m \in MsgIds, NEW p \in Pipes, NEW act \in BOOLEAN,
         SetRoute(m, p, act)
  PROVE  BusStep
<1>1. UNCHANGED <<queue, CurrentBuff, statInUse, content, pipeOf, hand>>
  BY DEF SetRoute, bufVars, callVars
<1>2. PICK d : d = [dest[m][p] EXCEPT !.active = act]
  OBVIOUS
<1>3. dest[m][p] \in Dest
  BY DEF SetRoute, IInv, TypeOK
<1>4. d \in Dest /\ d.cnt = dest[m][p].cnt /\ d.lim = dest[m][p].lim
  BY <1>2, <1>3 DEF Dest
<1>5. \A n \in MsgIds, q \in Pipes :
        dest'[n][q] = IF n = m /\ q = p THEN d ELSE dest[n][q]
  BY <1>2 DEF SetRoute, IInv, TypeOK
<1>6. d # NoDest /\ dest[m][p] # NoDest
  BY <1>3, <1>4, NoneAssumption
<1>7. PipesStill
  BY <1>1, PipesStillPlain
<1>8. LimitsKept
  BY <1>4, <1>5, <1>6 DEF LimitsKept
<1>9. \A n \in MsgIds : Subscribers(n)' = Subscribers(n)
  BY <1>5, <1>6 DEF Subscribers
<1>10. SameBus
  BY <1>7, <1>9, StillStep DEF SameBus
<1> QED
  BY <1>7, <1>8, <1>10, StillStep, SameBusStutters DEF BusStep, CountsInv

-----------------------------------------------------------------------------
(* Sending. *)

LEMMA MapSeq ==
  ASSUME NEW V, NEW q \in Seq(Bufs), NEW c \in [Bufs -> V]
  PROVE  /\ [i \in DOMAIN q |-> c[q[i]]] \in Seq(V)
         /\ Len([i \in DOMAIN q |-> c[q[i]]]) = Len(q)
         /\ DOMAIN q = 1 .. Len(q) /\ Len(q) \in Nat
  OBVIOUS

LEMMA ConcatFacts ==
  ASSUME NEW V, NEW x \in V, NEW s \in Seq(V)
  PROVE  /\ <<x>> \o s \in Seq(V)
         /\ Len(<<x>> \o s) = Len(s) + 1
         /\ DOMAIN (<<x>> \o s) = 1 .. Len(s) + 1
         /\ (<<x>> \o s)[1] = x
         /\ \A i \in 1 .. Len(s) : (<<x>> \o s)[i + 1] = s[i]
         /\ <<x>> \o s # <<>>
         /\ Head(<<x>> \o s) = x
         /\ Tail(<<x>> \o s) = s
  OBVIOUS

FifoAppends(V) ==
  \A q \in Seq(Bufs), b \in Bufs, h \in Bufs \cup {NoBuf}, c, d \in [Bufs -> V] :
    (\A i \in DOMAIN q : d[q[i]] = c[q[i]]) /\ (h # NoBuf => d[h] = c[h])
      => Fifo(Append(q, b), d, h) = Append(Fifo(q, c, h), d[b])

LEMMA FifoAppend ==
  ASSUME NEW V
  PROVE  FifoAppends(V)
<1> USE DEF FifoAppends
<1> TAKE q \in Seq(Bufs), b \in Bufs, h \in Bufs \cup {NoBuf}, c, d \in [Bufs -> V]
<1> HAVE (\A i \in DOMAIN q : d[q[i]] = c[q[i]]) /\ (h # NoBuf => d[h] = c[h])
<1> DEFINE s == [i \in DOMAIN q |-> c[q[i]]]
           t == [i \in DOMAIN Append(q, b) |-> d[Append(q, b)[i]]]
<1>1. /\ s \in Seq(V) /\ Len(s) = Len(q) /\ Len(q) \in Nat
      /\ DOMAIN q = 1 .. Len(q)
  BY MapSeq
<1>2. /\ DOMAIN Append(q, b) = 1 .. Len(q) + 1
      /\ \A i \in 1 .. Len(q) : Append(q, b)[i] = q[i]
      /\ Append(q, b)[Len(q) + 1] = b
  BY AppendFacts
<1>3. t = Append(s, d[b])
  <2>1. DOMAIN Append(s, d[b]) = 1 .. Len(q) + 1
    BY <1>1, AppendFacts
  <2>2. \A i \in 1 .. Len(q) + 1 : t[i] = Append(s, d[b])[i]
    BY <1>1, <1>2, AppendFacts
  <2>3. Append(s, d[b]) \in Seq(V) /\ t \in Seq(V)
    <3>1. Append(q, b) \in Seq(Bufs)
      OBVIOUS
    <3> QED
      BY <1>1, <3>1, MapSeq
  <2> QED
    BY <1>2, <2>1, <2>2, <2>3
<1>4. CASE h = NoBuf
  BY <1>3, <1>4 DEF Fifo
<1>5. CASE h # NoBuf
  <2>1. <<d[h]>> \o Append(s, d[b]) = Append(<<d[h]>> \o s, d[b])
    <3>1. d[h] \in V /\ d[b] \in V
      BY <1>5
    <3> HIDE DEF s
    <3> QED
      BY <1>1, <3>1
  <2> QED
    BY <1>3, <1>5, <2>1 DEF Fifo
<1> QED
  BY <1>4, <1>5

LEMMA DeliverBus ==
  ASSUME IInv, CountsInv, TypeOK',
         NEW a \in Apps, NEW m \in MsgIds, NEW b \in Bufs, NEW inc \in BOOLEAN,
         Deliver(a, m, b, inc), \A p \in Pipes : ~OnPipe(b, p),
         UNCHANGED <<pipeOf, hand>>
  PROVE  BusStep
<1> DEFINE T == Targets(a, m)
           counted == m \in TlmIds /\ inc
           msg == [msg |-> m, seq |-> IF counted THEN NextSeq(m) ELSE 0, from |-> a]
<1>0. TypeOK /\ content \in [Bufs -> Content \cup {NoContent}]
      /\ content' \in [Bufs -> Content \cup {NoContent}]
  BY DEF IInv, TypeOK
<1>1. /\ T \subseteq Pipes /\ T \subseteq Subscribers(m)
      /\ \A p \in T : dest[m][p] # NoDest /\ dest[m][p].cnt < dest[m][p].lim
  BY DEF Targets, Subscribers
<1>2. msg \in Content /\ msg.msg = m
  <2>1. NextSeq(m) \in 0 .. SeqMod - 1 /\ 0 \in 0 .. SeqMod - 1
    BY <1>0, ConstAssumption DEF NextSeq, TypeOK
  <2> QED
    BY <2>1 DEF Content
<1>3. /\ \A p \in T : queue'[p] = Append(queue[p], b) /\ statInUse'[p] = statInUse[p] + 1
      /\ \A p \in Pipes \ T : queue'[p] = queue[p] /\ statInUse'[p] = statInUse[p]
      /\ \A x \in Bufs \ {b} : content'[x] = content[x]
      /\ T # {} => content'[b] = msg
      /\ UNCHANGED CurrentBuff
  BY <1>0, <1>1 DEF Deliver, TypeOK
<1>4. \A n \in MsgIds, p \in Pipes :
        dest'[n][p] = IF n = m /\ p \in T THEN [dest[n][p] EXCEPT !.cnt = @ + 1]
                      ELSE dest[n][p]
  BY <1>0 DEF Deliver, TypeOK
<1>5. \A p \in T : /\ dest[m][p] \in Dest /\ dest'[m][p] \in Dest
                   /\ dest'[m][p].cnt = dest[m][p].cnt + 1
                   /\ dest'[m][p].lim = dest[m][p].lim
  <2> SUFFICES ASSUME NEW p \in T
               PROVE  /\ dest[m][p] \in Dest /\ dest'[m][p] \in Dest
                      /\ dest'[m][p].cnt = dest[m][p].cnt + 1
                      /\ dest'[m][p].lim = dest[m][p].lim
    OBVIOUS
  <2>1. dest[m][p] \in Dest
    BY <1>0, <1>1 DEF TypeOK
  <2>2. dest'[m][p] = [dest[m][p] EXCEPT !.cnt = @ + 1]
    BY <1>1, <1>4
  <2> HIDE DEF T
  <2> QED
    BY <2>1, <2>2 DEF Dest
<1>6. \A n \in MsgIds : Subscribers(n)' = Subscribers(n)
  <2>1. \A n \in MsgIds, p \in Pipes : dest'[n][p] = NoDest <=> dest[n][p] = NoDest
    <3>1. \A p \in T : dest[m][p] # NoDest /\ dest'[m][p] # NoDest
      BY <1>1, <1>5, NoneAssumption
    <3> HIDE DEF T
    <3> QED
      BY <1>4, <3>1
  <2> QED
    BY <2>1 DEF Subscribers
<1>7. \A x \in Bufs, p \in Pipes : Shown(x, p) => content'[x] = content[x]
  BY <1>3, ShownOnPipe
<1>8. \A p \in Pipes : ViewOf(p)' = ViewOf(p)
  BY <1>0, <1>3, <1>7 DEF ViewOf, Shown, TypeOK
<1>9. \A p \in Pipes \ T :
        /\ FifoOf(p)' = FifoOf(p) /\ InHand(p)' = InHand(p)
        /\ \A n : Pending(n, p)' = Pending(n, p)
        /\ \A n : PendingInHand(n, p)' = PendingInHand(n, p)
  BY <1>3, <1>7, PipeUntouched
<1>10. ASSUME NEW p \in T
       PROVE  /\ FifoOf(p)' = Append(FifoOf(p), msg) /\ InHand(p)' = InHand(p)
              /\ \A n : PendingInHand(n, p)' = PendingInHand(n, p)
              /\ Len(queue'[p]) = Len(queue[p]) + 1
              /\ \A n : Cardinality(Pending(n, p)') =
                          Cardinality(Pending(n, p)) + (IF n = m THEN 1 ELSE 0)
  <2>0. p \in Pipes /\ queue[p] \in Seq(Bufs) /\ queue'[p] = Append(queue[p], b)
        /\ content'[b] = msg /\ queue'[p] \in Seq(Bufs)
    BY <1>0, <1>1, <1>3 DEF TypeOK
  <2>1. PICK h \in Bufs \cup {NoBuf} : PipeHas(p, h)
    BY <2>0, PipeHasOne
  <2>2. PipeHas(p, h)'
    BY <2>1 DEF PipeHas
  <2>3. InHand(p) = {h} \ {NoBuf} /\ InHand(p)' = {h} \ {NoBuf}
    BY <2>1, <2>2, PipeHasFifo, PipeHasFifoNext
  <2>4. /\ \A i \in DOMAIN queue[p] : /\ queue[p][i] \in Bufs
                                      /\ content'[queue[p][i]] = content[queue[p][i]]
        /\ h # NoBuf => content'[h] = content[h]
    BY <1>7, <2>0, <2>3 DEF Shown, Image
  <2>5. FifoOf(p)' = Append(FifoOf(p), msg)
    <3>1. Fifo(Append(queue[p], b), content', h) =
            Append(Fifo(queue[p], content, h), content'[b])
      <4> DEFINE V == Content \cup {NoContent}
      <4>1. content \in [Bufs -> V] /\ content' \in [Bufs -> V] /\ queue[p] \in Seq(Bufs)
        BY <1>0, <2>0
      <4>2. h \in Bufs \cup {NoBuf} /\ b \in Bufs
        BY <2>1
      <4>3. \A i \in DOMAIN queue[p] : content'[queue[p][i]] = content[queue[p][i]]
        BY <2>4
      <4>4. FifoAppends(V)
        BY FifoAppend
      <4> HIDE DEF V
      <4>5. (\A i \in DOMAIN queue[p] : content'[queue[p][i]] = content[queue[p][i]])
              /\ (h # NoBuf => content'[h] = content[h])
              => Fifo(Append(queue[p], b), content', h) =
                   Append(Fifo(queue[p], content, h), content'[b])
        BY ONLY <4>1, <4>2, <4>4, Zenon DEF FifoAppends
      <4> QED
        BY <2>4, <4>3, <4>5, Zenon
    <3> QED
      BY <2>0, <2>1, <2>2, <3>1, PipeHasFifo, PipeHasFifoNext
  <2>6. \A n : PendingInHand(n, p)' = PendingInHand(n, p)
    BY <2>3, <2>4 DEF PendingInHand
  <2>7. ASSUME NEW n
        PROVE  Cardinality(Pending(n, p)') =
                 Cardinality(Pending(n, p)) + (IF n = m THEN 1 ELSE 0)
    <3> DEFINE G == {x \in Bufs : content'[x].msg = n}
    <3>1. Pending(n, p)' = Places(queue'[p], G)
      BY <2>0 DEF Pending, Places
    <3>2. Pending(n, p) = Places(queue[p], G)
      BY <2>4 DEF Pending, Places
    <3>3. b \in G <=> n = m
      BY <1>2, <2>0
    <3> HIDE DEF G
    <3> QED
      BY <2>0, <3>1, <3>2, <3>3, PlacesAppend
  <2> QED
    BY <2>0, <2>3, <2>5, <2>6, <2>7
<1>11. DepthStatExact'
  <2> SUFFICES ASSUME NEW p \in Pipes
               PROVE  statInUse'[p] = Len(queue'[p]) + Cardinality(InHand(p)')
    BY DEF DepthStatExact
  <2>0. statInUse[p] = Len(queue[p]) + Cardinality(InHand(p))
    BY DEF CountsInv, DepthStatExact
  <2>1. CASE p \in T
    <3>1. Cardinality(InHand(p)) \in Nat
      BY PendingFinite
    <3>2. Len(queue[p]) \in Nat
      BY <1>0 DEF TypeOK
    <3>3. statInUse'[p] = statInUse[p] + 1
      BY <1>3, <2>1
    <3>4. Len(queue'[p]) = Len(queue[p]) + 1 /\ InHand(p)' = InHand(p)
      BY <1>10, <2>1
    <3> QED
      BY <2>0, <3>1, <3>2, <3>3, <3>4
  <2>2. CASE p \notin T
    BY <1>3, <1>9, <2>0, <2>2
  <2> QED
    BY <2>1, <2>2
<1>12. LimitCountSound'
  <2> SUFFICES ASSUME NEW n \in MsgIds, NEW p \in Pipes, dest'[n][p] # NoDest
               PROVE  /\ dest'[n][p].cnt <= dest'[n][p].lim
                      /\ dest'[n][p].cnt <= Cardinality(Pending(n, p)')
                                            + Cardinality(PendingInHand(n, p)')
    BY DEF LimitCountSound
  <2>0. dest[n][p] # NoDest =>
          /\ dest[n][p].cnt <= dest[n][p].lim
          /\ dest[n][p].cnt <= Cardinality(Pending(n, p)) + Cardinality(PendingInHand(n, p))
    BY DEF CountsInv, LimitCountSound
  <2>1. Cardinality(Pending(n, p)) \in Nat /\ Cardinality(PendingInHand(n, p)) \in Nat
    BY PendingFinite
  <2>2. CASE p \notin T
    BY <1>4, <1>9, <2>0, <2>2
  <2>3. CASE p \in T /\ n # m
    <3>1. dest'[n][p] = dest[n][p]
      BY <1>4, <2>3
    <3>2. Cardinality(Pending(n, p)') = Cardinality(Pending(n, p))
          /\ PendingInHand(n, p)' = PendingInHand(n, p)
      BY <1>10, <2>1, <2>3
    <3> QED
      BY <2>0, <3>1, <3>2
  <2>4. CASE p \in T /\ n = m
    <3>1. Cardinality(Pending(n, p)') = Cardinality(Pending(n, p)) + 1
          /\ PendingInHand(n, p)' = PendingInHand(n, p)
      BY <1>10, <2>4
    <3>2. /\ dest[n][p] \in Dest /\ dest[n][p] # NoDest /\ dest[n][p].cnt < dest[n][p].lim
          /\ dest'[n][p].cnt = dest[n][p].cnt + 1 /\ dest'[n][p].lim = dest[n][p].lim
      BY <1>1, <1>5, <2>4
    <3>3. dest[n][p].cnt \in Nat /\ dest[n][p].lim \in Nat
      BY <3>2, ConstAssumption DEF Dest
    <3> QED
      BY <2>0, <2>1, <3>1, <3>2, <3>3
  <2> QED
    BY <2>2, <2>3, <2>4
<1>13. Bus!Publish(msg)
  <2>1. [p \in Pipes |-> FifoOf(p)'] =
          [p \in Pipes |-> IF p \in T THEN Append(FifoOf(p), msg) ELSE FifoOf(p)]
    BY <1>9, <1>10
  <2>2. /\ [p \in Pipes |-> ViewOf(p)'] = [p \in Pipes |-> ViewOf(p)]
        /\ [n \in MsgIds |-> Subscribers(n)'] = [n \in MsgIds |-> Subscribers(n)]
    BY <1>6, <1>8
  <2>3. T \in SUBSET ([n \in MsgIds |-> Subscribers(n)][msg.msg])
    BY <1>1, <1>2
  <2> HIDE DEF T, msg
  <2> QED
    BY <2>1, <2>2, <2>3 DEF Bus!Publish
<1> QED
  BY <1>2, <1>11, <1>12, <1>13 DEF BusStep, Bus!Next, CountsInv

LEMMA SendMsgBus ==
  ASSUME IInv, CountsInv, TypeOK', NEW a \in Apps, NEW m \in MsgIds, NEW b \in Bufs,
         NEW inc \in BOOLEAN, SendMsg(a, m, b, inc)
  PROVE  BusStep
<1>1. UNCHANGED <<pipeOf, hand>> /\ Deliver(a, m, b, inc)
  BY DEF SendMsg, callVars
<1>2. \A p \in Pipes : ~OnPipe(b, p)
  BY PooledHeldByNone DEF SendMsg
<1> QED
  BY <1>1, <1>2, DeliverBus

LEMMA ZeroCopySendBus ==
  ASSUME IInv, CountsInv, TypeOK', NEW a \in Apps, NEW m \in MsgIds,
         NEW inc \in BOOLEAN, ZeroCopySend(a, m, inc)
  PROVE  BusStep
<1> DEFINE b == zc[a]
<1>1. b \in Bufs /\ \A p \in Pipes : ~OnPipe(b, p)
  BY ZeroCopyHeldByOne DEF ZeroCopySend, IInv, CallsOwnPipe, TypeOK
<1>2. UNCHANGED <<pipeOf, hand>>
  BY DEF ZeroCopySend
<1>3. CASE m \in Image(rtbl)
  <2>1. Deliver(a, m, b, inc)
    BY <1>3 DEF ZeroCopySend
  <2> HIDE DEF b
  <2> QED
    BY <1>1, <1>2, <2>1, DeliverBus
<1>4. CASE m \notin Image(rtbl)
  <2>1. DecrBufUseCnt(b) /\ UNCHANGED <<queue, CurrentBuff, statInUse, dest>>
    BY <1>4 DEF ZeroCopySend, routeVars
  <2> HIDE DEF b
  <2>2. \A x \in Bufs \ {b} : content'[x] = content[x]
    BY <2>1 DEF DecrBufUseCnt, bufVars, IInv, TypeOK
  <2>3. PipesStill
    BY <1>1, <1>2, <2>1, <2>2, PipesStillPlain
  <2> QED
    BY <2>1, <2>3, QuietStep
<1> QED
  BY <1>3, <1>4

\* The other zero-copy calls move no message.
LEMMA ZeroCopyBus ==
  ASSUME IInv, CountsInv, NEW a \in Apps,
         \/ \E b \in Bufs : ZeroCopyGetPtr(a, b)
         \/ \E next \in {"zcSend", "zcFree"} : ZeroCopyReleaseDesc(a, next)
         \/ ZeroCopyReleasePtr(a)
  PROVE  BusStep
<1>1. UNCHANGED <<queue, CurrentBuff, statInUse, dest, content, pipeOf, hand>>
  BY DEF ZeroCopyGetPtr, ZeroCopyReleaseDesc, ZeroCopyReleasePtr, routeVars, bufVars,
         callVars
<1> QED
  BY <1>1, PipesStillPlain, QuietStep

-----------------------------------------------------------------------------
(* Receiving. *)

LEMMA RcvSwapBus ==
  ASSUME IInv, CountsInv, NEW a \in Apps, NEW p \in Pipes, pc[a] # "rcvFinish",
         RcvSwap(a, p)
  PROVE  BusStep
<1>1. UNCHANGED <<queue, CurrentBuff, statInUse, dest, content, hand>>
      /\ pipeOf' = [pipeOf EXCEPT ![a] = p]
  BY DEF RcvSwap, routeVars, bufVars
<1>2. hand[a] = NoBuf
  BY DEF IInv, CallsOwnPipe
<1>3. \A c \in Apps \ {a} : pipeOf'[c] = pipeOf[c]
  BY <1>1 DEF IInv, TypeOK
<1> QED
  BY <1>1, <1>2, <1>3, PipesStillPlain, QuietStep

LEMMA RcvNoneBus ==
  ASSUME IInv, CountsInv, NEW a \in Apps, RcvNone(a)
  PROVE  BusStep
<1>1. UNCHANGED <<queue, CurrentBuff, statInUse, dest, content, pipeOf, hand>>
  BY DEF RcvNone, routeVars, bufVars
<1> QED
  BY <1>1, PipesStillPlain, QuietStep

LEMMA RcvClearBus ==
  ASSUME IInv, CountsInv, NEW a \in Apps, RcvClear(a)
  PROVE  BusStep
<1>1. UNCHANGED <<queue, statInUse, dest, content, pipeOf, hand>>
  BY DEF RcvClear, routeVars, bufVars
<1>2. PICK p \in Pipes : p = pipeOf[a]
  BY DEF RcvClear, IInv, CallsOwnPipe, Receiving, TypeOK
<1>3. CurrentBuff'[p] = NoBuf /\ \A q \in Pipes \ {p} : CurrentBuff'[q] = CurrentBuff[q]
  BY <1>2 DEF RcvClear, IInv, TypeOK
<1>4. \A q \in Pipes :
        /\ FifoOf(q)' = FifoOf(q) /\ InHand(q)' = InHand(q)
        /\ \A m : Pending(m, q)' = Pending(m, q)
        /\ \A m : PendingInHand(m, q)' = PendingInHand(m, q)
  BY <1>1, PipeUntouched
<1>5. CountsInv'
  BY <1>1, <1>4 DEF CountsInv, DepthStatExact, LimitCountSound
<1>6. /\ ViewOf(p)' = NoContent
      /\ \A q \in Pipes \ {p} : ViewOf(q)' = ViewOf(q)
  BY <1>1, <1>3 DEF ViewOf
<1>7. \A m \in MsgIds : Subscribers(m)' = Subscribers(m)
  BY <1>1 DEF Subscribers
<1>8. Bus!Finish(p)
  BY <1>4, <1>6, <1>7 DEF Bus!Finish
<1> QED
  BY <1>5, <1>8 DEF BusStep, Bus!Next

FifoTails(V) ==
  \A q \in Seq(Bufs), c \in [Bufs -> V] :
    q # <<>> => Fifo(Tail(q), c, Head(q)) = Fifo(q, c, NoBuf)

LEMMA FifoTail ==
  ASSUME NEW V
  PROVE  FifoTails(V)
<1> USE DEF FifoTails
<1> TAKE q \in Seq(Bufs), c \in [Bufs -> V]
<1> HAVE q # <<>>
<1> DEFINE s == [i \in DOMAIN q |-> c[q[i]]]
           t == [i \in DOMAIN Tail(q) |-> c[Tail(q)[i]]]
           x == c[Head(q)]
<1>1. /\ Tail(q) \in Seq(Bufs) /\ Head(q) \in Bufs /\ Head(q) = q[1]
      /\ DOMAIN q = 1 .. Len(q) /\ Len(q) \in Nat \ {0}
      /\ DOMAIN Tail(q) = 1 .. Len(q) - 1
      /\ \A i \in 1 .. Len(q) - 1 : Tail(q)[i] = q[i + 1]
  BY TailFacts
<1>2. s \in Seq(V) /\ t \in Seq(V) /\ Len(t) = Len(q) - 1 /\ x \in V
  <2>1. Len(Tail(q)) = Len(q) - 1
    BY <1>1
  <2> QED
    BY <1>1, <2>1, MapSeq
<1>3. <<x>> \o t = s
  <2>1. /\ <<x>> \o t \in Seq(V) /\ DOMAIN (<<x>> \o t) = 1 .. Len(q)
        /\ (<<x>> \o t)[1] = x
        /\ \A i \in 1 .. Len(q) - 1 : (<<x>> \o t)[i + 1] = t[i]
    <3> HIDE DEF x, t
    <3>1. Len(t) + 1 = Len(q)
      BY <1>1, <1>2
    <3> QED
      BY <1>2, <3>1, ConcatFacts
  <2>2. s[1] = x /\ \A i \in 1 .. Len(q) - 1 : s[i + 1] = t[i]
    BY <1>1
  <2>3. \A j \in 1 .. Len(q) : j = 1 \/ \E i \in 1 .. Len(q) - 1 : j = i + 1
    BY <1>1
  <2>4. DOMAIN s = 1 .. Len(q)
    BY <1>1
  <2> HIDE DEF x, s, t
  <2>5. \A j \in 1 .. Len(q) : (<<x>> \o t)[j] = s[j]
    BY <2>1, <2>2, <2>3
  <2> QED
    BY <1>2, <2>1, <2>4, <2>5
<1>4. Head(q) # NoBuf
  BY <1>1, PipesAssumption
<1> QED
  BY <1>3, <1>4 DEF Fifo

LEMMA RcvGetBus ==
  ASSUME IInv, CountsInv, NEW a \in Apps, RcvGet(a)
  PROVE  BusStep
<1>0. TypeOK
  BY DEF IInv
<1>1. UNCHANGED <<CurrentBuff, statInUse, dest, content, pipeOf>>
  BY DEF RcvGet, routeVars, bufVars
<1>2. PICK p \in Pipes : p = pipeOf[a] /\ OwnedBy(p, a)
  BY <1>0 DEF RcvGet, IInv, CallsOwnPipe, Receiving, TypeOK
<1>3. /\ queue[p] # <<>> /\ queue'[p] = Tail(queue[p])
      /\ hand[a] = NoBuf /\ hand'[a] = Head(queue[p])
      /\ \A c \in Apps \ {a} : hand'[c] = hand[c]
      /\ \A q \in Pipes \ {p} : queue'[q] = queue[q]
  BY <1>0, <1>2 DEF RcvGet, IInv, CallsOwnPipe, TypeOK
<1>4. \A c \in Apps : pipeOf[c] = p <=> c = a
  BY <1>2, OwnerAlone DEF IInv
<1>5. \A q \in Pipes \ {p} :
        /\ FifoOf(q)' = FifoOf(q) /\ InHand(q)' = InHand(q)
        /\ \A m : Pending(m, q)' = Pending(m, q)
        /\ \A m : PendingInHand(m, q)' = PendingInHand(m, q)
  <2> SUFFICES ASSUME NEW q \in Pipes \ {p}
               PROVE  /\ FifoOf(q)' = FifoOf(q) /\ InHand(q)' = InHand(q)
                      /\ \A m : Pending(m, q)' = Pending(m, q)
                      /\ \A m : PendingInHand(m, q)' = PendingInHand(m, q)
    OBVIOUS
  <2>1. \A c \in Apps : pipeOf[c] = q => hand'[c] = hand[c]
    BY <1>3, <1>4
  <2> QED
    BY <1>1, <1>3, <2>1, PipeUntouched
<1>6. PICK x \in Bufs : x = Head(queue[p]) /\ queue[p] \in Seq(Bufs)
                        /\ Tail(queue[p]) \in Seq(Bufs)
                        /\ Len(queue'[p]) = Len(queue[p]) - 1 /\ Len(queue[p]) \in Nat
  <2>1. queue[p] \in Seq(Bufs)
    BY <1>0 DEF TypeOK
  <2> QED
    BY <1>3, <2>1
<1>7. x # NoBuf
  BY PipesAssumption
<1>8. PipeHas(p, NoBuf) /\ PipeHas(p, x)'
  BY <1>1, <1>3, <1>4, <1>6, <1>7 DEF PipeHas
<1>9. InHand(p) = {} /\ InHand(p)' = {x}
  BY <1>7, <1>8, PipeHasFifo, PipeHasFifoNext
<1>10. FifoOf(p)' = FifoOf(p)
  <2> DEFINE V == Content \cup {NoContent}
  <2>1. content \in [Bufs -> V] /\ FifoTails(V)
    BY <1>0, FifoTail DEF TypeOK
  <2> HIDE DEF V
  <2>2. Fifo(Tail(queue[p]), content, Head(queue[p])) = Fifo(queue[p], content, NoBuf)
    BY <1>3, <1>6, <2>1, Zenon DEF FifoTails
  <2> QED
    BY <1>1, <1>3, <1>6, <1>8, <2>2, PipeHasFifo, PipeHasFifoNext
<1>11. SameBus
  BY <1>1, <1>5, <1>10 DEF SameBus, ViewOf, Subscribers
<1>12. DepthStatExact'
  <2>1. Cardinality(InHand(p)) = 0 /\ Cardinality(InHand(p)') = 1
    BY <1>9, FS_EmptySet, FS_Singleton
  <2>2. statInUse'[p] = Len(queue'[p]) + Cardinality(InHand(p)')
    BY <1>1, <1>6, <2>1 DEF CountsInv, DepthStatExact
  <2> QED
    BY <1>1, <1>3, <1>5, <2>2 DEF CountsInv, DepthStatExact
<1>13. \A m : Cardinality(Pending(m, p)') + Cardinality(PendingInHand(m, p)')
                = Cardinality(Pending(m, p)) + Cardinality(PendingInHand(m, p))
  <2> SUFFICES ASSUME NEW m
               PROVE  Cardinality(Pending(m, p)') + Cardinality(PendingInHand(m, p)')
                        = Cardinality(Pending(m, p)) + Cardinality(PendingInHand(m, p))
    OBVIOUS
  <2> DEFINE G == {b \in Bufs : content[b].msg = m}
  <2>1. Pending(m, p) = Places(queue[p], G)
    BY <1>6 DEF Pending, Places
  <2>2. Pending(m, p)' = Places(Tail(queue[p]), G)
    BY <1>1, <1>3, <1>6 DEF Pending, Places
  <2>3. /\ PendingInHand(m, p) = {}
        /\ PendingInHand(m, p)' = IF x \in G THEN {x} ELSE {}
    BY <1>1, <1>9 DEF PendingInHand
  <2> HIDE DEF G
  <2>4. Cardinality(Places(queue[p], G)) =
          Cardinality(Places(Tail(queue[p]), G)) + (IF x \in G THEN 1 ELSE 0)
    BY <1>3, <1>6, PlacesTail
  <2>5. Cardinality({}) = 0 /\ Cardinality({x}) = 1
    BY FS_EmptySet, FS_Singleton
  <2>6. Cardinality(Places(Tail(queue[p]), G)) \in Nat
    BY <1>6, PlacesFinite
  <2> QED
    BY <2>1, <2>2, <2>3, <2>4, <2>5, <2>6
<1>14. LimitCountSound'
  <2> SUFFICES ASSUME NEW m \in MsgIds, NEW q \in Pipes, dest'[m][q] # NoDest
               PROVE  /\ dest'[m][q].cnt <= dest'[m][q].lim
                      /\ dest'[m][q].cnt <= Cardinality(Pending(m, q)')
                                            + Cardinality(PendingInHand(m, q)')
    BY DEF LimitCountSound
  <2>1. /\ dest[m][q].cnt <= dest[m][q].lim
        /\ dest[m][q].cnt <= Cardinality(Pending(m, q))
                             + Cardinality(PendingInHand(m, q))
    BY <1>1 DEF CountsInv, LimitCountSound
  <2>2. CASE q = p
    BY <1>1, <1>13, <2>1, <2>2
  <2>3. CASE q # p
    BY <1>1, <1>5, <2>1, <2>3
  <2> QED
    BY <2>2, <2>3
<1> QED
  BY <1>11, <1>12, <1>14, SameBusStutters DEF BusStep, CountsInv

\* Dropping the buffer in the trash leaves alone what is still to be seen: it
\* goes back to the pool only if the pipe was the last that held it, and there
\* it is nowhere else.
LEMMA TrashNotShown ==
  ASSUME IInv, NEW a \in Apps, NEW p \in Pipes, pipeOf[a] = p, pc[a] = "rcvFinish",
         DecrBufUseCnt(ToTrashBuff[p]),
         NEW q \in Pipes, NEW b \in Bufs, Shown(b, q)
  PROVE  content'[b] = content[b]
<1>0. TypeOK
  BY DEF IInv
<1>1. PICK x : x = ToTrashBuff[p]
  OBVIOUS
<1>2. CASE x # b
  BY <1>0, <1>1, <1>2 DEF DecrBufUseCnt, bufVars, TypeOK
<1>3. CASE x = b
  <2>1. OnPipe(b, p) /\ OnPipe(b, q)
    BY <1>1, <1>3, ShownOnPipe DEF OnPipe
  <2>2. q # p
    <3>1. CurrentBuff[p] = NoBuf /\ b # NoBuf
      BY PipesAssumption DEF IInv, BuffersInStep
    <3>2. \A i \in DOMAIN queue[p] : queue[p][i] # b
      BY <1>1, <1>3 DEF IInv, OnePlace
    <3>3. b \notin InHand(p)
      <4>1. \A c \in Apps : pipeOf[c] = p /\ hand[c] # NoBuf => hand[c] # ToTrashBuff[p]
        BY DEF IInv, OnePlace
      <4> QED
        BY <1>1, <1>3, <3>1, <4>1 DEF InHand
    <3> QED
      BY <3>1, <3>2, <3>3 DEF Shown, Image
  <2>3. {p, q} \subseteq Holders(b)
    BY <2>1 DEF Holders
  <2>4. Cardinality({p, q}) = 2
    <3>1. IsFiniteSet({p}) /\ Cardinality({p}) = 1
      BY FS_Singleton
    <3>2. Cardinality({p} \cup {q}) = 2
      BY <2>2, <3>1, FS_AddElement
    <3>3. {p} \cup {q} = {p, q}
      OBVIOUS
    <3> QED
      BY <3>2, <3>3
  <2>5. Cardinality(Holders(b)) >= 2
    BY <2>3, <2>4, HoldersFinite, FS_Subset
  <2>6. UseCount[b] # 1
    BY <2>5 DEF IInv, UseCountExact
  <2> QED
    BY <1>1, <1>3, <2>6 DEF DecrBufUseCnt, bufVars
<1> QED
  BY <1>2, <1>3

LEMMA RcvFinishBus ==
  ASSUME IInv, CountsInv, TypeOK', NEW a \in Apps, RcvFinish(a)
  PROVE  BusStep
<1>0. TypeOK
  BY DEF IInv
<1>1. PICK p \in Pipes : p = pipeOf[a] /\ OwnedBy(p, a)
  BY <1>0 DEF RcvFinish, IInv, CallsOwnPipe, Receiving, TypeOK
<1>2. /\ pc[a] = "rcvFinish" /\ hand'[a] = NoBuf /\ queue' = queue
      /\ \A c \in Apps \ {a} : hand'[c] = hand[c] /\ pipeOf'[c] = pipeOf[c]
      /\ \A q \in Pipes \ {p} : /\ CurrentBuff'[q] = CurrentBuff[q]
                                /\ statInUse'[q] = statInUse[q]
      /\ DecrBufUseCnt(ToTrashBuff[p])
  <2>1. /\ pc[a] = "rcvFinish" /\ queue' = queue /\ DecrBufUseCnt(ToTrashBuff[p])
        /\ hand' = [hand EXCEPT ![a] = NoBuf]
    BY <1>1 DEF RcvFinish
  <2>2. hand'[a] = NoBuf /\ \A c \in Apps \ {a} : hand'[c] = hand[c]
    BY <1>0, <2>1 DEF TypeOK
  <2>3. \A c \in Apps \ {a} : pipeOf'[c] = pipeOf[c]
    BY <1>0 DEF RcvFinish, TypeOK
  <2>4. \A q \in Pipes \ {p} : CurrentBuff'[q] = CurrentBuff[q]
    BY <1>0, <1>1 DEF RcvFinish, TypeOK
  <2>5. \A q \in Pipes \ {p} : statInUse'[q] = statInUse[q]
    BY <1>0, <1>1 DEF RcvFinish, TypeOK
  <2> QED
    BY <2>1, <2>2, <2>3, <2>4, <2>5
<1>3. \A c \in Apps : pipeOf[c] = p <=> c = a
  BY <1>1, OwnerAlone DEF IInv
<1>4. \A q \in Pipes, b \in Bufs : Shown(b, q) => content'[b] = content[b]
  BY <1>1, <1>2, TrashNotShown
<1>5. CASE hand[a] = NoBuf
  <2>1. UNCHANGED <<CurrentBuff, statInUse, dest>>
    BY <1>5 DEF RcvFinish
  <2>2. \A c \in Apps : hand'[c] = hand[c] /\ (hand[c] # NoBuf => pipeOf'[c] = pipeOf[c])
    BY <1>2, <1>5
  <2>3. PipesStill
    BY <1>2, <1>4, <2>1, <2>2 DEF PipesStill
  <2> QED
    BY <2>1, <2>3, QuietStep
<1>6. CASE hand[a] # NoBuf
  <2>1. PICK b \in Bufs : b = hand[a] /\ b # NoBuf
    BY <1>0, <1>6 DEF TypeOK
  <2>2. /\ CurrentBuff'[p] = b /\ CurrentBuff[p] = NoBuf
        /\ statInUse'[p] = statInUse[p] - 1
    <3>1. CurrentBuff[p] = NoBuf
      BY <1>1, <1>2 DEF IInv, BuffersInStep
    <3>2. CurrentBuff \in [Pipes -> Bufs \cup {NoBuf}] /\ statInUse \in [Pipes -> Int]
      BY <1>0 DEF TypeOK
    <3>3. /\ CurrentBuff' = [CurrentBuff EXCEPT ![p] = b]
          /\ statInUse' = [statInUse EXCEPT ![p] = statInUse[p] - 1]
      BY <1>1, <2>1 DEF RcvFinish
    <3> QED
      BY <3>1, <3>2, <3>3
  <2>3. PipeHas(p, b) /\ PipeHas(p, NoBuf)'
    BY <1>2, <1>3, <2>1 DEF PipeHas
  <2>4. /\ InHand(p) = {b} /\ InHand(p)' = {}
        /\ FifoOf(p) = Fifo(queue[p], content, b)
        /\ FifoOf(p)' = Fifo(queue[p], content', NoBuf)
    BY <1>2, <2>1, <2>3, PipeHasFifo, PipeHasFifoNext
  <2>5. /\ content'[b] = content[b]
        /\ \A i \in DOMAIN queue[p] : /\ queue[p][i] \in Bufs
                                      /\ content'[queue[p][i]] = content[queue[p][i]]
    BY <1>0, <1>4, <2>4 DEF Shown, Image, TypeOK
  <2>6. PICK m \in MsgIds : m = content[b].msg
    <3>1. OnPipe(b, p)
      BY <2>4 DEF OnPipe
    <3>2. content[b] \in Content
      BY <1>0, <3>1 DEF IInv, HeldIntact, TypeOK
    <3> QED
      BY <3>2 DEF Content
  <2>7. \A q \in Pipes \ {p} :
          /\ FifoOf(q)' = FifoOf(q) /\ InHand(q)' = InHand(q)
          /\ \A n : Pending(n, q)' = Pending(n, q)
          /\ \A n : PendingInHand(n, q)' = PendingInHand(n, q)
          /\ ViewOf(q)' = ViewOf(q)
    <3> SUFFICES ASSUME NEW q \in Pipes \ {p}
                 PROVE  /\ FifoOf(q)' = FifoOf(q) /\ InHand(q)' = InHand(q)
                        /\ \A n : Pending(n, q)' = Pending(n, q)
                        /\ \A n : PendingInHand(n, q)' = PendingInHand(n, q)
                        /\ ViewOf(q)' = ViewOf(q)
      OBVIOUS
    <3>1. \A c \in Apps :
            /\ pipeOf'[c] = q /\ hand'[c] # NoBuf <=> pipeOf[c] = q /\ hand[c] # NoBuf
            /\ pipeOf[c] = q => hand'[c] = hand[c]
      BY <1>2, <1>3
    <3>2. ViewOf(q)' = ViewOf(q)
      BY <1>0, <1>2, <1>4 DEF ViewOf, Shown, TypeOK
    <3> QED
      BY <1>2, <1>4, <3>1, <3>2, PipeUntouched
  <2>8. FifoOf(p) # <<>> /\ Head(FifoOf(p)) = content[b] /\ Tail(FifoOf(p)) = FifoOf(p)'
    <3> DEFINE V == Content \cup {NoContent}
               s == [i \in DOMAIN queue[p] |-> content[queue[p][i]]]
    <3>1. content \in [Bufs -> V] /\ queue[p] \in Seq(Bufs)
      BY <1>0 DEF TypeOK
    <3>2. s \in Seq(V) /\ content[b] \in V
      <4> HIDE DEF V
      <4> QED
        BY <3>1, MapSeq
    <3>3. FifoOf(p) = <<content[b]>> \o s /\ FifoOf(p)' = s
      BY <2>1, <2>4, <2>5 DEF Fifo
    <3> HIDE DEF s, V
    <3> QED
      BY <3>2, <3>3, ConcatFacts
  <2>9. ViewOf(p) = NoContent /\ ViewOf(p)' = content[b]
    BY <2>1, <2>2, <2>5 DEF ViewOf
  <2>10. /\ \A n \in MsgIds, q \in Pipes : ~(n = m /\ q = p) => dest'[n][q] = dest[n][q]
         /\ ~(dest[m][p] # NoDest /\ dest[m][p].cnt > 0) => dest'[m][p] = dest[m][p]
         /\ dest[m][p] # NoDest /\ dest[m][p].cnt > 0 =>
              dest'[m][p] = [dest[m][p] EXCEPT !.cnt = @ - 1]
    <3>1. dest' = IF dest[m][p] # NoDest /\ dest[m][p].cnt > 0
                  THEN [dest EXCEPT ![m][p].cnt = @ - 1] ELSE dest
      BY <1>1, <2>1, <2>6 DEF RcvFinish
    <3>2. CASE dest[m][p] # NoDest /\ dest[m][p].cnt > 0
      <4>1. dest' = [dest EXCEPT ![m][p].cnt = @ - 1] /\ dest[m][p] \in Dest
        BY <1>0, <3>1, <3>2 DEF TypeOK
      <4>2. dest[m][p].cnt \in Nat
        BY <4>1, DestFacts
      <4> QED
        BY <1>0, <3>2, <4>1, <4>2 DEF TypeOK
    <3>3. CASE ~(dest[m][p] # NoDest /\ dest[m][p].cnt > 0)
      BY <3>1, <3>3
    <3> QED
      BY <3>2, <3>3
  <2>11. /\ dest'[m][p] # NoDest <=> dest[m][p] # NoDest
         /\ dest'[m][p] # NoDest =>
              /\ dest'[m][p].cnt \in Nat /\ dest'[m][p].lim = dest[m][p].lim
              /\ dest[m][p].cnt \in Nat /\ dest[m][p].lim \in Nat
              /\ dest'[m][p].cnt = IF dest[m][p].cnt > 0 THEN dest[m][p].cnt - 1
                                   ELSE dest[m][p].cnt
    <3>1. CASE dest[m][p] = NoDest
      BY <2>10, <3>1
    <3>2. CASE dest[m][p] # NoDest
      <4>0. PICK d \in Dest : d = dest[m][p]
        BY <1>0, <3>2 DEF TypeOK
      <4>1. d = dest[m][p] /\ d.cnt \in Nat /\ d.lim \in Nat
        BY <4>0, DestFacts, ConstAssumption
      <4>2. CASE d.cnt > 0
        <5>1. [d EXCEPT !.cnt = @ - 1] \in Dest
              /\ [d EXCEPT !.cnt = @ - 1].cnt = d.cnt - 1
              /\ [d EXCEPT !.cnt = @ - 1].lim = d.lim
          BY <4>2 DEF Dest
        <5>2. dest'[m][p] = [d EXCEPT !.cnt = @ - 1]
          BY <2>10, <3>2, <4>1, <4>2
        <5> QED
          BY <3>2, <4>1, <4>2, <5>1, <5>2, NoneAssumption
      <4>3. CASE ~(d.cnt > 0)
        BY <2>10, <3>2, <4>1, <4>3
      <4> QED
        BY <4>2, <4>3
    <3> QED
      BY <3>1, <3>2
  <2>12. \A n \in MsgIds : Subscribers(n)' = Subscribers(n)
    BY <2>10, <2>11 DEF Subscribers
  <2>13. DepthStatExact'
    <3>1. Cardinality(InHand(p)) = 1 /\ Cardinality(InHand(p)') = 0
      BY <2>4, FS_EmptySet, FS_Singleton
    <3>2. Len(queue[p]) \in Nat
      BY <1>0 DEF TypeOK
    <3>3. statInUse'[p] = Len(queue'[p]) + Cardinality(InHand(p)')
      BY <1>2, <2>2, <3>1, <3>2 DEF CountsInv, DepthStatExact
    <3> QED
      BY <1>2, <2>7, <3>3 DEF CountsInv, DepthStatExact
  <2>14. \A n : /\ Pending(n, p)' = Pending(n, p)
                /\ Cardinality(PendingInHand(n, p)) = IF n = m THEN 1 ELSE 0
                /\ Cardinality(PendingInHand(n, p)') = 0
    <3> SUFFICES ASSUME NEW n
                 PROVE  /\ Pending(n, p)' = Pending(n, p)
                        /\ Cardinality(PendingInHand(n, p)) = IF n = m THEN 1 ELSE 0
                        /\ Cardinality(PendingInHand(n, p)') = 0
      OBVIOUS
    <3>1. Pending(n, p)' = Pending(n, p)
      BY <1>2, <2>5 DEF Pending
    <3>2. /\ PendingInHand(n, p) = IF n = m THEN {b} ELSE {}
          /\ PendingInHand(n, p)' = {}
      BY <2>4, <2>6 DEF PendingInHand
    <3> QED
      BY <3>1, <3>2, FS_EmptySet, FS_Singleton
  <2>15. LimitCountSound'
    <3> SUFFICES ASSUME NEW n \in MsgIds, NEW q \in Pipes, dest'[n][q] # NoDest
                 PROVE  /\ dest'[n][q].cnt <= dest'[n][q].lim
                        /\ dest'[n][q].cnt <= Cardinality(Pending(n, q)')
                                              + Cardinality(PendingInHand(n, q)')
      BY DEF LimitCountSound
    <3>1. dest[n][q] # NoDest
      BY <2>10, <2>11
    <3>2. /\ dest[n][q].cnt <= dest[n][q].lim
          /\ dest[n][q].cnt <= Cardinality(Pending(n, q))
                               + Cardinality(PendingInHand(n, q))
      BY <3>1 DEF CountsInv, LimitCountSound
    <3>3. CASE q # p
      BY <2>7, <2>10, <3>2, <3>3
    <3>4. CASE q = p /\ n # m
      BY <2>10, <2>14, <3>2, <3>4
    <3>5. CASE q = p /\ n = m
      <4>1. Cardinality(Pending(m, p)) \in Nat
        BY PendingFinite
      <4> QED
        BY <2>11, <2>14, <3>2, <3>5, <4>1
    <3> QED
      BY <3>3, <3>4, <3>5
  <2>16. Bus!Take(p)
    BY <2>7, <2>8, <2>9, <2>12 DEF Bus!Take
  <2> QED
    BY <2>13, <2>15, <2>16 DEF BusStep, Bus!Next, CountsInv
<1> QED
  BY <1>5, <1>6

LEMMA ScanBus ==
  ASSUME IInv, CountsInv, NEW a \in Apps, NEW p \in Pipes, OwnedBy(p, a),
         NEW i \in Nat, pc[a] \in {"idle", "delScan"}, Scan(a, p, i), UNCHANGED dest,
         pipeOf' = [pipeOf EXCEPT ![a] = p]
  PROVE  BusStep
<1>1. UNCHANGED <<queue, CurrentBuff, statInUse, hand>>
  BY DEF Scan
<1>2. ToTrashBuff[p] = NoBuf
  BY TrashEmpty DEF Receiving
<1>3. UNCHANGED content
  BY <1>2 DEF Scan, DecrBufUseCnt, bufVars
<1>4. hand[a] = NoBuf /\ \A c \in Apps \ {a} : pipeOf'[c] = pipeOf[c]
  BY DEF IInv, CallsOwnPipe, TypeOK
<1> QED
  BY <1>1, <1>3, <1>4, PipesStillPlain, QuietStep

LEMMA DeletePipeBus ==
  ASSUME IInv, CountsInv, NEW a \in Apps, NEW p \in Pipes, DeletePipe(a, p)
  PROVE  BusStep
<1>1. /\ pc[a] = "idle" /\ OwnedBy(p, a) /\ Scan(a, p, 1) /\ UNCHANGED dest
      /\ pipeOf' = [pipeOf EXCEPT ![a] = p]
  BY DEF DeletePipe, routeVars
<1>2. 1 \in Nat
  OBVIOUS
<1> QED
  BY <1>1, <1>2, ScanBus

LEMMA DelScanBus ==
  ASSUME IInv, CountsInv, NEW a \in Apps, DelScan(a)
  PROVE  BusStep
<1>1. PICK p \in Pipes : p = pipeOf[a] /\ OwnedBy(p, a)
  BY DEF DelScan, IInv, CallsOwnPipe, Unrouting, TypeOK
<1>2. pipeOf' = [pipeOf EXCEPT ![a] = p]
  BY <1>1 DEF DelScan, IInv, TypeOK
<1>3. /\ pc[a] = "delScan" /\ Scan(a, p, idx[a] + 1) /\ UNCHANGED dest
      /\ idx[a] + 1 \in Nat
  BY <1>1 DEF DelScan, routeVars, IInv, TypeOK
<1> QED
  BY <1>1, <1>2, <1>3, ScanBus

LEMMA DelDrainBus ==
  ASSUME IInv, CountsInv, NEW a \in Apps, DelDrain(a)
  PROVE  BusStep
<1>1. pipeOf[a] \in Pipes
  BY DEF DelDrain, IInv, CallsOwnPipe, Draining, TypeOK
<1> QED
  BY <1>1, RcvSwapBus DEF DelDrain

LEMMA DelFinalBus ==
  ASSUME IInv, CountsInv, NEW a \in Apps, DelFinal(a)
  PROVE  BusStep
<1>0. TypeOK
  BY DEF IInv
<1>1. UNCHANGED <<dest, content, hand>> /\ pc[a] = "delFinal"
  BY DEF DelFinal, routeVars, bufVars
<1>2. PICK p \in Pipes : p = pipeOf[a] /\ OwnedBy(p, a)
  BY <1>0, <1>1 DEF IInv, CallsOwnPipe, Draining, TypeOK
<1>3. queue[p] = <<>> /\ CurrentBuff[p] = NoBuf /\ hand[a] = NoBuf
  BY <1>1, <1>2 DEF IInv, BuffersInStep, CallsOwnPipe
<1>4. statInUse[p] = 0
  <2>1. \A c \in Apps : pipeOf[c] = p => hand[c] = NoBuf
    BY <1>2, <1>3, OwnerAlone DEF IInv
  <2>2. InHand(p) = {}
    BY <2>1 DEF InHand
  <2> QED
    <3>1. statInUse[p] = Len(queue[p]) + Cardinality({})
      BY <2>2 DEF CountsInv, DepthStatExact
    <3> QED
      BY <1>3, <3>1, FS_EmptySet
<1>5. UNCHANGED <<queue, CurrentBuff, statInUse>>
      /\ \A c \in Apps \ {a} : pipeOf'[c] = pipeOf[c]
  BY <1>0, <1>2, <1>3, <1>4 DEF DelFinal, TypeOK
<1> QED
  BY <1>1, <1>3, <1>5, PipesStillPlain, QuietStep

-----------------------------------------------------------------------------
(* Every step of the program is a step of the abstract bus or moves nothing. *)

LEMMA CountsInit == Init => CountsInv /\ Bus!Init
<1> SUFFICES ASSUME Init PROVE CountsInv /\ Bus!Init
  OBVIOUS
<1>1. \A p \in Pipes : /\ queue[p] = <<>> /\ CurrentBuff[p] = NoBuf /\ statInUse[p] = 0
                       /\ \A a \in Apps : pipeOf[a] # p
  BY PipesAssumption DEF Init
<1>2. \A p \in Pipes : InHand(p) = {} /\ FifoOf(p) = <<>> /\ ViewOf(p) = NoContent
  <2> SUFFICES ASSUME NEW p \in Pipes
               PROVE  InHand(p) = {} /\ FifoOf(p) = <<>> /\ ViewOf(p) = NoContent
    OBVIOUS
  <2>1. {a \in Apps : pipeOf[a] = p /\ hand[a] # NoBuf} = {}
    BY <1>1
  <2>2. [i \in DOMAIN queue[p] |-> content[queue[p][i]]] = <<>>
    BY <1>1
  <2>3. FifoOf(p) = <<>>
    BY <2>1, <2>2 DEF FifoOf
  <2> QED
    BY <1>1, <2>3 DEF InHand, ViewOf
<1>3. DepthStatExact
  <2>1. \A p \in Pipes : Cardinality(InHand(p)) = 0
    BY <1>2, FS_EmptySet, Zenon
  <2>2. \A p \in Pipes : statInUse[p] = 0 /\ Len(queue[p]) = 0
    BY <1>1
  <2> QED
    BY <1>2, <2>1, <2>2 DEF DepthStatExact
<1>4. \A m \in MsgIds, p \in Pipes : dest[m][p] = NoDest
  BY DEF Init
<1>5. LimitCountSound /\ \A m \in MsgIds : Subscribers(m) = {}
  BY <1>4 DEF LimitCountSound, Subscribers
<1> QED
  BY <1>2, <1>3, <1>5 DEF CountsInv, Bus!Init

LEMMA EveryStepBus ==
  ASSUME IInv, CountsInv, TypeOK', [Next]_vars
  PROVE  BusStep
<1>1. ASSUME NEW a \in Apps, Call(a) PROVE BusStep
  <2>1. ASSUME NEW p \in Pipes, RcvMsg(a, p) PROVE BusStep
    BY <2>1, RcvSwapBus DEF RcvMsg
  <2> QED
    BY <1>1, <2>1, CreatePipeBus, SetPipeOptsBus, SubscribeBus, UnsubscribeBus,
       SendMsgBus, ZeroCopyBus, DeletePipeBus DEF Call
<1>2. ASSUME NEW a \in Apps, Step(a) PROVE BusStep
  BY <1>2, ZeroCopyBus, ZeroCopySendBus, RcvClearBus, RcvGetBus, RcvNoneBus,
     RcvFinishBus, DelUnsubBus, DelScanBus, DelDrainBus, DelFinalBus DEF Step
<1>3. CASE UNCHANGED vars
  <2>1. UNCHANGED <<queue, CurrentBuff, statInUse, dest, content, pipeOf, hand>>
    BY <1>3 DEF vars
  <2> QED
    BY <2>1, PipesStillPlain, QuietStep
<1> QED
  BY <1>1, <1>2, <1>3, SetRouteBus DEF Next

LEMMA CountsHold == Spec => []CountsInv
<1>1. Init => CountsInv
  BY CountsInit
<1>2. IInv /\ CountsInv /\ IInv' /\ [Next]_vars => CountsInv'
  BY EveryStepBus DEF BusStep, IInv
<1> QED
  BY <1>1, <1>2, Invariance, PTL DEF Spec

\* The depth statistic of a pipe is exact: CFE_SB_SendMsgFull raises and
\* CFE_SB_RcvMsg lowers PipeDepthStats[].InUse under the mutex, although the
\* message leaves the OS queue outside it, and no interleaving, no deletion and
\* no re-creation of the pipe makes the unsigned field wrap below zero.
THEOREM DepthStatCorrect == Spec => []DepthStatExact
<1>1. CountsInv => DepthStatExact
  BY DEF CountsInv
<1> QED
  BY <1>1, CountsHold, PTL

\* The BuffCount of a destination never exceeds its MsgId2PipeLim nor the
\* messages of that identifier still on the pipe, so the limit test of
\* CFE_SB_SendMsgFull never blocks a sender for messages that are gone.
THEOREM LimitCountCorrect == Spec => []LimitCountSound
<1>1. CountsInv => LimitCountSound
  BY DEF CountsInv
<1> QED
  BY <1>1, CountsHold, PTL

\* The bus of buffers, use counts and critical sections implements the bus of
\* first-in first-out queues: CFE_SB_SendMsg puts a message once on some of the
\* pipes that subscribe to it, CFE_SB_RcvMsg takes the head of the queue, and
\* what an application looks at stays unchanged until its next receive.
THEOREM ImplementsPubSubHolds == Spec => ImplementsPubSub
<1>1. Init => Bus!Init
  BY CountsInit
<1>2. IInv /\ CountsInv /\ IInv' /\ [Next]_vars => [Bus!Next]_(Bus!vars)
  BY EveryStepBus DEF BusStep, IInv
<1> QED
  BY <1>1, <1>2, Invariance, CountsHold, PTL DEF Spec, ImplementsPubSub, Bus!Spec

=============================================================================
