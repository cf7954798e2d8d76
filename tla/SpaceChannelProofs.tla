------------------------- MODULE SpaceChannelProofs -------------------------
(***************************************************************************)
(* Theorems about SpaceChannel, for any parameters and requests.           *)
(*                                                                         *)
(* Only the sender takes entries off the heap, so what it saw at the peek  *)
(* is still there at the pop, and the first entry is due no later than     *)
(* that one (PeekHolds): nothing is early.  The handler pushes the sends   *)
(* of one packet before it decides the next (HandlerPending): nothing is   *)
(* sent twice, and the older of two entries was on the heap whenever the   *)
(* younger one was (HeapOvertaken).  That the bursts are spent exactly is  *)
(* a matter of adding up: a finite sum gets one more term at a trigger     *)
(* (TotalAdds), and the order in which it is taken does not matter.        *)
(***************************************************************************)
EXTENDS SpaceChannel, FiniteSetTheorems, WellFoundedInduction, TLAPS

\* A request changes the parameters to values of their types, also when one of
\* its values is refused (set_params).
LEMMA ParamsTyped ==
  ASSUME params \in ParamRecord, NEW kw \in Requests, SetParams(kw)
  PROVE  params' \in ParamRecord
<1> DEFINE new == [f \in DOMAIN params |-> IF f \in Stored(kw) THEN kw[f]
                                                              ELSE params[f]]
<1>1. DOMAIN params = {"base_delay_ms", "jitter_ms", "attack_mode",
                       "attack_prob", "burst_size", "replay_delay"}
  BY DEF ParamRecord
<1>2. ASSUME NEW f \in DOMAIN params PROVE new[f] \in Values[f]
  <2>1. params[f] \in Values[f]
    BY <1>1 DEF ParamRecord, Values
  <2>2. CASE f \in Stored(kw)
    <3>1. f \in DOMAIN kw
      BY <2>2 DEF Stored
    <3>2. kw[f] # Bad
      <4>1. ASSUME kw[f] = Bad PROVE Position(f) < Position(f)
        BY <2>2, <3>1, <4>1 DEF Stored
      <4>2. Position(f) \in Nat
        BY <1>1 DEF Position, FieldOrder
      <4> QED BY <4>1, <4>2
    <3> QED BY <2>2, <3>1, <3>2, RequestsAssumption
  <2>3. CASE f \notin Stored(kw)
    BY <2>1, <2>3
  <2> QED BY <2>2, <2>3
<1>3. new \in ParamRecord
  <2> HIDE DEF new
  <2>1. /\ new["base_delay_ms"] \in Nat /\ new["jitter_ms"] \in Nat
        /\ new["attack_mode"] \in Modes /\ new["attack_prob"] \in Nat
        /\ new["burst_size"] \in Int /\ new["replay_delay"] \in Nat
    BY <1>1, <1>2 DEF Values
  <2>2. new = [f \in {"base_delay_ms", "jitter_ms", "attack_mode",
                      "attack_prob", "burst_size", "replay_delay"} |-> new[f]]
    BY <1>1 DEF new
  <2> QED BY <2>1, <2>2 DEF ParamRecord
<1> QED BY <1>3 DEF SetParams

LEMMA InitInv == Init => ChannelInv
<1> SUFFICES ASSUME Init PROVE ChannelInv
  OBVIOUS
<1>1. TypeOK
  <2>1. params \in ParamRecord /\ snap \in ParamRecord
    BY ParamsAssumption DEF Init
  <2>2. log \in Seq(Decision) /\ out \in Seq(Sent) /\ heap \in SUBSET Entry
    BY DEF Init
  <2> QED BY <2>1, <2>2 DEF Init, TypeOK, Legs
<1> QED BY <1>1 DEF Init, ChannelInv, PeekHolds, NeverEarly, SentAsDecided,
          HandlerPending, OvertakesOnlyByDelay, HeapOvertaken

-----------------------------------------------------------------------------
(* The steps. *)


LEMMA RestKept ==
  ASSUME ChannelInv, UNCHANGED <<heap, log, hpc, leg, txpc, t_ns, out>>,
         now' >= now, now' \in Nat
  PROVE  /\ PeekHolds' /\ NeverEarly' /\ SentAsDecided' /\ HandlerPending'
         /\ OvertakesOnlyByDelay' /\ HeapOvertaken'
<1>1. PeekHolds'
  BY DEF ChannelInv, TypeOK, PeekHolds, Entry
<1>2. HandlerPending'
  BY DEF ChannelInv, HandlerPending, Asked
<1>3. SentAsDecided'
  BY DEF ChannelInv, SentAsDecided, Asked, Same
<1> QED BY <1>1, <1>2, <1>3
        DEF ChannelInv, NeverEarly, OvertakesOnlyByDelay, HeapOvertaken

LEMMA DecideStep == ChannelInv /\ Decide => ChannelInv'
<1> SUFFICES ASSUME ChannelInv, Decide PROVE ChannelInv'
  OBVIOUS
<1> USE DEF ChannelInv
<1>1. PICK d \in Decisions :
        /\ log' = Append(log, d)
        /\ burst_remaining' = d.rest
        /\ hpc' = IF d.fate \in {"trigger", "burst"} THEN "idle" ELSE "stamp"
  BY DEF Decide
<1>2. d \in Decision
  <2>1. /\ BurstRest(params) \in Nat /\ params.burst_size \in Int
        /\ burst_remaining \in Nat
    BY DEF TypeOK, ParamRecord, BurstRest
  <2>2. CASE params.attack_mode = "drop" /\ burst_remaining > 0
    <3>1. d = [fate |-> "burst", rest |-> burst_remaining - 1, size |-> 0]
      BY <2>2 DEF Decisions
    <3> QED BY <2>1, <2>2, <3>1 DEF Decision, Fates
  <2>3. CASE ~(params.attack_mode = "drop" /\ burst_remaining > 0)
    <3>1. /\ d = [fate |-> d.fate, rest |-> d.rest, size |-> d.size]
          /\ d.fate \in {"trigger", "replay", "forward"}
          /\ d.rest \in {BurstRest(params), burst_remaining}
          /\ d.size \in {params.burst_size, 0}
      BY <2>3 DEF Decisions
    <3> QED BY <2>1, <3>1 DEF Decision, Fates
  <2> QED BY <2>2, <2>3
<1>3. TypeOK'
  BY <1>1, <1>2 DEF Decide, TypeOK, txVars, Legs, Decision
<1>4. \A id \in DOMAIN log : /\ id \in DOMAIN log' /\ id # Len(log')
                             /\ log'[id] = log[id]
  BY <1>1, <1>2 DEF TypeOK
<1>5. heap' = heap /\ out' = out
  BY DEF Decide
<1>6. /\ \A e \in heap : e.id # Len(log')
      /\ \A i \in DOMAIN out : out[i].id # Len(log')
  BY <1>4 DEF SentAsDecided, Asked
<1>9. SentAsDecided'
  <2>1. \A e \in heap' : Asked(e.id, e.leg)'
    <3> SUFFICES ASSUME NEW e \in heap PROVE Asked(e.id, e.leg)'
      BY <1>5
    <3>1. Asked(e.id, e.leg)
      BY DEF SentAsDecided
    <3> QED BY <1>4, <3>1 DEF Asked
  <2>2. \A i \in DOMAIN out' : Asked(out[i].id, out[i].leg)'
    <3> SUFFICES ASSUME NEW i \in DOMAIN out
                 PROVE  Asked(out[i].id, out[i].leg)'
      BY <1>5
    <3>1. Asked(out[i].id, out[i].leg)
      BY DEF SentAsDecided
    <3> QED BY <1>4, <1>5, <3>1 DEF Asked
  <2> QED BY <1>5, <2>1, <2>2 DEF SentAsDecided, Same
<1>7. hpc' # "idle" => Asked(Len(log), leg)'
  <2>1. hpc' # "idle" => d.fate \in {"forward", "replay"}
    BY <1>1, <1>2 DEF Decision, Fates
  <2>2. Len(log') \in DOMAIN log' /\ log'[Len(log')] = d
    BY <1>1, <1>2 DEF TypeOK
  <2> QED BY <2>1, <2>2 DEF Asked, Decide
<1>8. HandlerPending'
  BY <1>5, <1>6, <1>7 DEF HandlerPending, Decide
<1> QED BY <1>3, <1>8, <1>9 DEF Decide, PeekHolds, NeverEarly, txVars,
          OvertakesOnlyByDelay, HeapOvertaken

LEMMA StampStep == ChannelInv /\ Stamp => ChannelInv'
<1> SUFFICES ASSUME ChannelInv, Stamp PROVE ChannelInv'
  OBVIOUS
<1>1. TypeOK'
  BY DEF ChannelInv, Stamp, TypeOK, Delays, ParamRecord, paramVars, txVars
<1>2. HandlerPending'
  BY DEF ChannelInv, Stamp, HandlerPending, Asked
<1>3. SentAsDecided'
  BY DEF ChannelInv, Stamp, SentAsDecided, Asked, Same
<1> QED BY <1>1, <1>2, <1>3 DEF ChannelInv, Stamp, PeekHolds, NeverEarly,
          OvertakesOnlyByDelay, HeapOvertaken, txVars

LEMMA PushStep == ChannelInv /\ Push => ChannelInv'
<1> SUFFICES ASSUME ChannelInv, Push PROVE ChannelInv'
  OBVIOUS
<1> USE DEF ChannelInv
<1> DEFINE new == [due |-> due, id |-> Len(log), leg |-> leg]
<1>1. Asked(Len(log), leg)
  BY DEF Push, HandlerPending
<1>2. /\ heap' = heap \cup {new} /\ new \in Entry
      /\ new.id = Len(log) /\ new.leg = leg /\ new.due = due
      /\ UNCHANGED <<log, out, now, txpc, t_ns>>
  BY DEF Push, TypeOK, Entry, txVars
<1> HIDE DEF new
<1>3. TypeOK'
  BY <1>2 DEF Push, TypeOK, paramVars, txVars, Legs
<1>4. PeekHolds'
  BY <1>2 DEF PeekHolds
<1>5. /\ \A e \in heap : ~Same(e, new) /\ ~Same(new, e)
      /\ \A i \in DOMAIN out : ~Same(new, out[i])
  BY <1>2 DEF Push, HandlerPending, Same
<1>6. SentAsDecided'
  <2>1. \A e \in heap' : Asked(e.id, e.leg)'
    BY <1>1, <1>2 DEF SentAsDecided, Asked
  <2>2. \A i \in DOMAIN out' : Asked(out[i].id, out[i].leg)'
    BY <1>2 DEF SentAsDecided, Asked
  <2>3. \A e, f \in heap' : Same(e, f) => e = f
    BY <1>2, <1>5 DEF SentAsDecided
  <2>4. \A e \in heap', i \in DOMAIN out' : ~Same(e, out'[i])
    BY <1>2, <1>5 DEF SentAsDecided
  <2>5. \A i, j \in DOMAIN out' : Same(out'[i], out'[j]) => i = j
    BY <1>2 DEF SentAsDecided
  <2> QED BY <2>1, <2>2, <2>3, <2>4, <2>5 DEF SentAsDecided, Same
<1>7. HandlerPending'
  <2>1. CASE leg = "normal" /\ log[Len(log)].fate = "replay"
    <3>1. hpc' = "stamp" /\ leg' = "replay"
      BY <2>1 DEF Push
    <3>2. Asked(Len(log), leg)'
      BY <1>1, <1>2, <2>1, <3>1 DEF Asked
    <3>3. /\ \A e \in heap : e.id # Len(log)
          /\ \A i \in DOMAIN out : out[i].id # Len(log)
      BY <2>1 DEF Push, HandlerPending
    <3> QED BY <1>2, <2>1, <3>1, <3>2, <3>3 DEF HandlerPending
  <2>2. CASE ~(leg = "normal" /\ log[Len(log)].fate = "replay")
    BY <2>2 DEF Push, HandlerPending
  <2> QED BY <2>1, <2>2
<1>8. HeapOvertaken'
  <2>1. \A i \in DOMAIN out : out[i].id <= Len(log) /\ out[i].id \in Nat
    BY DEF SentAsDecided, Asked, TypeOK, Sent
  <2> QED BY <1>2, <2>1 DEF HeapOvertaken, TypeOK
<1> QED BY <1>2, <1>3, <1>4, <1>6, <1>7, <1>8
        DEF NeverEarly, OvertakesOnlyByDelay

LEMMA TxPopStep == ChannelInv /\ TxPop => ChannelInv'
<1> SUFFICES ASSUME ChannelInv, TxPop PROVE ChannelInv'
  OBVIOUS
<1> USE DEF ChannelInv
<1>1. heap # {}
  BY DEF TxPop, PeekHolds
<1>2. PICK e \in Earliest :
        /\ heap' = heap \ {e}
        /\ out' = Append(out, [due |-> e.due, id |-> e.id, leg |-> e.leg,
                               at |-> now])
  BY <1>1 DEF TxPop
<1> DEFINE sent == [due |-> e.due, id |-> e.id, leg |-> e.leg, at |-> now]
<1>3. /\ e \in heap /\ e \in Entry
      /\ \A f \in heap : e.due <= f.due
  BY DEF Earliest, TypeOK
<1>4. e.due <= now
  <2>1. PICK f \in heap : f.due <= t_ns
    BY DEF TxPop, PeekHolds
  <2> QED BY <1>3, <2>1 DEF TxPop, PeekHolds, TypeOK, Entry
<1>5. sent \in Sent /\ out' = Append(out, sent)
  BY <1>2, <1>3 DEF Sent, Entry, TypeOK
<1>6. /\ sent.due = e.due /\ sent.id = e.id /\ sent.leg = e.leg
      /\ sent.at = now
  OBVIOUS
<1> HIDE DEF sent
<1>7. /\ DOMAIN out' = DOMAIN out \cup {Len(out) + 1}
      /\ Len(out) + 1 \notin DOMAIN out
      /\ out'[Len(out) + 1] = sent
      /\ \A i \in DOMAIN out : out'[i] = out[i] /\ i < Len(out) + 1
      /\ \A i \in DOMAIN out' : i <= Len(out) + 1 /\ i \in Nat
  BY <1>5 DEF TypeOK
<1>8. TypeOK'
  BY <1>2, <1>5 DEF TxPop, TypeOK, paramVars, handlerVars
<1>9. PeekHolds'
  BY DEF TxPop, PeekHolds
<1>10. NeverEarly'
  BY <1>4, <1>6, <1>7 DEF NeverEarly
<1>11. SentAsDecided'
  <2>1. \A x \in heap' : Asked(x.id, x.leg)'
    BY <1>2 DEF TxPop, SentAsDecided, Asked
  <2>2. \A i \in DOMAIN out' : Asked(out[i].id, out[i].leg)'
    BY <1>3, <1>6, <1>7 DEF TxPop, SentAsDecided, Asked
  <2>3. \A x, f \in heap' : Same(x, f) => x = f
    BY <1>2 DEF SentAsDecided
  <2>4. \A x \in heap', i \in DOMAIN out' : ~Same(x, out'[i])
    BY <1>2, <1>3, <1>6, <1>7 DEF SentAsDecided, Same
  <2>5. \A i, j \in DOMAIN out' : Same(out'[i], out'[j]) => i = j
    BY <1>3, <1>6, <1>7 DEF SentAsDecided, Same
  <2> QED BY <2>1, <2>2, <2>3, <2>4, <2>5 DEF SentAsDecided, Same
<1>12. HandlerPending'
  <2>1. ASSUME hpc' # "idle" PROVE e.id = Len(log) => e.leg = "normal" /\ leg = "replay"
    BY <1>3, <2>1 DEF TxPop, HandlerPending, handlerVars
  <2> QED BY <1>2, <1>6, <1>7, <2>1
          DEF TxPop, HandlerPending, handlerVars, Asked
<1>13. OvertakesOnlyByDelay'
  BY <1>3, <1>6, <1>7 DEF OvertakesOnlyByDelay, HeapOvertaken, TypeOK
<1>14. HeapOvertaken'
  BY <1>2, <1>3, <1>6, <1>7 DEF HeapOvertaken
<1> QED BY <1>8, <1>9, <1>10, <1>11, <1>12, <1>13, <1>14

\* The steps of the sender before the pop only look.
LEMMA TxLookStep ==
  ASSUME ChannelInv, TxCheck \/ TxPeek \/ TxClock PROVE ChannelInv'
<1>1. /\ UNCHANGED <<paramVars, heap, stop, log, handlerVars, out, now>>
      /\ UNCHANGED <<params, burst_remaining, hpc, snap, leg, due>>
  BY DEF TxCheck, TxPeek, TxClock, paramVars, handlerVars
<1>2. TypeOK' /\ PeekHolds'
  <2>1. CASE TxCheck
    BY <1>1, <2>1 DEF ChannelInv, TypeOK, PeekHolds, TxCheck
  <2>2. CASE TxPeek
    <3>1. heap # {}
      BY <2>2 DEF ChannelInv, PeekHolds, TxPeek
    <3>2. PICK e \in Earliest : t_ns' = e.due
      BY <2>2, <3>1 DEF TxPeek
    <3>3. e \in heap /\ e \in Entry /\ e.due \in Nat
      BY DEF Earliest, ChannelInv, TypeOK, Entry
    <3> QED BY <1>1, <2>2, <3>1, <3>2, <3>3
            DEF ChannelInv, TypeOK, PeekHolds, TxPeek
  <2>3. CASE TxClock
    BY <1>1, <2>3 DEF ChannelInv, TypeOK, PeekHolds, TxClock
  <2> QED BY <2>1, <2>2, <2>3
<1> QED BY <1>1, <1>2
        DEF ChannelInv, NeverEarly, SentAsDecided, HandlerPending, Asked, Same,
            OvertakesOnlyByDelay, HeapOvertaken

LEMMA NextInv == ChannelInv /\ [Next]_vars => ChannelInv'
<1> SUFFICES ASSUME ChannelInv, [Next]_vars PROVE ChannelInv'
  OBVIOUS
<1>1. ASSUME NEW kw \in Requests, SetParams(kw) PROVE ChannelInv'
  <2>1. params' \in ParamRecord
    BY <1>1, ParamsTyped DEF ChannelInv, TypeOK
  <2>2. TypeOK'
    BY <1>1, <2>1 DEF ChannelInv, TypeOK, SetParams, handlerVars, txVars
  <2> QED BY <1>1, <2>2, RestKept
          DEF ChannelInv, TypeOK, SetParams, handlerVars, txVars
<1>2. CASE Stop
  BY <1>2, RestKept DEF ChannelInv, TypeOK, Stop, paramVars, handlerVars, txVars
<1>3. CASE Tick
  BY <1>3, RestKept DEF ChannelInv, TypeOK, Tick, paramVars, handlerVars, txVars
<1>4. CASE UNCHANGED vars
  BY <1>4, RestKept DEF ChannelInv, TypeOK, vars
<1> QED BY <1>1, <1>2, <1>3, <1>4, DecideStep, StampStep, PushStep, TxPopStep,
           TxLookStep DEF Next, Handler, Sender

\* The inductive invariant of the channel holds (test2.py:156-289).
THEOREM Invariance == Spec => []ChannelInv
<1> QED BY InitInv, NextInv, PTL DEF Spec

\* No packet is published before the time it is due, although the sender looks
\* and pops under separate locks (test2.py:191-202).
THEOREM NothingEarly == Spec => []NeverEarly
<1>1. ChannelInv => NeverEarly
  BY DEF ChannelInv
<1> QED BY <1>1, Invariance, PTL

\* What is dropped is never sent, and nothing is sent more often than it was
\* decided (test2.py:241-283).
THEOREM DecisionsKept == Spec => []SentAsDecided
<1>1. ChannelInv => SentAsDecided
  BY DEF ChannelInv
<1> QED BY <1>1, Invariance, PTL

\* The order of packets changes only by their delays (test2.py:178-205).
THEOREM OrderKept == Spec => []OvertakesOnlyByDelay
<1>1. ChannelInv => OvertakesOnlyByDelay
  BY DEF ChannelInv
<1> QED BY <1>1, Invariance, PTL

-----------------------------------------------------------------------------
(* Sums over finite sets, as FoldFunction takes them: in the order CHOOSE    *)
(* gives, which does not matter.                                             *)

First(t) == CHOOSE x \in t : TRUE

\* s holds the sum of w over each set of T's elements.
SumsOf(s, T, w) ==
  s = [t \in SUBSET T |-> IF t = {} THEN 0
                          ELSE w[First(t)] + s[t \ {First(t)}]]

Total(T, w) == (CHOOSE s : SumsOf(s, T, w))[T]

\* Among the parts of a finite set that are in C one is smallest.
LEMMA SmallestPart ==
  ASSUME NEW T, IsFiniteSet(T), NEW C \in SUBSET (SUBSET T), C # {}
  PROVE  \E t \in C : \A u \in C : u \subseteq t => u = t
<1>1. IsWellFoundedOn(StrictSubsetOrdering(T), FiniteSubsetsOf(T))
  BY FS_StrictSubsetOrderingWellFounded
<1>2. C \subseteq FiniteSubsetsOf(T)
  <2> SUFFICES ASSUME NEW t \in C PROVE t \in FiniteSubsetsOf(T)
    OBVIOUS
  <2>1. t \in SUBSET T
    OBVIOUS
  <2> QED
    BY <2>1, FS_Subset DEF FiniteSubsetsOf
<1>3. PICK t \in C : \A u \in C : ~(<<u, t>> \in StrictSubsetOrdering(T))
  BY <1>1, <1>2, WFMin
<1>4. ASSUME NEW u \in C, u \subseteq t PROVE u = t
  BY <1>3, <1>4 DEF StrictSubsetOrdering
<1> QED
  BY <1>4

LEMMA SumsAt ==
  ASSUME NEW T, NEW w, NEW s, SumsOf(s, T, w)
  PROVE  /\ s[{}] = 0
         /\ \A t \in SUBSET T : t # {} =>
              /\ First(t) \in t
              /\ s[t] = w[First(t)] + s[t \ {First(t)}]
<1>1. \A t \in SUBSET T : s[t] = IF t = {} THEN 0 ELSE w[First(t)] + s[t \ {First(t)}]
  BY DEF SumsOf, First
<1>2. \A t : t # {} => First(t) \in t
  BY DEF First
<1>3. {} \in SUBSET T
  OBVIOUS
<1> HIDE DEF SumsOf
<1> QED
  BY <1>1, <1>2, <1>3

\* The sum over a set depends on nothing outside it.
LEMMA SumsAgree ==
  ASSUME NEW A, NEW B, NEW r, NEW s, NEW w, NEW v,
         SumsOf(r, A, w), SumsOf(s, B, v),
         NEW t, IsFiniteSet(t), t \subseteq A, t \subseteq B,
         \A x \in t : w[x] = v[x]
  PROVE  r[t] = s[t]
<1> DEFINE C == {u \in SUBSET t : r[u] # s[u]}
<1> SUFFICES ASSUME C # {} PROVE FALSE
  OBVIOUS
<1>1. PICK u \in C : \A x \in C : x \subseteq u => x = u
  <2>1. C \in SUBSET (SUBSET t)
    OBVIOUS
  <2> HIDE DEF C
  <2> QED
    BY <2>1, SmallestPart
<1>2. u \in SUBSET A /\ u \in SUBSET B /\ u \in SUBSET t
  OBVIOUS
<1>3. u # {}
  BY <1>2, SumsAt
<1>4. /\ First(u) \in u
      /\ r[u] = w[First(u)] + r[u \ {First(u)}]
      /\ s[u] = v[First(u)] + s[u \ {First(u)}]
  BY <1>2, <1>3, SumsAt
<1>5. r[u \ {First(u)}] = s[u \ {First(u)}]
  <2>1. u \ {First(u)} \in SUBSET t /\ u \ {First(u)} \subseteq u /\ u \ {First(u)} # u
    BY <1>2, <1>4
  <2> QED
    BY <1>1, <2>1
<1>6. w[First(u)] = v[First(u)]
  BY <1>2, <1>4
<1> QED
  BY <1>1, <1>4, <1>5, <1>6

LEMMA SumsExist ==
  ASSUME NEW T, IsFiniteSet(T), NEW w
  PROVE  \E s : SumsOf(s, T, w)
<1> DEFINE C == {t \in SUBSET T : ~\E s : SumsOf(s, t, w)}
<1> SUFFICES ASSUME C # {} PROVE FALSE
  OBVIOUS
<1>1. PICK B \in C : \A t \in C : t \subseteq B => t = B
  <2>1. C \in SUBSET (SUBSET T)
    OBVIOUS
  <2> HIDE DEF C
  <2> QED
    BY <2>1, SmallestPart
<1> DEFINE G(t) == CHOOSE s : SumsOf(s, t, w)
<1>2. ASSUME NEW t \in SUBSET B, t # B PROVE SumsOf(G(t), t, w)
  <2>1. t \in SUBSET T /\ t \notin C
    BY <1>1, <1>2
  <2>2. \E s : SumsOf(s, t, w)
    BY <2>1
  <2> QED
    BY <2>2
<1> DEFINE Rest(t) == t \ {First(t)}
           q == [t \in SUBSET B |-> IF t = {} THEN 0
                                    ELSE w[First(t)] + G(Rest(t))[Rest(t)]]
<1> HIDE DEF G
<1>3. ASSUME NEW t \in SUBSET B, t # {}
      PROVE  /\ First(t) \in t /\ Rest(t) \in SUBSET B /\ Rest(t) # B
             /\ Rest(t) \subseteq t
  <2>1. First(t) \in t
    BY <1>3 DEF First
  <2> QED
    BY <2>1
<1> HIDE DEF Rest
<1>4. ASSUME NEW u \in SUBSET B, u # B PROVE q[u] = G(u)[u]
  <2>1. SumsOf(G(u), u, w)
    BY <1>2, <1>4
  <2>2. CASE u = {}
    BY <2>1, <2>2, SumsAt
  <2>3. CASE u # {}
    <3>1. G(u)[u] = w[First(u)] + G(u)[Rest(u)]
      BY <2>1, <2>3, SumsAt DEF Rest
    <3>2. Rest(u) \in SUBSET B /\ Rest(u) # B /\ Rest(u) \subseteq u
      BY <1>3, <2>3
    <3>3. SumsOf(G(Rest(u)), Rest(u), w)
      BY <1>2, <3>2
    <3>4. IsFiniteSet(Rest(u))
      <4>1. Rest(u) \in SUBSET T
        BY <3>2
      <4> QED
        BY <4>1, FS_Subset
    <3>5. G(u)[Rest(u)] = G(Rest(u))[Rest(u)]
      BY <2>1, <3>2, <3>3, <3>4, SumsAgree
    <3> QED
      BY <2>3, <3>1, <3>5
  <2> QED
    BY <2>2, <2>3
<1>5. \A t \in SUBSET B : t # {} => q[Rest(t)] = G(Rest(t))[Rest(t)]
  BY <1>3, <1>4
<1>6. q = [t \in SUBSET B |-> IF t = {} THEN 0 ELSE w[First(t)] + q[Rest(t)]]
  BY <1>5
<1> HIDE DEF q
<1>7. SumsOf(q, B, w)
  BY <1>6 DEF SumsOf, First, Rest
<1> QED
  BY <1>1, <1>7

\* The sum may be taken beginning with any element.
LEMMA SumsAnyOrder ==
  ASSUME NEW T, IsFiniteSet(T), NEW w, \A x \in T : w[x] \in Int,
         NEW s, SumsOf(s, T, w)
  PROVE  \A t \in SUBSET T : /\ s[t] \in Int
                             /\ \A x \in t : s[t] = w[x] + s[t \ {x}]
<1> DEFINE Right(t) == s[t] \in Int /\ \A x \in t : s[t] = w[x] + s[t \ {x}]
           C == {t \in SUBSET T : ~Right(t)}
<1> SUFFICES ASSUME C # {} PROVE FALSE
  OBVIOUS
<1>1. PICK t \in C : \A u \in C : u \subseteq t => u = t
  <2>1. C \in SUBSET (SUBSET T)
    OBVIOUS
  <2> HIDE DEF C
  <2> QED
    BY <2>1, SmallestPart
<1>2. ASSUME NEW u \in SUBSET t, u # t PROVE Right(u)
  BY <1>1, <1>2
<1>3. t # {}
  <2>1. s[{}] = 0 /\ s[{}] \in Int
    BY SumsAt
  <2>2. Right({})
    BY <2>1
  <2> QED
    BY <1>1, <2>2
<1>4. PICK c : c = First(t)
  OBVIOUS
<1>5. c \in t /\ s[t] = w[c] + s[t \ {c}]
  BY <1>1, <1>3, <1>4, SumsAt
<1>6. Right(t \ {c})
  BY <1>2, <1>5
<1>7. ASSUME NEW x \in t PROVE s[t] = w[x] + s[t \ {x}]
  <2>1. CASE x = c
    BY <1>5, <2>1
  <2>2. CASE x # c
    <3>1. Right(t \ {x})
      BY <1>2
    <3>2. s[t \ {c}] = w[x] + s[(t \ {c}) \ {x}]
      BY <1>6, <2>2
    <3>3. s[t \ {x}] = w[c] + s[(t \ {x}) \ {c}]
      BY <1>5, <2>2, <3>1
    <3>4. (t \ {c}) \ {x} = (t \ {x}) \ {c}
      OBVIOUS
    <3>5. s[(t \ {x}) \ {c}] \in Int
      <4>1. (t \ {x}) \ {c} \in SUBSET t /\ (t \ {x}) \ {c} # t
        OBVIOUS
      <4> QED
        BY <1>2, <4>1
    <3>6. w[x] \in Int /\ w[c] \in Int
      BY <1>1, <1>5
    <3>7. PICK y : y = s[(t \ {x}) \ {c}]
      OBVIOUS
    <3>8. s[t] = w[c] + (w[x] + y)
      BY <1>5, <3>2, <3>4, <3>7
    <3>9. w[x] + s[t \ {x}] = w[x] + (w[c] + y)
      BY <3>3, <3>7
    <3>10. y \in Int
      BY <3>5, <3>7
    <3> HIDE DEF Right
    <3> QED
      BY <3>6, <3>8, <3>9, <3>10
  <2> QED
    BY <2>1, <2>2
<1>8. s[t] \in Int
  <2>1. s[t \ {c}] \in Int /\ w[c] \in Int
    BY <1>1, <1>5, <1>6
  <2> QED
    BY <1>5, <2>1
<1> QED
  BY <1>1, <1>7, <1>8

LEMMA SumsTake ==
  ASSUME NEW T, IsFiniteSet(T), NEW w, \A x \in T : w[x] \in Int,
         NEW s, SumsOf(s, T, w), NEW x \in T
  PROVE  s[T] = w[x] + s[T \ {x}]
BY SumsAnyOrder

\* One more term.
LEMMA SumsAdd ==
  ASSUME NEW T, NEW U, IsFiniteSet(T), NEW n, n \notin T, U = T \cup {n},
         NEW w, NEW v, \A x \in T : w[x] \in Int /\ v[x] = w[x], v[n] \in Int,
         NEW r, NEW q, SumsOf(r, T, w), SumsOf(q, U, v)
  PROVE  r[T] \in Int /\ q[U] = r[T] + v[n]
<1>1. IsFiniteSet(U) /\ n \in U /\ U \ {n} = T
  BY FS_AddElement
<1>2. \A x \in U : v[x] \in Int
  OBVIOUS
<1>3. q[U] = v[n] + q[U \ {n}]
  BY <1>1, <1>2, SumsTake
<1>4. q[T] = r[T]
  BY SumsAgree
<1>5. r[T] \in Int
  BY SumsAnyOrder
<1>6. q[U] = v[n] + r[T]
  BY <1>1, <1>3, <1>4, Zenon
<1>7. v[n] + r[T] = r[T] + v[n]
  BY <1>5
<1> QED
  BY <1>5, <1>6, <1>7, Zenon

LEMMA TotalAdds ==
  ASSUME NEW T, NEW U, IsFiniteSet(T), NEW n, n \notin T, U = T \cup {n},
         NEW w, NEW v, \A x \in T : w[x] \in Int /\ v[x] = w[x], v[n] \in Int
  PROVE  Total(T, w) \in Int /\ Total(U, v) = Total(T, w) + v[n]
<1>1. PICK r : r = CHOOSE s : SumsOf(s, T, w)
  OBVIOUS
<1>2. PICK q : q = CHOOSE s : SumsOf(s, U, v)
  OBVIOUS
<1>3. SumsOf(r, T, w) /\ SumsOf(q, U, v)
  BY <1>1, <1>2, SumsExist, FS_AddElement
<1>4. r[T] \in Int /\ q[U] = r[T] + v[n]
  BY <1>3, SumsAdd
<1>5. Total(T, w) = r[T] /\ Total(U, v) = q[U]
  BY <1>1, <1>2, Zenon DEF Total
<1> QED
  BY <1>4, <1>5, Zenon

LEMMA TotalOfNone ==
  ASSUME NEW w
  PROVE  Total({}, w) = 0
<1>1. PICK r : r = CHOOSE s : SumsOf(s, {}, w)
  OBVIOUS
<1>2. SumsOf(r, {}, w)
  BY <1>1, SumsExist, FS_EmptySet
<1> QED
  BY <1>1, <1>2, SumsAt DEF Total

-----------------------------------------------------------------------------
(* The bursts. *)

\* What the triggers ask to be dropped.
Asks == [i \in Triggers |-> IF log[i].size > 1 THEN log[i].size ELSE 1]

LEMMA AnnouncedTotal ==
  Announced = Total(Triggers, Asks) /\ Announced' = Total(Triggers', Asks')
BY DEF Announced, Asks, Total, SumsOf, First, FoldFunction, FoldFunctionOnSet, MapThenFoldSet

LEMMA BurstsInit == Init => BurstsSpentExactly
<1> SUFFICES ASSUME Init PROVE BurstsSpentExactly
  OBVIOUS
<1>1. Triggers = {} /\ Continued = {}
  BY DEF Init, Triggers, Continued
<1>2. Announced = 0
  BY <1>1, AnnouncedTotal, TotalOfNone
<1>3. Cardinality(Triggers \cup Continued) = 0
  BY <1>1, FS_EmptySet
<1> QED
  BY <1>2, <1>3 DEF Init, BurstsSpentExactly

\* A step that decides of no packet.
LEMMA BurstsKept ==
  ASSUME BurstsSpentExactly, UNCHANGED <<log, burst_remaining>>
  PROVE  BurstsSpentExactly'
<1>1. Triggers' = Triggers /\ Continued' = Continued
  BY DEF Triggers, Continued
<1>2. Asks' = Asks
  BY <1>1 DEF Asks
<1>3. Announced' = Announced
  BY <1>1, <1>2, AnnouncedTotal
<1> QED
  BY <1>1, <1>3 DEF BurstsSpentExactly

LEMMA BurstsDecide == ChannelInv /\ BurstsSpentExactly /\ Decide => BurstsSpentExactly'
<1> SUFFICES ASSUME ChannelInv, BurstsSpentExactly, Decide PROVE BurstsSpentExactly'
  OBVIOUS
<1>1. PICK d \in Decisions : log' = Append(log, d) /\ burst_remaining' = d.rest
  BY DEF Decide
<1>2. /\ log \in Seq(Decision) /\ burst_remaining \in Nat /\ params.burst_size \in Int
  BY DEF ChannelInv, TypeOK, ParamRecord
<1>3. PICK n : n = Len(log) + 1
  OBVIOUS
<1>4. /\ DOMAIN log' = DOMAIN log \cup {n} /\ n \notin DOMAIN log /\ log'[n] = d
      /\ \A i \in DOMAIN log : log'[i] = log[i]
      /\ DOMAIN log = 1 .. Len(log) /\ Len(log) \in Nat
  BY <1>1, <1>2, <1>3
<1>5. /\ Triggers' = IF d.fate = "trigger" THEN Triggers \cup {n} ELSE Triggers
      /\ Continued' = IF d.fate = "burst" THEN Continued \cup {n} ELSE Continued
  BY <1>4 DEF Triggers, Continued
<1>6. IsFiniteSet(Triggers) /\ IsFiniteSet(Triggers \cup Continued)
  <2>1. IsFiniteSet(DOMAIN log)
    BY <1>4, FS_Interval
  <2>2. Triggers \subseteq DOMAIN log /\ Triggers \cup Continued \subseteq DOMAIN log
    BY DEF Triggers, Continued
  <2> QED
    BY <2>1, <2>2, FS_Subset
<1>7. n \notin Triggers /\ n \notin Triggers \cup Continued
  BY <1>4 DEF Triggers, Continued
<1>8. Cardinality((Triggers \cup Continued) \cup {n}) = Cardinality(Triggers \cup Continued) + 1
  BY <1>6, <1>7, FS_AddElement
<1>9. Cardinality(Triggers \cup Continued) \in Nat
  BY <1>6, FS_CardinalityType
<1>10. Cardinality(Triggers \cup Continued) + burst_remaining = Announced
  BY DEF BurstsSpentExactly
<1>11. \A i \in Triggers : Asks[i] \in Int
  <2> SUFFICES ASSUME NEW i \in Triggers PROVE Asks[i] \in Int
    OBVIOUS
  <2>1. log[i] \in Decision
    BY <1>2 DEF Triggers
  <2> QED
    BY <2>1 DEF Asks, Decision
<1>12. ASSUME d.fate # "trigger" PROVE Announced' = Announced
  <2>1. Triggers' = Triggers /\ \A i \in Triggers : log'[i] = log[i]
    BY <1>4, <1>5, <1>12 DEF Triggers
  <2>2. Asks' = Asks
    BY <2>1 DEF Asks
  <2> QED
    BY <2>1, <2>2, AnnouncedTotal
<1>13. ASSUME d.fate = "trigger", d.size \in Int
       PROVE  /\ Announced \in Int
              /\ Announced' = Announced + (IF d.size > 1 THEN d.size ELSE 1)
  <2>1. Triggers' = Triggers \cup {n}
    BY <1>5, <1>13
  <2>2. ASSUME NEW i \in Triggers PROVE Asks'[i] = Asks[i]
    <3>1. i \in Triggers' /\ log'[i] = log[i]
      BY <1>4, <2>1 DEF Triggers
    <3> QED
      BY <3>1 DEF Asks
  <2>3. Asks'[n] = (IF d.size > 1 THEN d.size ELSE 1)
    <3>1. n \in Triggers'
      BY <2>1
    <3> QED
      BY <1>4, <3>1 DEF Asks
  <2>4. Asks'[n] \in Int
    BY <1>13, <2>3
  <2>5. /\ Total(Triggers, Asks) \in Int
        /\ Total(Triggers', Asks') = Total(Triggers, Asks) + Asks'[n]
    <3>1. /\ IsFiniteSet(Triggers) /\ n \notin Triggers
          /\ Triggers' = Triggers \cup {n}
          /\ \A i \in Triggers : Asks[i] \in Int /\ Asks'[i] = Asks[i]
          /\ Asks'[n] \in Int
      BY <1>6, <1>7, <1>11, <2>1, <2>2, <2>4
    <3>2. PICK T, U, w, v : T = Triggers /\ U = Triggers' /\ w = Asks /\ v = Asks'
      OBVIOUS
    <3>3. /\ IsFiniteSet(T) /\ n \notin T /\ U = T \cup {n}
          /\ \A i \in T : w[i] \in Int /\ v[i] = w[i]
          /\ v[n] \in Int
      BY <3>1, <3>2
    <3>4. Total(T, w) \in Int
      BY <3>3, TotalAdds
    <3>5. Total(U, v) = Total(T, w) + v[n]
      BY <3>3, TotalAdds
    <3> QED
      BY <3>2, <3>4, <3>5
  <2> QED
    BY <2>1, <2>3, <2>5, AnnouncedTotal
<1>14. CASE params.attack_mode = "drop" /\ burst_remaining > 0
  <2>1. d = [fate |-> "burst", rest |-> burst_remaining - 1, size |-> 0]
    BY <1>14 DEF Decisions
  <2>2. d.fate = "burst" /\ d.rest = burst_remaining - 1
    BY <2>1
  <2>3. Triggers' \cup Continued' = (Triggers \cup Continued) \cup {n}
    BY <1>5, <2>2
  <2>4. Announced' = Announced
    BY <1>12, <2>2
  <2>5. Cardinality(Triggers' \cup Continued') + burst_remaining' = Announced
    <3>1. Cardinality(Triggers' \cup Continued') = Cardinality(Triggers \cup Continued) + 1
      BY <1>8, <2>3
    <3>2. burst_remaining' = burst_remaining - 1
      BY <1>1, <2>2
    <3> QED
      BY <1>2, <1>9, <1>10, <3>1, <3>2
  <2> QED
    BY <2>4, <2>5 DEF BurstsSpentExactly
<1>15. CASE ~(params.attack_mode = "drop" /\ burst_remaining > 0)
  <2>1. PICK hit \in Chances(params) :
          d = [fate |-> CASE hit /\ params.attack_mode = "drop" -> "trigger"
                          [] hit /\ params.attack_mode = "replay" -> "replay"
                          [] OTHER -> "forward",
               rest |-> IF hit /\ params.attack_mode = "drop"
                        THEN BurstRest(params) ELSE burst_remaining,
               size |-> IF hit /\ params.attack_mode = "drop"
                        THEN params.burst_size ELSE 0]
    BY <1>15 DEF Decisions
  <2>2. CASE hit /\ params.attack_mode = "drop"
    <3>1. /\ d.fate = "trigger" /\ d.rest = BurstRest(params)
          /\ d.size = params.burst_size /\ burst_remaining = 0
      BY <1>2, <1>15, <2>1, <2>2
    <3>2. Triggers' \cup Continued' = (Triggers \cup Continued) \cup {n}
      BY <1>5, <3>1
    <3>3. Announced' = Announced + (IF d.size > 1 THEN d.size ELSE 1)
      BY <1>2, <1>13, <3>1
    <3>4. d.rest + 1 = (IF d.size > 1 THEN d.size ELSE 1)
      BY <1>2, <3>1 DEF BurstRest
    <3>5. d.rest \in Int
      BY <1>2, <3>1 DEF BurstRest
    <3>6. Cardinality(Triggers' \cup Continued') = Cardinality(Triggers \cup Continued) + 1
      BY <1>8, <3>2
    <3>7. Cardinality(Triggers \cup Continued) = Announced
      BY <1>9, <1>10, <3>1
    <3>8. Cardinality(Triggers' \cup Continued') + burst_remaining' = Announced'
      <4>1. burst_remaining' = d.rest
        BY <1>1
      <4>2. Announced' = Announced + (d.rest + 1)
        BY <3>3, <3>4
      <4> QED
        BY <1>9, <3>5, <3>6, <3>7, <4>1, <4>2
    <3> QED
      BY <3>8 DEF BurstsSpentExactly
  <2>3. CASE ~(hit /\ params.attack_mode = "drop")
    <3>1. d.fate \in {"forward", "replay"} /\ d.rest = burst_remaining
      BY <2>1, <2>3
    <3>2. Triggers' = Triggers /\ Continued' = Continued
      BY <1>5, <3>1
    <3>3. Announced' = Announced
      BY <1>12, <3>1
    <3> QED
      BY <1>1, <1>10, <3>1, <3>2, <3>3 DEF BurstsSpentExactly
  <2> QED
    BY <2>2, <2>3
<1> QED
  BY <1>14, <1>15

\* Every burst is spent exactly, however the mode and the size change in
\* between (test2.py:230-239).
THEOREM BurstsSpent == Spec => []BurstsSpentExactly
<1>1. ChannelInv /\ BurstsSpentExactly /\ [Next]_vars => (ChannelInv /\ BurstsSpentExactly)'
  <2> SUFFICES ASSUME ChannelInv, BurstsSpentExactly, [Next]_vars PROVE BurstsSpentExactly'
    BY NextInv
  <2>1. CASE Decide
    BY <2>1, BurstsDecide
  <2>2. CASE ~Decide
    <3>1. UNCHANGED <<log, burst_remaining>>
      BY <2>2 DEF Next, SetParams, Handler, Stamp, Push, Sender, TxCheck, TxPeek, TxClock,
                  TxPop, Stop, Tick, paramVars, vars
    <3> QED
      BY <3>1, BurstsKept
  <2> QED
    BY <2>1, <2>2
<1>2. Init => ChannelInv /\ BurstsSpentExactly
  BY InitInv, BurstsInit
<1> QED
  BY <1>1, <1>2, PTL DEF Spec

=============================================================================
