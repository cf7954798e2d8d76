---------------------------- MODULE SpaceChannel ----------------------------
(***************************************************************************)
(* The space channel (newGS/test2.py, PduSpaceChannel): three threads on   *)
(* one object.  The handler takes a packet, decides under _lock whether to *)
(* attack it, and pushes it on a heap with the time it is due, a second    *)
(* time for a replay.  The sender looks at the heap, at the clock and at   *)
(* the heap again, each under a lock of its own, and publishes.  The       *)
(* control server changes the parameters at any time.                      *)
(*                                                                         *)
(* A packet is the number of its arrival.  Its bytes are left out, so the  *)
(* branches that only rewrite them (jamming, bit errors) are steps of the  *)
(* handler without an effect here.  Time is counted in an arbitrary unit.  *)
(***************************************************************************)
EXTENDS Integers, Sequences, FiniteSets, Functions

CONSTANTS
  Params,       \* values the parameters may have: a set of parameter records
  Requests,     \* control requests: functions from parameter names to values
  Bad,          \* a value that float() or int() rejects
  MaxPackets,   \* bound: packets that arrive
  MaxTime       \* bound: the clock stops here unless something is still due

\* The order in which set_params converts and stores the parameters.
FieldOrder == <<"base_delay_ms", "jitter_ms", "attack_mode", "attack_prob",
                "burst_size", "replay_delay">>
Modes == {"none", "drop", "jamming", "replay"}
Values == [base_delay_ms |-> Nat, jitter_ms |-> Nat, attack_mode |-> Modes,
           attack_prob |-> Nat, burst_size |-> Int, replay_delay |-> Nat]
ParamRecord == [base_delay_ms : Nat, jitter_ms : Nat, attack_mode : Modes,
                attack_prob : Nat, burst_size : Int, replay_delay : Nat]

ASSUME ParamsAssumption == Params \subseteq ParamRecord
ASSUME BoundsAssumption == MaxPackets \in Nat /\ MaxTime \in Nat
ASSUME RequestsAssumption ==
  \A kw \in Requests : \A f \in DOMAIN kw :
    f \in Range(FieldOrder) /\ (kw[f] = Bad \/ kw[f] \in Values[f])

VARIABLES
  params, burst_remaining,   \* attributes guarded by _lock
  heap,                      \* _send_heap, guarded by _heap_lock
  stop,                      \* _stop
  log,                       \* what was decided of each packet, in order
  hpc, snap, leg, due,       \* the handler: place, copies, send under way, t
  txpc, t_ns,                \* the sender: place, the due time it saw
  out,                       \* what was published, with the time
  now                        \* time.monotonic_ns()

paramVars == <<params, burst_remaining>>
handlerVars == <<hpc, snap, leg, due>>
txVars == <<txpc, t_ns>>
vars == <<params, burst_remaining, heap, stop, log, hpc, snap, leg, due,
          txpc, t_ns, out, now>>

\* A decision: forwarded, forwarded and replayed, dropped by chance, dropped as
\* part of a burst; what is left of the burst after it, and the burst_size that
\* a trigger found.
Fates == {"forward", "replay", "trigger", "burst"}
Decision == [fate : Fates, rest : Nat, size : Int]
Legs == {"normal", "replay"}
Entry == [due : Nat, id : Nat, leg : Legs]
Sent == [due : Nat, id : Nat, leg : Legs, at : Nat]

Init ==
  /\ params \in Params
  /\ burst_remaining = 0
  /\ heap = {} /\ stop = FALSE /\ log = <<>>
  /\ hpc = "idle" /\ snap = params /\ leg = "normal" /\ due = 0
  /\ txpc = "loop" /\ t_ns = 0
  /\ out = <<>> /\ now = 0

-----------------------------------------------------------------------------
(* The control server. *)

Position(f) == CHOOSE i \in DOMAIN FieldOrder : FieldOrder[i] = f

\* The fields stored before the first one whose conversion raises.
Stored(kw) ==
  {f \in DOMAIN kw :
     \A g \in DOMAIN kw : kw[g] = Bad => Position(f) < Position(g)}

SetParams(kw) ==
  /\ params' = [f \in DOMAIN params |-> IF f \in Stored(kw) THEN kw[f]
                                                            ELSE params[f]]
  /\ UNCHANGED <<burst_remaining, heap, stop, log, handlerVars, txVars, out,
                 now>>

-----------------------------------------------------------------------------
(* The handler. *)

\* Mutant: the whole burst remains after its first packet.
BurstRest_whole(p) == IF p.burst_size > 0 THEN p.burst_size ELSE 0

\* The packets a burst drops after the one that triggered it.
BurstRest(p) == IF p.burst_size > 1 THEN p.burst_size - 1 ELSE 0

\* What random() * 100 <= attack_prob may give.
Chances(p) == IF p.attack_prob >= 100 THEN {TRUE} ELSE BOOLEAN

\* What the handler may decide of the next packet.
Decisions ==
  IF params.attack_mode = "drop" /\ burst_remaining > 0
  THEN {[fate |-> "burst", rest |-> burst_remaining - 1, size |-> 0]}
  ELSE {[fate |-> CASE hit /\ params.attack_mode = "drop" -> "trigger"
                    [] hit /\ params.attack_mode = "replay" -> "replay"
                    [] OTHER -> "forward",
         rest |-> IF hit /\ params.attack_mode = "drop"
                  THEN BurstRest(params) ELSE burst_remaining,
         size |-> IF hit /\ params.attack_mode = "drop"
                  THEN params.burst_size ELSE 0]
          : hit \in Chances(params)}

\* Mutant: every attacked packet returns early, as a dropped one does.
Decide_return ==
  /\ hpc = "idle" /\ ~stop /\ Len(log) < MaxPackets
  /\ \E d \in Decisions :
       /\ log' = Append(log, d)
       /\ burst_remaining' = d.rest
       /\ hpc' = IF d.fate = "forward" THEN "stamp" ELSE "idle"
  /\ snap' = params /\ leg' = "normal"
  /\ UNCHANGED <<params, heap, stop, due, txVars, out, now>>

\* A packet arrives: the section under _lock, and the return of a drop.
Decide ==
  /\ hpc = "idle" /\ ~stop /\ Len(log) < MaxPackets
  /\ \E d \in Decisions :
       /\ log' = Append(log, d)
       /\ burst_remaining' = d.rest
       /\ hpc' = IF d.fate \in {"trigger", "burst"} THEN "idle" ELSE "stamp"
  /\ snap' = params /\ leg' = "normal"
  /\ UNCHANGED <<params, heap, stop, due, txVars, out, now>>

\* The delays of the send under way, from the parameters as they were when
\* the packet was decided.  The normal distribution around the base is cut at
\* three deviations, which is jitter_ms.
Delays ==
  IF leg = "replay" THEN {snap.replay_delay}
  ELSE {d \in 0 .. snap.base_delay_ms + snap.jitter_ms :
          d >= snap.base_delay_ms - snap.jitter_ms}

\* _schedule_send reads the clock ...
Stamp ==
  /\ hpc = "stamp"
  /\ \E d \in Delays : due' = now + d
  /\ hpc' = "push"
  /\ UNCHANGED <<paramVars, heap, stop, log, snap, leg, txVars, out, now>>

\* Mutant: the first send is scheduled once more for a replayed packet.
Push_again ==
  /\ hpc = "push"
  /\ heap' = heap \cup {[due |-> due, id |-> Len(log), leg |-> "normal"]}
  /\ IF leg = "normal" /\ log[Len(log)].fate = "replay"
     THEN hpc' = "stamp" /\ leg' = "replay"
     ELSE hpc' = "idle" /\ UNCHANGED leg
  /\ UNCHANGED <<paramVars, stop, log, snap, due, txVars, out, now>>

\* ... and takes _heap_lock; a replay is scheduled after the normal send.
Push ==
  /\ hpc = "push"
  /\ heap' = heap \cup {[due |-> due, id |-> Len(log), leg |-> leg]}
  /\ IF leg = "normal" /\ log[Len(log)].fate = "replay"
     THEN hpc' = "stamp" /\ leg' = "replay"
     ELSE hpc' = "idle" /\ UNCHANGED leg
  /\ UNCHANGED <<paramVars, stop, log, snap, due, txVars, out, now>>

-----------------------------------------------------------------------------
(* The sender: _tx_worker. *)

\* The entries heappop may return: equal times are ordered by the bytes.
Earliest == {e \in heap : \A f \in heap : e.due <= f.due}

\* The loop's condition and has_items.
TxCheck ==
  /\ txpc = "loop"
  /\ txpc' = IF stop THEN "done" ELSE IF heap = {} THEN "loop" ELSE "peek"
  /\ UNCHANGED <<paramVars, heap, stop, log, handlerVars, t_ns, out, now>>

\* A second look, under the lock again.
TxPeek ==
  /\ txpc = "peek"
  /\ IF heap = {}
     THEN txpc' = "loop" /\ UNCHANGED t_ns
     ELSE txpc' = "clock" /\ \E e \in Earliest : t_ns' = e.due
  /\ UNCHANGED <<paramVars, heap, stop, log, handlerVars, out, now>>

TxClock ==
  /\ txpc = "clock"
  /\ txpc' = IF t_ns > now THEN "loop" ELSE "pop"
  /\ UNCHANGED <<paramVars, heap, stop, log, handlerVars, t_ns, out, now>>

\* Mutant: list.pop() instead of heappop: the newest entry.
TxPop_newest ==
  /\ txpc = "pop"
  /\ txpc' = "loop"
  /\ IF heap = {}
     THEN UNCHANGED <<heap, out>>
     ELSE \E e \in {x \in heap : \A y \in heap :
                      x.id > y.id \/ (x.id = y.id /\ x.leg = "replay")
                                  \/ x = y} :
            /\ heap' = heap \ {e}
            /\ out' = Append(out, [due |-> e.due, id |-> e.id,
                                   leg |-> e.leg, at |-> now])
  /\ UNCHANGED <<paramVars, stop, log, handlerVars, t_ns, now>>

\* heappop and the publication; the heap may have changed since the peek.
TxPop ==
  /\ txpc = "pop"
  /\ txpc' = "loop"
  /\ IF heap = {}
     THEN UNCHANGED <<heap, out>>
     ELSE \E e \in Earliest :
            /\ heap' = heap \ {e}
            /\ out' = Append(out, [due |-> e.due, id |-> e.id,
                                   leg |-> e.leg, at |-> now])
  /\ UNCHANGED <<paramVars, stop, log, handlerVars, t_ns, now>>

-----------------------------------------------------------------------------

\* stop(): the entries left on the heap are not sent.
Stop ==
  /\ ~stop /\ stop' = TRUE
  /\ UNCHANGED <<paramVars, heap, log, handlerVars, txVars, out, now>>

\* The clock runs to its bound, and on while an entry is not due.
Tick ==
  /\ now < MaxTime \/ \E e \in heap : e.due > now
  /\ now' = now + 1
  /\ UNCHANGED <<paramVars, heap, stop, log, handlerVars, txVars, out>>

Handler == Stamp \/ Push
Sender == TxCheck \/ TxPeek \/ TxClock \/ TxPop
Next ==
  \/ \E kw \in Requests : SetParams(kw)
  \/ Decide \/ Handler \/ Sender \/ Stop \/ Tick

\* The threads run whenever they can, and time goes on.  Nobody has to send
\* packets or requests, or to stop the channel.
Fairness == WF_vars(Handler) /\ WF_vars(Sender) /\ WF_vars(Tick)
Spec == Init /\ [][Next]_vars /\ Fairness

-----------------------------------------------------------------------------
(* Properties. *)

\* Every variable has its type.
TypeOK ==
  /\ params \in ParamRecord /\ snap \in ParamRecord
  /\ burst_remaining \in Nat
  /\ heap \in SUBSET Entry
  /\ stop \in BOOLEAN
  /\ log \in Seq(Decision)
  /\ hpc \in {"idle", "stamp", "push"}
  /\ leg \in Legs /\ due \in Nat
  /\ txpc \in {"loop", "peek", "clock", "pop", "done"}
  /\ t_ns \in Nat
  /\ out \in Seq(Sent)
  /\ now \in Nat

\* When the sender comes to pop, something on the heap is due, although it
\* decided so under a lock it has released: only the sender takes entries off,
\* and an entry pushed in between is first only if it is due even earlier.
PeekHolds ==
  /\ txpc \in {"peek", "clock", "pop"} => heap # {}
  /\ txpc \in {"clock", "pop"} => \E e \in heap : e.due <= t_ns
  /\ txpc = "pop" => t_ns <= now

\* No packet leaves the channel before the time it is due: pop and peek are
\* under separate locks (test2.py:191-202).
NeverEarly == \A i \in DOMAIN out : out[i].due <= out[i].at

\* The sends a decision asks for.
Asked(id, l) ==
  /\ id \in DOMAIN log
  /\ log[id].fate \in {"forward", "replay"}
  /\ l = "replay" => log[id].fate = "replay"
Same(e, f) == e.id = f.id /\ e.leg = f.leg

\* A packet that was dropped is never sent, another is sent at most once, and
\* once more only if it was decided to be replayed (test2.py:241-283).
SentAsDecided ==
  /\ \A e \in heap : Asked(e.id, e.leg)
  /\ \A i \in DOMAIN out : Asked(out[i].id, out[i].leg)
  /\ \A e, f \in heap : Same(e, f) => e = f
  /\ \A e \in heap, i \in DOMAIN out : ~Same(e, out[i])
  /\ \A i, j \in DOMAIN out : Same(out[i], out[j]) => i = j

\* The handler is about to push a send that was asked for and is new.
HandlerPending ==
  hpc # "idle" =>
    /\ Asked(Len(log), leg)
    /\ \A e \in heap : e.id = Len(log) => e.leg = "normal" /\ leg = "replay"
    /\ \A i \in DOMAIN out :
         out[i].id = Len(log) => out[i].leg = "normal" /\ leg = "replay"

\* A packet overtakes an earlier one only if it is due no later: the heap and
\* the separate locks of peek and pop do not reorder packets by themselves.
OvertakesOnlyByDelay ==
  \A i, j \in DOMAIN out :
    i < j /\ out[i].id > out[j].id => out[i].due <= out[j].due

\* Nor has a published packet overtaken one that is still on the heap.
HeapOvertaken ==
  \A i \in DOMAIN out, e \in heap :
    out[i].id > e.id => out[i].due <= e.due

\* The inductive invariant of the channel: SpaceChannelProofs says how its
\* parts support each other (test2.py:184-283).
ChannelInv ==
  /\ TypeOK /\ PeekHolds /\ NeverEarly /\ SentAsDecided /\ HandlerPending
  /\ OvertakesOnlyByDelay /\ HeapOvertaken

\* Every burst is spent exactly: the packets dropped and those a burst has yet
\* to drop are as many as the sizes of the triggered bursts say, however the
\* mode and the size change in between (test2.py:230-239).
Triggers == {i \in DOMAIN log : log[i].fate = "trigger"}
Continued == {i \in DOMAIN log : log[i].fate = "burst"}
Announced ==
  FoldFunction(+, 0, [i \in Triggers |-> IF log[i].size > 1 THEN log[i].size
                                                            ELSE 1])
BurstsSpentExactly ==
  Cardinality(Triggers \cup Continued) + burst_remaining = Announced

Published(id, l) == \E i \in DOMAIN out : out[i].id = id /\ out[i].leg = l

\* A packet that is not dropped is published unless the channel is stopped; a
\* replayed one also a second time (test2.py:184-205).
EverythingSent ==
  \A id \in 1 .. MaxPackets :
    id \in DOMAIN log ~> (stop \/ \A l \in Legs : Asked(id, l) => Published(id, l))
=============================================================================
