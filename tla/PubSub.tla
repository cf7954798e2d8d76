-------------------------------- MODULE PubSub --------------------------------
(***************************************************************************)
(* What the Software Bus promises its applications, without buffers, use   *)
(* counts or mutexes: every pipe is a first-in first-out queue of          *)
(* messages.  A published message joins the queues of some pipes that      *)
(* subscribe to its identifier, once each; a receiver takes the head and   *)
(* can look at it, unchanged, until its next receive.                      *)
(***************************************************************************)
EXTENDS Sequences

CONSTANTS Pipes, MsgIds, Msgs, Nothing

VARIABLES
  subs,   \* the pipes that subscribe to a message identifier
  fifo,   \* the messages on their way to the receiver of a pipe
  view    \* the message the receiver of a pipe is looking at

vars == <<subs, fifo, view>>

Init ==
  /\ subs = [m \in MsgIds |-> {}]
  /\ fifo = [p \in Pipes |-> <<>>]
  /\ view = [p \in Pipes |-> Nothing]

Join(m, p) ==
  /\ subs' = [subs EXCEPT ![m] = @ \cup {p}]
  /\ UNCHANGED <<fifo, view>>

Leave(m, p) ==
  /\ subs' = [subs EXCEPT ![m] = @ \ {p}]
  /\ UNCHANGED <<fifo, view>>

Publish(msg) ==
  /\ \E T \in SUBSET subs[msg.msg] :
       fifo' = [p \in Pipes |-> IF p \in T THEN Append(fifo[p], msg)
                                ELSE fifo[p]]
  /\ UNCHANGED <<subs, view>>

Finish(p) ==
  /\ view' = [view EXCEPT ![p] = Nothing]
  /\ UNCHANGED <<subs, fifo>>

Take(p) ==
  /\ fifo[p] # <<>> /\ view[p] = Nothing
  /\ view' = [view EXCEPT ![p] = Head(fifo[p])]
  /\ fifo' = [fifo EXCEPT ![p] = Tail(@)]
  /\ UNCHANGED subs

Next ==
  \/ \E m \in MsgIds, p \in Pipes : Join(m, p) \/ Leave(m, p)
  \/ \E msg \in Msgs : Publish(msg)
  \/ \E p \in Pipes : Finish(p) \/ Take(p)

Spec == Init /\ [][Next]_vars

=============================================================================
