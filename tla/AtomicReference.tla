--------------------------- MODULE AtomicReference ---------------------------
(***************************************************************************)
(* What Time Services promises to those who read the time reference: a     *)
(* register that is written and read in one piece.  A reading takes the    *)
(* register as it is at some moment between its beginning and its end, the *)
(* last time it looks, and returns just that; or it says nothing of what   *)
(* it returns.                                                             *)
(***************************************************************************)
EXTENDS Naturals

CONSTANTS Readers, Fields

VARIABLES reference, status, picked, answer

vars == <<reference, status, picked, answer>>

Records == [Fields -> Nat]
Blank == [f \in Fields |-> 0]

Init ==
  /\ reference = Blank
  /\ status = [r \in Readers |-> "idle"]
  /\ picked = [r \in Readers |-> Blank]
  /\ answer = [r \in Readers |-> Blank]

Write ==
  /\ reference' \in Records
  /\ UNCHANGED <<status, picked, answer>>

Look(r) ==
  /\ status[r] \in {"idle", "reading"}
  /\ status' = [status EXCEPT ![r] = "reading"]
  /\ picked' = [picked EXCEPT ![r] = reference]
  /\ UNCHANGED <<reference, answer>>

Answer(r) ==
  /\ status[r] = "reading"
  /\ status' = [status EXCEPT ![r] = "answered"]
  /\ answer' = [answer EXCEPT ![r] = picked[r]]
  /\ UNCHANGED <<reference, picked>>

NoPromise(r) ==
  /\ status[r] = "reading"
  /\ status' = [status EXCEPT ![r] = "noPromise"]
  /\ answer'[r] \in Records
  /\ answer' = [answer EXCEPT ![r] = answer'[r]]
  /\ UNCHANGED <<reference, picked>>

Return(r) ==
  /\ status[r] \in {"answered", "noPromise"}
  /\ status' = [status EXCEPT ![r] = "idle"]
  /\ answer' = [answer EXCEPT ![r] = Blank]
  /\ picked' = [picked EXCEPT ![r] = Blank]
  /\ UNCHANGED reference

Next ==
  \/ Write
  \/ \E r \in Readers : Look(r) \/ Answer(r) \/ NoPromise(r) \/ Return(r)

Spec == Init /\ [][Next]_vars

=============================================================================
