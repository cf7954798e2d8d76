------------------------------ MODULE Allocator ------------------------------
(***************************************************************************)
(* What a memory pool promises its users: every buffer handed out is as    *)
(* large as was asked, lies in the pool, and shares no address with any    *)
(* other buffer until it is returned.                                      *)
(***************************************************************************)
EXTENDS Integers

CONSTANTS First, Last,   \* the addresses the pool may use: First .. Last - 1
          Sizes          \* sizes that are asked for

VARIABLE live            \* buffers in use: [addr, size]

Apart(r, s) == r.addr + r.size <= s.addr \/ s.addr + s.size <= r.addr

Init == live = {}

Alloc(n) ==
  \E a \in First .. Last, k \in n .. Last - First :
    LET r == [addr |-> a, size |-> k] IN
      /\ a + k <= Last
      /\ r \notin live
      /\ \A s \in live : Apart(r, s)
      /\ live' = live \cup {r}

Free(r) == live' = live \ {r}

Next ==
  \/ \E n \in Sizes : Alloc(n)
  \/ \E r \in live : Free(r)

Spec == Init /\ [][Next]_live
=============================================================================
