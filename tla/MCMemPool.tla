------------------------------ MODULE MCMemPool ------------------------------
(* A small pool at the end of memory for TLC. *)
EXTENDS MemPool

\* Two sizes, given in ascending order; the third place of the table is empty.
MCBlockSizes == <<3, 8>>

\* The sorting loop of CFE_ES_PoolCreateEx puts any list in descending order
\* and keeps its sizes, for lists with equal and with zero sizes too.
Lists == UNION {[1 .. n -> 0 .. 3] : n \in 0 .. NumSizes}
ASSUME SortingSorts ==
  \A s \in Lists :
    /\ Descending(SizeTable(s))
    /\ \A v \in 1 .. 3 : Cardinality({i \in DOMAIN s : s[i] = v}) =
                         Cardinality({c \in Classes : SizeTable(s)[c] = v})
=============================================================================
