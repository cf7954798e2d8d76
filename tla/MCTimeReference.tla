--------------------------- MODULE MCTimeReference ---------------------------
(* Values of the parameters of TimeReference for TLC. *)
EXTENDS TimeReference

\* A tone or a command that sets the MET, and one that sets the clock state.
CONSTANTS met, fly
MCChanges == {{met, Latch}, {fly}}
=============================================================================
