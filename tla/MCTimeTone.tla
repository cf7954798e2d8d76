----------------------------- MODULE MCTimeTone -----------------------------
(* Instance of TimeTone for TLC. *)
EXTENDS TimeTone
=============================================================================
