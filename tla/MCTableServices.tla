-------------------------- MODULE MCTableServices --------------------------
(* Values of the parameters of TableServices for TLC. *)
EXTENDS TableServices

\* Whatever is loaded is read by its owner; the double-buffered tables are shared.
MCReads == ({Owner} \X Loadable) \cup (Sharers \X DoubleBuffered)
=============================================================================
