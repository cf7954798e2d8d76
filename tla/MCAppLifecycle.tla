-------------------------- MODULE MCAppLifecycle --------------------------
(* Values of the parameters of AppLifecycle for TLC. *)
EXTENDS AppLifecycle
=============================================================================
