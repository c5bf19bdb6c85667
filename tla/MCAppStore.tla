------------------------------ MODULE MCAppStore ------------------------------
(* AppStore for TLC: the daemon starts with a fresh cache, nothing installed. *)
EXTENDS AppStore

FreshInit ==
  /\ Init
  /\ ~stale
  /\ installed = {}

FreshSpec == FreshInit /\ [][Next]_vars /\ Fairness
=============================================================================
