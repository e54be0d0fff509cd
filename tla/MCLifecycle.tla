----------------------------- MODULE MCLifecycle -----------------------------
(* Small instances of Lifecycle for TLC: connections and callers of stop.  *)
EXTENDS Lifecycle

CONSTANTS c1, c2, c3, p1, p2
=============================================================================
