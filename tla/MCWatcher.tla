----------------------------- MODULE MCWatcher -----------------------------
(* Instances of Watcher.tla for TLC. *)
EXTENDS Watcher

CONSTANTS t1, t2

MCCustoms == <<"canary">>
=============================================================================
