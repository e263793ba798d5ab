----------------------------- MODULE MCHandoff -----------------------------
(* Three tasks: one with the worker, one behind it, one that comes late.    *)
EXTENDS Handoff
CONSTANTS t1, t2, t3
============================================================================
