---------------------------- MODULE MCLifecycle -----------------------------
(* Two controllers, as of one task topic and one cancellation topic; two    *)
(* tasks, which in the standalone program come one after the other.        *)
EXTENDS Lifecycle
CONSTANTS c1, c2
=============================================================================
