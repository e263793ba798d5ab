----------------------------- MODULE MCLokiSink -----------------------------
(* Five events, a queue that overflows and batches of three; a batch that  *)
(* fails for good leaves two warnings in the queue.                        *)
EXTENDS LokiSink
=============================================================================
