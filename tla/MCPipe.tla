------------------------------- MODULE MCPipe -------------------------------
(* A pipe with two consumers, more than any pipe of the program has at a   *)
(* time, so that a notification can reach the wrong one.                   *)
EXTENDS Pipe
CONSTANTS c1, c2, c3
=============================================================================
