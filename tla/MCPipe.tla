------------------------------- MODULE MCPipe -------------------------------
(* Pipe with every buffer of up to MaxBurst elements. *)
EXTENDS Pipe

CONSTANT MaxBurst

MCBursts == UNION {[1 .. n -> Data] : n \in 1 .. MaxBurst}
=============================================================================
