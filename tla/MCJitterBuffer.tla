--------------------------- MODULE MCJitterBuffer ---------------------------
(***************************************************************************)
(* A small instance of JitterBuffer for TLC.                               *)
(***************************************************************************)
EXTENDS JitterBuffer

\* Positions on both sides of the wrap, and one half the sequence space away.
MCIndices == 65534..65537 \cup {98302}
=============================================================================
