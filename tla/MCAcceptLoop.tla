---------------------------- MODULE MCAcceptLoop ----------------------------
(***************************************************************************)
(* AcceptLoop for TLC.  Connections and loops are model values and         *)
(* interchangeable.                                                        *)
(***************************************************************************)
EXTENDS AcceptLoop, TLC

Symmetry == Permutations(Conns) \cup Permutations(Loops)
=============================================================================
