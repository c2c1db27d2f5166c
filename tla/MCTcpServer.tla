----------------------------- MODULE MCTcpServer -----------------------------
(* TcpServer with a pool of two I/O loops. *)
EXTENDS TcpServer, TLC

CONSTANTS l1, l2    \* the loops, as model values

MCLoops == {l1, l2}
MCPool == <<l1, l2>>

\* No definition tells the connections apart.
ConnSymmetry == Permutations(Conns)

=============================================================================
