----------------------------- MODULE MCTcpServer ----------------------------
(* TcpServer for TLC: the descriptors, and the workers, are interchangeable. *)
EXTENDS TcpServer, TLC

Symmetry == Permutations(Fds) \cup Permutations(Workers)
=============================================================================
