---------------------------- MODULE MCGrpcConnPool ----------------------------
(* Small instances of GrpcConnPool for TLC.                                  *)
EXTENDS GrpcConnPool, TLC

\* Connections are interchangeable, and so are clients.
ConnSymmetry == Permutations(Conn) \cup Permutations(Clients)
=============================================================================
