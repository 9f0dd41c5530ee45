--------------------------- MODULE MCTcpAssembly ----------------------------
(* TcpAssembly for TLC: the symmetry of the capture goroutines and flows.   *)
EXTENDS TcpAssembly, TLC

Symmetry == Permutations(Capturers) \cup Permutations(Flows)
=============================================================================
