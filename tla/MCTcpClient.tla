---------------------------- MODULE MCTcpClient ----------------------------
(* TLC instances of TcpClient.  Payloads are interchangeable.              *)
EXTENDS TcpClient, TLC

Swaps == Permutations(Payloads)
=============================================================================
