---------------------------- MODULE MCIoThreads ----------------------------
(* IoThreads with up to the two I/O threads a worker is given, and with so few *)
(* descriptors that accept() runs out of them.                                 *)
EXTENDS IoThreads
=============================================================================
