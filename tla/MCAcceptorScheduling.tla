------------------------ MODULE MCAcceptorScheduling ------------------------
(***************************************************************************)
(* AcceptorScheduling with three workers, as TestProcess/Test.cpp starts   *)
(* it, and a connection limit of one.                                      *)
(***************************************************************************)
EXTENDS AcceptorScheduling
=============================================================================
