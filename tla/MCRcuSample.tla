---------------------------- MODULE MCRcuSample ----------------------------
(* A small instance of RcuSample for TLC.                                  *)
EXTENDS RcuSample

=============================================================================
