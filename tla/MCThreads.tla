------------------------------ MODULE MCThreads ------------------------------
(***************************************************************************)
(* HostThreads for TLC.  Any thread may handle any request.                *)
(***************************************************************************)
EXTENDS HostThreads, TLC

Handlers == Permutations(Thread)
=============================================================================
