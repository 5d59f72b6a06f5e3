------------------------------ MODULE MCKernel ------------------------------
(***************************************************************************)
(* The kernel for TLC.                                                      *)
(***************************************************************************)
EXTENDS Kernel

\* semaphore_init refuses a negative value
MCSemValues == {-1, 0, 1}
=============================================================================
