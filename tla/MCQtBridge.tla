------------------------------ MODULE MCQtBridge ------------------------------
(***************************************************************************)
(* Instances of QtBridge for TLC.                                          *)
(***************************************************************************)
EXTENDS QtBridge, TLC

\* The bridge tells threads apart only by comparing them with the one that
\* started the application.
ThreadSymmetry == Permutations(Threads)

\* Every way to get, move and lose an object or a value.
Managed == Facilities \ {"emit", "small_buffer"}

\* Signals, of objects that may be gone when they are collected.
Watched == {"value", "emit", "destroy", "delete"}

\* Signals, and a buffer that is sometimes too small.
SmallBuffer == {"emit", "small_buffer"}
=============================================================================
