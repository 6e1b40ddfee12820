--------------------------- MODULE MCAsynchronousIO ---------------------------
(* Small instances of AsynchronousIOProcessor: waiters and images are model *)
(* values that the configurations name.                                     *)
EXTENDS AsynchronousIOProcessor
=============================================================================
