---------------------------- MODULE MCThreadRunner ----------------------------
(* Small instances of ThreadRunner; senders are model values.               *)
EXTENDS ThreadRunner
=============================================================================
