------------------------------ MODULE MCLauncher ------------------------------
(* Small instances of the launcher.                                         *)
EXTENDS ReconstructionLauncher
=============================================================================
