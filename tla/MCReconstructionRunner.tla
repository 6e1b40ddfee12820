------------------------ MODULE MCReconstructionRunner ------------------------
(* Small instances of the multi-threaded engine.                            *)
EXTENDS MultiThreadedReconstructionRunner

(* Bad pixels and beam power are corrected both or neither; a projection at *)
(* both limits matters to the volume only, and some output is asked for.    *)
SomeJobs ==
  {j \in AllowedJobs :
     /\ j.badPixels = j.beamPower
     /\ j.atBothLimits => j.volumeWriter
     /\ j.attenuationWriter \/ j.filteredWriter \/ j.volumeWriter}

(* The jobs that ask for everything their input allows.                     *)
FullJobs ==
  {j \in AllowedJobs :
     /\ j.badPixels = j.beamPower
     /\ ~j.atBothLimits
     /\ j.volumeWriter
     /\ j.source # "filtered" => j.filteredWriter
     /\ j.source = "raw" => j.attenuationWriter /\ j.beamPower}
=============================================================================
