-------------------------- MODULE ReconstructionJob --------------------------
(***************************************************************************)
(* How the launcher may set up an engine: the reader, the correctors and   *)
(* the writers that are not NULL (source/ReconstructionLauncher.txx), for  *)
(* a configuration that VerifyConfiguration accepts.                       *)
(***************************************************************************)
EXTENDS Integers

Kinds == {"raw", "attenuation", "filtered"}

(* Exactly one reader is set.  An output that is not downstream of the     *)
(* input is rejected; correctors are only created for raw projections.     *)
AllowedJobs ==
  {j \in [source : Kinds, badPixels : BOOLEAN, beamPower : BOOLEAN,
          attenuationWriter : BOOLEAN, filteredWriter : BOOLEAN,
          volumeWriter : BOOLEAN, atBothLimits : BOOLEAN] :
     /\ j.source # "raw" =>
          ~j.badPixels /\ ~j.beamPower /\ ~j.attenuationWriter
     /\ j.source = "filtered" => ~j.filteredWriter}

(* The outputs a job asks for.                                             *)
Wanted(j) ==
  (IF j.attenuationWriter THEN {"attenuation"} ELSE {})
    \cup (IF j.filteredWriter THEN {"filtered"} ELSE {})
    \cup (IF j.volumeWriter THEN {"volume"} ELSE {})

(* The projections that are filtered, when some output needs it.           *)
Filters(j) == j.source # "filtered" /\ (j.filteredWriter \/ j.volumeWriter)

(* What belongs in a volume made from n projections: each of them, at its  *)
(* own angle, but for a last one that repeats the first.                   *)
WholeVolume(j, n) ==
  [k \in 1 .. (IF j.atBothLimits THEN n - 1 ELSE n) |-> <<k, k>>]
=============================================================================
