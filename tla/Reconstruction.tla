---------------------------- MODULE Reconstruction ----------------------------
(***************************************************************************)
(* What one Execute of a reconstruction engine promises to the launcher    *)
(* (source/engines/ReconstructionRunner.hpp): it takes the projections     *)
(* from the reader in order, writes them to the files asked for in the     *)
(* same order, and writes its subvolumes, one after the other, when all    *)
(* projections are in.  Unless something fails it does all of that.        *)
(*                                                                         *)
(* The constants are where the engines differ.  The single-threaded engine *)
(* has one subvolume, leaves nothing unwritten and no failure unreported;  *)
(* the multi-threaded one has a subvolume for each thread, may lose the    *)
(* last write it requested, and may return normally after a failure.       *)
(***************************************************************************)
EXTENDS Naturals, Sequences

CONSTANTS
  NumberOfProjections,   \* the reader's GetNumberOfProjections
  Subvolumes,            \* the pieces the volume is written in
  AtRisk,                \* writes that may be lost though nothing failed
  Silent                 \* a failure need not be thrown

VARIABLES
  wanted,                \* the outputs asked for
  taken,                 \* number of projections taken from the reader
  file,                  \* file[k]: the projections written to output k
  volumeFile,            \* for each subvolume written, whether it is whole
  failed,                \* something has failed
  outcome                \* running, returned or threw

vars == <<wanted, taken, file, volumeFile, failed, outcome>>

Streams == {"attenuation", "filtered"}
Outputs == Streams \cup {"volume"}

Empty ==
  /\ taken = 0
  /\ file = [k \in Streams |-> <<>>]
  /\ volumeFile = <<>>
  /\ failed = FALSE
  /\ outcome = "running"

Init == wanted \in SUBSET Outputs /\ Empty

Take ==
  /\ outcome = "running"
  /\ taken < NumberOfProjections
  /\ taken' = taken + 1
  /\ UNCHANGED <<wanted, file, volumeFile, failed, outcome>>

(* A projection is written after it has been taken.                        *)
Write(k) ==
  /\ outcome = "running"
  /\ k \in wanted
  /\ Len(file[k]) < taken
  /\ file' = [file EXCEPT ![k] = Append(@, Len(@) + 1)]
  /\ UNCHANGED <<wanted, taken, volumeFile, failed, outcome>>

(* A subvolume holds every projection, unless something has failed.        *)
WriteSubvolume ==
  /\ outcome = "running"
  /\ "volume" \in wanted
  /\ taken = NumberOfProjections
  /\ Len(volumeFile) < Subvolumes
  /\ \E whole \in {TRUE, ~failed} : volumeFile' = Append(volumeFile, whole)
  /\ UNCHANGED <<wanted, taken, file, failed, outcome>>

Fail ==
  /\ outcome = "running"
  /\ failed' = TRUE
  /\ UNCHANGED <<wanted, taken, file, volumeFile, outcome>>

Lacking(k) == IF k \in wanted THEN NumberOfProjections - Len(file[k]) ELSE 0

Complete ==
  /\ taken = NumberOfProjections
  /\ "volume" \in wanted => Len(volumeFile) = Subvolumes
  /\ Lacking("attenuation") + Lacking("filtered") <= AtRisk

Return ==
  /\ outcome = "running"
  /\ IF failed THEN Silent ELSE Complete
  /\ outcome' = "returned"
  /\ UNCHANGED <<wanted, taken, file, volumeFile, failed>>

Throw ==
  /\ outcome = "running"
  /\ failed
  /\ outcome' = "threw"
  /\ UNCHANGED <<wanted, taken, file, volumeFile, failed>>

Next ==
  \/ Take
  \/ \E k \in Streams : Write(k)
  \/ WriteSubvolume
  \/ Fail
  \/ Return
  \/ Throw

Spec == Init /\ [][Next]_vars
=============================================================================
