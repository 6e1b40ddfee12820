------------------------ MODULE ReconstructionLauncher ------------------------
(***************************************************************************)
(* A run of the program from the set-up of readers, writers and engine to  *)
(* the last pass (source/ReconstructionLauncher.txx).  The volume is made  *)
(* in as many passes as its memory requires: in each, the engine goes      *)
(* through all projections again and makes some of the slices.             *)
(*                                                                         *)
(* The engine is used as the module Reconstruction describes it; a step of *)
(* it is also a step of the reader or of a writer here, which shows what   *)
(* the engine's j-th projection is in the input file, and where in the     *)
(* output its data goes.                                                   *)
(***************************************************************************)
EXTENDS Integers, Sequences, FiniteSets, Subvolumer

CONSTANTS
  FileProjections,       \* Projections.NumberOfProjections
  ProjectionStride,      \* Projections.ProjectionStride
  Threads,               \* pieces in which the engine writes its volume
  AtRisk,                \* writes the engine may lose, see Reconstruction
  Silent,                \* the engine may be silent about a failure
  Slices,                \* the z dimensions the volume may have
  SliceMemory,           \* memory for one slice
  Memories               \* the values of Software.MaximumVolumeMemory

ASSUME FileProjectionsAssumption == FileProjections \in Nat \ {0}
ASSUME ProjectionStrideAssumption == ProjectionStride \in Nat \ {0}
ASSUME ThreadsAssumption == Threads \in Nat \ {0}
ASSUME AtRiskAssumption == AtRisk \in Nat
ASSUME SlicesAssumption == Slices \subseteq Nat \ {0}
ASSUME MemoryAssumption ==
  SliceMemory \in Nat \ {0} /\ Memories \subseteq Nat \ {0}

(* The number of projections the launcher tells reader and engine.         *)
NumberOfProjections ==
  (FileProjections + ProjectionStride - 1) \div ProjectionStride

VARIABLES
  config,                \* what the user asked for
  phase,                 \* setup, passes, returned or threw
  pass,                  \* number of the pass, from 0
  chunks,                \* the division of the volume into chunks
  pieces,                \* the engine's division of this pass's chunk
  position, readCount,   \* the reader
  wanted, taken, file, volumeFile, failed, outcome,      \* the engine
  data,                  \* what is in the data files
  got,                   \* history: the projections taken in this pass
  everFailed             \* history: something has failed

Reader == INSTANCE StreamingRawProjectionsReader
Engine == INSTANCE Reconstruction WITH Subvolumes <- Threads

engineVars == <<wanted, taken, file, volumeFile, failed, outcome>>
readerVars == <<position, readCount>>
vars == <<config, phase, pass, chunks, pieces, readerVars, engineVars, data,
          got, everFailed>>

Configs ==
  [outputs : SUBSET Engine!Outputs, slices : Slices, memory : Memories,
   atBothLimits : BOOLEAN]

(* The total over the maximum, rounded up, but a slice is not divided.     *)
NumberOfVolumeChunks(c) ==
  LET n == (c.memory + c.slices * SliceMemory - 1) \div c.memory
  IN  IF "volume" \notin c.outputs THEN 1
      ELSE IF n < c.slices THEN n ELSE c.slices

Passes == NumberOfVolumeChunks(config)

ChunkDims(i) == DimsZ(chunks, config.slices, Passes, i)

Init ==
  /\ config \in Configs
  /\ phase = "setup"
  /\ pass = 0
  /\ chunks = [i \in {0} |-> 0]
  /\ pieces = [i \in {0} |-> 0]
  /\ Reader!Init
  /\ wanted = {}
  /\ taken = 0
  /\ file = [k \in Engine!Streams |-> <<>>]
  /\ volumeFile = <<>>
  /\ failed = FALSE
  /\ outcome = "returned"
  /\ data = [k \in Engine!Outputs |-> <<>>]
  /\ got = <<>>
  /\ everFailed = FALSE

(* The files are opened and the volume is divided; any of it may throw.    *)
Setup ==
  /\ phase = "setup"
  /\ \/ /\ chunks' \in Divisions(config.slices, Passes)
        /\ phase' = "passes"
        /\ UNCHANGED everFailed
     \/ /\ phase' = "threw"
        /\ everFailed' = TRUE
        /\ UNCHANGED chunks
  /\ UNCHANGED <<config, pass, pieces, readerVars, engineVars, data, got>>

(* The engine is given its part of the volume, and Execute is called.      *)
Execute(outputs) ==
  /\ phase = "passes"
  /\ outcome = "returned"
  /\ pass < Passes
  /\ wanted' = outputs
  /\ pieces' \in Divisions(ChunkDims(pass), Threads)
  /\ taken' = 0
  /\ file' = [k \in Engine!Streams |-> <<>>]
  /\ volumeFile' = <<>>
  /\ failed' = FALSE
  /\ outcome' = "running"
  /\ got' = <<>>
  /\ UNCHANGED <<config, phase, pass, chunks, data, everFailed>>

FirstPass ==
  /\ pass = 0
  /\ Execute(config.outputs)
  /\ UNCHANGED readerVars

(* Fault: the writers of projections are left in place.                    *)
WritesInEveryPass ==
  /\ pass # 0
  /\ Execute(config.outputs)
  /\ Reader!Rewind

(* From the second pass on only the volume is written, and the input is    *)
(* read from its start again.                                              *)
LaterPass ==
  /\ pass # 0
  /\ Execute(config.outputs \cap {"volume"})
  /\ Reader!Rewind

(* Rewind may throw.                                                       *)
RewindFails ==
  /\ phase = "passes"
  /\ outcome = "returned"
  /\ pass \in 1 .. Passes - 1
  /\ phase' = "threw"
  /\ everFailed' = TRUE
  /\ UNCHANGED <<config, pass, chunks, pieces, readerVars, engineVars, data,
                 got>>

-----------------------------------------------------------------------------
(* The engine at work                                                      *)

Take ==
  /\ Engine!Take
  /\ Reader!GetNextProjection
  /\ got' = Append(got, Reader!NextNumber)
  /\ UNCHANGED <<config, phase, pass, chunks, pieces, data, everFailed>>

(* WriteSlice of a writer of projections.                                  *)
Write(k) ==
  /\ Engine!Write(k)
  /\ data' = [data EXCEPT ![k] = Append(@, got[Len(file'[k])])]
  /\ UNCHANGED <<config, phase, pass, chunks, pieces, readerVars, got,
                 everFailed>>

(* WriteStack of the next piece: its slices, each whole or not.  A piece   *)
(* of no slices writes nothing.                                            *)
WriteSubvolume ==
  /\ Engine!WriteSubvolume
  /\ LET t     == Len(volumeFile)
         first == chunks[pass] + pieces[t]
         size  == DimsZ(pieces, ChunkDims(pass), Threads, t)
     IN  data' = [data EXCEPT !["volume"] =
                    @ \o [j \in 1 .. size |->
                            [z |-> first + j - 1,
                             whole |-> volumeFile'[t + 1]]]]
  /\ UNCHANGED <<config, phase, pass, chunks, pieces, readerVars, got,
                 everFailed>>

Fail ==
  /\ Engine!Fail
  /\ everFailed' = TRUE
  /\ UNCHANGED <<config, phase, pass, chunks, pieces, readerVars, data, got>>

EndPass ==
  /\ Engine!Return
  /\ pass' = pass + 1
  /\ phase' = IF pass' = Passes THEN "returned" ELSE "passes"
  /\ UNCHANGED <<config, chunks, pieces, readerVars, data, got, everFailed>>

(* An exception leaves Launch, and the program.                            *)
Throw ==
  /\ Engine!Throw
  /\ phase' = "threw"
  /\ UNCHANGED <<config, pass, chunks, pieces, readerVars, data, got,
                 everFailed>>

Ended == phase \in {"returned", "threw"} /\ UNCHANGED vars

Next ==
  \/ Setup \/ FirstPass \/ LaterPass \/ RewindFails
  \/ Take \/ (\E k \in Engine!Streams : Write(k)) \/ WriteSubvolume
  \/ Fail \/ EndPass \/ Throw
  \/ Ended

Spec == Init /\ [][Next]_vars

-----------------------------------------------------------------------------
(* Properties                                                              *)

TypeOK ==
  /\ config \in Configs
  /\ phase \in {"setup", "passes", "returned", "threw"}
  /\ pass \in 0 .. config.slices
  /\ DOMAIN chunks \subseteq 0 .. config.slices - 1
  /\ \A i \in DOMAIN chunks : chunks[i] \in 0 .. config.slices
  /\ DOMAIN pieces \subseteq 0 .. Threads - 1
  /\ \A t \in DOMAIN pieces : pieces[t] \in 0 .. config.slices
  /\ position \in 0 .. FileProjections
  /\ readCount \in 0 .. NumberOfProjections
  /\ wanted \subseteq Engine!Outputs
  /\ taken \in 0 .. NumberOfProjections
  /\ file \in [Engine!Streams -> Seq(1 .. NumberOfProjections)]
  /\ volumeFile \in Seq(BOOLEAN)
  /\ failed \in BOOLEAN
  /\ outcome \in {"running", "returned", "threw"}
  /\ \A k \in Engine!Streams : data[k] \in Seq(1 .. FileProjections)
  /\ data["volume"] \in Seq([z : 0 .. config.slices - 1, whole : BOOLEAN])
  /\ got \in Seq(1 .. FileProjections)
  /\ everFailed \in BOOLEAN

(* Every n-th projection of the file, beginning with the first.            *)
Strided(j) == 1 + (j - 1) * ProjectionStride

(* The engine is given the same projections in every pass, whatever went   *)
(* before: all slices are made from the same data.                         *)
EveryPassReadsTheSame == \A j \in DOMAIN got : got[j] = Strided(j)

(* Over all passes a file of projections receives each projection once, in *)
(* order, and without a gap.                                               *)
ProjectionsAreWrittenOnce ==
  \A k \in Engine!Streams :
    /\ Len(data[k]) <= NumberOfProjections
    /\ \A j \in DOMAIN data[k] : data[k][j] = Strided(j)

(* While nothing has failed the volume's file holds the first slices of    *)
(* the volume, in order and whole, over all passes and pieces; and when    *)
(* the launcher returns, all of them, and all of the projections but what  *)
(* the engine may lose.                                                    *)
OutputIsRight ==
  ~everFailed =>
    /\ \A j \in DOMAIN data["volume"] :
         data["volume"][j] = [z |-> j - 1, whole |-> TRUE]
    /\ phase = "returned" =>
         /\ "volume" \in config.outputs =>
              Len(data["volume"]) = config.slices
         /\ \A k \in Engine!Streams \cap config.outputs :
              Len(data[k]) >= NumberOfProjections - AtRisk

(* The pieces of a division are within one slice of each other, and none   *)
(* has a negative size.                                                    *)
Even(starts, dims, n) ==
  \A i, j \in 0 .. n - 1 :
    /\ DimsZ(starts, dims, n, i) >= 0
    /\ DimsZ(starts, dims, n, i) - DimsZ(starts, dims, n, j) <= 1

(* Every chunk has slices, so no pass is for nothing; chunks are even, and *)
(* so are the pieces of a chunk; and a pass needs less than one slice's    *)
(* memory more than the maximum that the user allows. (Both the number of  *)
(* passes and the slices of the largest are rounded up, so the maximum     *)
(* itself may be exceeded.)                                                *)
DivisionsAreEven ==
  phase = "passes" =>
    /\ "volume" \in config.outputs =>
         \A i \in DOMAIN chunks :
           ChunkDims(i) * SliceMemory < config.memory + SliceMemory
    /\ Even(chunks, config.slices, Passes)
    /\ \A i \in DOMAIN chunks : ChunkDims(i) > 0
    /\ outcome = "running" => Even(pieces, ChunkDims(pass), Threads)

-----------------------------------------------------------------------------
(* What the documentation says, and the code does not do                   *)

(* athabasca_recon_manual.adoc:1474-1479, "This parameter can be used to   *)
(* process only every nth projection", with NumberOfProjections "set to    *)
(* the total number of projections in the input file as usual": the j-th   *)
(* projection taken, if it is back-projected, is so at the angle at which  *)
(* it was acquired.  In units of 180 degrees the engine has                *)
(* (j - 1)/(NumberOfProjections - b), the file's angle is                  *)
(* (number - 1)/(FileProjections - b), with b = 1 for ProjectionAt180.     *)
AnglesAreRight ==
  LET b == IF config.atBothLimits THEN 1 ELSE 0
  IN  "volume" \in config.outputs =>
        \A j \in DOMAIN got :
          j <= NumberOfProjections - b =>
            (j - 1) * (FileProjections - b)
              = (got[j] - 1) * (NumberOfProjections - b)
=============================================================================
