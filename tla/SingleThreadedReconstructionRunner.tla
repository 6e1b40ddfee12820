------------------ MODULE SingleThreadedReconstructionRunner ------------------
(***************************************************************************)
(* The single-threaded engine (source/engines/single_threaded/             *)
(* SingleThreadedReconstructionRunner.txx): one loop over the projections, *)
(* each of them taken through the steps that the job asks for, then the    *)
(* volume is written.                                                      *)
(*                                                                         *)
(* The data is abstract: an image has the number of the projection it was  *)
(* made from and the sequence of what was done to it.  One image of each   *)
(* kind is used for all projections.  Every step may throw, which ends the *)
(* run.                                                                    *)
(***************************************************************************)
EXTENDS Integers, Sequences, SequencesExt, ReconstructionJob

CONSTANTS
  NumberOfProjections,   \* the reader's GetNumberOfProjections
  Jobs                   \* the ways the launcher may set up the engine

ASSUME NumberOfProjectionsAssumption == NumberOfProjections \in Nat \ {0}
ASSUME JobsAssumption == Jobs \subseteq AllowedJobs

VARIABLES
  job,                   \* the set-up of this run
  phase,                 \* which part of Execute is being executed
  p,                     \* number of the projection, from 0
  passed,                \* how many of the Steps this projection has passed
  image,                 \* image[k]: the projection of kind k in memory
  reference,             \* the reference projection of the beam power corrector
  volume,                \* the projections applied, and their angles
  nextRead,              \* the projection the reader reads next
  file,                  \* file[k]: the projections written, in order
  volumeFile             \* the volumes written

vars == <<job, phase, p, passed, image, reference, volume, nextRead, file,
          volumeFile>>

-----------------------------------------------------------------------------
(* The steps of a projection                                               *)

(* Fault: the attenuation is written before the beam power is corrected.   *)
WritesTooSoon ==
  <<"read", "convert", "badPixels", "reference", "writeAttenuation",
    "beamPower", "filter", "writeFiltered", "apply">>

Steps == <<"read", "convert", "badPixels", "reference", "beamPower",
           "writeAttenuation", "filter", "writeFiltered", "apply">>

Asked(step, q) ==
  CASE step = "read"             -> TRUE
    [] step = "convert"          -> job.source = "raw"
    [] step = "badPixels"        -> job.badPixels
    [] step = "reference"        -> job.beamPower /\ q = 0
    [] step = "beamPower"        -> job.beamPower
    [] step = "writeAttenuation" -> job.attenuationWriter
    [] step = "filter"           -> Filters(job)
    [] step = "writeFiltered"    -> job.filteredWriter
    [] step = "apply"            ->
         job.volumeWriter
           /\ ~(job.atBothLimits /\ q = NumberOfProjections - 1)

Fresh(n) == [number |-> n, done |-> <<>>]
Garbage == Fresh(0)
Do(step, i) == [i EXCEPT !.done = Append(@, step)]

(* What is not asked for is passed over.                                    *)
ComesNext(i) ==
  /\ i \in passed + 1 .. Len(Steps)
  /\ Asked(Steps[i], p)
  /\ \A j \in passed + 1 .. i - 1 : ~Asked(Steps[j], p)

Init ==
  /\ job \in Jobs
  /\ phase = "prepare"
  /\ p = 0
  /\ passed = 0
  /\ image = [k \in Kinds |-> Garbage]
  /\ reference = Garbage
  /\ volume = <<>>
  /\ nextRead = 1
  /\ file = [k \in Kinds |-> <<>>]
  /\ volumeFile = <<>>

(* The images, the filterer and the volume are created.                    *)
Prepare ==
  /\ phase = "prepare"
  /\ phase' = "projections"
  /\ UNCHANGED <<job, p, passed, image, reference, volume, nextRead, file, volumeFile>>

Begin(step) ==
  /\ phase = "projections"
  /\ \E i \in DOMAIN Steps :
       Steps[i] = step /\ ComesNext(i) /\ passed' = i
  /\ UNCHANGED <<job, phase, p>>

Read ==
  /\ Begin("read")
  /\ image' = [image EXCEPT ![job.source] = Fresh(nextRead)]
  /\ nextRead' = nextRead + 1
  /\ UNCHANGED <<reference, volume, file, volumeFile>>

(* ProcessProjection of the attenuation calculator, FilterProjection.      *)
Transform(step, from, to) ==
  /\ Begin(step)
  /\ image' = [image EXCEPT ![to] = Do(step, image[from])]
  /\ UNCHANGED <<reference, volume, nextRead, file, volumeFile>>

Convert          == Transform("convert", "raw", "attenuation")
CorrectBadPixels == Transform("badPixels", "attenuation", "attenuation")
Filter           == Transform("filter", "attenuation", "filtered")

SetReference ==
  /\ Begin("reference")
  /\ reference' = image["attenuation"]
  /\ UNCHANGED <<image, volume, nextRead, file, volumeFile>>

(* Every projection is corrected relative to the first one as it was       *)
(* before its own correction.                                              *)
CorrectBeamPower ==
  /\ Begin("beamPower")
  /\ image' = [image EXCEPT !["attenuation"] =
                 IF reference = [@ EXCEPT !.number = 1] THEN Do("beamPower", @)
                 ELSE Garbage]
  /\ UNCHANGED <<reference, volume, nextRead, file, volumeFile>>

Write(step, kind) ==
  /\ Begin(step)
  /\ file' = [file EXCEPT ![kind] = Append(@, image[kind])]
  /\ UNCHANGED <<image, reference, volume, nextRead, volumeFile>>

WriteAttenuation == Write("writeAttenuation", "attenuation")
WriteFiltered    == Write("writeFiltered", "filtered")

ApplyProjection ==
  /\ Begin("apply")
  /\ volume' = Append(volume, <<image["filtered"], p + 1>>)
  /\ UNCHANGED <<image, reference, nextRead, file, volumeFile>>

(* The end of the loop's body.                                             *)
NextProjection ==
  /\ phase = "projections"
  /\ \A i \in passed + 1 .. Len(Steps) : ~Asked(Steps[i], p)
  /\ p' = p + 1
  /\ passed' = 0
  /\ phase' = IF p' < NumberOfProjections THEN phase ELSE "writeVolume"
  /\ UNCHANGED <<job, image, reference, volume, nextRead, file, volumeFile>>

WriteVolume ==
  /\ phase = "writeVolume"
  /\ volumeFile' = IF job.volumeWriter THEN Append(volumeFile, volume)
                   ELSE volumeFile
  /\ phase' = "fit"
  /\ UNCHANGED <<job, p, passed, image, reference, volume, nextRead, file>>

(* The linear fit of the corrections, which is only printed.               *)
Return ==
  /\ phase = "fit"
  /\ phase' = "returned"
  /\ UNCHANGED <<job, p, passed, image, reference, volume, nextRead, file,
                 volumeFile>>

(* Anything may throw.  What it had done so far is never looked at.        *)
Fail ==
  /\ phase \in {"prepare", "projections", "writeVolume", "fit"}
  /\ phase' = "unwind"
  /\ UNCHANGED <<job, p, passed, image, reference, volume, nextRead, file,
                 volumeFile>>

Throw ==
  /\ phase = "unwind"
  /\ phase' = "threw"
  /\ UNCHANGED <<job, p, passed, image, reference, volume, nextRead, file,
                 volumeFile>>

Ended == phase \in {"returned", "threw"} /\ UNCHANGED vars

Next ==
  \/ Prepare
  \/ Read \/ Convert \/ CorrectBadPixels \/ SetReference \/ CorrectBeamPower
  \/ WriteAttenuation \/ Filter \/ WriteFiltered \/ ApplyProjection
  \/ NextProjection \/ WriteVolume \/ Return
  \/ Fail \/ Throw
  \/ Ended

Spec == Init /\ [][Next]_vars

-----------------------------------------------------------------------------
(* Properties                                                              *)

(* The state is made of what Execute keeps: at most one read for each      *)
(* projection, and images that went through the steps there are.           *)
TypeOK ==
  LET Held    == [number : 0 .. NumberOfProjections, done : Seq(Range(Steps))]
      Volumes == Seq(Held \X (1 .. NumberOfProjections))
  IN  /\ job \in Jobs
      /\ phase \in {"prepare", "projections", "writeVolume", "fit",
                    "returned", "unwind", "threw"}
      /\ p \in 0 .. NumberOfProjections
      /\ passed \in 0 .. Len(Steps)
      /\ image \in [Kinds -> Held]
      /\ reference \in Held
      /\ volume \in Volumes
      /\ nextRead \in 1 .. NumberOfProjections + 1
      /\ file \in [Kinds -> Seq(Held)]
      /\ volumeFile \in Seq(Volumes)

(* What is to become of a projection: an attenuation image converted and   *)
(* corrected as asked, a filtered image made from that one.                *)
Recipe(kind) ==
  LET attenuation ==
        (IF job.source = "raw" THEN <<"convert">> ELSE <<>>)
          \o (IF job.badPixels THEN <<"badPixels">> ELSE <<>>)
          \o (IF job.beamPower THEN <<"beamPower">> ELSE <<>>)
  IN  IF job.source = kind THEN <<>>
      ELSE IF kind = "filtered" THEN Append(attenuation, "filter")
      ELSE attenuation

(* The projection that an image is the proper result of, if there is one.  *)
Number(kind, i) == IF i.done = Recipe(kind) THEN i.number ELSE 0

(* The engine implements Reconstruction, at its strictest: when it returns *)
(* everything asked for has been written, each projection properly         *)
(* corrected and filtered, in order, at its own angle; and every failure   *)
(* is thrown.                                                              *)
Promise == INSTANCE Reconstruction
  WITH Subvolumes <- 1,
       AtRisk     <- 0,
       Silent     <- FALSE,
       wanted     <- Wanted(job),
       taken      <- nextRead - 1,
       file       <- [k \in {"attenuation", "filtered"} |->
                        [j \in DOMAIN file[k] |-> Number(k, file[k][j])]],
       volumeFile <- [k \in DOMAIN volumeFile |->
                        [j \in DOMAIN volumeFile[k] |->
                           <<Number("filtered", volumeFile[k][j][1]),
                             volumeFile[k][j][2]>>]
                          = WholeVolume(job, NumberOfProjections)],
       failed     <- phase \in {"unwind", "threw"},
       outcome    <- IF phase \in {"returned", "threw"} THEN phase
                     ELSE "running"

KeepsPromise == Promise!Spec
=============================================================================
