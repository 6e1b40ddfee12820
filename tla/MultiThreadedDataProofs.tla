------------------------ MODULE MultiThreadedDataProofs ------------------------
(***************************************************************************)
(* What MultiThreadedReconstructionRunner does with the data, for every    *)
(* job and every number of threads and projections: reads arrive in the    *)
(* images they were meant for, what the workers make of them stays what    *)
(* it should be, and every subvolume has every projection once.  Then what *)
(* the engine writes and what it tells its caller, for every failure too:  *)
(* the files are written in order, which failures can go unreported, and   *)
(* that the engine implements Reconstruction.                              *)
(***************************************************************************)
EXTENDS MultiThreadedProofs, FiniteSetTheorems

USE NumberOfThreadsAssumption, NumberOfProjectionsAssumption
USE DEF Late, WroteAttenuation, Checked, HasFiltered, HasRequested, HasInput,
        HasAttenuation, Turn

(* Until the input's buffers are swapped, the group being read is this     *)
(* one; from then on it is the next.                                       *)
Behind == {"create", "firstRequests", "swapAttenuation", "swapInput"}
LoadBase == IF main \in Behind THEN p ELSE p + ProjectionsPerStep

(* The projection that is meant for image i, when it is an image of the    *)
(* input: this group's or the next.                                        *)
Target(i) == (IF i[3] = side[i[1]] THEN LoadBase - ProjectionsPerStep ELSE LoadBase) + i[2] + 1

(* How many projections have been requested from the reader.               *)
Issued ==
  CASE main = "create" -> 0
    [] main = "firstRequests" -> pp
    [] main \in {"swapAttenuation", "swapInput"} -> Lesser(p + ProjectionsPerStep, NumberOfProjections)
    [] main = "request" -> Lesser(p + ProjectionsPerStep, NumberOfProjections) + pp
    [] OTHER -> Lesser(p + ProjectionsPerStep + ProjectionsPerStep, NumberOfProjections)

(* Nothing has kept the I/O thread from its requests.                      *)
IOWell == ~IO!Failed /\ ~closed

(* Request k has still to be read.                                         *)
PendingRead(k) == fate[k] = "pending" /\ requests[k].op = "read"

(* The loop over the next group does not run past it.                      *)
InLoop == main = "request" => pp = 0 \/ pp <= ProjectionsNextStep

(* The images are meant for what they were meant for.                      *)
SameTargets ==
  /\ Issued' = Issued
  /\ LoadBase' = LoadBase
  /\ \A i \in Images : i[1] = job.source => Target(i)' = Target(i)

(* The types of these.                                                     *)
LEMMA IssuedTypes ==
  ASSUME Control, InLoop
  PROVE  /\ Issued \in Nat /\ Issued <= NumberOfProjections
         /\ LoadBase \in Nat
         /\ \A i \in Images : Target(i) \in Int
<1> USE DEF Control
<1>1. p \in Nat /\ pp \in Nat /\ ProjectionsPerStep \in Nat
  BY Sizes DEF Types
<1>2. Issued \in Nat /\ Issued <= NumberOfProjections
  <2>1. CASE main = "create"
    BY <2>1 DEF Issued
  <2>2. CASE main = "firstRequests"
    BY <1>1, <2>2, Sizes DEF Issued, Scheduled
  <2>3. CASE main = "request"
    <3>1. p < NumberOfProjections
      BY <2>3 DEF Scheduled
    <3> QED BY <1>1, <2>3, <3>1 DEF Issued, InLoop, Lesser, ProjectionsNextStep
  <2>4. CASE main \notin {"create", "firstRequests", "request"}
    BY <1>1, <2>4 DEF Issued, Lesser
  <2> QED BY <2>1, <2>2, <2>3, <2>4
<1>3. LoadBase \in Nat
  BY <1>1 DEF LoadBase
<1>4. ASSUME NEW i \in Images
      PROVE  Target(i) \in Int
  BY <1>1, <1>3, <1>4 DEF Target, Images, Threads
<1> QED BY <1>2, <1>3, <1>4

(* A turn begins before the input's buffers are swapped.                   *)
LEMMA FirstPhaseIsBehind == FirstPhase \in {"swapAttenuation", "swapInput"}
BY DEF FirstPhase

(* When the images are meant for the same projections before and after.    *)
LEMMA StaysLoaded ==
  ASSUME Control, UNCHANGED <<job, p, side>>,
         main \notin Behind \cup {"request"}, main' \notin Behind \cup {"request"}
  PROVE  SameTargets
<1>1. LoadBase' = LoadBase
  BY SameSizes DEF LoadBase
<1>2. Issued' = Issued
  <2>1. main \notin {"create", "firstRequests", "swapAttenuation", "swapInput", "request"}
    BY DEF Behind
  <2>2. main' \notin {"create", "firstRequests", "swapAttenuation", "swapInput", "request"}
    BY DEF Behind
  <2> QED BY <2>1, <2>2, SameSizes DEF Issued
<1> QED BY <1>1, <1>2, SameSizes DEF SameTargets, Target

(* What a step of main does to the targets: a swap of the input makes the  *)
(* next group this one without changing what an image is for, and a        *)
(* request adds one.                                                       *)
LEMMA MainTargets ==
  ASSUME Control, InLoop, Main
  PROVE  /\ InLoop'
         /\ \/ SwapInput
            \/ ReadRequested /\ Issued' = Issued + 1 /\ UNCHANGED <<LoadBase, p, side, main>>
               /\ Issued = LoadBase + pp
            \/ SameTargets
            \/ NextGroup /\ main' = "complete" /\ Issued' = Issued /\ Issued = NumberOfProjections
<1> USE DEF Control
<1>0. p \in Nat /\ pp \in Nat /\ ProjectionsPerStep \in Nat /\ ProjectionsThisStep \in Int /\ ProjectionsNextStep \in Int
  BY Sizes DEF Types
<1>1. CASE Create
  BY <1>1, SameSizes DEF Create, mainVars, InLoop, SameTargets, Issued, LoadBase,
     Target, Behind, Scheduled
<1>2. CASE FirstRequests
  <2>1. CASE pp < ProjectionsPerStep /\ Request("read", Loading(job.source, pp))
    <3>1. UNCHANGED <<job, main, p, side>> /\ pp' = pp + 1 /\ main = "firstRequests"
      BY <1>2, <2>1 DEF FirstRequests, Request
    <3>2. p = 0
      BY <3>1 DEF Scheduled
    <3>3. ReadRequested
      BY <2>1, <3>1 DEF ReadRequested
    <3>4. Issued' = Issued + 1 /\ LoadBase' = LoadBase /\ Issued = LoadBase + pp
      BY <1>0, <3>1, <3>2 DEF Issued, LoadBase, Behind
    <3> QED BY <3>1, <3>3, <3>4 DEF InLoop
  <2>2. CASE pp = ProjectionsPerStep /\ EndRequests(FirstPhase)
    <3>1. UNCHANGED <<job, p, side>> /\ main = "firstRequests" /\ main' \in {"swapAttenuation", "swapInput"} /\ p = 0
      BY <1>2, <2>2, FirstPhaseIsBehind DEF FirstRequests, EndRequests, Scheduled
    <3>2. Issued' = Issued
      BY <2>2, <3>1, Sizes, SameSizes DEF Issued, Lesser
    <3>3. LoadBase' = LoadBase
      BY <3>1 DEF LoadBase, Behind
    <3> QED BY <3>1, <3>2, <3>3, SameSizes DEF SameTargets, Target, InLoop
  <2> QED BY <1>2, <2>1, <2>2 DEF FirstRequests
<1>3. CASE SwapAttenuation
  <2>1. UNCHANGED <<job, p, pp>> /\ main = "swapAttenuation" /\ main' = "swapInput"
        /\ side' = [side EXCEPT !["attenuation"] = Other(side["attenuation"])]
    BY <1>3, PhaseOrder DEF SwapAttenuation, SwapOutput, Swap
  <2>2. job.source # "attenuation" /\ job.source \in Kinds
    BY <2>1, JobFacts DEF Scheduled
  <2>3. side'[job.source] = side[job.source]
    BY <2>1, <2>2 DEF Types
  <2>4. Issued' = Issued /\ LoadBase' = LoadBase
    BY <2>1, SameSizes DEF Issued, LoadBase, Behind
  <2> QED BY <2>1, <2>3, <2>4, SameSizes DEF SameTargets, Target, InLoop
<1>4. CASE SwapInput
  <2>1. pp' = 0
    BY <1>4 DEF SwapInput, Scheduled
  <2> QED BY <1>4, <2>1 DEF InLoop
<1>5. CASE RequestNext
  <2>1. CASE pp < ProjectionsNextStep /\ Request("read", Loading(job.source, pp))
    <3>1. UNCHANGED <<job, main, p, side>> /\ pp' = pp + 1 /\ main = "request"
      BY <1>5, <2>1 DEF RequestNext, Request
    <3>3. ReadRequested
      BY <2>1, <3>1 DEF ReadRequested
    <3>4. Issued' = Issued + 1 /\ LoadBase' = LoadBase
      BY <1>0, <3>1, SameSizes DEF Issued, LoadBase, Lesser
    <3>5. Issued = LoadBase + pp
      BY <1>0, <2>1, <3>1 DEF Issued, LoadBase, Behind, Lesser, ProjectionsNextStep
    <3>6. InLoop'
      BY <1>0, <2>1, <3>1, SameSizes DEF InLoop
    <3> QED BY <3>1, <3>3, <3>4, <3>5, <3>6
  <2>2. CASE pp >= ProjectionsNextStep /\ EndRequests(After("request"))
    <3>1. UNCHANGED <<job, p, side>> /\ main = "request" /\ p < NumberOfProjections
      BY <1>5, <2>2 DEF RequestNext, EndRequests, Scheduled
    <3>2. main' \notin Behind /\ main' # "request"
      BY <2>2, PhaseOrder DEF EndRequests, FromConvert, FromSynchronize0, FromCorrect,
         FromSwap, FromFilter, Behind
    <3>3. Issued' = Lesser(p + ProjectionsPerStep + ProjectionsPerStep, NumberOfProjections)
      BY <3>1, <3>2, SameSizes DEF Issued, Behind
    <3>4. Issued = Lesser(p + ProjectionsPerStep, NumberOfProjections) + pp
      BY <3>1 DEF Issued
    <3>5. pp = 0 \/ pp <= ProjectionsNextStep
      BY <3>1 DEF InLoop
    <3>6. Issued' = Issued
      BY <1>0, <2>2, <3>1, <3>3, <3>4, <3>5 DEF Lesser, ProjectionsNextStep
    <3>7. LoadBase' = LoadBase
      BY <3>1, <3>2, SameSizes DEF LoadBase, Behind
    <3> QED BY <3>1, <3>2, <3>6, <3>7, SameSizes DEF SameTargets, Target, InLoop
  <2> QED BY <1>5, <2>1, <2>2 DEF RequestNext
<1>6. CASE NextGroup
  <2>1. /\ UNCHANGED <<job, pp, side>> /\ main = "next" /\ p' = p + ProjectionsPerStep
        /\ main' \in {"swapAttenuation", "swapInput", "complete"}
        /\ main' = "complete" => p' >= NumberOfProjections
    BY <1>0, <1>6, FirstPhaseIsBehind DEF NextGroup
  <2>2. InLoop' /\ ProjectionsPerStep' = ProjectionsPerStep
    BY <2>1, SameSizes DEF InLoop
  <2>3. Issued = Lesser(p + ProjectionsPerStep + ProjectionsPerStep, NumberOfProjections)
    BY <2>1 DEF Issued
  <2>4. CASE main' = "complete"
    <3>1. Issued' = Lesser(p' + ProjectionsPerStep + ProjectionsPerStep, NumberOfProjections)
      BY <2>2, <2>4 DEF Issued
    <3>2. Issued' = NumberOfProjections /\ Issued = NumberOfProjections
      BY <1>0, <2>1, <2>3, <2>4, <3>1 DEF Lesser
    <3> QED BY <1>6, <2>2, <2>4, <3>2
  <2>5. CASE main' \in {"swapAttenuation", "swapInput"}
    <3>1. Issued' = Lesser(p' + ProjectionsPerStep, NumberOfProjections)
      BY <2>2, <2>5 DEF Issued
    <3>2. LoadBase' = p' /\ LoadBase = p + ProjectionsPerStep
      BY <2>1, <2>5 DEF LoadBase, Behind
    <3>3. Issued' = Issued /\ LoadBase' = LoadBase
      BY <2>1, <2>3, <3>1, <3>2
    <3> QED BY <2>1, <2>2, <3>3 DEF SameTargets, Target
  <2> QED BY <2>1, <2>4, <2>5
<1>7. CASE SwapFiltered
  <2>1. UNCHANGED <<job, p, pp>> /\ main = "swapFiltered" /\ main' \in {"filter", "synchronize"}
        /\ side' = [side EXCEPT !["filtered"] = Other(side["filtered"])]
    BY <1>7, PhaseOrder DEF SwapFiltered, SwapOutput, Swap, FromFilter
  <2>2. job.source # "filtered" /\ job.source \in Kinds
    BY <2>1, JobFacts DEF Scheduled
  <2>3. side'[job.source] = side[job.source]
    BY <2>1, <2>2 DEF Types
  <2>4. Issued' = Issued /\ LoadBase' = LoadBase
    BY <2>1, SameSizes DEF Issued, LoadBase, Behind
  <2> QED BY <2>1, <2>3, <2>4, SameSizes DEF SameTargets, Target, InLoop
<1>8. ASSUME UNCHANGED <<job, p, side>>, main \notin Behind, main # "request",
             main' \notin Behind, main' # "request"
      PROVE  InLoop' /\ SameTargets
  BY <1>8, StaysLoaded DEF InLoop
<1>9. CASE Convert \/ Synchronize \/ Barrier \/ CorrectBeamPower \/ Filter
  <2>1. UNCHANGED <<job, p, side>> /\ main \notin Behind \cup {"request"}
    BY <1>9 DEF Convert, Synchronize, Barrier, CorrectBeamPower, Filter, mainVars,
       Behind
  <2>2. main' \notin Behind \cup {"request"}
    BY <1>9, PhaseOrder DEF Convert, Synchronize, Barrier, CorrectBeamPower, Filter,
       FromSynchronize0,
       FromCorrect, FromSwap, FromFilter, Behind
  <2> QED BY <1>8, <2>1, <2>2
<1>10. CASE SetReference \/ Check \/ WaitForCompletion \/ CountRequests
  <2>1. UNCHANGED <<job, p, side>> /\ main \notin Behind \cup {"request"}
    BY <1>10 DEF SetReference, Check, WaitForCompletion, CountRequests, MainThrows,
       mainVars, Behind
  <2>2. main' \notin Behind \cup {"request"}
    BY <1>10, PhaseOrder DEF SetReference, Check, WaitForCompletion, CountRequests,
       MainThrows,
       FromCorrect, FromSwap, FromFilter, FromCheck, FromWrite, FromApply, Behind
  <2> QED BY <1>8, <2>1, <2>2
<1>11. CASE WriteAttenuation \/ WriteFiltered \/ ApplyProjections
  <2>1. UNCHANGED <<job, p, side>> /\ main \notin Behind \cup {"request"}
    BY <1>11 DEF WriteAttenuation, WriteFiltered, ApplyProjections, mainVars, Behind,
       Request, EndRequests
  <2>2. main' \notin Behind \cup {"request"}
    BY <1>11, PhaseOrder DEF WriteAttenuation, WriteFiltered, ApplyProjections,
       Request, EndRequests,
       FromWrite, FromApply, Behind, Scheduled
  <2> QED BY <1>8, <2>1, <2>2
<1>12. CASE WriteVolume \/ BarrierVolume \/ Leave
  <2>1. UNCHANGED <<job, p, side>> /\ main \notin Behind \cup {"request"}
    BY <1>12 DEF WriteVolume, BarrierVolume, Leave, mainVars, Behind
  <2>2. main' \notin Behind \cup {"request"}
    BY <1>12 DEF WriteVolume, BarrierVolume, Leave, Behind
  <2> QED BY <1>8, <2>1, <2>2
<1> QED BY <1>1, <1>2, <1>3, <1>4, <1>5, <1>6, <1>7, <1>9, <1>10, <1>11, <1>12 DEF Main

(* What the I/O thread does with the request it settles: it reads, it      *)
(* writes, it fails, or it drops the request.                              *)
ReadsOne(k) ==
  /\ requests[k].op = "read" /\ fate'[k] = "done" /\ ~IO!Failed /\ ~IO!Failed'
  /\ content' = [content EXCEPT ![requests[k].image] = nextRead]
  /\ nextRead' = nextRead + 1
  /\ UNCHANGED file
WritesOne(k) ==
  /\ requests[k].op = "write" /\ fate'[k] = "done" /\ ~IO!Failed /\ ~IO!Failed'
  /\ file' = [file EXCEPT ![requests[k].image[1]] = Append(@, content[requests[k].image])]
  /\ UNCHANGED <<content, nextRead>>
FailsOne(k) ==
  /\ fate'[k] = "failed" /\ IO!Failed' /\ MayFail
  /\ content' = IF requests[k].op = "read" THEN [content EXCEPT ![requests[k].image] = 0] ELSE content
  /\ UNCHANGED <<nextRead, file>>
DropsOne(k) ==
  /\ fate'[k] = "dropped" /\ IO!Failed /\ IO!Failed'
  /\ UNCHANGED <<content, nextRead, file>>

(* Request k is the one it settles.                                        *)
Oldest(k) ==
  /\ k \in 1 .. Len(requests)
  /\ fate[k] = "pending"
  /\ \A j \in 1 .. k - 1 : fate[j] # "pending"
  /\ Len(fate') = Len(fate)
  /\ \A j \in 1 .. Len(fate) : j # k => fate'[j] = fate[j]
  /\ fate'[k] # "pending"

(* A step of the I/O thread is one of these.                               *)
LEMMA SettleData ==
  ASSUME Control, Requested, Settle
  PROVE  /\ UNCHANGED <<job, main, p, pp, side, box, requests, loan, closed, exception, ready,
                        reference, volume, volumeFile, mainFailed>>
         /\ ~closed
         /\ \E k \in 1 .. Len(requests) :
              Oldest(k) /\ (ReadsOne(k) \/ WritesOne(k) \/ FailsOne(k) \/ DropsOne(k))
<1> USE DEF Control
<1>1. /\ UNCHANGED <<job, main, p, pp, side, box, requests, loan, closed, exception, ready,
                        reference, volume, volumeFile, mainFailed>>
      /\ ~closed
  BY SettleStep DEF Settle, mainVars, workVars
<1>2. PICK k \in 1 .. Len(fate), f \in {"done", "failed", "dropped"} :
              /\ fate[k] = "pending"
              /\ \A j \in 1 .. k - 1 : fate[j] # "pending"
              /\ f = "dropped" <=> IO!Failed
              /\ fate' = [fate EXCEPT ![k] = f]
  BY SettleStep
<1>3. fate \in Seq(IO!Fates) /\ f \in IO!Fates /\ Len(fate) \in Nat
  BY LenProperties DEF Types, IO!Fates
<1>4. Len(fate') = Len(fate) /\ \A j \in 1 .. Len(fate) : fate'[j] = IF j = k THEN f ELSE fate[j]
  BY <1>2, <1>3, ExceptSeq
<1>5. k \in 1 .. Len(requests)
  BY DEF Requested
<1>6. Oldest(k)
  BY <1>2, <1>4, <1>5 DEF Oldest
<1> DEFINE c == CHOOSE l \in 1 .. Len(fate) :
                  /\ fate[l] = "pending"
                  /\ \A j \in 1 .. l - 1 : fate[j] # "pending"
<1>7. c = k
  <2>1. /\ c \in 1 .. Len(fate) /\ fate[c] = "pending"
        /\ \A j \in 1 .. c - 1 : fate[j] # "pending"
    BY <1>2
  <2> HIDE DEF c
  <2>2. ~(c < k) /\ ~(k < c)
    BY <1>2, <1>3, <2>1
  <2> QED BY <1>3, <2>1, <2>2
<1>8. \/ fate'[c] = "done" /\ requests[c].op = "read" /\ content' = [content EXCEPT ![requests[c].image] = nextRead]
         /\ nextRead' = nextRead + 1 /\ UNCHANGED file
      \/ fate'[c] = "done" /\ requests[c].op = "write"
         /\ file' = [file EXCEPT ![requests[c].image[1]] = Append(@, content[requests[c].image])]
         /\ UNCHANGED <<content, nextRead>>
      \/ fate'[c] = "failed" /\ MayFail
         /\ content' = (IF requests[c].op = "read" THEN [content EXCEPT ![requests[c].image] = 0] ELSE content)
         /\ UNCHANGED <<nextRead, file>>
      \/ fate'[c] = "dropped" /\ UNCHANGED <<content, nextRead, file>>
  BY DEF Settle
<1> HIDE DEF c
<1>9. fate'[k] = f
  BY <1>4
<1>10. f = "failed" => IO!Failed'
  BY <1>4 DEF IO!Failed
<1>11. IO!Failed => IO!Failed'
  BY <1>2, <1>4 DEF IO!Failed
<1>12. f = "done" => ~IO!Failed /\ ~IO!Failed'
  BY <1>2, <1>4 DEF IO!Failed
<1>13. f = "dropped" => IO!Failed /\ IO!Failed'
  BY <1>2, <1>11
<1>14. ReadsOne(k) \/ WritesOne(k) \/ FailsOne(k) \/ DropsOne(k)
  BY <1>7, <1>8, <1>9, <1>10, <1>12, <1>13 DEF ReadsOne, WritesOne, FailsOne, DropsOne
<1> QED BY <1>1, <1>5, <1>6, <1>14

(* What the workers leave alone.                                           *)
LEMMA WorkerFacts ==
  ASSUME NEW t \in Threads, Worker(t)
  PROVE  UNCHANGED <<job, p, pp, side, requests, fate, closed, mainFailed, nextRead, file, reference>>
<1>1. CASE Setup(t)
  BY <1>1 DEF Setup, Finish, Throw, Done, mainVars, ioVars, dataVars
<1>2. CASE AllocateNothing(t)
  BY <1>2 DEF AllocateNothing, Done, mainVars, ioVars, dataVars
<1>3. CASE AwaitBuffer(t)
  BY <1>3 DEF AwaitBuffer, Finish, Throw, Done, mainVars, ioVars, dataVars, IO!Release
<1>4. CASE TransformImage(t)
  BY <1>4 DEF TransformImage, Finish, Throw, Done, mainVars, ioVars
<1>5. CASE ApplyProjection(t)
  BY <1>5 DEF ApplyProjection, Finish, Throw, Done, mainVars, ioVars
<1>6. CASE WriteVolumeData(t)
  BY <1>6 DEF WriteVolumeData, Finish, Throw, Done, mainVars, ioVars
<1>7. CASE Crash(t)
  BY <1>7 DEF Crash, mainVars, ioVars, dataVars
<1> QED BY <1>1, <1>2, <1>3, <1>4, <1>5, <1>6, <1>7 DEF Worker

(* What main leaves alone.                                                 *)
LEMMA MainFacts ==
  ASSUME Main
  PROVE  /\ UNCHANGED <<exception, ready, content, volume, nextRead, file, volumeFile>>
         /\ reference' = reference \/ SetReference
         /\ mainFailed' = mainFailed \/ (mainFailed' = TRUE /\ MayFail /\ main' = "unwind")
<1>1. CASE FirstRequests \/ RequestNext
  BY <1>1 DEF FirstRequests, RequestNext, EndRequests, Request, workVars, dataVars
<1>2. CASE WriteAttenuation \/ WriteFiltered
  BY <1>2 DEF WriteAttenuation, WriteFiltered, EndRequests, Request, workVars, dataVars
<1>3. CASE Create \/ SwapAttenuation \/ SwapInput \/ Convert \/ Synchronize \/ Barrier
           \/ CorrectBeamPower \/ SwapFiltered \/ Filter
  BY <1>3 DEF Create, SwapAttenuation, SwapInput, Convert, Synchronize, Barrier,
     CorrectBeamPower, SwapFiltered, Filter, workVars, dataVars, mainVars
<1>4. CASE ApplyProjections \/ NextGroup \/ WriteVolume \/ BarrierVolume \/ Leave
  BY <1>4 DEF ApplyProjections, NextGroup, WriteVolume, BarrierVolume, Leave, workVars,
     dataVars, mainVars
<1>5. CASE SetReference
  BY <1>5 DEF SetReference, MainThrows, workVars, dataVars, mainVars
<1>6. CASE Check \/ WaitForCompletion \/ CountRequests
  BY <1>6 DEF Check, WaitForCompletion, CountRequests, MainThrows, workVars, dataVars,
     mainVars
<1> QED BY <1>1, <1>2, <1>3, <1>4, <1>5, <1>6 DEF Main

(* A request has been made.                                                *)
RequestMade(op, i) ==
  /\ i \in Images
  /\ UNCHANGED <<job, main, p, side, box, closed, content, nextRead, file>>
  /\ pp' = pp + 1
  /\ Len(requests) \in Nat
  /\ Len(requests') = Len(requests) + 1
  /\ \A k \in 1 .. Len(requests) : requests'[k] = requests[k] /\ fate'[k] = fate[k]
  /\ requests'[Len(requests) + 1] = [op |-> op, image |-> i]
  /\ fate'[Len(requests) + 1] = "pending"
  /\ Len(fate') = Len(requests')
  /\ IO!Failed' = IO!Failed

(* The three loops of requests make them.                                  *)
LEMMA Requesting1 ==
  ASSUME Control, Requested, NEW op \in {"read", "write"}, NEW i \in Images, Request(op, i)
  PROVE  RequestMade(op, i)
<1>1. Len(requests) \in Nat /\ Len(fate) = Len(requests)
  BY LenProperties DEF Control, Types, Requested
<1>2. Len(fate') = Len(fate) + 1 /\ (\A k \in 1 .. Len(fate) : fate'[k] = fate[k]) /\ fate'[Len(fate) + 1] = "pending"
  BY RequestStep DEF Control
<1>3. IO!Failed' = IO!Failed
  BY <1>1, <1>2 DEF IO!Failed
<1> QED BY <1>1, <1>2, <1>3, RequestStep DEF RequestMade, Request, dataVars, Control

LEMMA ReadMade ==
  ASSUME Control, Requested, ReadRequested
  PROVE  RequestMade("read", Loading(job.source, pp)) /\ pp \in Threads /\ pp < ProjectionsPerStep
<1>1. pp \in Threads /\ Loading(job.source, pp) \in Images
  BY RequestedImages DEF ReadRequested
<1>2. pp < ProjectionsPerStep
  BY Sizes DEF ReadRequested, Control, Types
<1> QED BY <1>1, <1>2, Requesting1 DEF ReadRequested

LEMMA WriteMade ==
  ASSUME Control, Requested, NEW kind \in {"attenuation", "filtered"}, WriteRequested(kind)
  PROVE  RequestMade("write", Active(kind, pp)) /\ Output(kind) /\ pp \in Threads
<1>1. Output(kind) /\ pp \in Threads /\ Active(kind, pp) \in Images
  BY RequestedImages DEF WriteRequested
<1> QED BY <1>1, Requesting1 DEF WriteRequested

(* The q-th projection has been requested and not been read.               *)
Awaiting(q) == \E k \in 1 .. Len(requests) : PendingRead(k) /\ Target(requests[k].image) = q

(* The reads that are pending are those of the projections not yet read,   *)
(* one each, in order.                                                     *)
ReadsInOrder ==
  /\ \A k \in 1 .. Len(requests) : PendingRead(k) =>
       Target(requests[k].image) \in nextRead .. Issued
  /\ \A j, k \in 1 .. Len(requests) : PendingRead(j) /\ PendingRead(k) /\ j < k =>
       Target(requests[j].image) < Target(requests[k].image)
  /\ \A q \in nextRead .. Issued : Awaiting(q)

(* They are for the slots of a group.                                      *)
ReadSlots ==
  \A k \in 1 .. Len(requests) : requests[k].op = "read" => requests[k].image[2] < ProjectionsPerStep

(* Before the swap nothing is read into the active side.                   *)
ReadAhead ==
  main \in Behind => \A k \in 1 .. Len(requests) : PendingRead(k) => requests[k].image[3] # side[job.source]

(* The reader, which returns its projections one after the other, gives    *)
(* each request the projection it was made for.                            *)
ReadOrder ==
  /\ InLoop
  /\ nextRead \in Nat \ {0}
  /\ nextRead <= Issued + 1
  /\ ReadSlots
  /\ IOWell => ReadsInOrder /\ ReadAhead

(* The same reads are pending, for the same projections.                   *)
SameReads ==
  /\ \A k \in 1 .. Len(requests) : PendingRead(k) =>
       /\ k \in 1 .. Len(requests') /\ PendingRead(k)'
       /\ Target(requests[k].image)' = Target(requests[k].image)
  /\ \A k \in 1 .. Len(requests') : PendingRead(k)' => k \in 1 .. Len(requests) /\ PendingRead(k)

(* Then they are still in order.                                           *)
LEMMA KeepsReads ==
  ASSUME ReadsInOrder, SameReads, UNCHANGED nextRead, Issued' = Issued
  PROVE  ReadsInOrder'
<1>1. ASSUME NEW k \in 1 .. Len(requests'), PendingRead(k)'
      PROVE  /\ k \in 1 .. Len(requests) /\ PendingRead(k) /\ Target(requests[k].image)' = Target(requests[k].image)
  BY <1>1 DEF SameReads
<1>2. ASSUME NEW k \in 1 .. Len(requests'), PendingRead(k)'
      PROVE  Target(requests[k].image)' \in nextRead' .. Issued'
  BY <1>1, <1>2 DEF ReadsInOrder
<1>3. ASSUME NEW j \in 1 .. Len(requests'), NEW k \in 1 .. Len(requests'), PendingRead(j)', PendingRead(k)', j < k
      PROVE  Target(requests[j].image)' < Target(requests[k].image)'
  BY <1>1, <1>3 DEF ReadsInOrder
<1>4. ASSUME NEW q \in nextRead' .. Issued'
      PROVE  Awaiting(q)'
  <2>1. PICK k \in 1 .. Len(requests) : PendingRead(k) /\ Target(requests[k].image) = q
    BY <1>4 DEF ReadsInOrder, Awaiting
  <2> QED BY <2>1 DEF SameReads, Awaiting
<1> QED BY <1>2, <1>3, <1>4 DEF ReadsInOrder

(* At a point where the boxes are empty, with the group requested, the     *)
(* group has been read: the workers have waited for it.                    *)
LEMMA NoActiveReads ==
  ASSUME Control, Requested, Sheltered, ReadOrder, IOWell, main \in HasRequested,
         \A t \in Threads : box[t] = <<>>,
         NEW k \in 1 .. Len(requests), PendingRead(k)
  PROVE  requests[k].image[3] # side[job.source]
<1> USE DEF Control
<1> DEFINE i == requests[k].image
           t == i[2]
<1>1. i \in Images /\ i[1] = job.source /\ t \in Threads /\ t < ProjectionsPerStep /\ i = <<i[1], t, i[3]>>
  BY RequestTypes DEF PendingRead, Requested, ReadOrder, ReadSlots, Images
<1> SUFFICES ASSUME i[3] = side[job.source] PROVE FALSE
  OBVIOUS
<1>2. i = Active(job.source, t)
  BY <1>1 DEF Active
<1>3. p \in Nat /\ p < NumberOfProjections /\ LoadBase = p + ProjectionsPerStep /\ ProjectionsPerStep \in Nat
  <2>1. ProjectionsPerStep \in Nat
    BY Sizes
  <2>2. p \in Nat /\ p < NumberOfProjections
    BY DEF Scheduled, Types
  <2>3. LoadBase = p + ProjectionsPerStep
    BY DEF LoadBase, Behind
  <2> QED BY <2>1, <2>2, <2>3
<1>4. Target(i) = p + t + 1
  BY <1>1, <1>3 DEF Target, Threads
<1>5. Target(i) <= NumberOfProjections
  <2>1. Target(i) \in nextRead .. Issued
    BY DEF ReadOrder, ReadsInOrder
  <2> HIDE DEF i
  <2> QED BY <2>1, <1>1, <1>4, <1>3, IssuedTypes DEF ReadOrder, Threads
<1>6. t < ProjectionsThisStep
  BY <1>1, <1>3, <1>4, <1>5 DEF ProjectionsThisStep, Lesser, Threads
<1>7. Held(job.source) /\ job.source \in Kinds
  BY JobFacts DEF Held, Told
<1>8. Awaited(t, Len(box[t]), Active(job.source, t))
  BY <1>1, <1>2, <1>6, <1>7 DEF Sheltered, Covered, IOWell, PendingRead
<1>9. Len(box[t]) = 0
  BY <1>1
<1> HIDE DEF i
<1> QED BY <1>8, <1>9 DEF Awaited

(* After the last group nothing is left to be read.                        *)
LEMMA NoReadsAtEnd ==
  ASSUME Control, Requested, Sheltered, ReadOrder, IOWell, main = "next", p + ProjectionsPerStep >= NumberOfProjections,
         NEW k \in 1 .. Len(requests)
  PROVE  ~PendingRead(k)
<1> USE DEF Control
<1> DEFINE i == requests[k].image
           t == i[2]
<1> SUFFICES ASSUME PendingRead(k) PROVE FALSE
  OBVIOUS
<1>1. i \in Images /\ i[1] = job.source /\ t \in Threads
  BY RequestTypes DEF PendingRead, Requested, Images
<1>2. i[3] # side[job.source]
  <2>1. \A u \in Threads : box[u] = <<>>
    BY IdleIsEmpty DEF Filling, Applying
  <2> QED BY <2>1, NoActiveReads
<1>3. p \in Nat /\ LoadBase = p + ProjectionsPerStep /\ ProjectionsPerStep \in Nat
  BY Sizes DEF LoadBase, Behind, Types
<1>4. Target(i) = p + ProjectionsPerStep + t + 1
  BY <1>1, <1>2, <1>3 DEF Target, Threads
<1>5. Target(i) <= NumberOfProjections
  <2>1. Target(i) \in nextRead .. Issued
    BY DEF ReadOrder, ReadsInOrder
  <2> HIDE DEF i
  <2> QED BY <2>1, <1>1, <1>4, <1>3, IssuedTypes DEF ReadOrder, Threads
<1> HIDE DEF i
<1> QED BY <1>1, <1>3, <1>4, <1>5 DEF Threads

(* A pending read has its types.                                           *)
LEMMA PendingReadType ==
  ASSUME Types, Requested, NEW k \in 1 .. Len(requests), PendingRead(k)
  PROVE  /\ requests[k].image \in Images /\ requests[k].image[1] = job.source
         /\ Len(requests) \in Nat /\ Len(fate) = Len(requests)
BY RequestTypes, LenProperties DEF PendingRead, Requested, Types

(* Steps without requests.                                                 *)
LEMMA QuietReads ==
  ASSUME Types, Requested, UNCHANGED <<job, requests, fate>>,
         \A k \in 1 .. Len(requests) : PendingRead(k) => Target(requests[k].image)' = Target(requests[k].image)
  PROVE  SameReads
BY DEF SameReads, PendingRead

(* A turn begins only with the next group.                                 *)
LEMMA BehindBack ==
  ASSUME Control, Main, main' \in Behind
  PROVE  \/ NextGroup
         \/ main \in Behind /\ job' = job /\ side'[job.source] = side[job.source]
<1> USE DEF Control
<1>1. CASE SwapAttenuation
  <2>1. job' = job /\ main = "swapAttenuation"
        /\ side' = [side EXCEPT !["attenuation"] = Other(side["attenuation"])]
    BY <1>1 DEF SwapAttenuation, SwapOutput, Swap
  <2>2. job.source # "attenuation" /\ job.source \in Kinds
    BY <2>1, JobFacts DEF Scheduled
  <2> QED BY <2>1, <2>2 DEF Types, Behind
<1>2. CASE SwapInput \/ SwapFiltered
  BY <1>2, PhaseOrder DEF SwapInput, SwapFiltered, Behind, FromFilter
<1>3. CASE Move /\ UNCHANGED <<job, p, side>>
  BY <1>3 DEF Move, Behind, FirstPhase, Ending, FromConvert, FromSynchronize0,
     FromCorrect, FromSwap, FromFilter,
     FromCheck, FromWrite, FromApply
<1> QED BY <1>1, <1>2, <1>3, MainMoves

(* The swap of the input's buffers.                                        *)
LEMMA SwapInputReads ==
  ASSUME Control, Requested, ReadOrder, SwapInput, IOWell
  PROVE  ReadsInOrder' /\ ReadAhead'
<1> USE DEF Control
<1>1. /\ UNCHANGED <<job, p, pp, requests, fate, closed, nextRead>> /\ main = "swapInput" /\ main' = "request"
      /\ side' = [side EXCEPT ![job.source] = Other(side[job.source])] /\ pp = 0
  BY DEF SwapInput, Swap, ioVars, dataVars, Scheduled
<1>2. job.source \in Kinds /\ side \in [Kinds -> Sides] /\ p \in Nat /\ ProjectionsPerStep \in Nat
  BY JobFacts, Sizes DEF Types
<1>3. side'[job.source] = Other(side[job.source])
  BY <1>1, <1>2
<1>4. Issued' = Issued
  BY <1>1, <1>2, SameSizes DEF Issued, Lesser
<1>5. LoadBase' = p + ProjectionsPerStep /\ LoadBase = p
  BY <1>1, SameSizes DEF LoadBase, Behind
<1>6. ASSUME NEW k \in 1 .. Len(requests), PendingRead(k)
      PROVE  Target(requests[k].image)' = Target(requests[k].image)
  <2>0. PICK i \in Images : i = requests[k].image
    BY <1>6, PendingReadType
  <2>1. i[1] = job.source
    BY <1>6, <2>0, PendingReadType
  <2>2. i[3] # side[job.source]
    BY <1>1, <1>6, <2>0 DEF ReadOrder, ReadAhead, Behind
  <2>3. i[3] = side'[job.source] /\ i[2] \in Nat
    BY <1>2, <1>3, <2>1, <2>2 DEF Images, Sides, Other, Threads
  <2>4. Target(i)' = LoadBase' - ProjectionsPerStep + i[2] + 1
    BY <2>1, <2>3, <1>1, SameSizes DEF Target
  <2>5. Target(i) = LoadBase + i[2] + 1
    BY <2>1, <2>2 DEF Target
  <2>6. Target(i)' = Target(i)
    BY <1>2, <1>5, <2>3, <2>4, <2>5
  <2> QED BY <1>1, <2>0, <2>6
<1>7. SameReads
  BY <1>1, <1>6, QuietReads
<1> QED BY <1>1, <1>4, <1>7, KeepsReads DEF ReadOrder, ReadAhead, Behind

(* A new read is for the projection after the last one requested.          *)
LEMMA NewReads ==
  ASSUME Control, Requested, ReadOrder, ReadRequested, IOWell,
         Issued' = Issued + 1, UNCHANGED <<LoadBase, p, side, main>>, Issued = LoadBase + pp
  PROVE  ReadsInOrder' /\ ReadAhead'
<1> USE DEF Control
<1>0. PICK i \in Images, n \in Nat :
        i = Loading(job.source, pp) /\ n = Len(requests) + 1 /\ Len(requests) \in Nat
  BY ReadMade DEF RequestMade
<1>1. RequestMade("read", i) /\ pp \in Threads
  BY <1>0, ReadMade
<1>2. /\ i[1] = job.source /\ i[2] = pp /\ i[3] = Other(side[job.source])
      /\ i[3] # side[job.source]
  BY <1>0, JobFacts, OtherSide DEF Loading
<1>3. Len(requests) \in Nat /\ n = Len(requests) + 1 /\ n \in 1 .. n /\ Len(requests') = n /\ job' = job /\ nextRead' = nextRead
  BY <1>0, <1>1 DEF RequestMade
<1>4. ProjectionsPerStep' = ProjectionsPerStep
  BY <1>3, SameSizes
<1>5. \A j \in Images : Target(j)' = Target(j)
  BY <1>4 DEF Target
<1>6. Target(i) = Issued + 1
  BY <1>1, <1>2, IssuedTypes DEF Target, ReadOrder, Threads
<1>7. PendingRead(n)' /\ requests'[n].image = i
  BY <1>0, <1>1, <1>3 DEF RequestMade, PendingRead
<1>8. ASSUME NEW k \in 1 .. Len(requests)
      PROVE  /\ k \in 1 .. n /\ k < n
             /\ requests'[k] = requests[k] /\ (PendingRead(k)' <=> PendingRead(k))
             /\ PendingRead(k) => Target(requests[k].image)' = Target(requests[k].image)
  <2>1. requests'[k] = requests[k] /\ fate'[k] = fate[k]
    BY <1>1, <1>8 DEF RequestMade
  <2>2. PendingRead(k) => requests[k].image \in Images
    BY <1>8, PendingReadType
  <2> QED BY <1>3, <1>5, <2>1, <2>2 DEF PendingRead
<1>9. ReadsInOrder
  BY DEF ReadOrder
<1>10. Issued \in Int /\ Issued' \in Int /\ nextRead \in Nat /\ nextRead <= Issued + 1
  BY IssuedTypes DEF ReadOrder
<1>11. Target(requests[n].image)' = Issued + 1
  BY <1>2, <1>5, <1>6, <1>7
<1>12. \A k \in 1 .. n : k = n \/ k \in 1 .. Len(requests)
  BY <1>3
<1>13. ASSUME NEW k \in 1 .. n, PendingRead(k)'
       PROVE  Target(requests[k].image)' \in nextRead' .. Issued'
  <2>1. CASE k = n
    BY <2>1, <1>3, <1>10, <1>11
  <2>2. CASE k \in 1 .. Len(requests)
    <3>1. Target(requests[k].image) \in nextRead .. Issued
      BY <1>8, <1>9, <1>13, <2>2 DEF ReadsInOrder
    <3>2. Target(requests[k].image)' = Target(requests[k].image)
      BY <1>8, <1>13, <2>2
    <3>3. nextRead .. Issued \subseteq nextRead' .. Issued'
      BY <1>3, <1>10
    <3> QED BY <3>1, <3>2, <3>3
  <2> QED BY <1>12, <2>1, <2>2
<1>14. ASSUME NEW j \in 1 .. n, NEW k \in 1 .. n, PendingRead(j)', PendingRead(k)', j < k
       PROVE  Target(requests[j].image)' < Target(requests[k].image)'
  <2>1. j \in 1 .. Len(requests)
    BY <1>3, <1>14
  <2>2. CASE k = n
    <3>1. Target(requests[j].image) \in nextRead .. Issued
      BY <1>8, <1>9, <1>14, <2>1 DEF ReadsInOrder
    <3>2. Target(requests[j].image)' = Target(requests[j].image)
      BY <1>8, <1>14, <2>1
    <3>3. \A x \in nextRead .. Issued : x < Issued + 1
      BY <1>10
    <3> QED BY <1>11, <2>2, <3>1, <3>2, <3>3
  <2>3. CASE k \in 1 .. Len(requests)
    BY <1>8, <1>9, <1>14, <2>1, <2>3 DEF ReadsInOrder
  <2> QED BY <1>12, <2>2, <2>3
<1>15. ASSUME NEW q \in nextRead' .. Issued'
       PROVE  Awaiting(q)'
  <2>1. CASE q = Issued + 1
    BY <1>3, <1>7, <1>11, <2>1 DEF Awaiting
  <2>2. CASE q \in nextRead .. Issued
    <3>1. PICK k \in 1 .. Len(requests) : PendingRead(k) /\ Target(requests[k].image) = q
      BY <1>9, <2>2 DEF ReadsInOrder, Awaiting
    <3>2. PendingRead(k)' /\ Target(requests[k].image)' = q /\ k \in 1 .. Len(requests')
      BY <1>3, <1>8, <3>1
    <3> QED BY <3>2 DEF Awaiting
  <2>3. q = Issued + 1 \/ q \in nextRead .. Issued
    BY <1>3, <1>10, <1>15
  <2> QED BY <2>1, <2>2, <2>3
<1>16. ReadsInOrder'
  BY <1>3, <1>13, <1>14, <1>15 DEF ReadsInOrder
<1>17. ASSUME main \in Behind, NEW k \in 1 .. n, PendingRead(k)'
       PROVE  requests'[k].image[3] # side[job.source]
  BY <1>2, <1>7, <1>8, <1>12, <1>17 DEF ReadOrder, ReadAhead
<1> QED BY <1>3, <1>16, <1>17 DEF ReadAhead

(* And it counts.                                                          *)
LEMMA ReadCounts ==
  ASSUME Control, InLoop, ReadRequested
  PROVE  Issued' = Issued + 1
<1> USE DEF Control
<1>0. p \in Nat /\ pp \in Nat /\ ProjectionsPerStep \in Nat
  BY Sizes DEF Types
<1>1. UNCHANGED <<job, main, p, side>> /\ pp' = pp + 1 /\ main \in {"firstRequests", "request"}
  BY DEF ReadRequested, Request
<1> QED BY <1>0, <1>1, SameSizes DEF Issued, Lesser

(* Main does not go on after the end.                                      *)
LEMMA MainRuns ==
  ASSUME Main
  PROVE  main \notin {"returned", "threw", "crashed"}
BY DEF Main, Create, FirstRequests, SwapAttenuation, SwapInput, RequestNext, Convert,
   Synchronize, Barrier,
   SetReference, CorrectBeamPower, SwapFiltered, Filter, Check, WriteAttenuation, WriteFiltered,
   ApplyProjections, NextGroup, WaitForCompletion, CountRequests, WriteVolume, BarrierVolume, Leave

(* Main keeps the reads in order.                                          *)
LEMMA MainReads ==
  ASSUME Control, Requested, Sheltered, ReadOrder, Main
  PROVE  ReadOrder'
<1> USE DEF Control
<1>1. InLoop' /\ UNCHANGED nextRead
  BY MainTargets, MainFacts DEF ReadOrder
<1>2. Issued \in Nat /\ ProjectionsPerStep \in Nat /\ nextRead \in Nat \ {0} /\ nextRead <= Issued + 1
  BY IssuedTypes, Sizes DEF ReadOrder
<1>3. job' = job /\ ProjectionsPerStep' = ProjectionsPerStep
  <2>1. job' = job
    BY MainMoves DEF SwapAttenuation, SwapInput, SwapFiltered, NextGroup
  <2> QED BY <2>1, SameSizes
<1>4. Issued' \in {Issued, Issued + 1}
  <2>1. CASE SwapInput
    <3>1. UNCHANGED <<job, p, pp>> /\ main = "swapInput" /\ main' = "request" /\ pp = 0
      BY <2>1 DEF SwapInput, Scheduled
    <3> QED BY <1>2, <3>1, SameSizes DEF Issued, Lesser, Types
  <2> QED BY <2>1, MainTargets DEF ReadOrder, SameTargets
<1>5. nextRead' \in Nat \ {0} /\ nextRead' <= Issued' + 1
  <2>1. nextRead' = nextRead
    BY <1>1
  <2>2. PICK n \in Nat : n = Issued
    BY <1>2
  <2>3. Issued' \in Nat /\ n <= Issued'
    BY <1>4, <2>2
  <2>4. PICK m \in Nat : m = Issued'
    BY <2>3
  <2>5. nextRead <= n + 1 /\ n <= m /\ nextRead \in Nat \ {0}
    BY <1>2, <2>2, <2>3, <2>4
  <2>6. nextRead <= m + 1
    BY <2>5
  <2> QED BY <2>1, <2>4, <2>5, <2>6
<1>6. ReadSlots'
  <2>1. CASE UNCHANGED requests
    BY <1>3, <2>1 DEF ReadOrder, ReadSlots
  <2>2. CASE ReadRequested
    <3>1. RequestMade("read", Loading(job.source, pp)) /\ pp < ProjectionsPerStep
      BY <2>2, ReadMade
    <3>2. \A k \in 1 .. Len(requests') : k \in 1 .. Len(requests) \/ k = Len(requests) + 1
      BY <3>1 DEF RequestMade
    <3> QED BY <1>3, <3>1, <3>2 DEF RequestMade, ReadOrder, ReadSlots, Loading
  <2>3. ASSUME NEW kind \in {"attenuation", "filtered"}, WriteRequested(kind)
        PROVE  ReadSlots'
    <3>1. RequestMade("write", Active(kind, pp))
      BY <2>3, WriteMade
    <3>2. \A k \in 1 .. Len(requests') : k \in 1 .. Len(requests) \/ k = Len(requests) + 1
      BY <3>1 DEF RequestMade
    <3> QED BY <1>3, <3>1, <3>2 DEF RequestMade, ReadOrder, ReadSlots
  <2> QED BY <2>1, <2>2, <2>3, MainIO DEF Leave
<1>7. ASSUME IOWell' PROVE ReadsInOrder' /\ ReadAhead'
  <2>1. ~Leave
    BY <1>7 DEF Leave, IO!Close, IOWell
  <2>2. IOWell /\ (UNCHANGED <<requests, fate>> \/ ReadRequested \/ \E kind \in {"attenuation", "filtered"} : WriteRequested(kind))
    <3>1. ~closed
      BY <1>7, MainRuns DEF IOWell, Scheduled, Types
    <3>2. CASE UNCHANGED <<requests, fate>>
      BY <1>7, <3>1, <3>2 DEF IOWell, IO!Failed
    <3>3. CASE ReadRequested
      BY <1>7, <3>1, <3>3, ReadMade DEF IOWell, RequestMade
    <3>4. ASSUME NEW kind \in {"attenuation", "filtered"}, WriteRequested(kind)
          PROVE  IOWell
      BY <1>7, <3>1, <3>4, WriteMade DEF IOWell, RequestMade
    <3> QED BY <2>1, <3>2, <3>3, <3>4, MainIO
  <2>3. ReadsInOrder /\ ReadAhead
    BY <2>2 DEF ReadOrder
  <2>4. CASE SwapInput
    BY <2>2, <2>4, SwapInputReads
  <2>5. CASE ReadRequested /\ Issued' = Issued + 1 /\ UNCHANGED <<LoadBase, p, side, main>> /\ Issued = LoadBase + pp
    BY <2>2, <2>5, NewReads
  <2>6. CASE NextGroup /\ main' = "complete" /\ Issued' = Issued /\ Issued = NumberOfProjections
    <3>1. main = "next" /\ p + ProjectionsPerStep >= NumberOfProjections /\ UNCHANGED <<job, requests, fate>>
      BY <2>6, FirstPhaseIsBehind, Sizes DEF NextGroup, ioVars, Types
    <3>2. \A k \in 1 .. Len(requests) : ~PendingRead(k)
      BY <2>2, <3>1, NoReadsAtEnd
    <3>3. SameReads
      BY <3>1, <3>2, QuietReads
    <3>4. ReadsInOrder'
      BY <1>1, <2>3, <2>6, <3>3, KeepsReads
    <3> QED BY <2>6, <3>4 DEF ReadAhead, Behind
  <2>7. CASE SameTargets /\ ~ReadRequested
    <3>1. CASE UNCHANGED <<requests, fate>>
      <4>1. SameReads
        <5>1. \A k \in 1 .. Len(requests) : PendingRead(k) => Target(requests[k].image)' = Target(requests[k].image)
          <6>1. ASSUME NEW k \in 1 .. Len(requests), PendingRead(k)
                PROVE  Target(requests[k].image)' = Target(requests[k].image)
            <7>1. PICK i \in Images : i = requests[k].image /\ i[1] = job.source
              BY <6>1, PendingReadType
            <7>2. Target(i)' = Target(i)
              BY <2>7, <7>1 DEF SameTargets
            <7> QED BY <3>1, <7>1, <7>2
          <6> QED BY <6>1
        <5> QED BY <1>3, <3>1, <5>1, QuietReads
      <4>2. ReadsInOrder'
        BY <1>1, <2>3, <2>7, <4>1, KeepsReads DEF SameTargets
      <4>3. ReadAhead'
        <5>1. SUFFICES ASSUME main' \in Behind, NEW k \in 1 .. Len(requests), PendingRead(k)
                       PROVE  requests[k].image[3] # side'[job.source]
          BY <1>3, <3>1 DEF ReadAhead, PendingRead
        <5>2. CASE main \in Behind /\ side'[job.source] = side[job.source]
          BY <2>3, <5>1, <5>2 DEF ReadAhead
        <5>3. CASE NextGroup
          <6>1. main = "next" /\ side' = side
            BY <5>3 DEF NextGroup
          <6>2. \A u \in Threads : box[u] = <<>>
            BY <6>1, IdleIsEmpty DEF Filling, Applying
          <6> QED BY <2>2, <5>1, <6>1, <6>2, NoActiveReads
        <5> QED BY <5>1, <5>2, <5>3, BehindBack
      <4> QED BY <4>2, <4>3
    <3>2. ASSUME NEW kind \in {"attenuation", "filtered"}, WriteRequested(kind)
          PROVE  ReadsInOrder' /\ ReadAhead'
      <4>1. PICK n \in Nat : n = Len(requests) + 1 /\ Len(requests) \in Nat
        BY <3>2, WriteMade DEF RequestMade
      <4>2. /\ RequestMade("write", Active(kind, pp))
            /\ \A k \in 1 .. Len(requests') : k \in 1 .. Len(requests) \/ k = n
        BY <3>2, <4>1, WriteMade DEF RequestMade
      <4>3. \A k \in 1 .. Len(requests) : /\ k \in 1 .. Len(requests') /\ requests'[k] = requests[k]
                                          /\ PendingRead(k)' <=> PendingRead(k)
        BY <4>1, <4>2 DEF RequestMade, PendingRead
      <4>4. ~PendingRead(n)'
        BY <4>1, <4>2 DEF RequestMade, PendingRead
      <4>5. \A k \in 1 .. Len(requests') : PendingRead(k)' => k \in 1 .. Len(requests) /\ PendingRead(k)
        BY <4>2, <4>3, <4>4
      <4>6. \A k \in 1 .. Len(requests) : PendingRead(k) => Target(requests[k].image)' = Target(requests[k].image)
        <5>1. ASSUME NEW k \in 1 .. Len(requests), PendingRead(k)
              PROVE  Target(requests[k].image)' = Target(requests[k].image)
          <6>1. PICK i \in Images : i = requests[k].image /\ i[1] = job.source
            BY <5>1, PendingReadType
          <6>2. Target(i)' = Target(i)
            BY <2>7, <6>1 DEF SameTargets
          <6> QED BY <4>3, <6>1, <6>2
        <5> QED BY <5>1
      <4>7. SameReads
        BY <4>3, <4>5, <4>6 DEF SameReads
      <4>8. ReadsInOrder'
        BY <1>1, <2>3, <2>7, <4>7, KeepsReads DEF SameTargets
      <4>9. main' \notin Behind
        BY <3>2, <4>2 DEF WriteRequested, RequestMade, Behind
      <4> QED BY <4>8, <4>9 DEF ReadAhead
    <3> QED BY <2>2, <2>7, <3>1, <3>2
  <2>8. SameTargets => ~ReadRequested
    BY <1>2, ReadCounts DEF SameTargets, ReadOrder
  <2> QED BY <2>2, <2>4, <2>5, <2>6, <2>7, <2>8, MainTargets DEF ReadOrder
<1> QED BY <1>1, <1>5, <1>6, <1>7 DEF ReadOrder

(* A worker moves main only when it crashes.                               *)
LEMMA WorkerCrash ==
  ASSUME Control, NEW t \in Threads, Worker(t)
  PROVE  main' = main \/ (main' = "crashed" /\ main \in Applying \cup {"barrierVolume"})
<1> USE DEF Control
<1>1. SUFFICES ASSUME main' = "crashed", main' # main PROVE main \in Applying \cup {"barrierVolume"}
  BY WorkerStep
<1>2. box[t] # <<>> /\ Head(box[t]).op \in {"apply", "writeVolume"}
  BY <1>1, WorkerStep
<1>3. Head(box[t]) = box[t][1] /\ 1 \in 1 .. Len(box[t])
  BY <1>2, Taking
<1>4. Fits(t, 1, box[t][1])
  BY <1>3 DEF Boxes
<1> QED BY <1>1, <1>2, <1>3, <1>4 DEF Fits

(* Workers have nothing to do with the order of reads.                     *)
LEMMA WorkerReads ==
  ASSUME Control, Requested, ReadOrder, NEW t \in Threads, Worker(t)
  PROVE  ReadOrder'
<1> USE DEF Control
<1>1. UNCHANGED <<job, p, pp, side, requests, fate, closed, nextRead>>
  BY WorkerFacts
<1>2. SameTargets
  <2>1. CASE main' = main
    BY <1>1, <2>1, SameSizes DEF SameTargets, Target, LoadBase, Issued
  <2>2. CASE main' = "crashed" /\ main \in Applying \cup {"barrierVolume"}
    BY <1>1, <2>2, StaysLoaded DEF Applying, Behind
  <2> QED BY <2>1, <2>2, WorkerCrash
<1>3. InLoop' /\ (main' \in Behind => main \in Behind) /\ ProjectionsPerStep' = ProjectionsPerStep
  BY <1>1, WorkerCrash, SameSizes DEF InLoop, Behind, ReadOrder
<1>4. ReadSlots' /\ (IOWell' => IOWell) /\ (ReadAhead => ReadAhead')
  BY <1>1, <1>3 DEF ReadOrder, ReadSlots, IOWell, IO!Failed, ReadAhead, PendingRead
<1>5. SameReads
  <2>1. ASSUME NEW k \in 1 .. Len(requests), PendingRead(k)
        PROVE  Target(requests[k].image)' = Target(requests[k].image)
    <3>1. PICK i \in Images : i = requests[k].image /\ i[1] = job.source
      BY <2>1, PendingReadType
    <3>2. Target(i)' = Target(i)
      BY <1>2, <3>1 DEF SameTargets
    <3> QED BY <1>1, <3>1, <3>2
  <2> QED BY <1>1, <2>1, QuietReads
<1>6. ReadsInOrder => ReadsInOrder'
  BY <1>1, <1>2, <1>5, KeepsReads DEF SameTargets
<1>7. nextRead' = nextRead /\ Issued' = Issued
  BY <1>1, <1>2 DEF SameTargets
<1> QED BY <1>3, <1>4, <1>6, <1>7 DEF ReadOrder

(* The oldest read is for the projection the reader returns next.          *)
LEMMA OldestRead ==
  ASSUME Control, Requested, ReadOrder, IOWell, NEW k \in 1 .. Len(requests), Oldest(k), requests[k].op = "read"
  PROVE  /\ Target(requests[k].image) = nextRead
         /\ nextRead <= NumberOfProjections /\ nextRead \in Nat
<1> USE DEF Control
<1>1. PendingRead(k) /\ ReadsInOrder /\ nextRead \in Nat /\ Issued \in Nat /\ Issued <= NumberOfProjections
  BY IssuedTypes DEF Oldest, PendingRead, ReadOrder
<1>2. Target(requests[k].image) \in nextRead .. Issued
  BY <1>1 DEF ReadsInOrder
<1>3. nextRead \in nextRead .. Issued /\ nextRead <= NumberOfProjections
  BY <1>1, <1>2
<1>4. PICK j \in 1 .. Len(requests) : PendingRead(j) /\ Target(requests[j].image) = nextRead
  BY <1>1, <1>3 DEF ReadsInOrder, Awaiting
<1>5. ~(j < k)
  BY <1>4 DEF Oldest, PendingRead
<1>6. ~(k < j)
  <2>1. k < j => Target(requests[k].image) < Target(requests[j].image)
    BY <1>1, <1>4 DEF ReadsInOrder
  <2> QED BY <2>1, <1>1, <1>2, <1>4
<1>7. j = k
  BY <1>5, <1>6
<1> QED BY <1>1, <1>3, <1>4, <1>7

(* The I/O thread keeps the reads in order.                                *)
LEMMA SettleReads ==
  ASSUME Control, Requested, ReadOrder, Settle
  PROVE  ReadOrder'
<1> USE DEF Control
<1>1. UNCHANGED <<job, main, p, pp, side, requests, closed>> /\ ~closed
  BY SettleData
<1>2. PICK k \in 1 .. Len(requests) : Oldest(k) /\ (ReadsOne(k) \/ WritesOne(k) \/ FailsOne(k) \/ DropsOne(k))
  BY SettleData
<1>3. Issued' = Issued /\ InLoop' /\ ReadSlots' /\ ProjectionsPerStep' = ProjectionsPerStep
  BY <1>1, SameSizes DEF Issued, InLoop, ReadOrder, ReadSlots
<1>4. ASSUME NEW j \in 1 .. Len(requests)
      PROVE  /\ PendingRead(j)' <=> PendingRead(j) /\ j # k
             /\ PendingRead(j) => Target(requests[j].image)' = Target(requests[j].image)
  BY <1>1, <1>2, <1>3 DEF Oldest, PendingRead, Requested, Target, LoadBase
<1>5. nextRead \in Nat \ {0} /\ nextRead <= Issued + 1 /\ Issued \in Nat
  BY IssuedTypes DEF ReadOrder
<1>6. nextRead' = nextRead \/ (ReadsOne(k) /\ IOWell)
  BY <1>1, <1>2 DEF ReadsOne, WritesOne, FailsOne, DropsOne, IOWell
<1>7. nextRead' \in Nat \ {0} /\ nextRead' <= Issued' + 1
  <2>1. CASE nextRead' = nextRead
    BY <1>3, <1>5, <2>1
  <2>2. CASE ReadsOne(k) /\ IOWell
    <3>1. Target(requests[k].image) = nextRead /\ nextRead' = nextRead + 1
      BY <1>2, <2>2, OldestRead DEF ReadsOne
    <3>2. Target(requests[k].image) \in nextRead .. Issued
      BY <1>2, <2>2 DEF ReadOrder, ReadsInOrder, Oldest, PendingRead, ReadsOne
    <3> QED BY <1>3, <1>5, <3>1, <3>2
  <2> QED BY <1>6, <2>1, <2>2
<1>8. ASSUME IOWell'
      PROVE  ReadsInOrder' /\ ReadAhead'
  <2>1. ReadsOne(k) \/ WritesOne(k)
    BY <1>2, <1>8 DEF FailsOne, DropsOne, IOWell
  <2>2. IOWell
    BY <1>1, <2>1 DEF ReadsOne, WritesOne, IOWell
  <2>3. ReadsInOrder /\ ReadAhead
    BY <2>2 DEF ReadOrder
  <2>4. ReadAhead'
    BY <1>1, <1>4, <2>3 DEF ReadAhead
  <2>5. CASE WritesOne(k)
    <3>1. \A j \in 1 .. Len(requests) : PendingRead(j) => j # k
      BY <2>5 DEF WritesOne, PendingRead
    <3>2. SameReads
      BY <1>1, <1>4, <3>1 DEF SameReads
    <3> QED BY <1>3, <2>3, <2>4, <2>5, <3>2, KeepsReads DEF WritesOne
  <2>6. CASE ReadsOne(k)
    <3>1. Target(requests[k].image) = nextRead /\ nextRead' = nextRead + 1 /\ PendingRead(k)
      BY <1>2, <2>2, <2>6, OldestRead DEF ReadsOne, Oldest, PendingRead
    <3>2. ASSUME NEW j \in 1 .. Len(requests), PendingRead(j)'
          PROVE  Target(requests[j].image)' \in nextRead' .. Issued'
      <4>1. PendingRead(j) /\ j # k /\ Target(requests[j].image)' = Target(requests[j].image)
        BY <1>4, <3>2
      <4>2. k < j
        BY <1>2, <4>1 DEF Oldest, PendingRead
      <4>3. Target(requests[k].image) < Target(requests[j].image)
        BY <2>3, <3>1, <4>1, <4>2 DEF ReadsInOrder
      <4>4. Target(requests[j].image) \in nextRead .. Issued
        BY <2>3, <4>1 DEF ReadsInOrder
      <4> QED BY <1>3, <1>5, <3>1, <4>1, <4>3, <4>4
    <3>3. ASSUME NEW i \in 1 .. Len(requests), NEW j \in 1 .. Len(requests), PendingRead(i)', PendingRead(j)', i < j
          PROVE  Target(requests[i].image)' < Target(requests[j].image)'
      BY <1>4, <2>3, <3>3 DEF ReadsInOrder
    <3>4. ASSUME NEW q \in nextRead' .. Issued'
          PROVE  Awaiting(q)'
      <4>1. q \in nextRead .. Issued /\ q # nextRead
        BY <1>3, <1>5, <3>1, <3>4
      <4>2. PICK j \in 1 .. Len(requests) : PendingRead(j) /\ Target(requests[j].image) = q
        BY <2>3, <4>1 DEF ReadsInOrder, Awaiting
      <4>3. j # k
        BY <3>1, <4>1, <4>2
      <4>4. PendingRead(j)' /\ Target(requests[j].image)' = q
        BY <1>4, <4>2, <4>3
      <4> QED BY <1>1, <4>4 DEF Awaiting
    <3> QED BY <1>1, <2>4, <3>2, <3>3, <3>4 DEF ReadsInOrder
  <2> QED BY <2>1, <2>5, <2>6
<1> QED BY <1>3, <1>7, <1>8 DEF ReadOrder

(* The reads are always in order.                                          *)
LEMMA NextReads ==
  ASSUME Control, Requested, Sheltered, ReadOrder, [Next]_vars
  PROVE  ReadOrder'
<1>1. CASE UNCHANGED vars
  <2>1. UNCHANGED <<job, main, p, pp, side, requests, fate, closed, nextRead>>
    BY <1>1 DEF vars
  <2>2. ProjectionsPerStep' = ProjectionsPerStep /\ ProjectionsNextStep' = ProjectionsNextStep
    BY <2>1, SameSizes
  <2>3. Issued' = Issued /\ \A i : Target(i)' = Target(i)
    BY <2>1, <2>2 DEF Issued, Target, LoadBase
  <2>4. InLoop' = InLoop /\ ReadSlots' = ReadSlots /\ IOWell' = IOWell /\ ReadAhead' = ReadAhead
    BY <2>1, <2>2 DEF InLoop, ReadSlots, IOWell, IO!Failed, ReadAhead, PendingRead
  <2>5. \A k : PendingRead(k)' <=> PendingRead(k)
    BY <2>1 DEF PendingRead
  <2>6. ReadsInOrder => ReadsInOrder'
    <3>1. SameReads
      BY <2>1, <2>3, <2>5 DEF SameReads
    <3> QED BY <2>1, <2>3, <3>1, KeepsReads
  <2> QED BY <2>1, <2>3, <2>4, <2>6 DEF ReadOrder
<1> QED BY <1>1, MainReads, WorkerReads, SettleReads DEF Next, Ended

-----------------------------------------------------------------------------

(* The beam power corrections of a group have been sent.                   *)
AfterCorrect == {"swapFiltered"} \cup HasFiltered

(* A worker with no projection in the group transforms none; a             *)
(* transformation reads and writes one image each, and never writes the    *)
(* input; beam power is corrected only when the job says so; a projection  *)
(* to be applied is filtered.                                              *)
Shape(t, m) ==
  /\ m.op \in Transforms \cup {"await"} => t < ProjectionsThisStep
  /\ m.op \in Transforms => \E k0, k1 \in Kinds :
       m.from = {Active(k0, t)} /\ m.to = {Active(k1, t)} /\ k1 # job.source
  /\ m.op = "beamPower" => job.beamPower /\ main \in AfterCorrect
  /\ m.op = "apply" => \E k \in Threads : m.from = {Active("filtered", k)}

(* All messages have this shape.                                           *)
Shaped == \A t \in Threads : \A j \in 1 .. Len(box[t]) : Shape(t, box[t][j])

(* The workers of the group have been sent one message each, m[t].         *)
OneSent(m) ==
  /\ box' \in [Threads -> Seq(Messages)]
  /\ \A t \in Threads :
       /\ Keeps(t)
       /\ Len(box[t]) \in Nat
       /\ IF t < ProjectionsThisStep
          THEN Len(box'[t]) = Len(box[t]) + 1 /\ box'[t][Len(box[t]) + 1] = m[t]
          ELSE box'[t] = box[t]

(* What sends them so: the filter, the beam power correction and the       *)
(* waits.                                                                  *)
LEMMA SendsOne ==
  ASSUME Types, NEW m \in [Threads -> Messages],
         box' = [t \in Threads |-> IF t < ProjectionsThisStep THEN Append(box[t], m[t]) ELSE box[t]]
  PROVE  OneSent(m)
<1>1. \A t \in Threads : Len(box[t]) \in Nat
  BY LenProperties DEF Types
<1>2. /\ box' \in [Threads -> Seq(Messages)]
      /\ \A t \in Threads :
           IF t < ProjectionsThisStep
           THEN /\ Len(box'[t]) = Len(box[t]) + 1
                /\ \A j \in 1 .. Len(box[t]) : box'[t][j] = box[t][j]
                /\ box'[t][Len(box[t]) + 1] = m[t]
           ELSE box'[t] = box[t]
  BY Sending
<1> QED BY <1>1, <1>2 DEF OneSent, Keeps

LEMMA FilterSent ==
  ASSUME Types, Filter
  PROVE  \E m \in [Threads -> Messages] :
           /\ OneSent(m)
           /\ \A t \in Threads : m[t].op = "filter" /\ m[t].from = {Active("attenuation", t)} /\ m[t].to = {Active("filtered", t)}
<1> DEFINE m == [t \in Threads |-> Transform("filter", Active("attenuation", t), Active("filtered", t))]
<1>1. m \in [Threads -> Messages]
  BY MessageTypes DEF Kinds, Ops
<1>2. box' = [t \in Threads |-> IF t < ProjectionsThisStep THEN Append(box[t], m[t]) ELSE box[t]]
  BY DEF Send, Filter
<1>3. \A t \in Threads : m[t].op = "filter" /\ m[t].from = {Active("attenuation", t)} /\ m[t].to = {Active("filtered", t)}
  BY DEF Transform, Message
<1> HIDE DEF m
<1> QED BY <1>1, <1>2, <1>3, SendsOne

LEMMA CorrectSent ==
  ASSUME Types, CorrectBeamPower
  PROVE  \E m \in [Threads -> Messages] :
           /\ OneSent(m)
           /\ \A t \in Threads : m[t].op = "beamPower" /\ m[t].from = {Active("attenuation", t)} /\ m[t].to = {Active("attenuation", t)}
<1> DEFINE m == [t \in Threads |-> Transform("beamPower", Active("attenuation", t), Active("attenuation", t))]
<1>1. m \in [Threads -> Messages]
  BY MessageTypes DEF Kinds, Ops
<1>2. box' = [t \in Threads |-> IF t < ProjectionsThisStep THEN Append(box[t], m[t]) ELSE box[t]]
  BY DEF Send, CorrectBeamPower
<1>3. \A t \in Threads : m[t].op = "beamPower" /\ m[t].from = {Active("attenuation", t)} /\ m[t].to = {Active("attenuation", t)}
  BY DEF Transform, Message
<1> HIDE DEF m
<1> QED BY <1>1, <1>2, <1>3, SendsOne

LEMMA AwaitsSentOne ==
  ASSUME Types, NEW kind, AwaitsSent(kind)
  PROVE  \E m \in [Threads -> Messages] :
           /\ OneSent(m)
           /\ \A t \in Threads : t < ProjectionsThisStep =>
                m[t].op = "await" /\ m[t].awaits = {Active(kind, t)'} /\ m[t].to = {}
<1> DEFINE m == [t \in Threads |-> IF t < ProjectionsThisStep THEN box'[t][Len(box[t]) + 1] ELSE Plain("barrier")]
<1>1. \A t \in Threads : box[t] \in Seq(Messages) /\ Len(box[t]) \in Nat /\ box'[t] \in Seq(Messages)
  BY LenProperties DEF Types, AwaitsSent
<1>2. ASSUME NEW t \in Threads, t < ProjectionsThisStep
      PROVE  box'[t][Len(box[t]) + 1] \in Messages
  <2>1. Len(box[t]) + 1 \in 1 .. Len(box'[t])
    BY <1>1, <1>2 DEF AwaitsSent
  <2> QED BY <1>1, <2>1, ElementOfSeq
<1>3. m \in [Threads -> Messages]
  BY <1>2, MessageTypes DEF Ops
<1>4. OneSent(m)
  BY <1>1, AwaitsKeep DEF OneSent, AwaitsSent
<1>5. \A t \in Threads : t < ProjectionsThisStep =>
                m[t].op = "await" /\ m[t].awaits = {Active(kind, t)'} /\ m[t].to = {}
  <2> SUFFICES ASSUME NEW t \in Threads, t < ProjectionsThisStep
               PROVE  m[t].op = "await" /\ m[t].awaits = {Active(kind, t)'} /\ m[t].to = {}
    OBVIOUS
  <2>1. m[t] = Await(Active(kind, t))'
    BY DEF AwaitsSent
  <2> QED BY <2>1 DEF Await, Message
<1> HIDE DEF m
<1> QED BY <1>3, <1>4, <1>5

(* The workers of the group have been sent a conversion, and perhaps a     *)
(* repair.                                                                 *)
ConvertedOnes(t) ==
  LET n == Len(box[t])
  IN /\ n \in Nat
     /\ Keeps(t)
     /\ IF t < ProjectionsThisStep
        THEN /\ Len(box'[t]) \in {n + 1, n + 2}
             /\ \A j \in n + 1 .. Len(box'[t]) :
                  /\ box'[t][j].op = (IF j = n + 1 THEN "convert" ELSE "badPixels")
                  /\ box'[t][j].from = {Active(IF j = n + 1 THEN "raw" ELSE "attenuation", t)}
                  /\ box'[t][j].to = {Active("attenuation", t)}
        ELSE box'[t] = box[t]

(* What Convert sends.                                                     *)
LEMMA ConvertSent ==
  ASSUME Types, Convert
  PROVE  box' \in [Threads -> Seq(Messages)] /\ \A t \in Threads : ConvertedOnes(t)
<1> DEFINE x(t) == Transform("convert", Active("raw", t), Active("attenuation", t))
           y(t) == Transform("badPixels", Active("attenuation", t), Active("attenuation", t))
<1>1. \A t \in Threads : box[t] \in Seq(Messages) /\ Len(box[t]) \in Nat
  BY LenProperties DEF Types
<1>2. ASSUME NEW t \in Threads
      PROVE  x(t) \in Messages /\ y(t) \in Messages
  BY <1>2, MessageTypes DEF Kinds, Ops
<1>3. ASSUME NEW t \in Threads
      PROVE  /\ x(t).op = "convert" /\ x(t).from = {Active("raw", t)} /\ x(t).to = {Active("attenuation", t)}
             /\ y(t).op = "badPixels" /\ y(t).from = {Active("attenuation", t)} /\ y(t).to = {Active("attenuation", t)}
  BY <1>3 DEF Transform, Message
<1>4. ASSUME NEW t \in Threads
      PROVE  box'[t] = IF t >= ProjectionsThisStep THEN box[t]
                       ELSE IF job.badPixels THEN box[t] \o <<x(t), y(t)>>
                       ELSE Append(box[t], x(t))
  BY <1>4 DEF Convert
<1>6. ProjectionsThisStep \in Int
  BY DEF ProjectionsThisStep, ProjectionsPerStep, Lesser, Types
<1> HIDE DEF x, y
<1>7. ASSUME NEW t \in Threads
      PROVE  ConvertedOnes(t)
  <2> DEFINE n == Len(box[t])
  <2>0. t \in Int /\ n \in Nat
    BY <1>1 DEF Threads
  <2>1. CASE t >= ProjectionsThisStep
    <3>1. box'[t] = box[t]
      BY <2>1, <1>4
    <3>2. ~(t < ProjectionsThisStep)
      BY <2>0, <2>1, <1>6
    <3> QED BY <3>1, <3>2, <1>1 DEF ConvertedOnes, Keeps
  <2>2. CASE ~(t >= ProjectionsThisStep) /\ job.badPixels
    <3>1. box'[t] = box[t] \o <<x(t), y(t)>>
      BY <1>4, <2>2
    <3>2. /\ Len(box'[t]) = n + 2
          /\ \A j \in 1 .. n : box'[t][j] = box[t][j]
          /\ box'[t][n + 1] = x(t)
          /\ box'[t][n + 2] = y(t)
      BY <3>1, <1>1, <1>2, AppendedTwo
    <3>3. t < ProjectionsThisStep /\ n + 1 # n + 2
      BY <2>0, <2>2, <1>6
    <3>4. \A j \in n + 1 .. Len(box'[t]) : j = n + 1 \/ j = n + 2
      BY <2>0, <3>2
    <3>5. Keeps(t)
      BY <2>0, <3>2 DEF Keeps
    <3> QED BY <2>0, <3>2, <3>3, <3>4, <3>5, <1>3 DEF ConvertedOnes
  <2>3. CASE ~(t >= ProjectionsThisStep) /\ ~job.badPixels
    <3>1. box'[t] = Append(box[t], x(t))
      BY <1>4, <2>3
    <3>2. /\ Len(box'[t]) = n + 1
          /\ \A j \in 1 .. n : box'[t][j] = box[t][j]
          /\ box'[t][n + 1] = x(t)
      BY <3>1, <1>1, <1>2, AppendProperties
    <3>3. t < ProjectionsThisStep
      BY <2>0, <2>3, <1>6
    <3>4. \A j \in n + 1 .. Len(box'[t]) : j = n + 1
      BY <2>0, <3>2
    <3>5. Keeps(t)
      BY <2>0, <3>2 DEF Keeps
    <3> QED BY <2>0, <3>2, <3>3, <3>4, <3>5, <1>3 DEF ConvertedOnes
  <2> QED BY <2>1, <2>2, <2>3
<1>8. box' \in [Threads -> Seq(Messages)]
  BY ConvertStep DEF TransformsSent
<1> QED BY <1>7, <1>8

(* Main does not swap buffers the workers have been told of.               *)
LEMMA ToldSides ==
  ASSUME Control, Main, NEW kind \in Kinds, Told(kind)
  PROVE  side'[kind] = side[kind]
<1> USE DEF Control
<1>1. CASE SwapAttenuation
  <2>1. main = "swapAttenuation" /\ side' = [side EXCEPT !["attenuation"] = Other(side["attenuation"])]
        /\ job.source # "attenuation"
    BY <1>1, JobFacts DEF SwapAttenuation, SwapOutput, Swap, Scheduled
  <2> QED BY <2>1 DEF Told, Types
<1>2. CASE SwapInput
  <2>1. main = "swapInput" /\ side' = [side EXCEPT ![job.source] = Other(side[job.source])]
    BY <1>2 DEF SwapInput, Swap
  <2> QED BY <2>1 DEF Told, Types
<1>3. CASE SwapFiltered
  <2>1. main = "swapFiltered" /\ side' = [side EXCEPT !["filtered"] = Other(side["filtered"])]
        /\ job.source # "filtered"
    BY <1>3, JobFacts DEF SwapFiltered, SwapOutput, Swap, Scheduled
  <2> QED BY <2>1 DEF Told, Types
<1> QED BY <1>1, <1>2, <1>3, MainMoves DEF NextGroup

(* The shape of what main sends, at the time of sending.                   *)
Sent(t, m) ==
  /\ m.op \in Transforms \cup {"await"} => t < ProjectionsThisStep
  /\ m.op \in Transforms => main \in {"convert", "correct", "filter"}
  /\ m.op \in Transforms => \E k0, k1 \in Kinds :
       m.from = {Active(k0, t)'} /\ m.to = {Active(k1, t)'} /\ k1 # job.source
  /\ m.op = "beamPower" => main = "correct" /\ main' = FromSwap
  /\ m.op = "apply" => \E k \in Threads : m.from = {Active("filtered", k)'}

(* Main adds messages of such a shape to the boxes.                        *)
Adds ==
  /\ box' \in [Threads -> Seq(Messages)]
  /\ \A t \in Threads : Keeps(t) /\ \A j \in Len(box[t]) + 1 .. Len(box'[t]) : Sent(t, box'[t][j])

(* So do all its steps that send anything.                                 *)
LEMMA AddsNothing ==
  ASSUME Types, UNCHANGED box
  PROVE  Adds
BY SameBoxes DEF Types, Adds

LEMMA AddsAwaits ==
  ASSUME Types, NEW kind, AwaitsSent(kind)
  PROVE  Adds
<1>1. PICK m \in [Threads -> Messages] :
           /\ OneSent(m)
           /\ \A t \in Threads : t < ProjectionsThisStep => m[t].op = "await"
  BY AwaitsSentOne
<1>2. ASSUME NEW t \in Threads, NEW j \in Len(box[t]) + 1 .. Len(box'[t])
      PROVE  t < ProjectionsThisStep /\ box'[t][j] = m[t]
  BY <1>1, <1>2 DEF OneSent
<1>3. \A t \in Threads : \A j \in Len(box[t]) + 1 .. Len(box'[t]) : Sent(t, box'[t][j])
  BY <1>1, <1>2 DEF Sent, Transforms
<1> QED BY <1>1, <1>3 DEF Adds, OneSent

LEMMA AddsTransforms ==
  ASSUME Control, Convert \/ CorrectBeamPower \/ Filter
  PROVE  Adds
<1> USE DEF Control
<1>1. CASE Convert
  <2>1. UNCHANGED <<side, job>> /\ main = "convert"
    BY <1>1 DEF Convert, mainVars
  <2>2. job.source # "attenuation"
    BY <2>1 DEF Scheduled
  <2>3. ASSUME NEW t \in Threads, NEW j \in Len(box[t]) + 1 .. Len(box'[t])
        PROVE  Sent(t, box'[t][j])
    <3>1. t < ProjectionsThisStep
      BY <1>1, <2>3, ConvertSent DEF ConvertedOnes
    <3>2. box'[t][j].op \in {"convert", "badPixels"}
      BY <1>1, <2>3, <3>1, ConvertSent DEF ConvertedOnes
    <3>3. \E k0 \in Kinds : box'[t][j].from = {Active(k0, t)}
      BY <1>1, <2>3, <3>1, ConvertSent DEF ConvertedOnes, Kinds
    <3>4. box'[t][j].to = {Active("attenuation", t)}
      BY <1>1, <2>3, <3>1, ConvertSent DEF ConvertedOnes
    <3> QED BY <2>1, <2>2, <3>1, <3>2, <3>3, <3>4 DEF Sent, Active, Kinds
  <2> QED BY <1>1, <2>3, ConvertSent DEF Adds, ConvertedOnes
<1>2. ASSUME NEW op \in {"beamPower", "filter"}, NEW to \in {"attenuation", "filtered"}, NEW m \in [Threads -> Messages],
             OneSent(m), UNCHANGED side, main \in {"correct", "filter"}, op = "beamPower" => main = "correct" /\ main' = FromSwap, job.source # to,
             \A t \in Threads : m[t].op = op /\ m[t].from = {Active("attenuation", t)} /\ m[t].to = {Active(to, t)}
      PROVE  Adds
  <2>1. ASSUME NEW t \in Threads, NEW j \in Len(box[t]) + 1 .. Len(box'[t])
        PROVE  t < ProjectionsThisStep /\ box'[t][j] = m[t]
    BY <1>2, <2>1 DEF OneSent
  <2>2. \A t \in Threads : \A j \in Len(box[t]) + 1 .. Len(box'[t]) : Sent(t, box'[t][j])
    BY <1>2, <2>1 DEF Sent, Active, Kinds
  <2> QED BY <1>2, <2>2 DEF Adds, OneSent
<1>3. CASE CorrectBeamPower
  <2>1. UNCHANGED side /\ main = "correct" /\ main' = FromSwap /\ job.source # "attenuation"
    BY <1>3, JobFacts, PhaseOrder DEF CorrectBeamPower, mainVars, Scheduled
  <2> QED BY <1>2, <1>3, <2>1, CorrectSent
<1>4. CASE Filter
  <2>1. UNCHANGED side /\ main = "filter" /\ job.source # "filtered"
    BY <1>4, JobFacts DEF Filter, mainVars, Scheduled, Filters
  <2> QED BY <1>2, <1>4, <2>1, FilterSent
<1> QED BY <1>1, <1>3, <1>4

LEMMA AddsPlain ==
  ASSUME Control, Create \/ Synchronize \/ WriteVolume
  PROVE  Adds
<1> USE DEF Control
<1>1. \A op \in Setups \cup {"barrier", "writeVolume"} : Plain(op).op = op /\ op \notin Transforms \cup {"await", "apply", "beamPower"}
  BY DEF Plain, Message, Setups, Transforms
<1>2. \A op \in Setups \cup {"barrier", "writeVolume"}, t \in Threads : Sent(t, Plain(op))
  BY <1>1 DEF Sent
<1>3. \A t \in Threads : Len(box[t]) \in Nat
  BY LenProperties DEF Types
<1>4. CASE Create
  <2>1. SetupsSent /\ \A t \in Threads : box[t] = <<>>
    BY <1>4, CreateStep, IdleIsEmpty DEF Create, Filling, Applying
  <2>2. \A t \in Threads : Len(box'[t]) \in Nat
    BY <2>1, LenProperties DEF SetupsSent
  <2> QED BY <1>2, <2>1, <2>2 DEF SetupsSent, Adds, Keeps
<1>5. CASE Synchronize
  <2>1. BarriersSent
    BY <1>5, SynchronizeStep
  <2>2. \A t \in Threads : \A j \in Len(box[t]) + 1 .. Len(box'[t]) : j = Len(box[t]) + 1
    BY <1>3, <2>1 DEF BarriersSent
  <2> QED BY <1>2, <1>3, <2>1, <2>2 DEF BarriersSent, Adds, Keeps
<1>6. CASE WriteVolume
  <2>1. /\ box' \in [Threads -> Seq(Messages)]
        /\ pp \in Threads
        /\ \A t \in Threads \ {pp} : box'[t] = <<>>
        /\ Len(box'[pp]) = 2
        /\ box'[pp][1] = Plain("writeVolume")
        /\ box'[pp][2] = Plain("barrier")
    BY <1>6, WriteVolumeStep
  <2>2. \A t \in Threads : box[t] = <<>>
    BY <1>6, IdleIsEmpty DEF WriteVolume, Filling, Applying
  <2>3. \A t \in Threads : Keeps(t) /\ Len(box[t]) = 0
    BY <2>1, <2>2 DEF Keeps
  <2>4. ASSUME NEW t \in Threads, NEW j \in Len(box[t]) + 1 .. Len(box'[t])
        PROVE  Sent(t, box'[t][j])
    <3>0. t # pp => Len(box'[t]) = 0
      BY <2>1
    <3>01. j \in 1 .. Len(box'[t])
      BY <2>3, <2>4
    <3>02. t = pp
      BY <3>0, <3>01
    <3>03. j \in 1 .. 2
      BY <3>01, <3>02, <2>1
    <3>1. t = pp /\ j \in {1, 2}
      BY <3>02, <3>03
    <3> QED BY <1>2, <2>1, <3>1
  <2> QED BY <2>1, <2>3, <2>4 DEF Adds
<1> QED BY <1>4, <1>5, <1>6

LEMMA AddsApplies ==
  ASSUME Control, ApplyProjections
  PROVE  Adds
<1> USE DEF Control
<1>1. AppliesSent /\ UNCHANGED side /\ main = "apply"
  BY ApplyStep DEF ApplyProjections, mainVars
<1>2. \A t \in Threads : box[t] = <<>>
  BY <1>1, IdleIsEmpty DEF Filling, Applying
<1>3. \A t \in Threads : Len(box[t]) = 0 /\ Keeps(t)
  BY <1>1, <1>2, LenProperties DEF Keeps, AppliesSent
<1>4. ASSUME NEW t \in Threads, NEW j \in Len(box[t]) + 1 .. Len(box'[t])
      PROVE  Sent(t, box'[t][j])
  <2>1. j \in 1 .. Len(box'[t]) /\ Len(box'[t]) <= ProjectionsThisStep /\ Len(box'[t]) \in Nat
    BY <1>1, <1>3, <1>4, LenProperties DEF AppliesSent
  <2>2. j - 1 \in Threads
    <3>1. p < NumberOfProjections
      BY <1>1 DEF Scheduled, Turn
    <3>2. /\ ProjectionsPerStep \in 1 .. NumberOfThreads
          /\ ProjectionsThisStep \in 1 .. ProjectionsPerStep
      BY <3>1, Sizes
    <3> QED BY <2>1, <3>2 DEF Threads
  <2>3. box'[t][j] = Apply(Active("filtered", j - 1), p + j)
    BY <1>1, <2>1 DEF AppliesSent
  <2>4. box'[t][j].op = "apply" /\ box'[t][j].from = {Active("filtered", j - 1)'}
    BY <1>1, <2>3 DEF Apply, Message, Active
  <2> QED BY <2>2, <2>4 DEF Sent, Transforms
<1> QED BY <1>1, <1>3, <1>4 DEF AppliesSent, Adds

(* At a barrier the boxes are emptied.                                     *)
Empties == \A t \in Threads : box'[t] = <<>>

(* Each step of main does one or the other.                                *)
LEMMA MainSends ==
  ASSUME Control, Main
  PROVE  (Empties /\ (Barrier \/ BarrierVolume)) \/ Adds
<1> USE DEF Control
<1>1. CASE SwapAttenuation \/ SwapFiltered
  <2>1. PICK kind \in Kinds : SwapOutput(kind) /\ job' = job
    BY <1>1 DEF SwapAttenuation, SwapFiltered, Kinds
  <2> QED BY <2>1, SwapStep, AddsAwaits, AddsNothing
<1>2. CASE RequestNext
  <2>1. CASE UNCHANGED box
    BY <2>1, AddsNothing
  <2>2. CASE Send(ProjectionsThisStep, LAMBDA k : Await(Active(job.source, k))) /\ UNCHANGED <<job, side>>
    BY <2>2, RequestedAllStep, AddsAwaits
  <2> QED BY <1>2, <2>1, <2>2 DEF RequestNext, Request, EndRequests
<1>3. CASE Convert \/ CorrectBeamPower \/ Filter
  BY <1>3, AddsTransforms
<1>4. CASE Create \/ Synchronize \/ WriteVolume
  BY <1>4, AddsPlain
<1>5. CASE ApplyProjections
  BY <1>5, AddsApplies
<1>6. CASE Barrier \/ BarrierVolume
  BY <1>6, BarrierControl, BarrierVolumeControl DEF Empties
<1>7. CASE FirstRequests \/ SwapInput \/ SetReference \/ Check \/ WriteAttenuation
           \/ WriteFiltered \/ NextGroup \/ WaitForCompletion \/ CountRequests \/ Leave
  <2>1. UNCHANGED box
    BY <1>7 DEF FirstRequests, SwapInput, SetReference, Check,
       WriteAttenuation,
       WriteFiltered, NextGroup, WaitForCompletion, CountRequests, Leave, Request, EndRequests, MainThrows
  <2> QED BY <2>1, AddsNothing
<1> QED BY <1>1, <1>2, <1>3, <1>4, <1>5, <1>6, <1>7 DEF Main

(* Main sends messages of this shape.                                      *)
LEMMA MainKeepsShape ==
  ASSUME Control, Control', Shaped, Main
  PROVE  Shaped'
<1> USE DEF Control
<1>1. CASE Empties
  <2>1. \A t \in Threads : Len(box'[t]) = 0
    BY <1>1 DEF Empties
  <2> QED BY <2>1 DEF Shaped
<1>2. CASE NextGroup
  <2>1. \A t \in Threads : Len(box'[t]) = 0
    BY <1>2, IdleIsEmpty DEF NextGroup, Filling, Applying
  <2> QED BY <2>1 DEF Shaped
<1>3. CASE Adds /\ ~NextGroup
  <2>1. UNCHANGED <<job, p>>
    BY <1>3, MainMoves DEF SwapAttenuation, SwapInput, SwapFiltered
  <2>2. ProjectionsThisStep' = ProjectionsThisStep
    BY <2>1, SameSizes
  <2>3. SUFFICES ASSUME NEW t \in Threads, NEW j \in 1 .. Len(box'[t])
                 PROVE  Shape(t, box[t][j])'
    BY DEF Shaped
  <2>4. Fits(t, j, box[t][j])' /\ Len(box[t]) \in Nat /\ Len(box'[t]) \in Nat
    BY LenProperties DEF Boxes, Types
  <2>40. PICK m : m = box'[t][j]
    OBVIOUS
  <2>5. m.op = "beamPower" => main' \in Filling
    BY <2>4, <2>40 DEF Fits, Transforms
  <2>6. main \in AfterCorrect /\ main' \in Filling => main' \in AfterCorrect
    <3>1. SUFFICES ASSUME main \in AfterCorrect, main' \in Filling PROVE main' \in AfterCorrect
      OBVIOUS
    <3>2. CASE SwapAttenuation \/ SwapInput
      BY <3>1, <3>2 DEF SwapAttenuation, SwapInput, AfterCorrect
    <3>3. CASE SwapFiltered
      BY <3>3, PhaseOrder DEF SwapFiltered, AfterCorrect, FromFilter
    <3>4. CASE Move
      <4>1. main' \notin Ending
        BY <3>1 DEF Filling, Ending
      <4> QED BY <3>1, <3>4, <4>1 DEF Move, AfterCorrect, FirstPhase, FromSwap,
                 FromFilter, FromApply, FromWrite, FromCheck, Filling
    <3> QED BY <1>3, <3>2, <3>3, <3>4, MainMoves
  <2>7. CASE j \in 1 .. Len(box[t])
    <3>1. m = box[t][j] /\ Fits(t, j, m) /\ Shape(t, m)
      BY <1>3, <2>7, <2>40 DEF Adds, Keeps, Boxes, Shaped
    <3>2. ASSUME NEW k0 \in Kinds, NEW k1 \in Kinds, m.op \in Transforms,
                 m.from = {Active(k0, t)}, m.to = {Active(k1, t)}
          PROVE  m.from = {Active(k0, t)'} /\ m.to = {Active(k1, t)'}
      <4>1. Told(k0) /\ Told(k1)
        BY <3>1, <3>2 DEF Fits, Active
      <4>2. side'[k0] = side[k0] /\ side'[k1] = side[k1]
        BY <4>1, ToldSides
      <4> QED BY <3>2, <4>2 DEF Active
    <3>3. ASSUME NEW k \in Threads, m.op = "apply", m.from = {Active("filtered", k)}
          PROVE  m.from = {Active("filtered", k)'}
      <4>1. main \in Applying /\ main # "crashed"
        BY <3>1, <3>3, MainRuns DEF Fits
      <4>2. Told("filtered")
        BY <4>1 DEF Applying, Told
      <4>3. side'["filtered"] = side["filtered"]
        BY <4>2, ToldSides DEF Kinds
      <4> QED BY <3>3, <4>3 DEF Active
    <3>4. m.op \in Transforms => \E k0, k1 \in Kinds :
            m.from = {Active(k0, t)'} /\ m.to = {Active(k1, t)'} /\ k1 # job'.source
      BY <2>1, <3>1, <3>2 DEF Shape
    <3> QED BY <2>1, <2>2, <2>40, <2>5, <2>6, <3>1, <3>3, <3>4 DEF Shape
  <2>8. CASE j \in Len(box[t]) + 1 .. Len(box'[t])
    <3>1. Sent(t, m)
      BY <1>3, <2>8, <2>40 DEF Adds
    <3>2. m.op = "beamPower" => job.beamPower /\ main' \in AfterCorrect
      BY <3>1 DEF Sent, Scheduled, FromSwap, FromFilter, AfterCorrect
    <3> QED BY <2>1, <2>2, <2>40, <2>5, <2>6, <3>1, <3>2 DEF Sent, Shape, Active
  <2> QED BY <2>4, <2>7, <2>8
<1> QED BY <1>1, <1>2, <1>3, MainSends

(* All messages always have it.                                            *)
LEMMA NextShaped ==
  ASSUME Control, Control', Shaped, [Next]_vars
  PROVE  Shaped'
<1> USE DEF Control
<1>1. CASE Main
  BY <1>1, MainKeepsShape
<1>2. ASSUME NEW t \in Threads, Worker(t)
      PROVE  Shaped'
  <2>1. UNCHANGED <<job, p, side>> /\ ProjectionsThisStep' = ProjectionsThisStep
    BY <1>2, WorkerFacts, SameSizes
  <2>2. \A u \in Threads : \A j \in 1 .. Len(box'[u]) : \E l \in 1 .. Len(box[u]) : box'[u][j] = box[u][l]
    <3>1. CASE UNCHANGED box
      BY <3>1
    <3>2. CASE box[t] # <<>> /\ box' = [box EXCEPT ![t] = Tail(box[t])]
      BY <3>2, PopStep
    <3> QED BY <1>2, <3>1, <3>2, WorkerStep
  <2>3. ASSUME NEW u \in Threads, NEW j \in 1 .. Len(box'[u])
        PROVE  Shape(u, box[u][j])'
    <3>1. PICK l \in 1 .. Len(box[u]) : box'[u][j] = box[u][l]
      BY <2>2
    <3>2. Shape(u, box[u][l])
      BY <3>1 DEF Shaped
    <3>20. Fits(u, j, box[u][j])'
      BY <3>1 DEF Boxes
    <3>3. box'[u][j].op = "beamPower" => main' # "crashed"
      BY <3>20 DEF Fits, Filling, Transforms
    <3> QED BY <1>2, <2>1, <3>1, <3>2, <3>3, WorkerCrash DEF Shape, Active
  <2> QED BY <2>3 DEF Shaped
<1>3. ASSUME UNCHANGED <<job, p, side, main, box>>
      PROVE  Shaped'
  <2>1. ProjectionsThisStep' = ProjectionsThisStep
    BY <1>3, SameSizes
  <2> QED BY <1>3, <2>1 DEF Shaped, Shape, Active
<1> QED BY <1>1, <1>2, <1>3, SettleData, SettleStep DEF Next, Ended, vars, mainVars

(* The types of the data.                                                  *)
DataTypes ==
  /\ job \in Jobs
  /\ p <= NumberOfProjections + NumberOfThreads
  /\ pp <= NumberOfThreads
  /\ exception \in [Threads -> Ops \cup {"none"}]
  /\ ready \in [Threads -> SUBSET (Setups \cup {"nullVolume"})]
  /\ content \in [Images -> Projections]
  /\ reference \in Projections
  /\ volume \in [Threads -> Seq(Projections \X Projections)]
  /\ file \in [Kinds -> Seq(Projections)]
  /\ volumeFile \in Seq(Seq(Projections \X Projections))
  /\ mainFailed \in BOOLEAN
  /\ \A i \in Images : loan[i] <= Len(fate)

(* No step changes them.                                                   *)
LEMMA MainTypes ==
  ASSUME Control, Control', DataTypes, Main
  PROVE  DataTypes'
<1> USE DEF Control
<1>1. job' = job
  BY MainMoves DEF SwapAttenuation, SwapInput, SwapFiltered, NextGroup
<1>2. p' <= NumberOfProjections + NumberOfThreads
  <2>1. CASE NextGroup
    BY <2>1, Sizes DEF NextGroup, Scheduled, Types
  <2>2. CASE ~NextGroup
    BY <2>2, MainMoves DEF SwapAttenuation, SwapInput, SwapFiltered, DataTypes
  <2> QED BY <2>1, <2>2
<1>3. pp' <= NumberOfThreads
  <2>1. CASE ReadRequested \/ \E kind \in {"attenuation", "filtered"} : WriteRequested(kind)
    <3>1. pp \in Threads /\ pp' = pp + 1
      BY <2>1, RequestedImages DEF ReadRequested, WriteRequested, Request
    <3> QED BY <3>1 DEF Threads
  <2>2. CASE BarrierVolume
    BY <2>2 DEF BarrierVolume, Scheduled, Types
  <2>3. CASE FirstRequests \/ RequestNext \/ WriteAttenuation \/ WriteFiltered
    BY <2>1, <2>3 DEF FirstRequests, RequestNext, WriteAttenuation, WriteFiltered,
       ReadRequested, WriteRequested,
       EndRequests
  <2>4. CASE UNCHANGED pp
    BY <2>4 DEF DataTypes
  <2> QED BY <2>2, <2>3, <2>4 DEF Main, Create, SwapAttenuation, SwapInput, Convert,
             Synchronize, Barrier,
       SetReference, CorrectBeamPower, SwapFiltered, Filter, Check,
       ApplyProjections, NextGroup, WaitForCompletion, CountRequests, WriteVolume, Leave, MainThrows, mainVars
<1>4. UNCHANGED <<exception, ready, content, volume, file, volumeFile>>
  BY MainFacts
<1>5. reference' \in Projections
  <2>1. CASE SetReference
    <3>1. Active("attenuation", 0) \in Images
      BY MessageTypes DEF Threads, Kinds
    <3> QED BY <2>1, <3>1 DEF SetReference, MainThrows, dataVars, DataTypes
  <2> QED BY <2>1, MainFacts DEF DataTypes
<1>6. mainFailed' \in BOOLEAN
  BY MainFacts DEF DataTypes
<1>7. ASSUME NEW i \in Images
      PROVE  loan'[i] <= Len(fate')
  <2>1. CASE UNCHANGED <<fate, loan>>
    BY <2>1 DEF DataTypes
  <2>2. ASSUME NEW op \in {"read", "write"}, NEW j \in Images, Request(op, j)
        PROVE  loan'[i] <= Len(fate')
    <3>1. Len(fate') = Len(fate) + 1 /\ loan' = [loan EXCEPT ![j] = Len(fate) + 1]
      BY <2>2, RequestStep
    <3>11. Len(fate) \in Nat
      BY LenProperties DEF Types
    <3>2. loan \in [Images -> Nat] /\ loan[i] <= Len(fate)
      BY DEF Types, DataTypes
    <3> QED BY <3>1, <3>11, <3>2
  <2>3. CASE Leave
    <3>1. loan' = loan /\ DOMAIN fate' = DOMAIN fate
      BY <2>3 DEF Leave, IO!Close
    <3>2. Len(fate') = Len(fate)
      BY <3>1, LenProperties DEF Types
    <3> QED BY <3>1, <3>2 DEF DataTypes
  <2> QED BY <2>1, <2>2, <2>3, MainIO, RequestedImages DEF ReadRequested, WriteRequested
<1> QED BY <1>1, <1>2, <1>3, <1>4, <1>5, <1>6, <1>7 DEF DataTypes

LEMMA WorkerTypes ==
  ASSUME Control, Shaped, DataTypes, NEW t \in Threads, Worker(t)
  PROVE  DataTypes'
<1> USE DEF Control
<1> DEFINE m == Head(box[t])
<1>1. UNCHANGED <<job, p, pp, fate, file, mainFailed, reference>>
  BY WorkerFacts
<1>2. box[t] # <<>> /\ m \in Messages
  BY WorkerStep, Taking, AwaitTypes
<1>3. \A i \in Images : loan'[i] <= Len(fate')
  <2>1. CASE UNCHANGED loan
    BY <1>1, <2>1 DEF DataTypes
  <2>2. ASSUME NEW i \in Images, loan' = [loan EXCEPT ![i] = 0]
        PROVE  \A j \in Images : loan'[j] <= Len(fate')
    BY <1>1, <2>2, LenProperties DEF DataTypes, Types
  <2>3. \A kind \in Kinds : Active(kind, t) \in Images
    BY MessageTypes
  <2> QED BY <2>1, <2>2, <2>3, WorkerReleases
<1>4. exception' \in [Threads -> Ops \cup {"none"}]
  <2>1. UNCHANGED exception \/ exception' = [exception EXCEPT ![t] = IF @ = "none" THEN m.op ELSE @]
        \/ exception' = [exception EXCEPT ![t] = IF @ = "none" THEN "allocateVolume" ELSE @]
    BY DEF Worker, Setup, AllocateNothing, AwaitBuffer, TransformImage,
       ApplyProjection, WriteVolumeData, Crash,
       Finish, Throw, workVars
  <2>2. m.op \in Ops /\ "allocateVolume" \in Ops
    BY <1>2 DEF Messages, Ops, Setups
  <2> HIDE DEF m
  <2> QED BY <2>1, <2>2 DEF DataTypes
<1>5. ready' \in [Threads -> SUBSET (Setups \cup {"nullVolume"})]
  <2>1. CASE UNCHANGED ready
    BY <2>1 DEF DataTypes
  <2>2. CASE Setup(t)
    <3>1. PICK op \in Setups : op = Head(box[t]).op
      BY <2>2 DEF Setup, Setups
    <3>2. UNCHANGED ready \/ ready' = [ready EXCEPT ![t] = @ \cup {op}]
      BY <2>2, <3>1 DEF Setup, Throw
    <3>3. ready \in [Threads -> SUBSET (Setups \cup {"nullVolume"})]
      BY DEF DataTypes
    <3>4. ready[t] \cup {op} \in SUBSET (Setups \cup {"nullVolume"})
      BY <3>1, <3>3
    <3> QED BY <3>2, <3>3, <3>4
  <2>3. CASE AllocateNothing(t)
    BY <2>3 DEF DataTypes, AllocateNothing
  <2> QED BY <2>1, <2>2, <2>3 DEF Worker, AwaitBuffer, TransformImage, ApplyProjection,
             WriteVolumeData, Crash,
       Throw, workVars
<1>6. content' \in [Images -> Projections]
  <2>1. CASE TransformImage(t)
    <3>1. PICK i \in m.from, j \in m.to : content' \in {[content EXCEPT ![j] = Result(m, content[i])], [content EXCEPT ![j] = 0]}
      BY <2>1 DEF TransformImage
    <3>2. i \in Images
      BY <1>2 DEF Messages
    <3>3. content[i] \in Projections /\ 0 \in Projections
      BY <3>2 DEF DataTypes, Projections
    <3>4. Result(m, content[i]) \in Projections
      BY <3>3 DEF Result
    <3> QED BY <3>1, <3>3, <3>4 DEF DataTypes
  <2>2. CASE UNCHANGED content
    BY <2>2 DEF DataTypes
  <2> QED BY <2>1, <2>2 DEF Worker, Setup, AllocateNothing, AwaitBuffer,
             ApplyProjection, WriteVolumeData, Crash, dataVars
<1>7. volume' \in [Threads -> Seq(Projections \X Projections)]
  <2>1. CASE ApplyProjection(t)
    <3>1. CASE UNCHANGED volume
      BY <3>1 DEF DataTypes
    <3>2. CASE volume' = [volume EXCEPT ![t] = Append(@, <<content[CHOOSE i \in m.from : TRUE], m.angle>>)]
      <4>1. m.from # {} /\ m.from \subseteq Images /\ m.angle \in Projections
        <5>1. m = box[t][1] /\ 1 \in 1 .. Len(box[t]) /\ m.op = "apply"
          BY <1>2, <2>1, Taking DEF ApplyProjection
        <5>2. m.from # {}
          BY <5>1 DEF Shaped, Shape
        <5> QED BY <1>2, <5>2 DEF Messages
      <4>2. (CHOOSE i \in m.from : TRUE) \in Images
        BY <4>1
      <4>3. <<content[CHOOSE i \in m.from : TRUE], m.angle>> \in Projections \X Projections
        BY <4>1, <4>2 DEF DataTypes
      <4> HIDE DEF m
      <4> QED BY <3>2, <4>3, AppendProperties DEF DataTypes
    <3> QED BY <2>1, <3>1, <3>2 DEF ApplyProjection
  <2>2. CASE UNCHANGED volume
    BY <2>2 DEF DataTypes
  <2> QED BY <2>1, <2>2 DEF Worker, Setup, AllocateNothing, AwaitBuffer,
             TransformImage, WriteVolumeData, Crash, dataVars
<1>8. volumeFile' \in Seq(Seq(Projections \X Projections))
  <2>1. UNCHANGED volumeFile \/ volumeFile' = Append(volumeFile, volume[t])
    BY DEF Worker, Setup, AllocateNothing, AwaitBuffer, TransformImage,
       ApplyProjection, WriteVolumeData, Crash, dataVars
  <2>2. volume[t] \in Seq(Projections \X Projections) /\ volumeFile \in Seq(Seq(Projections \X Projections))
    BY DEF DataTypes
  <2>3. CASE volumeFile' = Append(volumeFile, volume[t])
    BY <2>2, <2>3, AppendProperties
  <2> QED BY <2>1, <2>2, <2>3
<1> QED BY <1>1, <1>3, <1>4, <1>5, <1>6, <1>7, <1>8 DEF DataTypes

LEMMA SettleTypes ==
  ASSUME Control, Requested, ReadOrder, DataTypes, Settle
  PROVE  DataTypes'
<1> USE DEF Control
<1>1. /\ UNCHANGED <<job, p, pp, loan, exception, ready, reference, volume, volumeFile, mainFailed>>
      /\ ~closed
  BY SettleData
<1>2. PICK k \in 1 .. Len(requests) : Oldest(k) /\ (ReadsOne(k) \/ WritesOne(k) \/ FailsOne(k) \/ DropsOne(k))
  BY SettleData
<1>3. PICK i \in Images : i = requests[k].image
  BY RequestTypes
<1>4. i[1] \in Kinds
  BY DEF Images
<1>5. Len(fate') = Len(fate)
  BY <1>2 DEF Oldest
<1>6. ReadsOne(k) => nextRead \in Projections
  BY <1>1, <1>2, OldestRead DEF ReadsOne, IOWell, Projections
<1>7. content' \in [Images -> Projections]
  <2>1. content \in [Images -> Projections] /\ 0 \in Projections
    BY DEF DataTypes, Projections
  <2>2. CASE ReadsOne(k)
    BY <2>1, <2>2, <1>3, <1>6 DEF ReadsOne
  <2>3. CASE WritesOne(k) \/ DropsOne(k)
    BY <2>1, <2>3 DEF WritesOne, DropsOne
  <2>4. CASE FailsOne(k)
    BY <2>1, <2>4, <1>3 DEF FailsOne
  <2> QED BY <1>2, <2>2, <2>3, <2>4
<1>8. file' \in [Kinds -> Seq(Projections)]
  <2>1. file' = file \/ file' = [file EXCEPT ![i[1]] = Append(@, content[i])]
    BY <1>2, <1>3 DEF ReadsOne, WritesOne, FailsOne, DropsOne
  <2>2. Append(file[i[1]], content[i]) \in Seq(Projections)
    BY <1>4, AppendProperties DEF DataTypes
  <2> QED BY <2>1, <2>2 DEF DataTypes
<1> QED BY <1>1, <1>5, <1>7, <1>8 DEF DataTypes

LEMMA NextTypes ==
  ASSUME Control, Control', Requested, ReadOrder, Shaped, DataTypes, [Next]_vars
  PROVE  DataTypes'
<1>1. CASE UNCHANGED vars
  BY <1>1 DEF vars, DataTypes
<1> QED BY <1>1, MainTypes, WorkerTypes, SettleTypes DEF Next, Ended

(* The types, the order of the reads and the shape of the messages are     *)
(* there from the start.                                                   *)
LEMMA InitData ==
  ASSUME Init
  PROVE  ReadOrder /\ Shaped /\ DataTypes
<1>1. /\ job \in Jobs /\ job \in AllowedJobs /\ main = "create" /\ p = 0 /\ pp = 0
      /\ requests = <<>> /\ fate = <<>> /\ nextRead = 1
      /\ \A t \in Threads : box[t] = <<>>
  BY JobsAssumption DEF Init, IO!Init
<1>2. Len(requests) = 0 /\ Len(fate) = 0 /\ 1 .. Len(requests) = {} /\ \A t \in Threads : 1 .. Len(box[t]) = {}
  BY <1>1
<1>3. Issued = 0
  BY <1>1 DEF Issued
<1>4. ReadOrder
  BY <1>1, <1>2, <1>3 DEF ReadOrder, InLoop, ReadSlots, ReadsInOrder, ReadAhead
<1>5. Shaped
  BY <1>2 DEF Shaped
<1>6. DataTypes
  <2>1. /\ exception = [t \in Threads |-> "none"]
        /\ ready = [t \in Threads |-> {}]
        /\ content = [i \in Images |-> 0]
        /\ reference = 0
        /\ volume = [t \in Threads |-> <<>>]
        /\ file = [k \in Kinds |-> <<>>]
        /\ volumeFile = <<>>
        /\ mainFailed = FALSE
        /\ loan = [i \in Images |-> 0]
    BY DEF Init, IO!Init
  <2>2. 0 \in Projections /\ \A S : <<>> \in Seq(S)
    BY EmptySeq DEF Projections
  <2>3. /\ exception \in [Threads -> Ops \cup {"none"}]
        /\ ready \in [Threads -> SUBSET (Setups \cup {"nullVolume"})]
        /\ content \in [Images -> Projections]
        /\ reference \in Projections
        /\ mainFailed \in BOOLEAN
    BY <2>1, <2>2
  <2>4. <<>> \in Seq(Projections \X Projections) /\ <<>> \in Seq(Projections) /\ <<>> \in Seq(Seq(Projections \X Projections))
    BY <2>2
  <2>5. /\ volume \in [Threads -> Seq(Projections \X Projections)]
        /\ file \in [Kinds -> Seq(Projections)]
        /\ volumeFile \in Seq(Seq(Projections \X Projections))
    BY <2>1, <2>4
  <2>6. p <= NumberOfProjections + NumberOfThreads /\ pp <= NumberOfThreads
    BY <1>1
  <2>7. \A i \in Images : loan[i] <= Len(fate)
    BY <1>2, <2>1
  <2> QED BY <1>1, <2>3, <2>5, <2>6, <2>7 DEF DataTypes
<1> QED BY <1>4, <1>5, <1>6

(* The inductive invariant of the types: a read never goes past the last   *)
(* projection because the requests do not, and a transformation stores     *)
(* what it finds.                                                          *)
TypesInOrder == InOrder /\ ReadOrder /\ Shaped /\ DataTypes

(* It always holds.                                                        *)
THEOREM AlwaysTypes == Spec => []TypesInOrder
<1>1. TypesInOrder /\ [Next]_vars => TypesInOrder'
  <2>1. InOrder /\ [Next]_vars => InOrder'
    BY NextControl, NextRequested, NextFresh, NextSheltered, NextInputs, NextOutputs,
     NextMatched
     DEF InOrder
  <2> QED BY <2>1, NextReads, NextShaped, NextTypes DEF TypesInOrder, InOrder
<1>2. Init => TypesInOrder
  BY InitInOrder, InitData DEF TypesInOrder
<1> QED BY <1>1, <1>2, PTL DEF Spec

(* It says all that the type invariant says.                               *)
LEMMA ImpliesTypes ==
  ASSUME TypesInOrder
  PROVE  TypeOK
<1> USE DEF TypesInOrder, InOrder, Control
<1>1. loan \in [Images -> 0 .. Len(fate)]
  <2>1. Len(fate) \in Nat /\ loan \in [Images -> Nat] /\ \A i \in Images : loan[i] <= Len(fate)
    BY LenProperties DEF Types, DataTypes
  <2> QED BY <2>1
<1>2. nextRead \in 1 .. NumberOfProjections + 1
  BY IssuedTypes DEF ReadOrder
<1>3. p \in 0 .. NumberOfProjections + NumberOfThreads /\ pp \in 0 .. NumberOfThreads
  BY DEF Types, DataTypes
<1> QED BY <1>1, <1>2, <1>3 DEF TypeOK, Types, DataTypes, IO!TypeOK

(* Type correctness of the engine: every message, request and image it     *)
(* uses exists, the reader is never asked for more projections than it     *)
(* has, for every number of threads and projections, every job and every   *)
(* failure.                                                                *)
THEOREM EngineTypes == Spec => []TypeOK
BY AlwaysTypes, ImpliesTypes, PTL

-----------------------------------------------------------------------------

(* Image i is still to be read.                                            *)
PendingOn(i) == \E k \in 1 .. Len(requests) : PendingRead(k) /\ requests[k].image = i

(* Image i is one the input's projections have been requested for.         *)
Expected(i) ==
  /\ i[1] = job.source /\ i[2] < ProjectionsPerStep
  /\ main \in Behind => i[3] # side[job.source]
  /\ Target(i) <= Issued

(* An image the reader was asked to fill holds the projection it is meant  *)
(* for, or is still to be read.                                            *)
Loaded ==
  IOWell => \A i \in Images : Expected(i) => content[i] = Target(i) \/ PendingOn(i)

(* Main leaves the beginning of a turn by swapping the input.              *)
LEMMA BehindOn ==
  ASSUME Control, Main, main \in Behind, ~SwapInput
  PROVE  main' \in Behind
<1> USE DEF Control
<1>1. CASE SwapAttenuation
  BY <1>1, PhaseOrder DEF SwapAttenuation, Behind
<1>2. CASE SwapFiltered \/ NextGroup
  BY <1>2 DEF SwapFiltered, NextGroup, Behind
<1>3. Create \/ FirstRequests => main' \in Behind
  BY FirstPhaseIsBehind DEF Create, FirstRequests, Request, EndRequests, Behind
<1>4. ~SwapAttenuation => Create \/ FirstRequests
  BY DEF Main, Create, FirstRequests, SwapAttenuation, SwapInput, RequestNext, Convert,
     Synchronize, Barrier,
     SetReference, CorrectBeamPower, SwapFiltered, Filter, Check, WriteAttenuation, WriteFiltered,
     ApplyProjections, NextGroup, WaitForCompletion, CountRequests, WriteVolume, BarrierVolume, Leave, Behind
<1> QED BY <1>1, <1>3, <1>4

(* Main mends nothing.                                                     *)
LEMMA MainIOWell ==
  ASSUME Control, Requested, Main, IOWell'
  PROVE  IOWell /\ ~Leave
<1>1. ~Leave
  BY DEF Leave, IO!Close, IOWell
<1>2. ~closed
  BY MainRuns DEF Control, Scheduled, Types
<1>3. CASE UNCHANGED <<requests, fate>>
  BY <1>1, <1>2, <1>3 DEF IOWell, IO!Failed
<1>4. CASE ReadRequested
  BY <1>1, <1>2, <1>4, ReadMade DEF IOWell, RequestMade
<1>5. ASSUME NEW kind \in {"attenuation", "filtered"}, WriteRequested(kind)
      PROVE  IOWell
  BY <1>2, <1>5, WriteMade DEF IOWell, RequestMade
<1> QED BY <1>1, <1>3, <1>4, <1>5, MainIO

(* And it takes back no request.                                           *)
LEMMA KeepsPending ==
  ASSUME Control, Requested, Main, ~Leave, NEW i \in Images, PendingOn(i)
  PROVE  PendingOn(i)'
<1>1. PICK k \in 1 .. Len(requests) : PendingRead(k) /\ requests[k].image = i
  BY DEF PendingOn
<1>2. ASSUME NEW op, NEW j, RequestMade(op, j)
      PROVE  k \in 1 .. Len(requests') /\ PendingRead(k)' /\ requests'[k].image = i
  BY <1>1, <1>2 DEF RequestMade, PendingRead
<1>3. k \in 1 .. Len(requests') /\ PendingRead(k)' /\ requests'[k].image = i
  BY <1>1, <1>2, MainIO, ReadMade, WriteMade DEF PendingRead
<1> QED BY <1>3 DEF PendingOn

(* The parts of an image.                                                  *)
LEMMA ImageParts ==
  ASSUME NEW i \in Images
  PROVE  /\ i[1] \in Kinds /\ i[2] \in Threads /\ i[2] \in Nat /\ i[3] \in Sides
         /\ i = <<i[1], i[2], i[3]>>
BY DEF Images, Threads

(* There are two sides.                                                    *)
LEMMA TwoSides ==
  ASSUME NEW s \in Sides, NEW r \in Sides
  PROVE  /\ Other(s) \in Sides /\ Other(s) # s /\ Other(Other(s)) = s
         /\ r # s => r = Other(s)
BY DEF Sides, Other

(* Main keeps the input loaded.                                            *)
LEMMA MainLoaded ==
  ASSUME Control, Requested, ReadOrder, Loaded, Main
  PROVE  Loaded'
<1> USE DEF Control
<1> SUFFICES ASSUME IOWell', NEW i \in Images, Expected(i)'
             PROVE  content'[i] = Target(i)' \/ PendingOn(i)'
  BY DEF Loaded
<1>1. IOWell /\ ~Leave
  BY MainIOWell
<1>2. content' = content /\ (PendingOn(i) => PendingOn(i)')
  BY <1>1, MainFacts, KeepsPending
<1>3. Target(i)' = Target(i) /\ Expected(i) => content'[i] = Target(i)' \/ PendingOn(i)'
  BY <1>1, <1>2 DEF Loaded
<1>4. job' = job /\ ProjectionsPerStep' = ProjectionsPerStep
  <2>1. job' = job
    BY MainMoves DEF SwapAttenuation, SwapInput, SwapFiltered, NextGroup
  <2> QED BY <2>1, SameSizes
<1>5. i[1] = job.source /\ i[2] < ProjectionsPerStep
  BY <1>4 DEF Expected
<1>6. p \in Nat /\ pp \in Nat /\ ProjectionsPerStep \in Nat /\ Issued \in Nat /\ LoadBase \in Nat /\ i[2] \in Nat
      /\ side[job.source] \in Sides /\ i[3] \in Sides
  <2>1. p \in Nat /\ pp \in Nat /\ ProjectionsPerStep \in Nat
    BY Sizes DEF Types
  <2>2. Issued \in Nat /\ LoadBase \in Nat
    BY IssuedTypes DEF ReadOrder
  <2>3. side[job.source] \in Sides
    BY JobFacts DEF Types
  <2> QED BY <2>1, <2>2, <2>3, ImageParts
<1>7. CASE SwapInput
  <2>1. /\ UNCHANGED <<p, pp>> /\ main = "swapInput" /\ main' = "request" /\ pp = 0
        /\ side' = [side EXCEPT ![job.source] = Other(side[job.source])]
    BY <1>7 DEF SwapInput, Swap, Scheduled
  <2>2. side'[job.source] = Other(side[job.source])
    BY <2>1, JobFacts DEF Types
  <2>3. Issued' = Issued /\ Issued = Lesser(p + ProjectionsPerStep, NumberOfProjections)
    BY <1>4, <1>6, <2>1 DEF Issued, Lesser
  <2>4. LoadBase' = p + ProjectionsPerStep /\ LoadBase = p
    BY <1>4, <2>1 DEF LoadBase, Behind
  <2>5. CASE i[3] = side'[job.source]
    <3>1. i[3] # side[job.source]
      BY <1>6, <2>2, <2>5, TwoSides
    <3>2. Target(i)' = LoadBase' - ProjectionsPerStep + i[2] + 1
      BY <1>4, <1>5, <2>5 DEF Target
    <3>3. Target(i) = LoadBase + i[2] + 1
      BY <1>5, <3>1 DEF Target
    <3>4. Target(i)' = Target(i)
      BY <1>6, <2>4, <3>2, <3>3
    <3>5. Expected(i)
      BY <1>4, <2>3, <3>1, <3>4 DEF Expected
    <3> QED BY <1>3, <3>4, <3>5
  <2>6. CASE i[3] # side'[job.source]
    <3>1. Target(i)' = LoadBase' + i[2] + 1
      BY <1>4, <1>5, <2>6 DEF Target
    <3>2. Target(i)' <= Issued'
      BY DEF Expected
    <3> QED BY <1>6, <2>3, <2>4, <3>1, <3>2 DEF Lesser
  <2> QED BY <2>5, <2>6
<1>8. CASE ReadRequested /\ Issued' = Issued + 1 /\ UNCHANGED <<LoadBase, p, side, main>> /\ Issued = LoadBase + pp
  <2>1. Target(i)' = Target(i)
    BY <1>4, <1>8 DEF Target
  <2>2. CASE Target(i) <= Issued
    BY <1>3, <1>4, <1>8, <2>1, <2>2 DEF Expected
  <2>3. CASE Target(i) = Issued + 1
    <3>1. i[3] # side[job.source]
      <4>1. CASE main \in Behind
        BY <1>4, <1>8, <4>1 DEF Expected
      <4>2. CASE main \notin Behind
        <5>1. SUFFICES ASSUME i[3] = side[job.source] PROVE FALSE
          OBVIOUS
        <5>2. Target(i) = LoadBase - ProjectionsPerStep + i[2] + 1
          BY <1>5, <5>1 DEF Target
        <5> QED BY <1>5, <1>6, <1>8, <2>3, <5>2
      <4> QED BY <4>1, <4>2
    <3>2. Target(i) = LoadBase + i[2] + 1
      BY <1>5, <3>1 DEF Target
    <3>3. i[2] = pp
      BY <1>6, <1>8, <2>3, <3>2
    <3>4. i = Loading(job.source, pp)
      BY <1>5, <1>6, <3>1, <3>3, TwoSides, ImageParts DEF Loading
    <3>5. RequestMade("read", i)
      BY <1>8, <3>4, ReadMade
    <3>6. PICK n \in Nat : n = Len(requests) + 1
      BY <3>5 DEF RequestMade
    <3>7. n \in 1 .. Len(requests') /\ PendingRead(n)' /\ requests'[n].image = i
      BY <3>5, <3>6 DEF RequestMade, PendingRead
    <3> QED BY <3>7 DEF PendingOn
  <2>4. Target(i) <= Issued + 1 /\ Target(i) \in Int
    BY <1>8, <2>1, IssuedTypes DEF Expected, ReadOrder
  <2> QED BY <1>6, <2>2, <2>3, <2>4
<1>9. CASE NextGroup /\ main' = "complete" /\ Issued' = Issued /\ Issued = NumberOfProjections
  <2>1. p' \in Nat /\ p' >= NumberOfProjections /\ side' = side /\ main' \notin Behind
    BY <1>6, <1>9, FirstPhaseIsBehind DEF NextGroup, Behind
  <2>2. LoadBase' = p' + ProjectionsPerStep
    BY <1>4, <2>1 DEF LoadBase
  <2>3. Target(i)' \in {p' + i[2] + 1, p' + ProjectionsPerStep + i[2] + 1}
    BY <1>4, <1>6, <2>1, <2>2 DEF Target
  <2>4. Target(i)' <= NumberOfProjections
    BY <1>9 DEF Expected
  <2> QED BY <1>6, <2>1, <2>3, <2>4
<1>10. CASE SameTargets /\ ~SwapInput
  <2>1. Target(i)' = Target(i) /\ Issued' = Issued
    BY <1>5, <1>10 DEF SameTargets
  <2>2. main \in Behind => main' \in Behind /\ side'[job.source] = side[job.source]
    BY <1>10, BehindOn, BehindBack DEF NextGroup, Behind
  <2>3. Expected(i)
    BY <1>4, <2>1, <2>2 DEF Expected
  <2> QED BY <1>3, <2>1, <2>3
<1> QED BY <1>7, <1>8, <1>9, <1>10, MainTargets DEF ReadOrder

(* Worker t has transformed an image, or thrown in doing so.               *)
Transformed(t) ==
  /\ t < ProjectionsThisStep
  /\ box[t] # <<>> /\ box' = [box EXCEPT ![t] = Tail(box[t])]
  /\ box[t][1].op \in Transforms /\ box[t][1].awaits = {}
  /\ main' = main
  /\ \E k0, k1 \in Kinds :
       /\ k1 # job.source
       /\ box[t][1].from = {Active(k0, t)} /\ box[t][1].to = {Active(k1, t)}
       /\ \/ /\ exception' = exception
             /\ content' = [content EXCEPT ![Active(k1, t)] = Result(box[t][1], content[Active(k0, t)])]
          \/ /\ exception'[t] # "none"
             /\ content' = [content EXCEPT ![Active(k1, t)] = 0]

(* Workers change images only by transforming them.                        *)
LEMMA WorkerContent ==
  ASSUME Control, Shaped, DataTypes, NEW t \in Threads, Worker(t)
  PROVE  Transformed(t) \/ (UNCHANGED content /\ ~TransformImage(t))
<1> USE DEF Control
<1>1. CASE ~TransformImage(t)
  BY <1>1 DEF Worker, Setup, AllocateNothing, AwaitBuffer, ApplyProjection,
     WriteVolumeData, Crash, dataVars
<1>2. CASE TransformImage(t)
  <2>1. box[t] # <<>> /\ Head(box[t]) = box[t][1] /\ 1 \in 1 .. Len(box[t])
    BY <1>2, Taking DEF TransformImage
  <2> DEFINE m == box[t][1]
  <2>2. /\ box' = [box EXCEPT ![t] = Tail(box[t])] /\ main' = main
        /\ \E i \in m.from, j \in m.to :
             \/ content' = [content EXCEPT ![j] = Result(m, content[i])] /\ exception' = exception
             \/ content' = [content EXCEPT ![j] = 0]
                /\ exception' = [exception EXCEPT ![t] = IF @ = "none" THEN m.op ELSE @]
    BY <1>2, <2>1 DEF TransformImage, Finish, Throw, Done
  <2>3. m \in Messages /\ Fits(t, 1, m) /\ Shape(t, m)
    BY <2>1, AwaitTypes DEF Boxes, Shaped
  <2> HIDE DEF m
  <2>4. m.op \in Transforms
    BY <2>2, <2>3 DEF Fits, Messages, Ops, Transforms, Setups
  <2>5. PICK k0 \in Kinds, k1 \in Kinds : m.from = {Active(k0, t)} /\ m.to = {Active(k1, t)} /\ k1 # job.source
    BY <2>3, <2>4 DEF Shape
  <2>6. t < ProjectionsThisStep /\ m.awaits = {}
    BY <2>3, <2>4 DEF Shape, Fits
  <2>7. exception' = [exception EXCEPT ![t] = IF @ = "none" THEN m.op ELSE @] => exception'[t] # "none"
    BY <2>4 DEF DataTypes, Transforms
  <2> QED BY <2>1, <2>2, <2>4, <2>5, <2>6, <2>7 DEF Transformed, m
<1> QED BY <1>1, <1>2

(* They keep the input loaded.                                             *)
LEMMA WorkerLoaded ==
  ASSUME Control, Requested, ReadOrder, Shaped, DataTypes, Loaded, NEW t \in Threads, Worker(t)
  PROVE  Loaded'
<1> USE DEF Control
<1> SUFFICES ASSUME IOWell', NEW i \in Images, Expected(i)'
             PROVE  content'[i] = Target(i)' \/ PendingOn(i)'
  BY DEF Loaded
<1>1. UNCHANGED <<job, p, pp, side, requests, fate, closed>>
  BY WorkerFacts
<1>2. IOWell /\ (PendingOn(i) => PendingOn(i)')
  BY <1>1 DEF IOWell, IO!Failed, PendingOn, PendingRead
<1>3. i[1] = job.source /\ ProjectionsPerStep' = ProjectionsPerStep
  BY <1>1, SameSizes DEF Expected
<1>4. Target(i)' = Target(i) /\ Issued' = Issued /\ (main' \in Behind <=> main \in Behind)
  <2>1. CASE main' = main
    BY <1>1, <1>3, <2>1, SameSizes DEF Target, LoadBase, Issued
  <2>2. CASE main' = "crashed" /\ main \in Applying \cup {"barrierVolume"}
    <3>1. SameTargets
      BY <1>1, <2>2, StaysLoaded DEF Applying, Behind
    <3> QED BY <1>3, <2>2, <3>1 DEF SameTargets, Applying, Behind
  <2> QED BY <2>1, <2>2, WorkerCrash
<1>5. Expected(i)
  BY <1>1, <1>3, <1>4 DEF Expected
<1>6. content'[i] = content[i]
  <2>1. CASE Transformed(t)
    <3>1. PICK k1 \in Kinds : k1 # job.source /\ \E c : content' = [content EXCEPT ![Active(k1, t)] = c]
      BY <2>1 DEF Transformed
    <3>2. i # Active(k1, t)
      BY <1>3, <3>1 DEF Active
    <3> QED BY <3>1, <3>2 DEF DataTypes
  <2> QED BY <2>1, WorkerContent
<1> QED BY <1>2, <1>4, <1>5, <1>6 DEF Loaded

(* So does the I/O thread.                                                 *)
LEMMA SettleLoaded ==
  ASSUME Control, Requested, ReadOrder, DataTypes, Loaded, Settle
  PROVE  Loaded'
<1> USE DEF Control
<1> SUFFICES ASSUME IOWell', NEW i \in Images, Expected(i)'
             PROVE  content'[i] = Target(i)' \/ PendingOn(i)'
  BY DEF Loaded
<1>1. UNCHANGED <<job, main, p, pp, side, requests, closed>> /\ ~closed
  BY SettleData
<1>2. PICK k \in 1 .. Len(requests) : Oldest(k) /\ (ReadsOne(k) \/ WritesOne(k) \/ FailsOne(k) \/ DropsOne(k))
  BY SettleData
<1>3. ReadsOne(k) \/ WritesOne(k)
  BY <1>2 DEF FailsOne, DropsOne, IOWell
<1>4. IOWell
  BY <1>1, <1>3 DEF ReadsOne, WritesOne, IOWell
<1>5. ProjectionsPerStep' = ProjectionsPerStep
  BY <1>1, SameSizes
<1>6. Target(i)' = Target(i) /\ Issued' = Issued /\ Expected(i)
  <2>1. Target(i)' = Target(i) /\ Issued' = Issued
    BY <1>1, <1>5, SameSizes DEF Target, LoadBase, Issued
  <2> QED BY <1>1, <1>5, <2>1 DEF Expected
<1>7. CASE ReadsOne(k) /\ requests[k].image = i
  <2>1. Target(i) = nextRead
    BY <1>2, <1>4, <1>7, OldestRead DEF ReadsOne
  <2> QED BY <1>6, <1>7, <2>1 DEF ReadsOne, DataTypes
<1>8. CASE WritesOne(k) \/ requests[k].image # i
  <2>1. content'[i] = content[i]
    BY <1>3, <1>8, RequestTypes DEF ReadsOne, WritesOne, DataTypes
  <2>2. ASSUME PendingOn(i) PROVE PendingOn(i)'
    <3>1. PICK j \in 1 .. Len(requests) : PendingRead(j) /\ requests[j].image = i
      BY <2>2 DEF PendingOn
    <3>2. j # k
      BY <1>8, <3>1 DEF WritesOne, PendingRead
    <3>3. PendingRead(j)' /\ j \in 1 .. Len(requests') /\ requests'[j].image = i
      BY <1>1, <1>2, <3>1, <3>2 DEF Oldest, PendingRead, Requested
    <3> QED BY <3>3 DEF PendingOn
  <2> QED BY <1>4, <1>6, <2>1, <2>2 DEF Loaded
<1> QED BY <1>3, <1>7, <1>8

(* The input is always loaded.                                             *)
LEMMA NextLoaded ==
  ASSUME Control, Requested, ReadOrder, Shaped, DataTypes, Loaded, [Next]_vars
  PROVE  Loaded'
<1>1. CASE UNCHANGED vars
  <2>1. UNCHANGED <<job, main, p, pp, side, requests, fate, closed, nextRead, content>>
    BY <1>1 DEF vars
  <2>2. ProjectionsPerStep' = ProjectionsPerStep
    BY <2>1, SameSizes
  <2>3. Issued' = Issued /\ \A i : Target(i)' = Target(i)
    BY <2>1, <2>2 DEF Issued, Target, LoadBase
  <2>4. IOWell' = IOWell /\ \A i : PendingOn(i)' = PendingOn(i) /\ Expected(i)' = Expected(i)
    BY <2>1, <2>2, <2>3 DEF IOWell, IO!Failed, PendingOn, PendingRead, Expected
  <2> QED BY <2>1, <2>3, <2>4 DEF Loaded
<1> QED BY <1>1, MainLoaded, WorkerLoaded, SettleLoaded DEF Next, Ended

-----------------------------------------------------------------------------

(* After the first n messages of its box, worker t's image i will hold the *)
(* projection of the group that is worker t's: it does already, or one of  *)
(* them writes it, or waits until it has been read.                        *)
Good(t, n, i) ==
  \/ content[i] = p + t + 1
  \/ \E l \in 1 .. n : i \in box[t][l].to
  \/ PendingOn(i) /\ Awaited(t, n, i)

(* The kinds of which the group's images are the workers' to use.          *)
Ready(kind) ==
  \/ kind = job.source /\ main \in HasRequested
  \/ kind = "attenuation" /\ job.source = "raw" /\ main \in HasRequested \ {"convert"}
  \/ kind = "filtered" /\ Filters(job) /\ main \in HasFiltered \ {"filter"}

(* Nothing has failed that would spoil the group.                          *)
Well == ~IO!Failed /\ \A t \in Threads : t < ProjectionsThisStep => exception[t] = "none"

(* When the workers have done what is in their boxes, the group's images   *)
(* hold the projections they should.                                       *)
GroupRight ==
  Well => \A kind \in Kinds, t \in Threads :
    Ready(kind) /\ t < ProjectionsThisStep => Good(t, Len(box[t]), Active(kind, t))

(* Every transformation finds in its image the projection it should.       *)
Fed ==
  Well => \A t \in Threads : \A j \in 1 .. Len(box[t]) :
    box[t][j].op \in Transforms => \A i \in box[t][j].from : Good(t, j - 1, i)

(* The beam power corrector is given the first projection before it        *)
(* corrects any.                                                           *)
ReferenceRight ==
  job.beamPower /\ ~IO!Failed
    /\ (p > 0 \/ main \in Checked \/ (Well /\ main \in {"correct"} \cup AfterCorrect))
  => reference = 1

(* An image that will be right will be right when messages are added.      *)
LEMMA KeepsGood ==
  ASSUME NEW t, NEW i, Keeps(t), Len(box[t]) \in Nat, NEW n \in Nat, n <= Len(box[t]), NEW m \in Nat, n <= m,
         content'[i] = content[i], p' = p, PendingOn(i) => PendingOn(i)',
         Good(t, n, i)
  PROVE  Good(t, m, i)'
<1>1. \A l \in 1 .. n : l \in 1 .. m /\ box'[t][l] = box[t][l]
  BY DEF Keeps
<1>2. (\E l \in 1 .. n : i \in box[t][l].to) => \E l \in 1 .. m : i \in box'[t][l].to
  BY <1>1
<1>3. Awaited(t, n, i) => Awaited(t, m, i)'
  BY <1>1 DEF Awaited
<1> QED BY <1>2, <1>3 DEF Good

(* Main does not forget a failure of the I/O.                              *)
LEMMA FailedOnce ==
  ASSUME Control, Requested, Main, IO!Failed
  PROVE  IO!Failed'
<1> USE DEF Control
<1>1. CASE UNCHANGED fate
  BY <1>1 DEF IO!Failed
<1>2. CASE Leave
  <2>1. PICK k \in 1 .. Len(fate) : fate[k] = "failed"
    BY DEF IO!Failed
  <2>2. fate' = [l \in DOMAIN fate |-> IF fate[l] = "pending" THEN "dropped" ELSE fate[l]]
    BY <1>2 DEF Leave, IO!Close
  <2>3. DOMAIN fate = 1 .. Len(fate) /\ Len(fate) \in Nat
    BY LenProperties DEF Types
  <2>4. Len(fate') = Len(fate) /\ fate'[k] = "failed"
    BY <2>1, <2>2, <2>3
  <2> QED BY <2>4 DEF IO!Failed
<1>3. CASE ReadRequested
  BY <1>3, ReadMade DEF RequestMade
<1>4. ASSUME NEW kind \in {"attenuation", "filtered"}, WriteRequested(kind)
      PROVE  IO!Failed'
  BY <1>4, WriteMade DEF RequestMade
<1> QED BY <1>1, <1>2, <1>3, <1>4, MainIO

(* Each phase has its step.                                                *)
LEMMA OnlyAt ==
  ASSUME Main
  PROVE  /\ main = "convert" => Convert
         /\ main = "correct" => CorrectBeamPower
         /\ main = "filter" => Filter
         /\ main = "request" => RequestNext
         /\ main = "reference" => SetReference
         /\ main = "check" => Check
         /\ main = "apply" => ApplyProjections
BY DEF Main, Create, FirstRequests, SwapAttenuation, SwapInput, RequestNext, Convert,
   Synchronize, Barrier,
     SetReference, CorrectBeamPower, SwapFiltered, Filter, Check, WriteAttenuation, WriteFiltered,
     ApplyProjections, NextGroup, WaitForCompletion, CountRequests, WriteVolume, BarrierVolume, Leave

(* Kinds get ready when the input has been requested, and with the         *)
(* transformation that makes them.                                         *)
LEMMA GetsReady ==
  ASSUME Control, Main, main' \in HasRequested, NEW kind \in Kinds, Ready(kind)'
  PROVE  \/ Ready(kind) /\ side'[kind] = side[kind]
         \/ main = "request" /\ main' # main /\ kind = job.source
         \/ main = "convert" /\ kind = "attenuation" /\ job.source = "raw"
         \/ main = "filter" /\ kind = "filtered"
<1> USE DEF Control
<1>1. CASE SwapAttenuation \/ SwapInput \/ NextGroup
  BY <1>1, PhaseOrder, FirstPhaseIsBehind DEF SwapAttenuation, SwapInput, NextGroup
<1>2. CASE SwapFiltered
  <2>1. /\ main = "swapFiltered" /\ job' = job
        /\ side' = [side EXCEPT !["filtered"] = Other(side["filtered"])]
        /\ main' = FromFilter
    BY <1>2, PhaseOrder DEF SwapFiltered, SwapOutput, Swap
  <2>2. main' = "filter" \/ ~Filters(job)
    BY <2>1 DEF FromFilter
  <2>3. job.source # "filtered"
    BY <2>1, JobFacts DEF Scheduled
  <2>4. kind # "filtered"
    BY <2>1, <2>2, <2>3, SameSizes DEF Ready
  <2> QED BY <2>1, <2>4, SameSizes DEF Ready, Types
<1>3. CASE Move /\ UNCHANGED <<job, p, side>>
  <2>1. main' \notin Ending
    BY DEF Ending
  <2>2. Filters(job') = Filters(job)
    BY <1>3, SameSizes
  <2>3. CASE main' = main
    BY <1>3, <2>2, <2>3 DEF Ready
  <2>4. CASE main' # main
    <3>1. main \in HasRequested \cup {"request"}
      BY <1>3, <2>1, <2>4 DEF Move, FirstPhase
    <3>2. main' \in HasFiltered \ {"filter"} => main \in HasFiltered \/ ~Filters(job)
      BY <1>3, <2>1, <2>4 DEF Move, FromConvert, FromSynchronize0, FromCorrect,
         FromSwap, FromFilter, FirstPhase
    <3>3. main = "request" \/ main = "convert" \/ main = "filter" \/ Ready(kind)
      BY <1>3, <2>2, <3>1, <3>2 DEF Ready
    <3>5. CASE main = "request"
      <4>1. main' = "convert" \/ job.source # "raw"
        BY <1>3, <2>1, <2>4, <3>5 DEF Move, FromConvert, Ending
      <4> QED BY <1>3, <2>2, <2>4, <3>2, <3>5, <4>1 DEF Ready
    <3>6. CASE main = "convert"
      BY <1>3, <2>2, <3>2, <3>6 DEF Ready
    <3>7. CASE main = "filter"
      BY <1>3, <2>2, <3>7 DEF Ready
    <3> QED BY <1>3, <3>3, <3>5, <3>6, <3>7
  <2> QED BY <2>3, <2>4
<1> QED BY <1>1, <1>2, <1>3, MainMoves

(* At a barrier what was to be done has been done.                         *)
LEMMA BarrierGood ==
  ASSUME Control, Barrier, NEW t \in Threads, NEW i, Good(t, Len(box[t]), i)
  PROVE  content[i] = p + t + 1
<1> USE DEF Control
<1>1. box[t] # <<>> /\ Head(box[t]).op = "barrier"
  BY DEF Barrier, AtBarrier
<1>2. 1 \in 1 .. Len(box[t]) /\ box[t][1].op = "barrier"
  BY <1>1, Taking
<1>3. Fits(t, 1, box[t][1])
  BY <1>2 DEF Boxes
<1>4. Len(box[t]) = 1 /\ box[t][1].to = {} /\ box[t][1].awaits = {}
  BY <1>2, <1>3 DEF Fits
<1> QED BY <1>4 DEF Good, Awaited

(* A barrier makes no kind ready.                                          *)
LEMMA BarrierMoves ==
  ASSUME Barrier
  PROVE  /\ UNCHANGED <<job, p, side, requests, fate>>
         /\ main' \in HasRequested => \A kind : Ready(kind)' => Ready(kind)
<1>1. UNCHANGED <<job, p, side, requests, fate>> /\ Filters(job') = Filters(job)
  BY SameSizes DEF Barrier, mainVars, ioVars
<1>2. \/ main = "barrier0" /\ main' = "reference"
      \/ main = "barrier" /\ main' = "check"
      \/ main = "barrierApplied" /\ main' = "checkApplied"
      \/ main' = "return"
  BY DEF Barrier
<1> QED BY <1>1, <1>2 DEF Ready

(* Main spoils no group.                                                   *)
LEMMA MainWell ==
  ASSUME Control, Requested, Main, ~NextGroup, Well'
  PROVE  Well /\ UNCHANGED <<job, p, exception, content>> /\ ProjectionsThisStep' = ProjectionsThisStep
<1>1. UNCHANGED <<job, p>>
  BY MainMoves DEF SwapAttenuation, SwapInput, SwapFiltered
<1>2. UNCHANGED <<exception, content>>
  BY MainFacts
<1> QED BY <1>1, <1>2, SameSizes, FailedOnce DEF Well

(* The flow of the projections through the images of a group.              *)
Flow == GroupRight /\ Fed

(* A conversion reads raw projections that will be right, and a repair     *)
(* what the conversion writes.                                             *)
LEMMA ConvertFlow ==
  ASSUME Control, Requested, Flow, Convert, Well'
  PROVE  Flow'
<1> USE DEF Control
<1>0. Main
  BY DEF Main
<1>1. /\ UNCHANGED <<side, requests, fate>> /\ main = "convert" /\ ~NextGroup /\ job.source = "raw"
  BY DEF Convert, mainVars, ioVars, NextGroup, Scheduled
<1>2. Well /\ UNCHANGED <<job, p, content>> /\ ProjectionsThisStep' = ProjectionsThisStep
  BY <1>0, <1>1, MainWell
<1>3. \A i \in Images : PendingOn(i)' = PendingOn(i)
  BY <1>1 DEF PendingOn, PendingRead
<1>4. \A t \in Threads : ConvertedOnes(t) /\ Len(box'[t]) \in Nat
  BY ConvertSent, LenProperties
<1>5. \A kind, t : Active(kind, t)' = Active(kind, t)
  BY <1>1 DEF Active
<1>6. \A kind \in Kinds, t \in Threads : Active(kind, t) \in Images
  BY MessageTypes
<1>7. ASSUME NEW t \in Threads, NEW j \in 1 .. Len(box'[t]), box'[t][j].op \in Transforms, NEW i \in box'[t][j].from
      PROVE  Good(t, j - 1, i)'
  <2>1. CASE j \in 1 .. Len(box[t])
    <3>1. box'[t][j] = box[t][j] /\ Len(box[t]) \in Nat /\ Keeps(t)
      BY <1>4, <2>1 DEF ConvertedOnes, Keeps
    <3>2. Good(t, j - 1, i)
      BY <1>2, <1>7, <2>1, <3>1 DEF Flow, Fed
    <3>3. i \in Images
      BY <1>7, <2>1, <3>1, AwaitTypes DEF Messages
    <3> QED BY <1>2, <1>3, <2>1, <3>1, <3>2, <3>3, KeepsGood
  <2>2. CASE j \in Len(box[t]) + 1 .. Len(box'[t])
    <3>1. t < ProjectionsThisStep /\ Len(box[t]) \in Nat /\ Keeps(t) /\ Len(box'[t]) \in {Len(box[t]) + 1, Len(box[t]) + 2}
      BY <1>4, <2>2 DEF ConvertedOnes
    <3>2. CASE j = Len(box[t]) + 1
      <4>1. i = Active("raw", t)
        BY <1>4, <1>7, <2>2, <3>1, <3>2 DEF ConvertedOnes
      <4>2. Good(t, Len(box[t]), i)
        BY <1>1, <1>2, <3>1, <4>1 DEF Flow, GroupRight, Ready, Kinds
      <4>3. i \in Images
        BY <1>6, <4>1 DEF Kinds
      <4> QED BY <1>2, <1>3, <3>1, <3>2, <4>2, <4>3, KeepsGood
    <3>3. CASE j = Len(box[t]) + 2
      <4>1. i = Active("attenuation", t)
        BY <1>4, <1>7, <2>2, <3>1, <3>3 DEF ConvertedOnes
      <4>2. Len(box[t]) + 1 \in Len(box[t]) + 1 .. Len(box'[t]) /\ Len(box[t]) + 1 \in 1 .. j - 1
        BY <3>1, <3>3, <2>2
      <4>3. i \in box'[t][Len(box[t]) + 1].to
        BY <1>4, <3>1, <4>1, <4>2 DEF ConvertedOnes
      <4> QED BY <4>2, <4>3 DEF Good
    <3> QED BY <3>1, <3>2, <3>3, <2>2
  <2> QED BY <1>4, <2>1, <2>2 DEF ConvertedOnes
<1>8. ASSUME NEW kind \in Kinds, NEW t \in Threads, Ready(kind)', t < ProjectionsThisStep
      PROVE  Good(t, Len(box[t]), Active(kind, t))'
  <2>1. Len(box[t]) \in Nat /\ Keeps(t) /\ Len(box'[t]) \in Nat /\ Len(box[t]) <= Len(box'[t])
    BY <1>4 DEF ConvertedOnes, Keeps
  <2>2. CASE kind = "attenuation"
    <3>1. Len(box'[t]) \in Len(box[t]) + 1 .. Len(box'[t])
      BY <1>4, <1>8, <2>1 DEF ConvertedOnes
    <3>2. Active(kind, t) \in box'[t][Len(box'[t])].to
      BY <1>4, <1>8, <2>2, <3>1 DEF ConvertedOnes
    <3>3. Len(box'[t]) \in 1 .. Len(box'[t])
      BY <2>1, <3>1
    <3> QED BY <1>5, <3>2, <3>3 DEF Good
  <2>3. CASE kind # "attenuation"
    <3>1. main' \in HasRequested
      BY <1>8 DEF Ready
    <3>2. Ready(kind)
      BY <1>0, <1>1, <1>8, <2>3, <3>1, GetsReady
    <3>3. Good(t, Len(box[t]), Active(kind, t))
      BY <1>2, <1>8, <3>2 DEF Flow, GroupRight
    <3>4. PICK i \in Images, n \in Nat : i = Active(kind, t) /\ n = Len(box'[t])
      BY <1>6, <2>1
    <3>5. Good(t, n, i)'
      BY <1>2, <1>3, <2>1, <3>3, <3>4, KeepsGood
    <3> QED BY <1>5, <3>4, <3>5
  <2> QED BY <2>2, <2>3
<1> QED BY <1>2, <1>7, <1>8 DEF Flow, GroupRight, Fed

(* Transformations sent before go on finding what they should.             *)
LEMMA KeepsFed ==
  ASSUME Control, Requested, Flow, Main, ~NextGroup, ~Leave, Well',
         NEW t \in Threads, Keeps(t), NEW j \in 1 .. Len(box[t]),
         box'[t][j].op \in Transforms, NEW i \in box'[t][j].from
  PROVE  Good(t, j - 1, i)'
<1> USE DEF Control
<1>1. Well /\ UNCHANGED <<job, p, content>>
  BY MainWell
<1>2. box'[t][j] = box[t][j] /\ Len(box[t]) \in Nat
  BY LenProperties DEF Keeps, Types
<1>3. Good(t, j - 1, i)
  BY <1>1, <1>2 DEF Flow, Fed
<1>4. i \in Images
  BY <1>2, AwaitTypes DEF Messages
<1>5. PendingOn(i) => PendingOn(i)'
  BY <1>4, KeepsPending
<1>6. PICK n \in Nat : n = j - 1
  BY <1>2
<1>8. n <= n /\ n <= Len(box[t]) /\ Good(t, n, i)
  BY <1>2, <1>3, <1>6
<1>9. content'[i] = content[i] /\ p' = p
  BY <1>1
<1>7. Good(t, n, i)'
  BY <1>2, <1>5, <1>8, <1>9, KeepsGood
<1> QED BY <1>6, <1>7

(* Images of the group that would be right will be.                        *)
LEMMA KeepsGroup ==
  ASSUME Control, Control', Requested, Flow, Main, ~NextGroup, ~Leave, Well',
         NEW t \in Threads, Keeps(t), t < ProjectionsThisStep,
         NEW kind \in Kinds, Ready(kind), side'[kind] = side[kind]
  PROVE  Good(t, Len(box[t]), Active(kind, t))'
<1> USE DEF Control
<1>1. Well /\ UNCHANGED <<job, p, content>>
  BY MainWell
<1>2. Len(box[t]) \in Nat /\ Len(box'[t]) \in Nat
  BY LenProperties DEF Types
<1>3. Good(t, Len(box[t]), Active(kind, t))
  BY <1>1 DEF Flow, GroupRight
<1>4. PICK i \in Images, n \in Nat : i = Active(kind, t) /\ n = Len(box'[t])
  BY <1>2, MessageTypes
<1>5. PendingOn(i) => PendingOn(i)'
  BY KeepsPending
<1>8. Len(box[t]) <= n /\ Len(box[t]) <= Len(box[t]) /\ Good(t, Len(box[t]), i)
  BY <1>2, <1>3, <1>4 DEF Keeps
<1>9. content'[i] = content[i] /\ p' = p
  BY <1>1
<1>6. Good(t, n, i)'
  BY <1>2, <1>5, <1>8, <1>9, KeepsGood
<1>7. Active(kind, t)' = i
  BY <1>4 DEF Active
<1> QED BY <1>4, <1>6, <1>7

(* Steps of main that send no transformation.                              *)
LEMMA AddsFlow ==
  ASSUME Control, Control', Requested, Flow, Main, ~NextGroup, ~Leave, Well', Adds,
         main \notin {"convert", "correct", "filter"}, main = "request" => main' = main
  PROVE  Flow'
<1> USE DEF Control
<1>1. ProjectionsThisStep' = ProjectionsThisStep
  BY MainWell
<1>2. \A t \in Threads : Keeps(t) /\ Len(box[t]) \in Nat /\ Len(box'[t]) \in Nat
  BY LenProperties DEF Adds, Types
<1>3. ASSUME NEW t \in Threads, NEW j \in 1 .. Len(box'[t]), box'[t][j].op \in Transforms, NEW i \in box'[t][j].from
      PROVE  Good(t, j - 1, i)'
  <2>1. j \notin Len(box[t]) + 1 .. Len(box'[t])
    BY <1>3 DEF Adds, Sent
  <2>2. j \in 1 .. Len(box[t])
    BY <1>2, <2>1
  <2> QED BY <1>2, <1>3, <2>2, KeepsFed
<1>4. ASSUME NEW kind \in Kinds, NEW t \in Threads, Ready(kind)', t < ProjectionsThisStep
      PROVE  Good(t, Len(box[t]), Active(kind, t))'
  <2>1. main' \in HasRequested
    BY <1>4 DEF Ready
  <2>2. Ready(kind) /\ side'[kind] = side[kind]
    BY <1>4, <2>1, GetsReady
  <2> QED BY <1>2, <1>4, <2>2, KeepsGroup
<1> QED BY <1>1, <1>3, <1>4 DEF Flow, GroupRight, Fed

(* Steps that send one transformation to each worker of the group.         *)
LEMMA OneFlow ==
  ASSUME Control, Control', Requested, Flow, Main, ~NextGroup, ~Leave, Well', UNCHANGED side,
         NEW m, OneSent(m), NEW k0 \in Kinds, NEW k1 \in Kinds, Ready(k0),
         \A t \in Threads : m[t].from = {Active(k0, t)} /\ m[t].to = {Active(k1, t)},
         \A kind \in Kinds : Ready(kind)' => Ready(kind) \/ kind = k1
  PROVE  Flow'
<1> USE DEF Control
<1>1. ProjectionsThisStep' = ProjectionsThisStep
  BY MainWell
<1>2. \A t \in Threads : Keeps(t) /\ Len(box[t]) \in Nat /\ Len(box'[t]) \in Nat
  BY LenProperties DEF OneSent, Types
<1>3. ASSUME NEW t \in Threads, NEW j \in 1 .. Len(box'[t]), box'[t][j].op \in Transforms, NEW i \in box'[t][j].from
      PROVE  Good(t, j - 1, i)'
  <2>2. CASE j \in 1 .. Len(box[t])
    BY <1>2, <1>3, <2>2, KeepsFed
  <2>3. CASE j \notin 1 .. Len(box[t])
    <3>1. t < ProjectionsThisStep /\ j = Len(box[t]) + 1 /\ box'[t][j] = m[t]
      BY <1>2, <2>3 DEF OneSent
    <3>2. i = Active(k0, t) /\ i \in Images
      BY <1>3, <3>1, MessageTypes
    <3>3. Well /\ UNCHANGED <<job, p, content>>
      BY MainWell
    <3>4. Good(t, Len(box[t]), i)
      BY <3>1, <3>2, <3>3 DEF Flow, GroupRight
    <3>5. PendingOn(i) => PendingOn(i)'
      BY <3>2, KeepsPending
    <3>6. PICK n \in Nat : n = j - 1
      BY <1>2, <3>1
    <3>7. n = Len(box[t])
      BY <1>2, <3>1, <3>6
    <3>9. n <= n /\ n <= Len(box[t]) /\ Good(t, n, i)
      BY <1>2, <3>4, <3>7
    <3>10. content'[i] = content[i] /\ p' = p
      BY <3>3
    <3>8. Good(t, n, i)'
      BY <1>2, <3>5, <3>9, <3>10, KeepsGood
    <3> QED BY <3>6, <3>8
  <2> QED BY <2>2, <2>3
<1>4. ASSUME NEW kind \in Kinds, NEW t \in Threads, Ready(kind)', t < ProjectionsThisStep
      PROVE  Good(t, Len(box[t]), Active(kind, t))'
  <2>1. CASE kind = k1
    <3>1. Len(box'[t]) = Len(box[t]) + 1 /\ box'[t][Len(box[t]) + 1] = m[t]
      BY <1>4 DEF OneSent
    <3>2. Len(box'[t]) \in 1 .. Len(box'[t]) /\ Active(kind, t) \in box'[t][Len(box'[t])].to
      BY <1>2, <2>1, <3>1
    <3>3. Active(kind, t)' = Active(kind, t)
      BY DEF Active
    <3> QED BY <3>2, <3>3 DEF Good
  <2>2. CASE kind # k1
    BY <1>2, <1>4, <2>2, KeepsGroup
  <2> QED BY <2>1, <2>2
<1> QED BY <1>1, <1>3, <1>4 DEF Flow, GroupRight, Fed

(* The beam power correction and the filter.                               *)
LEMMA CorrectFlow ==
  ASSUME Control, Control', Requested, Flow, CorrectBeamPower, Well'
  PROVE  Flow'
<1> USE DEF Control
<1>0. Main
  BY DEF Main
<1>1. UNCHANGED side /\ main = "correct" /\ ~NextGroup /\ ~Leave /\ job.source = "raw"
  BY JobFacts DEF CorrectBeamPower, mainVars, NextGroup, Leave, Scheduled
<1>2. PICK m \in [Threads -> Messages] :
         /\ OneSent(m)
         /\ \A t \in Threads : m[t].op = "beamPower" /\ m[t].from = {Active("attenuation", t)} /\ m[t].to = {Active("attenuation", t)}
  BY CorrectSent
<1>3. Ready("attenuation") /\ "attenuation" \in Kinds
  BY <1>1 DEF Ready, Kinds
<1>4. \A kind \in Kinds : Ready(kind)' => Ready(kind) \/ kind = "attenuation"
  <2>1. ASSUME NEW kind \in Kinds, Ready(kind)' PROVE Ready(kind)
    <3>1. main' \in HasRequested
      BY <2>1 DEF Ready
    <3> QED BY <1>0, <1>1, <2>1, <3>1, GetsReady
  <2> QED BY <2>1
<1> QED BY <1>0, <1>1, <1>2, <1>3, <1>4, OneFlow

LEMMA FilterFlow ==
  ASSUME Control, Control', Requested, Flow, Filter, Well'
  PROVE  Flow'
<1> USE DEF Control
<1>0. Main
  BY DEF Main
<1>1. UNCHANGED side /\ main = "filter" /\ ~NextGroup /\ ~Leave /\ Filters(job)
  BY DEF Filter, mainVars, NextGroup, Leave, Scheduled
<1>2. PICK m \in [Threads -> Messages] :
         /\ OneSent(m)
         /\ \A t \in Threads : m[t].op = "filter" /\ m[t].from = {Active("attenuation", t)} /\ m[t].to = {Active("filtered", t)}
  BY FilterSent
<1>3. Ready("attenuation") /\ "attenuation" \in Kinds /\ "filtered" \in Kinds
  <2>1. job.source \in {"raw", "attenuation"}
    BY <1>1 DEF Filters, Types, AllowedJobs, Kinds
  <2> QED BY <1>1, <2>1 DEF Ready, Kinds
<1>4. \A kind \in Kinds : Ready(kind)' => Ready(kind) \/ kind = "filtered"
  <2>1. ASSUME NEW kind \in Kinds, Ready(kind)' PROVE Ready(kind) \/ kind = "filtered"
    <3>1. main' \in HasRequested
      BY <2>1 DEF Ready
    <3> QED BY <1>0, <1>1, <2>1, <3>1, GetsReady
  <2> QED BY <2>1
<1> QED BY <1>0, <1>1, <1>2, <1>3, <1>4, OneFlow

(* When the next group has been requested this group has been read, or is  *)
(* being read.                                                             *)
LEMMA ActiveLoaded ==
  ASSUME Control, ReadOrder, Loaded, main = "request", pp >= ProjectionsNextStep, Well,
         NEW t \in Threads, t < ProjectionsThisStep
  PROVE  content[Active(job.source, t)] = p + t + 1 \/ PendingOn(Active(job.source, t))
<1> USE DEF Control
<1>1. ~closed /\ ~IO!Failed
  BY DEF Scheduled, Well
<1>2. PICK i \in Images : i = Active(job.source, t)
  BY MessageTypes, JobFacts
<1>3. i[1] = job.source /\ i[2] = t /\ i[3] = side[i[1]]
  BY <1>2 DEF Active
<1>4. /\ ProjectionsPerStep \in Nat /\ ProjectionsThisStep \in Int /\ p \in Nat /\ pp \in Nat
      /\ ProjectionsThisStep <= ProjectionsPerStep /\ t \in Nat /\ NumberOfProjections \in Nat
  BY Sizes DEF Types, Scheduled, Threads
<1>5. LoadBase = p + ProjectionsPerStep
  BY DEF LoadBase, Behind
<1>6. Target(i) = p + t + 1
  BY <1>3, <1>4, <1>5 DEF Target
<1>7. Issued = Lesser(p + ProjectionsPerStep, NumberOfProjections) + pp
  BY DEF Issued
<1>8. p + t + 1 <= Lesser(p + ProjectionsPerStep, NumberOfProjections)
  <2>1. ProjectionsThisStep <= NumberOfProjections - p
    BY <1>4 DEF ProjectionsThisStep, Lesser
  <2>2. p + t + 1 <= p + ProjectionsPerStep /\ p + t + 1 <= NumberOfProjections
    BY <1>4, <2>1
  <2> QED BY <2>2 DEF Lesser
<1>9. Target(i) <= Issued
  <2>1. PICK l \in Int : l = Lesser(p + ProjectionsPerStep, NumberOfProjections)
    BY <1>4 DEF Lesser
  <2>2. p + t + 1 <= l
    BY <1>8, <2>1
  <2>3. Issued = l + pp
    BY <1>7, <2>1
  <2>4. p + t + 1 <= l + pp
    BY <1>4, <2>2
  <2> QED BY <1>6, <2>3, <2>4
<1>10. Expected(i)
  BY <1>3, <1>4, <1>9 DEF Expected, Behind
<1>11. content[i] = Target(i) \/ PendingOn(i)
  BY <1>1, <1>10 DEF Loaded, IOWell
<1> QED BY <1>2, <1>6, <1>11

(* The workers are told to wait for it before they are told to use it.     *)
LEMMA AllRequestedFlow ==
  ASSUME Control, Control', Requested, ReadOrder, Loaded, Flow, RequestNext, main' # main, Well'
  PROVE  Flow'
<1> USE DEF Control
<1>0. Main /\ main = "request" /\ ~NextGroup /\ ~Leave
  BY DEF Main, RequestNext, NextGroup, Leave
<1>1. /\ pp >= ProjectionsNextStep
      /\ Send(ProjectionsThisStep, LAMBDA k : Await(Active(job.source, k)))
      /\ EndRequests(After("request"))
  BY <1>0 DEF RequestNext, Request
<1>2. UNCHANGED <<job, p, side, requests, fate>>
  BY <1>1 DEF EndRequests, ioVars
<1>3. AwaitsSent(job.source)
  BY <1>1, <1>2, RequestedAllStep
<1>4. PICK m \in [Threads -> Messages] :
        /\ OneSent(m)
        /\ \A t \in Threads : t < ProjectionsThisStep =>
             m[t].op = "await" /\ m[t].awaits = {Active(job.source, t)'} /\ m[t].to = {}
  <2>1. PICK kind \in Kinds : kind = job.source
    BY JobFacts
  <2>2. \A t : Active(job.source, t)' = Active(kind, t)'
    BY <1>2, <2>1 DEF Active
  <2>3. AwaitsSent(kind)
    BY <1>3, <2>2 DEF AwaitsSent, Await, Message
  <2>4. PICK m \in [Threads -> Messages] :
          /\ OneSent(m)
          /\ \A t \in Threads : t < ProjectionsThisStep =>
               m[t].op = "await" /\ m[t].awaits = {Active(kind, t)'} /\ m[t].to = {}
    BY <2>3, AwaitsSentOne
  <2> QED BY <2>2, <2>4
<1>5. \A t \in Threads : Keeps(t) /\ Len(box[t]) \in Nat /\ Len(box'[t]) \in Nat
  BY <1>4, LenProperties DEF OneSent, Types
<1>6. Well /\ content' = content /\ ProjectionsThisStep' = ProjectionsThisStep
  BY <1>0, MainWell
<1>7. ASSUME NEW t \in Threads, NEW j \in 1 .. Len(box'[t]), box'[t][j].op \in Transforms, NEW i \in box'[t][j].from
      PROVE  Good(t, j - 1, i)'
  <2>1. j \in 1 .. Len(box[t])
    <3>1. CASE t < ProjectionsThisStep
      <4>1. Len(box'[t]) = Len(box[t]) + 1 /\ box'[t][Len(box[t]) + 1].op = "await"
        BY <1>4, <3>1 DEF OneSent
      <4> QED BY <1>5, <1>7, <4>1 DEF Transforms
    <3>2. CASE ~(t < ProjectionsThisStep)
      BY <1>4, <3>2 DEF OneSent
    <3> QED BY <3>1, <3>2
  <2> QED BY <1>0, <1>5, <1>7, <2>1, KeepsFed
<1>8. ASSUME NEW kind \in Kinds, NEW t \in Threads, Ready(kind)', t < ProjectionsThisStep
      PROVE  Good(t, Len(box[t]), Active(kind, t))'
  <2>1. main' \in HasRequested
    BY <1>8 DEF Ready
  <2>2. kind = job.source
    BY <1>0, <1>8, <2>1, GetsReady DEF Ready
  <2>3. PICK i \in Images : i = Active(kind, t)
    BY MessageTypes
  <2>4. Active(kind, t)' = i
    BY <1>2, <2>3 DEF Active
  <2>5. content[i] = p + t + 1 \/ PendingOn(i)
    BY <1>0, <1>1, <1>6, <1>8, <2>2, <2>3, ActiveLoaded
  <2>6. PendingOn(i)' = PendingOn(i)
    BY <1>2 DEF PendingOn, PendingRead
  <2>7. Len(box'[t]) = Len(box[t]) + 1 /\ box'[t][Len(box[t]) + 1].awaits = {Active(job.source, t)'}
    BY <1>4, <1>8 DEF OneSent
  <2>8. Active(job.source, t)' = i
    BY <1>2, <2>2, <2>3 DEF Active
  <2>9. Awaited(t, Len(box[t]), i)'
    BY <1>5, <2>7, <2>8 DEF Awaited
  <2>10. Good(t, Len(box[t]), i)'
    BY <1>2, <1>6, <2>5, <2>6, <2>9 DEF Good
  <2> QED BY <2>4, <2>10
<1> QED BY <1>6, <1>7, <1>8 DEF Flow, GroupRight, Fed

(* Between the turns nothing flows.                                        *)
LEMMA NothingFlows ==
  (main \notin HasRequested /\ Control /\ \A t \in Threads : box[t] = <<>>)' => Flow'
<1>1. ASSUME main \notin HasRequested, Control, \A t \in Threads : box[t] = <<>> PROVE Flow
  <2>1. \A kind : ~Ready(kind)
    BY <1>1 DEF Ready
  <2>2. \A t \in Threads : 1 .. Len(box[t]) = {}
    BY <1>1, EmptySeq
  <2> QED BY <2>1, <2>2 DEF Flow, GroupRight, Fed
<1> QED BY <1>1, PTL

(* Empty boxes transform nothing.                                          *)
LEMMA EmptyFeeds ==
  (\A t \in Threads : box[t] = <<>>)' => Fed'
<1>1. ASSUME \A t \in Threads : box[t] = <<>> PROVE Fed
  <2>2. \A t \in Threads : 1 .. Len(box[t]) = {}
    BY <1>1, EmptySeq
  <2> QED BY <2>2 DEF Fed
<1> QED BY <1>1, PTL

(* A barrier leaves the group as it should be.                             *)
LEMMA BarrierFlow ==
  ASSUME Control, Control', Requested, Flow, Barrier, Well'
  PROVE  Flow'
<1> USE DEF Control
<1>0. Main /\ ~NextGroup
  BY DEF Main, Barrier, NextGroup
<1>1. Well /\ UNCHANGED <<job, p, content>> /\ ProjectionsThisStep' = ProjectionsThisStep
  BY <1>0, MainWell
<1>2. Fed'
  BY BarrierControl, EmptyFeeds
<1>3. ASSUME NEW kind \in Kinds, NEW t \in Threads, Ready(kind)', t < ProjectionsThisStep
      PROVE  Good(t, Len(box[t]), Active(kind, t))'
  <2>1. main' \in HasRequested
    BY <1>3 DEF Ready
  <2>2. Ready(kind) /\ side' = side
    BY <1>3, <2>1, BarrierMoves
  <2>3. Good(t, Len(box[t]), Active(kind, t))
    BY <1>1, <1>3, <2>2 DEF Flow, GroupRight
  <2>4. content[Active(kind, t)] = p + t + 1
    BY <2>3, BarrierGood
  <2>5. (content[Active(kind, t)] = p + t + 1)'
    BY <1>1, <2>2, <2>4 DEF Active
  <2> QED BY <2>5 DEF Good
<1> QED BY <1>1, <1>2, <1>3 DEF Flow, GroupRight

(* Main keeps the projections flowing.                                     *)
LEMMA MainFlow ==
  ASSUME Control, Control', Requested, ReadOrder, Loaded, Flow, Main
  PROVE  Flow'
<1> USE DEF Control
<1>1. CASE ~Well'
  BY <1>1 DEF Flow, GroupRight, Fed
<1>2. CASE Well'
  <2>1. CASE Convert
    BY <1>2, <2>1, ConvertFlow
  <2>2. CASE CorrectBeamPower
    BY <1>2, <2>2, CorrectFlow
  <2>3. CASE Filter
    BY <1>2, <2>3, FilterFlow
  <2>4. CASE RequestNext /\ main' # main
    BY <1>2, <2>4, AllRequestedFlow
  <2>5. CASE Barrier
    BY <1>2, <2>5, BarrierFlow
  <2>6. CASE BarrierVolume
    <3>1. main' \notin HasRequested /\ Control'
      BY <2>6 DEF BarrierVolume
    <3> QED BY <2>6, <3>1, BarrierVolumeControl, NothingFlows
  <2>7. CASE NextGroup \/ Leave
    <3>1. main' \notin HasRequested /\ box' = box
      BY <2>7, FirstPhaseIsBehind DEF NextGroup, Leave, Behind
    <3>2. \A t \in Threads : box[t] = <<>>
      BY <2>7, IdleIsEmpty DEF NextGroup, Leave, Filling, Applying
    <3> QED BY <3>1, <3>2, NothingFlows
  <2>8. CASE ~(Convert \/ CorrectBeamPower \/ Filter \/ Barrier \/ BarrierVolume \/ NextGroup \/ Leave) /\ ~(RequestNext /\ main' # main)
    <3>1. main \notin {"convert", "correct", "filter"} /\ (main = "request" => main' = main)
      BY <2>8, OnlyAt
    <3>2. Adds
      BY <2>8, MainSends
    <3> QED BY <1>2, <2>8, <3>1, <3>2, AddsFlow
  <2> QED BY <2>1, <2>2, <2>3, <2>4, <2>5, <2>6, <2>7, <2>8
<1> QED BY <1>1, <1>2

(* A worker does not take an exception back.                               *)
LEMMA WorkerThrows ==
  ASSUME DataTypes, NEW t \in Threads, Worker(t), NEW u \in Threads, exception'[u] = "none"
  PROVE  exception[u] = "none"
<1>1. \/ UNCHANGED exception
      \/ \E op : exception' = [exception EXCEPT ![t] = IF @ = "none" THEN op ELSE @]
  BY DEF Worker, Setup, AllocateNothing, AwaitBuffer, TransformImage, ApplyProjection,
     WriteVolumeData, Crash,
         Throw, Finish, workVars
<1>2. CASE UNCHANGED exception
  BY <1>2
<1>3. ASSUME NEW op, exception' = [exception EXCEPT ![t] = IF @ = "none" THEN op ELSE @]
      PROVE  exception[u] = "none"
  <2>1. CASE u = t
    <3>1. exception'[t] = IF exception[t] = "none" THEN op ELSE exception[t]
      BY <1>3 DEF DataTypes
    <3> QED BY <2>1, <3>1
  <2>2. CASE u # t
    BY <1>3, <2>2 DEF DataTypes
  <2> QED BY <2>1, <2>2
<1> QED BY <1>1, <1>2, <1>3

(* Nor does it mend a group.                                               *)
LEMMA WorkerWell ==
  ASSUME DataTypes, NEW t \in Threads, Worker(t), Well'
  PROVE  Well /\ ProjectionsThisStep' = ProjectionsThisStep
<1>1. UNCHANGED <<job, p, fate>>
  BY WorkerFacts
<1>2. ProjectionsThisStep' = ProjectionsThisStep
  BY <1>1, SameSizes
<1>3. ~IO!Failed
  BY <1>1 DEF Well, IO!Failed
<1>4. \A u \in Threads : u < ProjectionsThisStep => exception[u] = "none"
  BY <1>2, WorkerThrows DEF Well
<1> QED BY <1>2, <1>3, <1>4 DEF Well

(* A transformation that does not throw writes the right projection, and   *)
(* nothing else.                                                           *)
LEMMA TransformRight ==
  ASSUME Control, Shaped, DataTypes, Flow, ReferenceRight, NEW t \in Threads, Worker(t), Transformed(t), Well'
  PROVE  \E k1 \in Kinds :
           /\ k1 # job.source /\ box[t][1].to = {Active(k1, t)}
           /\ content'[Active(k1, t)] = p + t + 1
           /\ \A i \in Images : i # Active(k1, t) => content'[i] = content[i]
<1> USE DEF Control
<1>1. Well /\ ProjectionsThisStep' = ProjectionsThisStep
  BY WorkerWell
<1>2. t < ProjectionsThisStep /\ exception'[t] = "none" /\ box[t] # <<>> /\ box[t][1].op \in Transforms
  BY <1>1 DEF Transformed, Well
<1>3. 1 \in 1 .. Len(box[t])
  BY <1>2, Taking
<1>4. PICK k0 \in Kinds, k1 \in Kinds :
        /\ k1 # job.source
        /\ box[t][1].from = {Active(k0, t)} /\ box[t][1].to = {Active(k1, t)}
        /\ content' = [content EXCEPT ![Active(k1, t)] = Result(box[t][1], content[Active(k0, t)])]
  BY <1>2 DEF Transformed
<1>5. Active(k0, t) \in Images /\ Active(k1, t) \in Images
  BY MessageTypes
<1>6. Good(t, 1 - 1, Active(k0, t))
  BY <1>1, <1>2, <1>3, <1>4 DEF Flow, Fed
<1>7. content[Active(k0, t)] = p + t + 1
  BY <1>6 DEF Good, Awaited
<1>8. Shape(t, box[t][1])
  BY <1>3 DEF Shaped
<1>9. box[t][1].op = "beamPower" => reference = 1
  BY <1>1, <1>8 DEF Shape, ReferenceRight, Well
<1>10. content'[Active(k1, t)] = p + t + 1
  BY <1>4, <1>5, <1>7, <1>9 DEF Result, DataTypes
<1> QED BY <1>4, <1>5, <1>10 DEF DataTypes

(* A worker that has a transformation at the head of its box does it.      *)
LEMMA TransformsOnly ==
  ASSUME Control, Shaped, DataTypes, NEW t \in Threads, Worker(t), main' # "crashed", box[t][1].op \in Transforms
  PROVE  Transformed(t)
<1> USE DEF Control
<1>1. box[t] # <<>>
  BY WorkerStep
<1>2. Head(box[t]).op \in Transforms
  BY <1>1, Taking
<1>3. TransformImage(t)
  BY <1>2 DEF Worker, Setup, AllocateNothing, AwaitBuffer, ApplyProjection,
     WriteVolumeData, Crash, Transforms
<1> QED BY <1>3, WorkerContent

(* What was to be right after n messages will be after the n - 1 that are  *)
(* left: the message it takes has written the image, or waited for it.     *)
LEMMA PopGood ==
  ASSUME Control, Requested, Shaped, DataTypes, Flow, ReferenceRight, NEW t \in Threads, Worker(t), main' # "crashed",
         Well', NEW kind \in Kinds, NEW n \in 1 .. Len(box[t]), Good(t, n, Active(kind, t))
  PROVE  Good(t, n - 1, Active(kind, t))'
<1> USE DEF Control
<1>1. UNCHANGED <<job, p, side, requests, fate>> /\ Well /\ ~IO!Failed
  BY WorkerFacts, WorkerWell DEF Well
<1>2. PICK i \in Images : i = Active(kind, t)
  BY MessageTypes
<1>3. Active(kind, t)' = i
  BY <1>1, <1>2 DEF Active
<1>4. box[t] # <<>> /\ box' = [box EXCEPT ![t] = Tail(box[t])]
  BY WorkerStep
<1>5. /\ Len(box[t]) \in Nat /\ Len(box'[t]) = Len(box[t]) - 1
      /\ \A j \in 1 .. Len(box'[t]) : box'[t][j] = box[t][j + 1] /\ j + 1 \in 1 .. Len(box[t])
  BY <1>4, PopStep
<1>6. 1 \in 1 .. Len(box[t]) /\ Head(box[t]) = box[t][1]
  BY <1>4, Taking
<1>7. Fits(t, 1, box[t][1])
  BY <1>6 DEF Boxes
<1>8. Fits(t, 1, box[t][1]) /\ box[t][1].op \in Ops
  BY <1>6, <1>7, AwaitTypes DEF Messages
<1>9. PendingOn(i)' = PendingOn(i)
  BY <1>1 DEF PendingOn, PendingRead
<1>10. \A l \in 2 .. n : l - 1 \in 1 .. n - 1 /\ box'[t][l - 1] = box[t][l]
  <2>1. ASSUME NEW l \in 2 .. n PROVE l - 1 \in 1 .. n - 1 /\ box'[t][l - 1] = box[t][l]
    <3>1. l - 1 \in 1 .. Len(box'[t]) /\ l - 1 + 1 = l /\ l - 1 \in 1 .. n - 1
      BY <1>5
    <3>2. box'[t][l - 1] = box[t][l - 1 + 1]
      BY <1>5, <3>1
    <3> QED BY <3>1, <3>2
  <2> QED BY <2>1
<1>11. content'[i] = content[i] \/ content'[i] = p + t + 1
  <2>1. CASE Transformed(t)
    BY <2>1, TransformRight
  <2>2. CASE UNCHANGED content
    BY <2>2
  <2> QED BY <2>1, <2>2, WorkerContent
<1>12. CASE content[i] = p + t + 1
  <2>1. content'[i] = p' + t + 1
    BY <1>1, <1>11, <1>12
  <2> QED BY <1>3, <2>1 DEF Good
<1>13. ASSUME NEW l \in 1 .. n, i \in box[t][l].to
       PROVE  Good(t, n - 1, Active(kind, t))'
  <2>1. CASE l = 1
    <3>1. box[t][1].op \in Transforms
      BY <1>8, <1>13, <2>1 DEF Fits, Ops, Transforms, Setups
    <3>2. Transformed(t)
      BY <3>1, TransformsOnly
    <3>3. content'[i] = p + t + 1
      BY <1>13, <2>1, <3>2, TransformRight
    <3>4. content'[i] = p' + t + 1
      BY <1>1, <3>3
    <3> QED BY <1>3, <3>4 DEF Good
  <2>2. CASE l # 1
    <3>1. l \in 2 .. n
      BY <2>2
    <3>2. i \in box'[t][l - 1].to /\ l - 1 \in 1 .. n - 1
      BY <1>10, <1>13, <3>1
    <3> QED BY <1>3, <3>2 DEF Good
  <2> QED BY <2>1, <2>2
<1>14. ASSUME NEW l \in 1 .. n, i \in box[t][l].awaits, PendingOn(i)
       PROVE  Good(t, n - 1, Active(kind, t))'
  <2>1. CASE l = 1
    <3>1. box[t][1].op = "await" /\ box[t][1].from = {} /\ box[t][1].awaits = {i}
      <4>1. box[t][1].op = "await"
        BY <1>8, <1>14, <2>1 DEF Fits, Ops, Transforms, Setups
      <4> QED BY <1>8, <1>14, <2>1, <4>1 DEF Fits
    <3>2. loan[i] # 0 /\ fate[loan[i]] # "pending"
      BY <1>1, <1>6, <3>1, WorkerStep
    <3>3. PICK k \in 1 .. Len(requests) : fate[k] = "pending" /\ requests[k].image = i
      BY <1>14 DEF PendingOn, PendingRead
    <3>4. loan[i] = k
      BY <3>3 DEF Requested
    <3> QED BY <3>2, <3>3, <3>4
  <2>2. CASE l # 1
    <3>1. l \in 2 .. n
      BY <2>2
    <3>2. i \in box'[t][l - 1].awaits /\ l - 1 \in 1 .. n - 1
      BY <1>10, <1>14, <3>1
    <3>3. PendingOn(i)'
      BY <1>9, <1>14
    <3>4. \E h \in 1 .. n - 1 : i \in box'[t][h].awaits
      BY <3>2
    <3>5. (PendingOn(i) /\ Awaited(t, n - 1, i))'
      BY <3>3, <3>4 DEF Awaited
    <3> QED BY <1>3, <3>5 DEF Good
  <2> QED BY <2>1, <2>2
<1>15. \/ content[i] = p + t + 1
       \/ \E l \in 1 .. n : i \in box[t][l].to
       \/ PendingOn(i) /\ \E l \in 1 .. n : i \in box[t][l].awaits
  BY <1>2 DEF Good, Awaited
<1> QED BY <1>12, <1>13, <1>14, <1>15

(* The other workers have their own images.                                *)
LEMMA OtherGood ==
  ASSUME Control, Shaped, DataTypes, Flow, ReferenceRight, NEW t \in Threads, Worker(t), main' # "crashed",
         Well', NEW u \in Threads \ {t}, NEW kind \in Kinds, NEW n, Good(u, n, Active(kind, u))
  PROVE  Good(u, n, Active(kind, u))'
<1> USE DEF Control
<1>1. UNCHANGED <<job, p, side, requests, fate>>
  BY WorkerFacts
<1>2. PICK i \in Images : i = Active(kind, u)
  BY MessageTypes
<1>3. Active(kind, u)' = i
  BY <1>1, <1>2 DEF Active
<1>4. box[t] # <<>> /\ box' = [box EXCEPT ![t] = Tail(box[t])]
  BY WorkerStep
<1>5. box'[u] = box[u]
  BY <1>4, PopStep
<1>6. PendingOn(i)' = PendingOn(i)
  BY <1>1 DEF PendingOn, PendingRead
<1>7. content'[i] = content[i]
  <2>1. CASE Transformed(t)
    <3>1. PICK k1 \in Kinds : \A l \in Images : l # Active(k1, t) => content'[l] = content[l]
      BY <2>1, TransformRight
    <3>2. i # Active(k1, t)
      BY <1>2 DEF Active
    <3> QED BY <3>1, <3>2
  <2>2. CASE UNCHANGED content
    BY <2>2
  <2> QED BY <2>1, <2>2, WorkerContent
<1> QED BY <1>1, <1>2, <1>3, <1>5, <1>6, <1>7 DEF Good, Awaited

(* Workers keep the projections flowing.                                   *)
LEMMA WorkerFlow ==
  ASSUME Control, Control', Requested, Shaped, DataTypes, Flow, ReferenceRight, NEW t \in Threads, Worker(t)
  PROVE  Flow'
<1> USE DEF Control
<1>1. UNCHANGED <<job, p, side, requests, fate>>
  BY WorkerFacts
<1>2. CASE ~Well'
  BY <1>2 DEF Flow, GroupRight, Fed
<1>3. CASE main' = "crashed"
  <2>1. \A kind : ~Ready(kind)'
    BY <1>3 DEF Ready
  <2>2. \A u \in Threads : \A j \in 1 .. Len(box'[u]) : box'[u][j].op \notin Transforms
    BY <1>3 DEF Boxes, Fits, Filling
  <2> QED BY <2>1, <2>2 DEF Flow, GroupRight, Fed
<1>4. CASE main' # "crashed" /\ Well'
  <2>1. Well /\ ProjectionsThisStep' = ProjectionsThisStep /\ main' = main
    BY <1>4, WorkerWell, WorkerStep
  <2>2. box[t] # <<>> /\ box' = [box EXCEPT ![t] = Tail(box[t])]
    BY <1>4, WorkerStep
  <2>3. /\ Len(box[t]) \in Nat /\ Len(box[t]) > 0 /\ Len(box'[t]) = Len(box[t]) - 1
        /\ \A j \in 1 .. Len(box'[t]) : box'[t][j] = box[t][j + 1] /\ j + 1 \in 1 .. Len(box[t])
        /\ \A u \in Threads \ {t} : box'[u] = box[u]
    <3>1. Len(box[t]) \in Nat \ {0}
      BY <2>2, Taking
    <3>2. /\ Len(box'[t]) = Len(box[t]) - 1
          /\ \A j \in 1 .. Len(box'[t]) : box'[t][j] = box[t][j + 1] /\ j + 1 \in 1 .. Len(box[t])
          /\ \A u \in Threads \ {t} : box'[u] = box[u]
      BY <2>2, PopStep
    <3>3. Len(box[t]) \in Nat /\ Len(box[t]) > 0
      BY <3>1
    <3> QED BY <3>2, <3>3
  <2>4. \A kind : Ready(kind)' = Ready(kind)
    BY <1>1, <2>1, SameSizes DEF Ready
  <2>5. ASSUME NEW kind \in Kinds, NEW u \in Threads, Ready(kind)', u < ProjectionsThisStep
        PROVE  Good(u, Len(box[u]), Active(kind, u))'
    <3>1. Good(u, Len(box[u]), Active(kind, u))
      BY <2>1, <2>4, <2>5 DEF Flow, GroupRight
    <3>2. CASE u = t
      <4>1. PICK n \in 1 .. Len(box[t]) : n = Len(box[t])
        BY <2>3
      <4>2. Good(t, n, Active(kind, t))
        BY <3>1, <3>2, <4>1
      <4>3. Good(t, n - 1, Active(kind, t))'
        BY <1>4, <4>2, PopGood
      <4>4. n - 1 = Len(box'[t])
        BY <2>3, <4>1
      <4> QED BY <3>2, <4>3, <4>4
    <3>3. CASE u # t
      <4>1. PICK n \in Nat : n = Len(box[u])
        BY LenProperties DEF Types
      <4>2. Good(u, n, Active(kind, u))'
        BY <1>4, <3>1, <3>3, <4>1, OtherGood
      <4>3. n = Len(box'[u])
        BY <2>3, <3>3, <4>1
      <4> QED BY <4>2, <4>3
    <3> QED BY <3>2, <3>3
  <2>6. ASSUME NEW u \in Threads, NEW j \in 1 .. Len(box'[u]), box'[u][j].op \in Transforms, NEW i \in box'[u][j].from
        PROVE  Good(u, j - 1, i)'
    <3>1. PICK kind \in Kinds : i = Active(kind, u)'
      BY <2>6 DEF Boxes, Fits
    <3>2. i = Active(kind, u)
      BY <1>1, <3>1 DEF Active
    <3>3. CASE u = t
      <4>1. box'[t][j] = box[t][j + 1] /\ j + 1 \in 1 .. Len(box[t])
        BY <2>3, <3>3
      <4>2. Good(t, j + 1 - 1, i)
        BY <2>1, <2>6, <3>3, <4>1 DEF Flow, Fed
      <4>3. j + 1 - 1 = j /\ j \in 1 .. Len(box[t])
        BY <2>3, <4>1
      <4>4. Good(t, j, Active(kind, t))
        BY <3>2, <3>3, <4>2, <4>3
      <4>5. Good(t, j - 1, Active(kind, t))'
        BY <1>4, <4>3, <4>4, PopGood
      <4> QED BY <3>1, <3>3, <4>5
    <3>4. CASE u # t
      <4>1. box'[u] = box[u]
        BY <2>3, <3>4
      <4>2. Good(u, j - 1, i)
        BY <2>1, <2>6, <4>1 DEF Flow, Fed
      <4>3. PICK n : n = j - 1
        OBVIOUS
      <4>4. Good(u, n, Active(kind, u))
        BY <3>2, <4>2, <4>3
      <4>5. Good(u, n, Active(kind, u))'
        BY <1>4, <3>4, <4>4, OtherGood
      <4> QED BY <3>1, <4>3, <4>5
    <3> QED BY <3>3, <3>4
  <2> QED BY <2>1, <2>5, <2>6 DEF Flow, GroupRight, Fed
<1> QED BY <1>2, <1>3, <1>4

(* A group is not spoilt if the request is read or written.                *)
LEMMA SettleWell ==
  ASSUME Control, Requested, Settle, Well'
  PROVE  /\ UNCHANGED <<job, main, p, side, box, requests, exception, reference>>
         /\ ProjectionsThisStep' = ProjectionsThisStep
         /\ Well /\ IOWell
         /\ \E k \in 1 .. Len(requests) : Oldest(k) /\ (ReadsOne(k) \/ WritesOne(k))
<1>1. PICK k \in 1 .. Len(requests) :
        Oldest(k) /\ (ReadsOne(k) \/ WritesOne(k) \/ FailsOne(k) \/ DropsOne(k))
  BY SettleData
<1>2. ~IO!Failed'
  BY DEF Well
<1>3. ReadsOne(k) \/ WritesOne(k)
  BY <1>1, <1>2 DEF FailsOne, DropsOne
<1>4. ~IO!Failed
  BY <1>3 DEF ReadsOne, WritesOne
<1>5. UNCHANGED <<job, main, p, side, box, requests, exception, reference>> /\ ~closed
  BY SettleData
<1> QED BY <1>1, <1>3, <1>4, <1>5, SameSizes DEF Well, IOWell

(* What is read into an image of the group is the projection that belongs  *)
(* there.                                                                  *)
LEMMA ReadArrives ==
  ASSUME Control, Requested, ReadOrder, IOWell, NEW k \in 1 .. Len(requests), Oldest(k), requests[k].op = "read",
         NEW kind \in Kinds, NEW t \in Threads, requests[k].image = Active(kind, t)
  PROVE  nextRead = p + t + 1
<1> USE DEF Control
<1>1. Target(requests[k].image) = nextRead
  BY OldestRead
<1>2. PICK i \in Images : i = requests[k].image
  BY RequestTypes
<1>3. i[1] = kind /\ i[2] = t /\ i[3] = side[i[1]]
  BY <1>2 DEF Active
<1>4. kind = job.source
  BY <1>2, <1>3 DEF Requested
<1>5. main \notin Behind
  BY <1>2, <1>3, <1>4 DEF ReadOrder, ReadAhead, PendingRead, Oldest
<1>6. LoadBase = p + ProjectionsPerStep /\ p \in Nat /\ ProjectionsPerStep \in Nat /\ t \in Nat
  BY <1>5, Sizes DEF LoadBase, Types, Threads
<1> QED BY <1>1, <1>2, <1>3, <1>6 DEF Target

(* An image that will be right will be right when its request is settled.  *)
LEMMA SettleGood ==
  ASSUME Control, Requested, ReadOrder, DataTypes, Settle, Well',
         NEW kind \in Kinds, NEW t \in Threads, NEW n, Good(t, n, Active(kind, t))
  PROVE  Good(t, n, Active(kind, t))'
<1> USE DEF Control
<1>1. /\ UNCHANGED <<job, main, p, side, box, requests>> /\ IOWell
  BY SettleWell
<1>2. PICK k \in 1 .. Len(requests) : Oldest(k) /\ (ReadsOne(k) \/ WritesOne(k))
  BY SettleWell
<1>3. PICK i \in Images : i = Active(kind, t)
  BY MessageTypes
<1>4. Active(kind, t)' = i
  BY <1>1, <1>3 DEF Active
<1>5. Len(fate) = Len(requests)
  BY DEF Requested
<1>6. CASE ReadsOne(k) /\ requests[k].image = i
  <2>1. content'[i] = nextRead
    BY <1>6 DEF ReadsOne, DataTypes
  <2>2. nextRead = p + t + 1
    BY <1>1, <1>2, <1>3, <1>6, ReadArrives DEF ReadsOne
  <2> QED BY <1>1, <1>4, <2>1, <2>2 DEF Good
<1>7. CASE WritesOne(k) \/ requests[k].image # i
  <2>1. content'[i] = content[i]
    BY <1>2, <1>7, RequestTypes DEF ReadsOne, WritesOne, DataTypes
  <2>2. PendingOn(i) => PendingOn(i)'
    <3>1. ASSUME NEW j \in 1 .. Len(requests), fate[j] = "pending", requests[j].op = "read", requests[j].image = i
          PROVE  j # k
      BY <1>7, <3>1 DEF WritesOne
    <3> QED BY <1>1, <1>2, <1>5, <3>1 DEF PendingOn, PendingRead, Oldest
  <2> QED BY <1>1, <1>3, <1>4, <2>1, <2>2 DEF Good, Awaited
<1> QED BY <1>2, <1>6, <1>7

(* The I/O thread keeps the projections flowing.                           *)
LEMMA SettleFlow ==
  ASSUME Control, Control', Requested, ReadOrder, DataTypes, Flow, Settle
  PROVE  Flow'
<1> USE DEF Control
<1>1. CASE ~Well'
  BY <1>1 DEF Flow, GroupRight, Fed
<1>2. CASE Well'
  <2>1. UNCHANGED <<job, main, p, side, box>> /\ Well /\ ProjectionsThisStep' = ProjectionsThisStep
    BY <1>2, SettleWell
  <2>2. \A kind : Ready(kind)' = Ready(kind)
    BY <2>1, SameSizes DEF Ready
  <2>3. ASSUME NEW kind \in Kinds, NEW t \in Threads, Ready(kind)', t < ProjectionsThisStep
        PROVE  Good(t, Len(box[t]), Active(kind, t))'
    <3>1. PICK n : n = Len(box[t])
      OBVIOUS
    <3>2. Good(t, n, Active(kind, t))
      BY <2>1, <2>2, <2>3, <3>1 DEF Flow, GroupRight
    <3>3. Good(t, n, Active(kind, t))'
      BY <1>2, <3>2, SettleGood
    <3>4. n = Len(box'[t])
      BY <2>1, <3>1
    <3> QED BY <3>3, <3>4
  <2>4. ASSUME NEW t \in Threads, NEW j \in 1 .. Len(box'[t]), box'[t][j].op \in Transforms, NEW i \in box'[t][j].from
        PROVE  Good(t, j - 1, i)'
    <3>1. PICK kind \in Kinds : i = Active(kind, t)'
      BY <2>4 DEF Boxes, Fits
    <3>2. i = Active(kind, t)
      BY <2>1, <3>1 DEF Active
    <3>3. Good(t, j - 1, i)
      BY <2>1, <2>4 DEF Flow, Fed
    <3>4. PICK n : n = j - 1
      OBVIOUS
    <3>5. Good(t, n, Active(kind, t))
      BY <3>2, <3>3, <3>4
    <3>6. Good(t, n, Active(kind, t))'
      BY <1>2, <3>5, SettleGood
    <3> QED BY <3>1, <3>4, <3>6
  <2> QED BY <2>1, <2>3, <2>4 DEF Flow, GroupRight, Fed
<1> QED BY <1>1, <1>2

(* The reference projection should be known.                               *)
Known == p > 0 \/ main \in Checked \/ (Well /\ main \in {"correct"} \cup AfterCorrect)

(* The reference is taken when the first group has been converted, from    *)
(* the first image.                                                        *)
LEMMA FirstIsReference ==
  ASSUME Control, Requested, Flow, SetReference, Well, main' # "unwind"
  PROVE  reference' = 1
<1> USE DEF Control
<1>1. main = "reference" /\ p = 0 /\ job.beamPower /\ reference' = content[Active("attenuation", 0)]
  BY DEF SetReference, MainThrows, Scheduled
<1>2. job.source = "raw"
  BY <1>1, JobFacts
<1>3. Ready("attenuation") /\ "attenuation" \in Kinds
  BY <1>1, <1>2 DEF Ready, Kinds
<1>4. 0 \in Threads /\ 0 < ProjectionsThisStep
  BY <1>1, Sizes DEF Scheduled, Threads
<1>5. Good(0, Len(box[0]), Active("attenuation", 0))
  BY <1>3, <1>4 DEF Flow, GroupRight
<1>6. box[0] = <<>>
  BY <1>1, <1>4, IdleIsEmpty DEF Filling, Applying
<1>7. 1 .. Len(box[0]) = {}
  BY <1>6, EmptySeq
<1>8. content[Active("attenuation", 0)] = p + 0 + 1
  BY <1>5, <1>7 DEF Good, Awaited
<1> QED BY <1>1, <1>8

(* A group that passed the check of the exceptions is not spoilt.          *)
LEMMA CheckedWell ==
  ASSUME Control, Check, main' \in Checked, ~IO!Failed
  PROVE  Well
<1> USE DEF Control
<1>1. ~\E t \in 0 .. ProjectionsThisStep - 1 : exception[t] # "none"
  BY DEF Check, MainThrows
<1>2. \A t \in Threads : t < ProjectionsThisStep => t \in 0 .. ProjectionsThisStep - 1
  BY Sizes DEF Threads
<1> QED BY <1>1, <1>2 DEF Well

(* The reference should be known only after it has been taken.             *)
LEMMA MainKnows ==
  ASSUME Control, Requested, Main, job.beamPower, ~IO!Failed', Known', ~SetReference
  PROVE  Known
<1> USE DEF Control
<1>1. job.source = "raw" /\ ~IO!Failed
  BY JobFacts, FailedOnce
<1>2. CASE NextGroup
  BY <1>2 DEF NextGroup, Known
<1>3. CASE SwapAttenuation \/ SwapInput
  <2>1. main' \in {"swapInput", "request"} /\ p' = p
    BY <1>3, PhaseOrder DEF SwapAttenuation, SwapInput
  <2> QED BY <2>1 DEF Known, AfterCorrect
<1>4. CASE SwapFiltered
  <2>1. main = "swapFiltered" /\ p' = p /\ main' \in {"filter", "synchronize"} /\ ~NextGroup
    BY <1>4, PhaseOrder DEF SwapFiltered, FromFilter, NextGroup
  <2>2. Well' => Well
    BY <2>1, MainWell
  <2> QED BY <2>1, <2>2 DEF Known, AfterCorrect
<1>5. CASE Move /\ UNCHANGED <<job, p, side>> /\ ~NextGroup
  <2>1. CASE p > 0
    BY <2>1 DEF Known
  <2>2. CASE ~(p > 0) /\ main' \in Checked
    <3>1. main \in Checked \cup {"check"}
      BY <1>5, <2>2 DEF Move, FromConvert, FromSynchronize0, FromCorrect, FromSwap,
         FromFilter, FirstPhase, Ending
    <3>2. main = "check" => Check
      BY OnlyAt
    <3> QED BY <1>1, <2>2, <3>1, <3>2, CheckedWell DEF Known, AfterCorrect
  <2>3. CASE ~(p > 0) /\ Well' /\ main' \in {"correct"} \cup AfterCorrect
    <3>1. Well
      BY <1>5, <2>3, MainWell
    <3>2. p = 0
      BY <2>3 DEF Types
    <3>3. main # "reference"
      BY OnlyAt
    <3>4. main \in {"correct"} \cup AfterCorrect
      BY <1>1, <1>5, <2>3, <3>2, <3>3 DEF Move, FromConvert, FromSynchronize0,
         FirstPhase, Ending, AfterCorrect
    <3> QED BY <3>1, <3>4 DEF Known
  <2> QED BY <1>5, <2>1, <2>2, <2>3 DEF Known
<1> QED BY <1>2, <1>3, <1>4, <1>5, MainMoves

(* The reference is always right.                                          *)
LEMMA NextReference ==
  ASSUME Control, Control', Requested, ReadOrder, DataTypes, Shaped, Flow, ReferenceRight, [Next]_vars
  PROVE  ReferenceRight'
<1> USE DEF Control
<1>1. ReferenceRight <=> (job.beamPower /\ ~IO!Failed /\ Known => reference = 1)
  BY DEF ReferenceRight, Known
<1>2. ReferenceRight' <=> (job.beamPower /\ ~IO!Failed /\ Known => reference = 1)'
  BY DEF ReferenceRight, Known
<1>3. CASE Main /\ ~SetReference
  <2>1. reference' = reference /\ job' = job
    BY <1>3, MainFacts, MainMoves DEF SwapAttenuation, SwapInput, SwapFiltered,
       NextGroup
  <2> QED BY <1>1, <1>2, <1>3, <2>1, MainKnows, FailedOnce
<1>4. CASE SetReference
  <2>1. Main /\ ~NextGroup /\ main = "reference"
    BY <1>4 DEF Main, SetReference, NextGroup
  <2>2. p' = 0
    BY <1>4, <2>1 DEF SetReference, MainThrows, mainVars, Scheduled
  <2>3. main' = "unwind" \/ main' = FromCorrect
    BY <1>4, PhaseOrder DEF SetReference, MainThrows
  <2>4. main' = "unwind" => ~Known'
    BY <2>2 DEF Known, AfterCorrect
  <2>5. job.beamPower /\ main' # "unwind" => main' = "correct"
    BY <2>3 DEF FromCorrect
  <2>6. job.beamPower /\ main' # "unwind" /\ Known' => Well'
    BY <2>2, <2>5 DEF Known
  <2>7. Well' => Well /\ job' = job
    BY <2>1, MainWell
  <2>8. job' = job
    BY <1>4 DEF SetReference, MainThrows, mainVars
  <2> QED BY <1>2, <1>4, <2>4, <2>6, <2>7, <2>8, FirstIsReference
<1>5. ASSUME NEW t \in Threads, Worker(t) PROVE ReferenceRight'
  <2>1. UNCHANGED <<job, p, fate, reference>>
    BY <1>5, WorkerFacts
  <2>2. main' = main \/ main' = "crashed"
    BY <1>5, WorkerStep
  <2>3. Well' => Well
    BY <1>5, WorkerWell
  <2>4. Known' => Known
    BY <2>1, <2>2, <2>3 DEF Known, AfterCorrect
  <2> QED BY <1>1, <1>2, <2>1, <2>4 DEF IO!Failed
<1>6. CASE Settle
  <2>1. UNCHANGED <<job, main, p, reference>>
    BY <1>6, SettleData
  <2>2. ~IO!Failed' => ~IO!Failed
    BY <1>6, SettleData DEF ReadsOne, WritesOne, FailsOne, DropsOne
  <2>3. Well' => Well
    BY <1>6, SettleWell
  <2>4. Known' => Known
    BY <2>1, <2>3 DEF Known
  <2> QED BY <1>1, <1>2, <2>1, <2>2, <2>4
<1>7. CASE UNCHANGED vars
  BY <1>7 DEF vars, ReferenceRight, Well, IO!Failed, ProjectionsThisStep,
     ProjectionsPerStep
<1> QED BY <1>3, <1>4, <1>5, <1>6, <1>7 DEF Next, Ended, Main

(* The flow depends on nothing else.                                       *)
LEMMA StutterFlow ==
  ASSUME Flow, UNCHANGED vars
  PROVE  Flow'
<1>1. UNCHANGED vars
  OBVIOUS
<1>2. /\ Well' = Well /\ ProjectionsThisStep' = ProjectionsThisStep /\ UNCHANGED box
      /\ \A kind : Ready(kind)' = Ready(kind)
      /\ \A t, n, i : Good(t, n, i)' = Good(t, n, i)
      /\ \A kind, t : Active(kind, t)' = Active(kind, t)
  BY <1>1 DEF vars, Well, IO!Failed, ProjectionsThisStep, ProjectionsPerStep, Ready,
     Good, Awaited, PendingOn,
     PendingRead, Active
<1> QED BY <1>2 DEF Flow, GroupRight, Fed

(* The projections always flow as they should.                             *)
LEMMA NextFlow ==
  ASSUME Control, Control', Requested, ReadOrder, DataTypes, Shaped, Loaded, Flow, ReferenceRight, [Next]_vars
  PROVE  Flow'
<1>1. CASE UNCHANGED vars
  BY <1>1, StutterFlow
<1>2. CASE Next
  BY <1>2, <1>1, MainFlow, WorkerFlow, SettleFlow DEF Next, Ended
<1> QED BY <1>1, <1>2

(* At the start there is nothing to be wrong.                              *)
LEMMA InitFlow ==
  ASSUME Init
  PROVE  Loaded /\ Flow /\ ReferenceRight
<1>1. main = "create" /\ p = 0 /\ requests = <<>> /\ box = [t \in Threads |-> <<>>]
  BY DEF Init
<1>2. \A kind : ~Ready(kind)
  BY <1>1 DEF Ready
<1>3. \A t \in Threads : 1 .. Len(box[t]) = {}
  BY <1>1, EmptySeq
<1>4. Flow
  BY <1>2, <1>3 DEF Flow, GroupRight, Fed
<1>5. ReferenceRight
  BY <1>1 DEF ReferenceRight, AfterCorrect
<1>6. Control
  BY InitControl
<1>7. ASSUME NEW i \in Images PROVE ~Expected(i)
  <2>1. Issued = 0 /\ LoadBase = 0
    BY <1>1 DEF Issued, LoadBase, Behind
  <2>2. i[2] \in Nat
    BY ImageParts
  <2>3. CASE i[3] = side[i[1]]
    BY <1>1, <2>3 DEF Expected, Behind
  <2>4. CASE i[3] # side[i[1]]
    <3>1. Target(i) = 0 + i[2] + 1
      BY <2>1, <2>4 DEF Target
    <3> QED BY <2>1, <2>2, <3>1 DEF Expected
  <2> QED BY <2>3, <2>4
<1> QED BY <1>4, <1>5, <1>7 DEF Loaded

-----------------------------------------------------------------------------

(* Main has given up.                                                      *)
Lost == {"unwind", "threw", "crashed"}

(* While a group that has been sent to the back projectors is still this   *)
(* group.                                                                  *)
BackProjecting == {"synchronizeApplied", "barrierApplied", "checkApplied", "next"}

(* How many projections belong in a volume.                                *)
Total == IF job.atBothLimits THEN NumberOfProjections - 1 ELSE NumberOfProjections

(* How many of them the workers have been given.                           *)
Given == Lesser(IF main \in BackProjecting THEN p + ProjectionsPerStep ELSE p, Total)

(* How many of these worker t has still to apply.                          *)
Applies(t) ==
  CASE main = "synchronizeApplied" -> Len(box[t])
    [] main = "barrierApplied" -> Len(box[t]) - 1
    [] OTHER -> 0

(* Every worker has a volume, or is to allocate it.                        *)
Allocated ==
  main # "create" => \A t \in Threads :
    "allocateVolume" \in ready[t] \/ \E j \in 1 .. Len(box[t]) : box[t][j].op = "allocateVolume"

(* What a worker has applied and what it has still to apply are the        *)
(* projections it was given, in their order, each once.                    *)
Counted ==
  \A t \in Threads :
    /\ Len(volume[t]) + Applies(t) = Given
    /\ main \in Turn => p <= Len(volume[t])
    /\ main = "barrierApplied" => box[t] # <<>> /\ box[t][Len(box[t])].op = "barrier"
    /\ \A j \in 1 .. Applies(t) :
         box[t][j] = Apply(Active("filtered", Len(volume[t]) + j - 1 - p), Len(volume[t]) + j)

(* That is so for jobs that make a volume, unless something failed.        *)
Applied == job.volumeWriter /\ AllWell /\ main \notin Lost => Allocated /\ Counted

(* A subvolume has had the first so many projections, at their angles, and *)
(* those written had all.                                                  *)
Prefixed ==
  AllWell =>
    /\ \A t \in Threads :
         Len(volume[t]) <= Total /\ \A k \in 1 .. Len(volume[t]) : volume[t][k] = <<k, k>>
    /\ \A k \in 1 .. Len(volumeFile) : volumeFile[k] = WholeSubvolume

(* The turns are over.                                                     *)
Finishing == {"complete", "count", "writeVolume", "barrierVolume"}

(* They are over when the last projection has been dealt with, and volumes *)
(* are written only for jobs that make one.                                *)
Completed ==
  /\ main \in Finishing => p >= NumberOfProjections
  /\ main \in {"writeVolume", "barrierVolume"} => job.volumeWriter

(* What belongs in a volume, counted.                                      *)
LEMMA WholeFacts ==
  ASSUME Types
  PROVE  /\ Total \in Nat /\ Total <= NumberOfProjections
         /\ Len(WholeSubvolume) = Total
         /\ WholeSubvolume = [k \in 1 .. Total |-> <<k, k>>]
         /\ WholeSubvolume \in Seq(Projections \X Projections)
<1>1. Total \in Nat /\ Total <= NumberOfProjections
  BY DEF Total
<1>2. WholeSubvolume = [k \in 1 .. Total |-> <<k, k>>]
  BY DEF WholeSubvolume, WholeVolume, Total
<1>3. WholeSubvolume \in Seq(Projections \X Projections)
  <2>1. \A k \in 1 .. Total : <<k, k>> \in Projections \X Projections
    BY <1>1 DEF Projections
  <2> QED BY <1>1, <1>2, <2>1, IsASeq
<1>4. Len(WholeSubvolume) = Total
  BY <1>1, <1>2, <1>3, LenProperties
<1> QED BY <1>1, <1>2, <1>3, <1>4

(* What has had as many projections in order has had all of them.          *)
LEMMA IsWhole ==
  ASSUME Types, NEW s \in Seq(Projections \X Projections), Len(s) = Total, \A k \in 1 .. Len(s) : s[k] = <<k, k>>
  PROVE  s = WholeSubvolume
<1>1. WholeSubvolume \in Seq(Projections \X Projections) /\ Len(WholeSubvolume) = Total
      /\ \A k \in 1 .. Total : WholeSubvolume[k] = <<k, k>>
  BY WholeFacts
<1> QED BY <1>1, SeqEqual

(* What the prefix says of the volumes.                                    *)
LEMMA ImpliesVolume ==
  ASSUME Types, DataTypes, Prefixed
  PROVE  VolumeIsRight
<1>1. ASSUME NEW t \in Threads, AllWell
      PROVE  volume[t] = SubSeq(WholeSubvolume, 1, Len(volume[t]))
  <2>1. /\ volume[t] \in Seq(Projections \X Projections)
        /\ Len(volume[t]) \in Nat /\ Len(volume[t]) <= Total
        /\ \A k \in 1 .. Len(volume[t]) : volume[t][k] = <<k, k>>
    BY <1>1, LenProperties DEF Prefixed, DataTypes
  <2>2. /\ WholeSubvolume \in Seq(Projections \X Projections) /\ Len(WholeSubvolume) = Total
        /\ \A k \in 1 .. Total : WholeSubvolume[k] = <<k, k>> /\ Total \in Nat
    BY WholeFacts
  <2>3. PICK n \in Nat : n = Len(volume[t])
    BY <2>1
  <2>4. n <= Len(WholeSubvolume) /\ Len(WholeSubvolume) \in Nat
    BY <2>1, <2>2, <2>3, WholeFacts
  <2>5. /\ SubSeq(WholeSubvolume, 1, n) \in Seq(Projections \X Projections)
        /\ Len(SubSeq(WholeSubvolume, 1, n)) = n
        /\ \A k \in 1 .. n : SubSeq(WholeSubvolume, 1, n)[k] = WholeSubvolume[k]
    BY <2>2, <2>4
  <2>6. ASSUME NEW k \in 1 .. n
        PROVE  volume[t][k] = SubSeq(WholeSubvolume, 1, n)[k]
    <3>1. k \in 1 .. Total
      BY <2>1, <2>2, <2>3
    <3>2. volume[t][k] = <<k, k>>
      BY <2>1, <2>3
    <3> QED BY <2>2, <2>5, <3>1, <3>2
  <2>7. volume[t] = SubSeq(WholeSubvolume, 1, n)
    BY <2>1, <2>3, <2>5, <2>6, SeqEqual
  <2> QED BY <2>3, <2>7
<1> QED BY <1>1 DEF VolumeIsRight, Prefixed

(* What has failed has failed.                                             *)
LEMMA StillWell ==
  ASSUME Control, Requested, DataTypes, [Next]_vars, AllWell'
  PROVE  AllWell
<1>1. CASE Main
  <2>1. exception' = exception
    BY <1>1, MainFacts
  <2>2. ~mainFailed
    BY <1>1, MainFacts DEF AllWell, DataTypes
  <2>3. ~IO!Failed
    BY <1>1, FailedOnce DEF AllWell
  <2> QED BY <2>1, <2>2, <2>3 DEF AllWell
<1>2. ASSUME NEW t \in Threads, Worker(t) PROVE AllWell
  <2>1. UNCHANGED <<fate, mainFailed>>
    BY <1>2, WorkerFacts
  <2> QED BY <1>2, <2>1, WorkerThrows DEF AllWell, IO!Failed
<1>3. CASE Settle
  <2>1. UNCHANGED <<exception, mainFailed>>
    BY <1>3, SettleData
  <2>2. ~IO!Failed
    BY <1>3, SettleData DEF ReadsOne, WritesOne, FailsOne, DropsOne, AllWell
  <2> QED BY <2>1, <2>2 DEF AllWell
<1>4. CASE UNCHANGED vars
  BY <1>4 DEF vars, AllWell, IO!Failed
<1> QED BY <1>1, <1>2, <1>3, <1>4 DEF Next, Ended

(* The end comes after the turns.                                          *)
LEMMA FinishesFrom ==
  ASSUME Control, Main, ~NextGroup, main' \in Finishing
  PROVE  main \in Finishing /\ (main' \in {"writeVolume", "barrierVolume"} => job.volumeWriter \/ main \in {"writeVolume", "barrierVolume"})
<1> USE DEF Control, Finishing
<1>1. CASE WaitForCompletion \/ CountRequests \/ WriteVolume \/ BarrierVolume
  BY <1>1 DEF WaitForCompletion, CountRequests, WriteVolume, BarrierVolume, MainThrows
<1>2. CASE Synchronize \/ Barrier
  BY <1>2 DEF Synchronize, Barrier
<1>3. CASE Create \/ FirstRequests \/ SetReference \/ Leave
  BY <1>3, PhaseOrder, FirstPhaseIsBehind DEF Create, FirstRequests, SetReference,
     Leave, Request, EndRequests,
     MainThrows, FromCorrect, FromSwap, FromFilter, Behind, Scheduled
<1>4. CASE SwapAttenuation \/ SwapInput \/ RequestNext \/ SwapFiltered
  BY <1>4, PhaseOrder DEF SwapAttenuation, SwapInput, RequestNext, SwapFiltered,
     Request, EndRequests,
     FromConvert, FromSynchronize0, FromCorrect, FromSwap, FromFilter
<1>5. CASE Convert \/ CorrectBeamPower \/ Filter
  BY <1>5, PhaseOrder DEF Convert, CorrectBeamPower, Filter, FromSynchronize0,
     FromCorrect, FromSwap, FromFilter
<1>6. CASE Check \/ WriteAttenuation \/ WriteFiltered
  BY <1>6, PhaseOrder DEF Check, WriteAttenuation, WriteFiltered, Request, EndRequests,
     MainThrows, FromCheck,
     FromWrite, FromApply
<1>7. CASE ApplyProjections
  BY <1>7, PhaseOrder DEF ApplyProjections, Scheduled
<1> QED BY <1>1, <1>2, <1>3, <1>4, <1>5, <1>6, <1>7 DEF Main

(* Main finishes when it is complete.                                      *)
LEMMA Completes ==
  ASSUME Control, Completed, Main
  PROVE  Completed'
<1> USE DEF Control
<1>1. CASE NextGroup
  <2>1. p' \in Int /\ main' \in {"complete"} \cup Behind /\ (main' = "complete" => ~(p' < NumberOfProjections))
    BY <1>1, FirstPhaseIsBehind, Sizes DEF NextGroup, Types, Behind
  <2>2. p' < NumberOfProjections \/ p' >= NumberOfProjections
    BY <2>1
  <2> QED BY <2>1, <2>2 DEF Completed, Finishing, Behind
<1>2. CASE ~NextGroup
  <2>1. UNCHANGED <<job, p>>
    BY <1>2, MainMoves DEF SwapAttenuation, SwapInput, SwapFiltered
  <2>2. main' \in Finishing => main \in Finishing
    BY <1>2, FinishesFrom
  <2>3. main' \in {"writeVolume", "barrierVolume"} => job.volumeWriter \/ main \in {"writeVolume", "barrierVolume"}
    BY <1>2, FinishesFrom DEF Finishing
  <2> QED BY <2>1, <2>2, <2>3 DEF Completed, Finishing
<1> QED BY <1>1, <1>2

(* While the workers may have projections to apply.                        *)
AppliedStates == {"synchronizeApplied", "barrierApplied"}

(* How main goes through the back-projection of a group, and that it does  *)
(* nothing to it elsewhere.                                                *)
LEMMA BackProjects ==
  ASSUME Control, Main, main' \notin Lost, job.volumeWriter
  PROVE  \/ ApplyProjections /\ main' = "synchronizeApplied"
         \/ Synchronize /\ main = "synchronizeApplied" /\ main' = "barrierApplied"
         \/ Barrier /\ main = "barrierApplied" /\ main' = "checkApplied"
         \/ NextGroup
         \/ /\ main \notin AppliedStates /\ main' \notin AppliedStates
            /\ main \in BackProjecting <=> main' \in BackProjecting
            /\ main' \in Turn => main \in Turn \/ p = 0
            /\ UNCHANGED <<job, p>>
<1> USE DEF Control, BackProjecting, AppliedStates
<1>1. CASE WaitForCompletion \/ CountRequests \/ WriteVolume \/ BarrierVolume
  BY <1>1 DEF WaitForCompletion, CountRequests, WriteVolume, BarrierVolume, MainThrows,
     mainVars, Lost
<1>2. CASE Synchronize
  BY <1>2 DEF Synchronize, mainVars
<1>8. CASE Barrier
  BY <1>8 DEF Barrier, mainVars
<1>3. CASE Create \/ FirstRequests
  BY <1>3, FirstPhaseIsBehind DEF Create, FirstRequests, Request, EndRequests,
     mainVars, Behind, Scheduled
<1>9. CASE SetReference \/ Leave
  BY <1>9, PhaseOrder DEF SetReference, Leave, mainVars, Lost,
     MainThrows, FromCorrect, FromSwap, FromFilter, Scheduled
<1>4. CASE SwapAttenuation \/ SwapInput \/ RequestNext \/ SwapFiltered
  BY <1>4, PhaseOrder DEF SwapAttenuation, SwapInput, RequestNext, SwapFiltered,
     Request, EndRequests,
     FromConvert, FromSynchronize0, FromCorrect, FromSwap, FromFilter
<1>5. CASE Convert \/ CorrectBeamPower \/ Filter
  BY <1>5, PhaseOrder DEF Convert, CorrectBeamPower, Filter, FromSynchronize0,
     FromCorrect, FromSwap, FromFilter, mainVars
<1>6. CASE Check
  BY <1>6, PhaseOrder DEF Check, MainThrows, FromCheck, FromWrite, FromApply, mainVars,
     Lost
<1>10. CASE WriteAttenuation \/ WriteFiltered
  BY <1>10, PhaseOrder DEF WriteAttenuation, WriteFiltered, Request, EndRequests,
     FromWrite, FromApply
<1>7. CASE ApplyProjections
  BY <1>7, PhaseOrder DEF ApplyProjections, Scheduled
<1> QED BY <1>1, <1>2, <1>3, <1>4, <1>5, <1>6, <1>7, <1>8, <1>9, <1>10 DEF Main

(* The volumes are allocated by a message of the first step of main.       *)
LEMMA VolumeSent ==
  ASSUME Types, Create, job.volumeWriter, NEW t \in Threads
  PROVE  \E j \in 1 .. Len(box'[t]) : box'[t][j].op = "allocateVolume"
<1> DEFINE a == IF Filters(job) THEN <<Plain("createFilterer")>> ELSE <<>>
           x == Plain("createBackProjector")
           y == Plain("allocateVolume")
<1>1. a \in Seq(Messages) /\ x \in Messages /\ y \in Messages /\ y.op = "allocateVolume"
  <2>1. Plain("createFilterer") \in Messages /\ x \in Messages /\ y \in Messages
    BY MessageTypes DEF Ops, Setups
  <2>2. y.op = "allocateVolume"
    BY DEF Plain, Message
  <2> HIDE DEF x, y
  <2> QED BY <2>1, <2>2
<1>2. box'[t] = a \o <<x, y>>
  BY DEF Create
<1> HIDE DEF a, x, y
<1>3. Len(a) \in Nat
  BY <1>1, LenProperties
<1>4. Len(box'[t]) = Len(a) + 2 /\ box'[t][Len(a) + 2] = y
  BY <1>1, <1>2, AppendedTwo
<1> QED BY <1>1, <1>3, <1>4

(* And main loses none of these messages.                                  *)
LEMMA MainAllocated ==
  ASSUME Control, job.volumeWriter, Allocated, Main
  PROVE  Allocated'
<1> USE DEF Control
<1>1. CASE Create
  BY <1>1, VolumeSent DEF Allocated
<1>2. CASE ~Create
  <2>1. main # "create"
    BY <1>2 DEF Main, FirstRequests, SwapAttenuation, SwapInput, RequestNext, Convert,
       Synchronize, Barrier,
       SetReference, CorrectBeamPower, SwapFiltered, Filter, Check, WriteAttenuation, WriteFiltered,
       ApplyProjections, NextGroup, WaitForCompletion, CountRequests, WriteVolume, BarrierVolume, Leave
  <2>2. ready' = ready
    BY MainFacts
  <2> SUFFICES ASSUME NEW t \in Threads, "allocateVolume" \notin ready[t]
               PROVE  \E j \in 1 .. Len(box'[t]) : box'[t][j].op = "allocateVolume"
    BY <2>2 DEF Allocated
  <2>3. PICK j \in 1 .. Len(box[t]) : box[t][j].op = "allocateVolume"
    BY <2>1 DEF Allocated
  <2>4. main \in Filling \cup {"firstRequests"}
    BY <2>3 DEF Boxes, Fits, Setups
  <2>5. ~Barrier
    <3>1. SUFFICES ASSUME Barrier PROVE FALSE
      OBVIOUS
    <3>2. box[t] # <<>> /\ Head(box[t]).op = "barrier"
      BY <3>1 DEF Barrier, AtBarrier
    <3>3. 1 \in 1 .. Len(box[t]) /\ box[t][1].op = "barrier"
      BY <3>2, Taking
    <3>4. Fits(t, 1, box[t][1])
      BY <3>3 DEF Boxes
    <3>5. Len(box[t]) = 1
      BY <3>3, <3>4 DEF Fits
    <3> QED BY <2>3, <3>3, <3>5
  <2>6. ~BarrierVolume
    BY <2>4 DEF BarrierVolume, Filling
  <2>7. Keeps(t) /\ Len(box[t]) \in Nat /\ Len(box'[t]) \in Nat
    BY <2>5, <2>6, MainSends, LenProperties DEF Adds, Types
  <2> QED BY <2>3, <2>7 DEF Keeps
<1> QED BY <1>1, <1>2

(* The bounds of these numbers.                                            *)
LEMMA Bounds ==
  ASSUME Control
  PROVE  /\ p \in Nat /\ ProjectionsPerStep \in Nat /\ ProjectionsPerStep > 0 /\ Total \in Nat
         /\ Total <= NumberOfProjections /\ Total >= NumberOfProjections - 1
         /\ Given \in Nat /\ Given <= Total
         /\ p < NumberOfProjections => p <= Total
<1>1. p \in Nat /\ ProjectionsPerStep \in Nat /\ ProjectionsPerStep > 0
  BY Sizes DEF Control, Types
<1>2. Total \in Nat /\ Total <= NumberOfProjections /\ Total >= NumberOfProjections - 1
  BY DEF Total
<1>3. Given \in Nat /\ Given <= Total
  BY <1>1, <1>2 DEF Given, Lesser
<1> QED BY <1>1, <1>2, <1>3

(* What ApplyProjections gives the workers is the rest of the group, the   *)
(* last projection left out if it repeats the first.                       *)
LEMMA GroupIsGiven ==
  ASSUME Control, p < NumberOfProjections
  PROVE  /\ Applicable \in Nat
         /\ p + Applicable = Lesser(p + ProjectionsPerStep, Total)
<1>1. /\ p \in Nat /\ ProjectionsPerStep \in Nat /\ ProjectionsPerStep > 0 /\ NumberOfProjections \in Nat
  BY Bounds
<1>2. PICK n \in Nat : n = ProjectionsPerStep
  BY <1>1
<1>3. ProjectionsThisStep = IF n < NumberOfProjections - p THEN n ELSE NumberOfProjections - p
  BY <1>2 DEF ProjectionsThisStep, Lesser
<1>4. CASE job.atBothLimits
  <2>1. CASE n < NumberOfProjections - p
    <3>1. ProjectionsThisStep = n /\ p + n # NumberOfProjections
      BY <1>1, <1>3, <2>1
    <3>2. Applicable = n
      BY <1>4, <3>1 DEF Applicable
    <3> QED BY <1>1, <1>2, <1>4, <2>1, <3>2 DEF Lesser, Total
  <2>2. CASE ~(n < NumberOfProjections - p)
    <3>1. ProjectionsThisStep = NumberOfProjections - p /\ p + ProjectionsThisStep = NumberOfProjections
      BY <1>1, <1>3, <2>2
    <3>2. Applicable = NumberOfProjections - p - 1
      BY <1>4, <3>1 DEF Applicable
    <3> QED BY <1>1, <1>2, <1>4, <2>2, <3>2 DEF Lesser, Total
  <2> QED BY <2>1, <2>2
<1>5. CASE ~job.atBothLimits
  <2>1. Applicable = ProjectionsThisStep /\ Total = NumberOfProjections
    BY <1>5 DEF Applicable, Total
  <2> QED BY <1>1, <1>2, <1>3, <2>1 DEF Lesser
<1> QED BY <1>4, <1>5

(* The steps of main that count: they give a group to the workers, wait    *)
(* for them, and go on to the next.                                        *)
LEMMA ApplyCounted ==
  ASSUME Control, DataTypes, job.volumeWriter, Counted, ApplyProjections, main' = "synchronizeApplied"
  PROVE  Counted'
<1> USE DEF Control
<1>1. main = "apply" /\ UNCHANGED <<job, p, side, volume>>
  BY DEF ApplyProjections, mainVars, dataVars
<1>2. p < NumberOfProjections /\ p \in Nat /\ Total \in Nat
  BY <1>1, Bounds DEF Scheduled
<1>3. ProjectionsPerStep' = ProjectionsPerStep /\ Total' = Total
  BY <1>1, SameSizes DEF Total
<1>4. AppliesSent
  BY ApplyStep
<1>5. Applicable \in Nat /\ p + Applicable = Lesser(p + ProjectionsPerStep, Total)
  BY <1>2, GroupIsGiven
<1>6. Given = p
  <2>1. Given = Lesser(p, Total) /\ p <= Total
    BY <1>1, <1>2, Bounds DEF Given, BackProjecting
  <2> QED BY <1>2, <2>1 DEF Lesser
<1>7. Given' = p + Applicable
  BY <1>1, <1>3, <1>5 DEF Given, BackProjecting
<1>8. ASSUME NEW t \in Threads
      PROVE  /\ Len(volume[t]) = p
             /\ Len(box'[t]) = Applicable
  BY <1>1, <1>2, <1>4, <1>6, LenProperties DEF Counted, Applies, AppliesSent, DataTypes
<1>9. ASSUME NEW t \in Threads, NEW j \in 1 .. Len(box'[t])
      PROVE  box'[t][j] = Apply(Active("filtered", Len(volume[t]) + j - 1 - p), Len(volume[t]) + j)'
  <2>1. box'[t][j] = Apply(Active("filtered", j - 1), p + j)
    BY <1>4 DEF AppliesSent
  <2>2. Len(volume[t]) + j - 1 - p = j - 1 /\ Len(volume[t]) + j = p + j /\ j \in Int
    BY <1>2, <1>8, <1>5
  <2> QED BY <1>1, <2>1, <2>2 DEF Active
<1>10. \A t \in Threads : Applies(t)' = Len(box'[t])
  BY DEF Applies
<1> QED BY <1>1, <1>2, <1>5, <1>7, <1>8, <1>9, <1>10 DEF Counted

LEMMA SynchronizeCounted ==
  ASSUME Control, DataTypes, Counted, Synchronize, main = "synchronizeApplied"
  PROVE  Counted'
<1> USE DEF Control
<1>1. main' = "barrierApplied" /\ UNCHANGED <<job, p, side, volume>>
  BY DEF Synchronize, mainVars, dataVars
<1>2. BarriersSent
  BY SynchronizeStep
<1>3. Given' = Given
  BY <1>1, SameSizes DEF Given, Total, BackProjecting
<1>4. ASSUME NEW t \in Threads
      PROVE  /\ Applies(t)' = Applies(t) /\ Applies(t) = Len(box[t])
             /\ \A j \in 1 .. Len(box[t]) : box'[t][j] = box[t][j]
             /\ box'[t] # <<>> /\ box'[t][Len(box'[t])].op = "barrier"
  <2>1. Len(box[t]) \in Nat /\ Len(box'[t]) = Len(box[t]) + 1 /\ box'[t][Len(box[t]) + 1] = Plain("barrier")
        /\ \A j \in 1 .. Len(box[t]) : box'[t][j] = box[t][j]
    BY <1>2, LenProperties DEF BarriersSent, Types
  <2>2. box'[t] # <<>>
    BY <2>1
  <2>3. Plain("barrier").op = "barrier"
    BY DEF Plain, Message
  <2>4. box'[t][Len(box'[t])].op = "barrier"
    BY <2>1, <2>3
  <2> QED BY <1>1, <2>1, <2>2, <2>4 DEF Applies
<1> QED BY <1>1, <1>3, <1>4 DEF Counted, Active

LEMMA BarrierCounted ==
  ASSUME Control, DataTypes, Counted, Barrier, main = "barrierApplied"
  PROVE  Counted'
<1> USE DEF Control
<1>1. main' = "checkApplied" /\ UNCHANGED <<job, p, side, volume>>
  BY DEF Barrier, mainVars, dataVars
<1>2. Given' = Given
  BY <1>1, SameSizes DEF Given, Total, BackProjecting
<1>3. ASSUME NEW t \in Threads
      PROVE  Applies(t) = 0 /\ Applies(t)' = 0
  <2>1. box[t] # <<>> /\ Head(box[t]).op = "barrier"
    BY DEF Barrier, AtBarrier
  <2>2. 1 \in 1 .. Len(box[t]) /\ box[t][1].op = "barrier"
    BY <2>1, Taking
  <2>3. Fits(t, 1, box[t][1])
    BY <2>2 DEF Boxes
  <2>4. Len(box[t]) = 1
    BY <2>2, <2>3 DEF Fits
  <2> QED BY <1>1, <2>4 DEF Applies
<1> QED BY <1>1, <1>2, <1>3 DEF Counted

LEMMA NextGroupCounted ==
  ASSUME Control, DataTypes, Counted, NextGroup
  PROVE  Counted'
<1> USE DEF Control
<1>1. main = "next" /\ p' = p + ProjectionsPerStep /\ UNCHANGED <<job, volume>>
  BY DEF NextGroup, dataVars
<1>2. \/ main' \in {"swapAttenuation", "swapInput"} /\ p' < NumberOfProjections
      \/ main' = "complete"
  BY FirstPhaseIsBehind DEF NextGroup
<1>3. Total' = Total /\ Total \in Nat /\ p \in Nat /\ ProjectionsPerStep \in Nat /\ (p' < NumberOfProjections => p' <= Total)
  BY <1>1, Bounds DEF Total
<1>4. Given = Lesser(p + ProjectionsPerStep, Total) /\ Given' = Lesser(p', Total)
  BY <1>1, <1>2, <1>3 DEF Given, BackProjecting
<1>5. Given' = Given /\ (p' < NumberOfProjections => p' = Given)
  BY <1>1, <1>3, <1>4 DEF Lesser
<1>6. \A t \in Threads : Applies(t) = 0 /\ Applies(t)' = 0
  BY <1>1, <1>2 DEF Applies
<1>7. ASSUME NEW t \in Threads, main' \in Turn
      PROVE  p' <= Len(volume[t])
  <2>1. Len(volume[t]) + 0 = Given /\ Len(volume[t]) \in Nat
    BY <1>6, LenProperties DEF Counted, DataTypes
  <2> QED BY <1>1, <1>2, <1>3, <1>5, <1>7, <2>1
<1>8. \A t \in Threads : Len(volume'[t]) + Applies(t)' = Given'
  BY <1>1, <1>5, <1>6 DEF Counted
<1> QED BY <1>1, <1>2, <1>6, <1>7, <1>8 DEF Counted

(* Main keeps count.                                                       *)
LEMMA MainCounted ==
  ASSUME Control, job.volumeWriter, DataTypes, Counted, Main, main' \notin Lost
  PROVE  Counted'
<1> USE DEF Control
<1>1. CASE /\ main \notin AppliedStates /\ main' \notin AppliedStates
           /\ main \in BackProjecting <=> main' \in BackProjecting
           /\ main' \in Turn => main \in Turn \/ p = 0
           /\ UNCHANGED <<job, p>>
  <2>1. volume' = volume
    BY MainFacts
  <2>2. Given' = Given
    BY <1>1, SameSizes DEF Given, Total
  <2>3. \A t \in Threads : Applies(t) = 0 /\ Applies(t)' = 0
    BY <1>1 DEF Applies, AppliedStates
  <2>4. \A t \in Threads : Len(volume[t]) \in Nat
    BY LenProperties DEF DataTypes
  <2> QED BY <1>1, <2>1, <2>2, <2>3, <2>4 DEF Counted, AppliedStates
<1> QED BY <1>1, BackProjects, ApplyCounted, SynchronizeCounted, BarrierCounted,
           NextGroupCounted

(* Main keeps the volumes as they should be.                               *)
LEMMA MainApplied ==
  ASSUME Control, Requested, DataTypes, Applied, Main
  PROVE  Applied'
<1> USE DEF Control
<1> SUFFICES ASSUME job'.volumeWriter, AllWell', main' \notin Lost
             PROVE  Allocated' /\ Counted'
  BY DEF Applied
<1>1. job' = job
  BY MainMoves DEF SwapAttenuation, SwapInput, SwapFiltered, NextGroup
<1>2. AllWell
  BY StillWell DEF Next
<1>3. main \notin Lost
  BY OnlyAt DEF Lost, Main, Create, FirstRequests, SwapAttenuation, SwapInput,
     RequestNext, Convert, Synchronize, Barrier,
       SetReference, CorrectBeamPower, SwapFiltered, Filter, Check, WriteAttenuation, WriteFiltered,
       ApplyProjections, NextGroup, WaitForCompletion, CountRequests, WriteVolume, BarrierVolume, Leave
<1>4. Allocated /\ Counted
  BY <1>1, <1>2, <1>3 DEF Applied
<1> QED BY <1>1, <1>4, MainAllocated, MainCounted

LEMMA MainPrefixed ==
  ASSUME Control, Requested, DataTypes, Prefixed, Main
  PROVE  Prefixed'
<1>1. job' = job
  BY MainMoves DEF SwapAttenuation, SwapInput, SwapFiltered, NextGroup
<1>2. UNCHANGED <<volume, volumeFile>>
  BY MainFacts
<1>3. AllWell' => AllWell
  BY StillWell DEF Next
<1> QED BY <1>1, <1>2, <1>3 DEF Prefixed, Total, WholeSubvolume

(* A worker that throws is not well.                                       *)
LEMMA Throws ==
  ASSUME DataTypes, NEW t \in Threads, Throw(t), box[t] # <<>>, Head(box[t]).op # "none"
  PROVE  ~AllWell'
<1>1. exception'[t] = IF exception[t] = "none" THEN Head(box[t]).op ELSE exception[t]
  BY DEF Throw, DataTypes
<1> QED BY <1>1 DEF AllWell

(* A worker that is to allocate its volume does, or throws.                *)
LEMMA WorkerSetsUp ==
  ASSUME Control, DataTypes, NEW t \in Threads, Worker(t), AllWell', box[t][1].op = "allocateVolume"
  PROVE  "allocateVolume" \in ready'[t]
<1> USE DEF Control
<1>1. box[t] # <<>> /\ Head(box[t]) = box[t][1]
  BY WorkerStep, Taking
<1>5. box[t][1].from = {}
  <2>1. 1 \in 1 .. Len(box[t])
    BY <1>1, WorkerStep, Taking
  <2>2. Fits(t, 1, box[t][1])
    BY <2>1 DEF Boxes
  <2> QED BY <2>2 DEF Fits, Setups
<1>2. Setup(t) \/ AllocateNothing(t)
  BY <1>1, <1>5 DEF Worker, AwaitBuffer, TransformImage, ApplyProjection,
     WriteVolumeData, Crash, Finish,
     Throw, Done, Types
<1>3. CASE Setup(t)
  BY <1>1, <1>3, Throws DEF Setup, DataTypes
<1>4. CASE AllocateNothing(t)
  <2>1. exception'[t] = IF exception[t] = "none" THEN "allocateVolume" ELSE exception[t]
    BY <1>4 DEF AllocateNothing, DataTypes
  <2> QED BY <2>1 DEF AllWell
<1> QED BY <1>2, <1>3, <1>4

(* Workers keep their volumes.                                             *)
LEMMA WorkerAllocated ==
  ASSUME Control, DataTypes, NEW t \in Threads, Worker(t), main' # "crashed", AllWell', Allocated
  PROVE  Allocated'
<1> USE DEF Control
<1>1. main' = main /\ box[t] # <<>> /\ box' = [box EXCEPT ![t] = Tail(box[t])]
  BY WorkerStep
<1>2. \A u \in Threads : ready[u] \subseteq ready'[u]
  BY DEF Worker, Setup, AllocateNothing, AwaitBuffer, TransformImage, ApplyProjection,
     WriteVolumeData, Crash,
     Finish, Throw, workVars, DataTypes
<1>3. /\ Len(box[t]) \in Nat /\ Len(box'[t]) = Len(box[t]) - 1
      /\ \A j \in 1 .. Len(box'[t]) : box'[t][j] = box[t][j + 1]
      /\ \A u \in Threads \ {t} : box'[u] = box[u]
  BY <1>1, PopStep
<1>4. SUFFICES ASSUME main # "create", NEW u \in Threads, "allocateVolume" \notin ready'[u]
               PROVE  \E j \in 1 .. Len(box'[u]) : box'[u][j].op = "allocateVolume"
  BY <1>1 DEF Allocated
<1>5. PICK j \in 1 .. Len(box[u]) : box[u][j].op = "allocateVolume"
  BY <1>2, <1>4 DEF Allocated
<1>6. CASE u # t
  BY <1>3, <1>5, <1>6
<1>7. CASE u = t
  <2>1. j # 1
    BY <1>4, <1>5, <1>7, WorkerSetsUp
  <2>2. j - 1 \in 1 .. Len(box'[t]) /\ j - 1 + 1 = j
    BY <1>3, <1>5, <1>7, <2>1
  <2>3. box'[t][j - 1] = box[t][j - 1 + 1]
    BY <1>3, <2>2
  <2>4. box'[t][j - 1].op = "allocateVolume"
    BY <1>5, <1>7, <2>2, <2>3
  <2> QED BY <1>7, <2>2, <2>4
<1> QED BY <1>6, <1>7

(* While a worker is back-projecting, what it does next is to apply the    *)
(* next projection.                                                        *)
LEMMA AppliesNext ==
  ASSUME Control, DataTypes, Counted, Allocated, NEW t \in Threads, Worker(t), main' # "crashed", main \in AppliedStates, AllWell'
  PROVE  /\ p < NumberOfProjections /\ p <= Len(volume[t]) /\ Len(volume[t]) < Given
         /\ Given = Lesser(p + ProjectionsPerStep, Total)
         /\ Applies(t) \in Nat /\ Applies(t) >= 1 /\ Applies(t) <= Len(box[t])
         /\ box[t][1] = Apply(Active("filtered", Len(volume[t]) - p), Len(volume[t]) + 1)
         /\ volume' = [volume EXCEPT ![t] = Append(volume[t], <<content[Active("filtered", Len(volume[t]) - p)], Len(volume[t]) + 1>>)]
         /\ UNCHANGED volumeFile
<1> USE DEF Control, AppliedStates
<1>1. box[t] # <<>> /\ Len(box[t]) \in Nat \ {0} /\ Head(box[t]) = box[t][1] /\ main' = main
  BY WorkerStep, Taking
<1>2. Fits(t, 1, box[t][1]) /\ box[t][1].op \in Ops
  <2>1. 1 \in 1 .. Len(box[t])
    BY <1>1
  <2> QED BY <2>1, AwaitTypes DEF Boxes, Messages
<1>3. box[t][1].op \in {"apply", "barrier"}
  BY <1>2 DEF Fits, Ops, Setups, Transforms, Filling
<1>4. ApplyProjection(t) /\ box[t][1].op = "apply"
  <2>1. box[t][1].to = {}
    BY <1>2, <1>3 DEF Fits
  <2> QED BY <1>1, <1>3, <2>1 DEF Worker, Setup, AllocateNothing, AwaitBuffer,
             TransformImage, ApplyProjection,
       WriteVolumeData, Crash
<1>5. Applies(t) \in Nat /\ Applies(t) >= 1 /\ Applies(t) <= Len(box[t])
  <2>1. CASE main = "synchronizeApplied"
    BY <1>1, <2>1 DEF Applies
  <2>2. CASE main = "barrierApplied"
    <3>1. box[t][Len(box[t])].op = "barrier"
      BY <2>2 DEF Counted
    <3>2. Len(box[t]) # 1
      BY <1>4, <3>1
    <3>3. Applies(t) = Len(box[t]) - 1
      BY <2>2 DEF Applies
    <3>4. PICK n \in Nat \ {0} : n = Len(box[t])
      BY <1>1
    <3>5. n # 1 /\ Applies(t) = n - 1
      BY <3>2, <3>3, <3>4
    <3>6. n - 1 \in Nat /\ n - 1 >= 1 /\ n - 1 <= n
      BY <3>5
    <3> QED BY <3>4, <3>5, <3>6
  <2> QED BY <2>1, <2>2
<1>6. p < NumberOfProjections /\ p \in Nat /\ p <= Len(volume[t]) /\ Len(volume[t]) \in Nat
  BY LenProperties, Bounds DEF Counted, Scheduled, DataTypes
<1>7. 1 \in 1 .. Applies(t)
  BY <1>5
<1>8. box[t][1] = Apply(Active("filtered", Len(volume[t]) + 1 - 1 - p), Len(volume[t]) + 1)
  BY <1>7 DEF Counted
<1>9. Len(volume[t]) + 1 - 1 - p = Len(volume[t]) - p
  <2>1. PICK n \in Nat : n = Len(volume[t])
    BY <1>6
  <2>2. n + 1 - 1 - p = n - p
    BY <1>6
  <2> QED BY <2>1, <2>2
<1>10. box[t][1] = Apply(Active("filtered", Len(volume[t]) - p), Len(volume[t]) + 1)
  BY <1>8, <1>9
<1>11. Len(volume[t]) < Given
  BY <1>5, <1>6, Bounds DEF Counted
<1>12. Given = Lesser(p + ProjectionsPerStep, Total)
  BY DEF Given, BackProjecting
<1>13. "allocateVolume" \in ready[t]
  <2>1. \A j \in 1 .. Len(box[t]) : box[t][j].op # "allocateVolume"
    BY DEF Boxes, Fits, Setups, Filling
  <2> QED BY <2>1 DEF Allocated
<1>14. ~Throw(t)
  BY <1>1, <1>4, Throws
<1>15. /\ volume' = [volume EXCEPT ![t] = Append(@, <<content[CHOOSE i \in box[t][1].from : TRUE], box[t][1].angle>>)]
       /\ UNCHANGED volumeFile
  BY <1>1, <1>4, <1>13, <1>14 DEF ApplyProjection
<1>16. /\ box[t][1].from = {Active("filtered", Len(volume[t]) - p)}
       /\ box[t][1].angle = Len(volume[t]) + 1
  BY <1>10 DEF Apply, Message
<1>17. (CHOOSE i \in box[t][1].from : TRUE) = Active("filtered", Len(volume[t]) - p)
  BY <1>16
<1> QED BY <1>5, <1>6, <1>10, <1>11, <1>12, <1>15, <1>16, <1>17

(* The image it applies holds that projection, although another worker     *)
(* filtered it: all of them have been at the barrier since.                *)
LEMMA AppliesRight ==
  ASSUME Control, Flow, AllWell, job.volumeWriter, p < NumberOfProjections, main \in AppliedStates,
         NEW k \in Nat, k < ProjectionsThisStep, k \in Threads
  PROVE  content[Active("filtered", k)] = p + k + 1
<1> USE DEF Control
<1>1. Well
  BY DEF AllWell, Well
<1>2. Ready("filtered") /\ "filtered" \in Kinds
  <2>1. job.source # "filtered" => Filters(job)
    BY DEF Filters
  <2> QED BY <2>1 DEF Ready, Kinds, AppliedStates
<1>3. Good(k, Len(box[k]), Active("filtered", k))
  BY <1>1, <1>2 DEF Flow, GroupRight
<1>4. \A l \in 1 .. Len(box[k]) : box[k][l].to = {} /\ box[k][l].awaits = {}
  <2>1. ASSUME NEW l \in 1 .. Len(box[k]) PROVE box[k][l].to = {} /\ box[k][l].awaits = {}
    <3>1. Fits(k, l, box[k][l]) /\ box[k][l].op \in Ops
      BY AwaitTypes DEF Boxes, Messages
    <3> QED BY <3>1 DEF Fits, Ops, Setups, Transforms, Filling, AppliedStates
  <2> QED BY <2>1
<1> QED BY <1>3, <1>4 DEF Good, Awaited

(* So the subvolume has had one more.                                      *)
LEMMA AppliedNext ==
  ASSUME Control, DataTypes, Flow, AllWell, AllWell', job.volumeWriter, Counted, Allocated, Prefixed,
         NEW t \in Threads, Worker(t), main' # "crashed", main \in AppliedStates
  PROVE  Counted' /\ Prefixed'
<1> USE DEF Control
<1>1. PICK n \in Nat : n = Len(volume[t]) /\ volume[t] \in Seq(Projections \X Projections)
  BY LenProperties DEF DataTypes
<1>2. /\ p < NumberOfProjections /\ p <= n /\ n < Given
      /\ Given = Lesser(p + ProjectionsPerStep, Total)
      /\ Applies(t) \in Nat /\ Applies(t) >= 1 /\ Applies(t) <= Len(box[t])
      /\ volume' = [volume EXCEPT ![t] = Append(volume[t], <<content[Active("filtered", n - p)], n + 1>>)]
      /\ UNCHANGED volumeFile
  BY <1>1, AppliesNext
<1>3. /\ p \in Nat /\ ProjectionsPerStep \in Nat /\ Total \in Nat /\ Total <= NumberOfProjections /\ Given \in Nat /\ Given <= Total
      /\ ProjectionsPerStep <= NumberOfThreads
  BY Bounds, Sizes
<1>4. n < p + ProjectionsPerStep /\ n < NumberOfProjections
  BY <1>2, <1>3 DEF Lesser
<1>5. PICK k \in Nat : k = n - p /\ k < ProjectionsPerStep /\ k < NumberOfProjections - p
  <2>1. n - p \in Nat /\ n - p < ProjectionsPerStep /\ n - p < NumberOfProjections - p
    BY <1>2, <1>3, <1>4
  <2> QED BY <2>1
<1>6. k < ProjectionsThisStep /\ k \in Threads
  <2>1. k < ProjectionsThisStep
    BY <1>5 DEF ProjectionsThisStep, Lesser
  <2>2. k \in Threads
    BY <1>3, <1>5 DEF Threads
  <2> QED BY <2>1, <2>2
<1>7. content[Active("filtered", k)] = p + k + 1
  BY <1>2, <1>6, AppliesRight
<1>8. p + k + 1 = n + 1
  BY <1>3, <1>5
<1>9. volume' = [volume EXCEPT ![t] = Append(volume[t], <<n + 1, n + 1>>)]
  BY <1>2, <1>5, <1>7, <1>8
<1>10. <<n + 1, n + 1>> \in Projections \X Projections
  BY <1>4 DEF Projections
<1>11. /\ volume'[t] = Append(volume[t], <<n + 1, n + 1>>)
       /\ \A u \in Threads \ {t} : volume'[u] = volume[u]
  BY <1>9 DEF DataTypes
<1>12. /\ Len(volume'[t]) = n + 1
       /\ \A l \in 1 .. n : volume'[t][l] = volume[t][l]
       /\ volume'[t][n + 1] = <<n + 1, n + 1>>
  BY <1>1, <1>10, <1>11, AppendProperties
<1>13. UNCHANGED <<job, p, side>> /\ main' = main /\ box[t] # <<>> /\ box' = [box EXCEPT ![t] = Tail(box[t])]
  BY WorkerFacts, WorkerStep
<1>14. Total' = Total /\ Given' = Given /\ WholeSubvolume' = WholeSubvolume
  BY <1>13, SameSizes DEF Total, Given, WholeSubvolume
<1>15. Prefixed'
  <2>1. ASSUME NEW u \in Threads
        PROVE  Len(volume'[u]) <= Total /\ \A l \in 1 .. Len(volume'[u]) : volume'[u][l] = <<l, l>>
    <3>1. CASE u = t
      <4>1. n + 1 <= Total
        BY <1>2, <1>3
      <4>2. ASSUME NEW l \in 1 .. n + 1 PROVE volume'[t][l] = <<l, l>>
        <5>1. CASE l \in 1 .. n
          BY <1>1, <1>12, <5>1 DEF Prefixed
        <5>2. CASE l = n + 1
          BY <1>12, <5>2
        <5> QED BY <5>1, <5>2
      <4> QED BY <1>12, <3>1, <4>1, <4>2
    <3>2. CASE u # t
      BY <1>11, <3>2 DEF Prefixed
    <3> QED BY <3>1, <3>2
  <2> QED BY <1>2, <1>14, <2>1 DEF Prefixed
<1>16. /\ Len(box[t]) \in Nat /\ Len(box'[t]) = Len(box[t]) - 1
       /\ \A j \in 1 .. Len(box'[t]) : box'[t][j] = box[t][j + 1]
       /\ \A u \in Threads \ {t} : box'[u] = box[u]
  BY <1>13, PopStep
<1>17. Applies(t)' = Applies(t) - 1
  BY <1>13, <1>16 DEF Applies, AppliedStates
<1>18. Counted'
  <2>1. ASSUME NEW u \in Threads \ {t}
        PROVE  /\ Len(volume'[u]) + Applies(u)' = Given
               /\ p <= Len(volume'[u])
               /\ main = "barrierApplied" => box'[u] # <<>> /\ box'[u][Len(box'[u])].op = "barrier"
               /\ \A j \in 1 .. Applies(u)' : box'[u][j] = Apply(Active("filtered", Len(volume'[u]) + j - 1 - p), Len(volume'[u]) + j)
    <3>1. Applies(u)' = Applies(u)
      BY <1>13, <1>16 DEF Applies
    <3>2. volume'[u] = volume[u] /\ box'[u] = box[u]
      BY <1>11, <1>16
    <3>3. Len(volume[u]) + Applies(u) = Given
      BY DEF Counted
    <3>4. p <= Len(volume[u])
      BY DEF Counted, AppliedStates
    <3>5. main = "barrierApplied" => box[u] # <<>> /\ box[u][Len(box[u])].op = "barrier"
      BY DEF Counted
    <3>6. \A j \in 1 .. Applies(u) : box[u][j] = Apply(Active("filtered", Len(volume[u]) + j - 1 - p), Len(volume[u]) + j)
      BY DEF Counted
    <3> QED BY <3>1, <3>2, <3>3, <3>4, <3>5, <3>6
  <2>2. Len(volume'[t]) + Applies(t)' = Given
    <3>1. n + Applies(t) = Given
      BY <1>1 DEF Counted
    <3> QED BY <1>2, <1>12, <1>17, <3>1
  <2>3. p <= Len(volume'[t])
    BY <1>2, <1>3, <1>12
  <2>4. ASSUME NEW j \in 1 .. Applies(t)'
        PROVE  box'[t][j] = Apply(Active("filtered", Len(volume'[t]) + j - 1 - p), Len(volume'[t]) + j)
    <3>1. j \in Nat /\ j + 1 \in 1 .. Applies(t) /\ j \in 1 .. Len(box'[t])
      BY <1>2, <1>16, <1>17
    <3>2. box[t][j + 1] = Apply(Active("filtered", n + (j + 1) - 1 - p), n + (j + 1))
      BY <1>1, <3>1 DEF Counted
    <3>3. n + (j + 1) - 1 - p = n + 1 + j - 1 - p /\ n + (j + 1) = n + 1 + j
      BY <1>3, <3>1
    <3> QED BY <1>12, <1>16, <3>1, <3>2, <3>3
  <2>5. main = "barrierApplied" => box'[t] # <<>> /\ box'[t][Len(box'[t])].op = "barrier"
    <3>1. SUFFICES ASSUME main = "barrierApplied" PROVE box'[t] # <<>> /\ box'[t][Len(box'[t])].op = "barrier"
      OBVIOUS
    <3>2. PICK m \in Nat : m = Len(box[t])
      BY <1>16
    <3>3. Applies(t) = m - 1 /\ box[t][m].op = "barrier"
      BY <3>1, <3>2 DEF Applies, Counted
    <3>4. Len(box'[t]) = m - 1 /\ m - 1 \in 1 .. m - 1 /\ m - 1 + 1 = m
      BY <1>2, <1>16, <3>2, <3>3
    <3>5. box'[t][m - 1] = box[t][m - 1 + 1]
      BY <1>16, <3>4
    <3>6. box'[t][m - 1].op = "barrier"
      BY <3>3, <3>4, <3>5
    <3>7. box'[t] # <<>>
      <4>1. m - 1 # 0
        BY <3>4
      <4> QED BY <3>4, <4>1
    <3> QED BY <3>4, <3>6, <3>7
  <2>6. /\ \A u \in Threads :
             /\ Len(volume'[u]) + Applies(u)' = Given
             /\ p <= Len(volume'[u])
             /\ main = "barrierApplied" => box'[u] # <<>> /\ box'[u][Len(box'[u])].op = "barrier"
             /\ \A j \in 1 .. Applies(u)' : box'[u][j] = Apply(Active("filtered", Len(volume'[u]) + j - 1 - p), Len(volume'[u]) + j)
    BY <2>1, <2>2, <2>3, <2>4, <2>5
  <2>7. ASSUME NEW u \in Threads, NEW j \in 1 .. Applies(u)'
        PROVE  (box[u][j] = Apply(Active("filtered", Len(volume[u]) + j - 1 - p), Len(volume[u]) + j))'
    BY <1>13, <2>6 DEF Active, Apply
  <2>8. ASSUME NEW u \in Threads
        PROVE  /\ (Len(volume[u]) + Applies(u) = Given)'
               /\ (p <= Len(volume[u]))'
               /\ (main = "barrierApplied" => box[u] # <<>> /\ box[u][Len(box[u])].op = "barrier")'
    BY <1>13, <1>14, <2>6
  <2> QED BY <2>7, <2>8 DEF Counted
<1> QED BY <1>15, <1>18

(* A subvolume that is written is whole.                                   *)
LEMMA WorkerWrites ==
  ASSUME Control, DataTypes, Applied, Prefixed, Completed, AllWell, NEW t \in Threads, WriteVolumeData(t), main # "crashed"
  PROVE  UNCHANGED volume /\ \A k \in 1 .. Len(volumeFile') : volumeFile'[k] = WholeSubvolume
<1> USE DEF Control
<1>1. UNCHANGED volume /\ box[t] # <<>> /\ Head(box[t]).op = "writeVolume"
  BY DEF WriteVolumeData
<1>2. 1 \in 1 .. Len(box[t]) /\ box[t][1].op = "writeVolume"
  BY <1>1, Taking
<1>3. Fits(t, 1, box[t][1])
  BY <1>2 DEF Boxes
<1>4. main = "barrierVolume"
  BY <1>2, <1>3 DEF Fits
<1>5. p >= NumberOfProjections /\ job.volumeWriter /\ Allocated /\ Counted
  BY <1>4 DEF Completed, Finishing, Applied, Lost
<1>6. \A k \in 1 .. Len(volumeFile) : volumeFile[k] = WholeSubvolume
  BY DEF Prefixed
<1>7. CASE UNCHANGED volumeFile
  BY <1>1, <1>6, <1>7
<1>8. CASE volumeFile' = Append(volumeFile, volume[t])
  <2>1. Given = Total
    <3>1. Given = Lesser(p, Total)
      BY <1>4 DEF Given, BackProjecting
    <3> QED BY <1>5, <3>1, Bounds DEF Lesser
  <2>2. Applies(t) = 0 /\ volume[t] \in Seq(Projections \X Projections) /\ Len(volume[t]) \in Nat
    BY <1>4, LenProperties DEF Applies, DataTypes
  <2>3. Len(volume[t]) = Total
    BY <1>5, <2>1, <2>2 DEF Counted
  <2>4. \A k \in 1 .. Len(volume[t]) : volume[t][k] = <<k, k>>
    BY DEF Prefixed
  <2>5. volume[t] = WholeSubvolume
    BY <2>2, <2>3, <2>4, IsWhole
  <2>6. volumeFile \in Seq(Seq(Projections \X Projections))
    BY DEF DataTypes
  <2> QED BY <1>1, <1>6, <1>8, <2>2, <2>5, <2>6, AppendProperties
<1> QED BY <1>7, <1>8 DEF WriteVolumeData

(* Elsewhere workers apply nothing.                                        *)
LEMMA QuietWorker ==
  ASSUME Control, DataTypes, NEW t \in Threads, Worker(t), main' # "crashed", main \notin AppliedStates
  PROVE  UNCHANGED volume /\ (UNCHANGED volumeFile \/ WriteVolumeData(t))
<1> USE DEF Control
<1>1. 1 \in 1 .. Len(box[t]) /\ Head(box[t]) = box[t][1] /\ main' = main
  BY WorkerStep, Taking
<1>2. Fits(t, 1, box[t][1]) /\ main # "crashed"
  BY <1>1 DEF Boxes, Worker
<1>3. ~ApplyProjection(t)
  BY <1>1, <1>2 DEF ApplyProjection, Fits, Applying, AppliedStates
<1> QED BY <1>1, <1>3 DEF Worker, Setup, AllocateNothing, AwaitBuffer, TransformImage,
           WriteVolumeData, Crash, dataVars

(* Workers keep the volumes as they should be.                             *)
LEMMA WorkerVolume ==
  ASSUME Control, Requested, DataTypes, Flow, Applied, Prefixed, Completed, NEW t \in Threads, Worker(t)
  PROVE  Applied' /\ Prefixed' /\ Completed'
<1> USE DEF Control
<1>1. UNCHANGED <<job, p, side>> /\ AllWell' => AllWell
  BY WorkerFacts, StillWell DEF Next
<1>2. main' \in {main, "crashed"} /\ main # "crashed"
  BY WorkerStep DEF Worker
<1>3. Completed'
  BY <1>1, <1>2, WorkerFacts DEF Completed, Finishing
<1>4. Total' = Total /\ WholeSubvolume' = WholeSubvolume /\ job' = job /\ p' = p
  BY WorkerFacts DEF Total, WholeSubvolume
<1>5. AllWell' => AllWell
  BY StillWell DEF Next
<1>6. CASE main' = "crashed"
  <2>1. UNCHANGED <<volume, volumeFile>>
    BY <1>2, <1>6 DEF Worker, Setup, AllocateNothing, AwaitBuffer, TransformImage,
       ApplyProjection, WriteVolumeData, Crash,
       Finish, Throw, dataVars
  <2>2. Prefixed'
    BY <1>4, <1>5, <2>1 DEF Prefixed
  <2> QED BY <1>3, <1>6, <2>2 DEF Applied, Lost
<1>7. CASE ~AllWell'
  BY <1>3, <1>7 DEF Applied, Prefixed
<1>8. CASE main' # "crashed" /\ main \in AppliedStates /\ AllWell'
  <2>1. job.volumeWriter /\ main \notin Lost
    BY <1>8 DEF Scheduled, AppliedStates, Lost
  <2>2. AllWell /\ Allocated /\ Counted
    BY <1>5, <1>8, <2>1 DEF Applied
  <2> QED BY <1>3, <1>8, <2>1, <2>2, AppliedNext, WorkerAllocated DEF Applied
<1>9. CASE main' # "crashed" /\ main \notin AppliedStates /\ AllWell'
  <2>1. AllWell /\ main' = main
    BY <1>2, <1>5, <1>9
  <2>2. volume' = volume /\ \A k \in 1 .. Len(volumeFile') : volumeFile'[k] = WholeSubvolume
    BY <1>2, <1>9, <2>1, QuietWorker, WorkerWrites DEF Prefixed
  <2>3. Prefixed'
    BY <1>4, <2>1, <2>2 DEF Prefixed
  <2>4. ASSUME job.volumeWriter, main \notin Lost
        PROVE  Allocated' /\ Counted'
    <3>1. Allocated /\ Counted
      BY <2>1, <2>4 DEF Applied
    <3>2. \A u \in Threads : Applies(u)' = 0 /\ Applies(u) = 0
      BY <1>9, <2>1 DEF Applies, AppliedStates
    <3>3. Given' = Given
      BY <1>4, <2>1, SameSizes DEF Given
    <3>4. Counted'
      BY <1>4, <1>9, <2>1, <2>2, <3>1, <3>2, <3>3 DEF Counted, AppliedStates
    <3> QED BY <1>9, <3>1, <3>4, WorkerAllocated
  <2> QED BY <1>3, <1>4, <2>1, <2>3, <2>4 DEF Applied
<1> QED BY <1>6, <1>7, <1>8, <1>9

(* The I/O thread has nothing to do with them.                             *)
LEMMA SettleVolume ==
  ASSUME Control, Requested, DataTypes, Applied, Prefixed, Completed, Settle
  PROVE  Applied' /\ Prefixed' /\ Completed'
<1>1. UNCHANGED <<job, main, p, side, box, ready, volume, volumeFile>>
  BY SettleData
<1>2. AllWell' => AllWell
  BY StillWell DEF Next
<1>3. Total' = Total /\ WholeSubvolume' = WholeSubvolume /\ Given' = Given
  BY <1>1, SameSizes DEF Total, WholeSubvolume, Given
<1>4. \A t : Applies(t)' = Applies(t)
  BY <1>1 DEF Applies
<1>5. Allocated => Allocated'
  BY <1>1 DEF Allocated
<1>6. Counted => Counted'
  BY <1>1, <1>3, <1>4 DEF Counted, Active
<1> QED BY <1>1, <1>2, <1>3, <1>5, <1>6 DEF Applied, Prefixed, Completed

(* The volumes are as they should be.                                      *)
VolumeInOrder == Applied /\ Prefixed /\ Completed

(* They always are.                                                        *)
LEMMA NextVolume ==
  ASSUME Control, Requested, DataTypes, Flow, VolumeInOrder, [Next]_vars
  PROVE  VolumeInOrder'
<1> USE DEF VolumeInOrder
<1>1. CASE Main
  BY <1>1, MainApplied, MainPrefixed, Completes
<1>2. ASSUME NEW t \in Threads, Worker(t) PROVE VolumeInOrder'
  BY <1>2, WorkerVolume
<1>3. CASE Settle
  BY <1>3, SettleVolume
<1>4. CASE UNCHANGED vars
  <2>1. UNCHANGED vars
    BY <1>4
  <2>2. /\ AllWell' = AllWell /\ UNCHANGED <<job, main, p, side, box, ready, volume, volumeFile>>
        /\ Total' = Total /\ WholeSubvolume' = WholeSubvolume /\ Given' = Given
        /\ \A t : Applies(t)' = Applies(t)
    BY <2>1, SameSizes DEF vars, AllWell, IO!Failed, Total, WholeSubvolume, Given,
       Applies
  <2>3. (Allocated => Allocated') /\ (Counted => Counted')
    BY <2>2 DEF Allocated, Counted, Active
  <2> QED BY <2>2, <2>3 DEF Applied, Prefixed, Completed
<1> QED BY <1>1, <1>2, <1>3, <1>4 DEF Next, Ended

(* They are at the start.                                                  *)
LEMMA InitVolume ==
  ASSUME Init
  PROVE  VolumeInOrder
<1>1. /\ main = "create" /\ p = 0 /\ volumeFile = <<>>
      /\ box = [t \in Threads |-> <<>>] /\ volume = [t \in Threads |-> <<>>]
  BY DEF Init
<1>2. Given = 0
  <2>1. Total \in Nat
    BY DEF Total
  <2> QED BY <1>1, <2>1 DEF Given, BackProjecting, Lesser
<1>3. \A t \in Threads : Len(volume[t]) = 0 /\ Applies(t) = 0
  BY <1>1, EmptySeq DEF Applies
<1>4. Total \in Nat
  BY DEF Total
<1>5. Counted
  BY <1>1, <1>2, <1>3 DEF Counted
<1>6. Prefixed
  BY <1>1, <1>3, <1>4, EmptySeq DEF Prefixed
<1> QED BY <1>1, <1>5, <1>6 DEF VolumeInOrder, Applied, Allocated, Completed, Finishing

(* The inductive invariant of the data: reads arrive where they should,    *)
(* the group's images hold the group's projections, and the subvolumes     *)
(* have had what they were given.                                          *)
DataInOrder == TypesInOrder /\ Loaded /\ Flow /\ ReferenceRight /\ VolumeInOrder

(* It always holds.                                                        *)
THEOREM AlwaysDataInOrder == Spec => []DataInOrder
<1> USE DEF DataInOrder, TypesInOrder
<1>1. Init => DataInOrder
  BY InitInOrder, InitData, InitFlow, InitVolume
<1>2. DataInOrder /\ [Next]_vars => DataInOrder'
  <2>1. SUFFICES ASSUME DataInOrder, [Next]_vars PROVE DataInOrder'
    OBVIOUS
  <2>2. TypesInOrder'
    BY <2>1, NextControl, NextRequested, NextFresh, NextSheltered, NextInputs,
       NextOutputs, NextMatched,
       NextReads, NextShaped, NextTypes DEF InOrder
  <2>3. Control /\ Control' /\ Requested /\ ReadOrder /\ DataTypes /\ Shaped
    BY <2>1, <2>2 DEF InOrder
  <2>4. Loaded'
    BY <2>1, <2>3, NextLoaded
  <2>5. Flow'
    BY <2>1, <2>3, NextFlow
  <2>6. ReferenceRight'
    BY <2>1, <2>3, NextReference
  <2>7. VolumeInOrder'
    BY <2>1, <2>3, NextVolume
  <2> QED BY <2>2, <2>4, <2>5, <2>6, <2>7
<1> QED BY <1>1, <1>2, PTL DEF Spec

(* While nothing has failed every subvolume has had the first so many      *)
(* projections of the file, each once, in order and at its angle, and the  *)
(* subvolumes written have had all of them: for every number of threads    *)
(* and projections and every job.                                          *)
THEOREM EngineVolumeIsRight == Spec => []VolumeIsRight
<1>1. DataInOrder => VolumeIsRight
  BY ImpliesVolume DEF DataInOrder, TypesInOrder, InOrder, Control, VolumeInOrder
<1> QED BY <1>1, AlwaysDataInOrder, PTL

-----------------------------------------------------------------------------
(* The writes that main requests, and their places in the files.           *)

(* Request k is the so manieth write to its file.                          *)
Place(kind, k) == Cardinality({j \in Writes(kind) : j <= k})

(* The files that projections are written to.                              *)
Streams == {"attenuation", "filtered"}

(* How many writes to a file have been requested.                          *)
WriteIssued(kind) ==
  IF Writing(kind) THEN p + (IF Requesting(kind) THEN pp ELSE ProjectionsThisStep)
  ELSE Lesser(p, NumberOfProjections)

(* The writes of a kind are finitely many, and each has a place of its own.*)
LEMMA Places ==
  ASSUME Types, NEW kind
  PROVE  /\ IsFiniteSet(Writes(kind))
         /\ Cardinality(Writes(kind)) \in Nat
         /\ \A k \in Writes(kind) :
              /\ k \in 1 .. Len(requests)
              /\ Place(kind, k) \in 1 .. Cardinality(Writes(kind))
              /\ \A j \in Writes(kind) : j < k => Place(kind, j) < Place(kind, k)
<1>1. Len(requests) \in Nat
  BY LenProperties DEF Types
<1>2. IsFiniteSet(1 .. Len(requests)) /\ Writes(kind) \in SUBSET (1 .. Len(requests))
  <2>1. IsFiniteSet(1 .. Len(requests))
    BY <1>1, FS_Interval
  <2> QED BY <2>1 DEF Writes
<1>3. IsFiniteSet(Writes(kind)) /\ Cardinality(Writes(kind)) \in Nat
  BY <1>2, FS_Subset, FS_CardinalityType
<1>4. ASSUME NEW k \in Writes(kind)
      PROVE  /\ k \in 1 .. Len(requests)
             /\ Place(kind, k) \in 1 .. Cardinality(Writes(kind))
             /\ \A j \in Writes(kind) : j < k => Place(kind, j) < Place(kind, k)
  <2> DEFINE upTo(j) == {l \in Writes(kind) : l <= j}
  <2>1. k \in 1 .. Len(requests)
    BY <1>4 DEF Writes
  <2>2. /\ IsFiniteSet(upTo(k)) /\ Cardinality(upTo(k)) \in Nat
        /\ Cardinality(upTo(k)) <= Cardinality(Writes(kind))
    BY <1>3, FS_Subset, FS_CardinalityType
  <2>3. k \in upTo(k)
    BY <1>4, <2>1
  <2>4. Cardinality(upTo(k)) # 0
    BY <2>2, <2>3, FS_EmptySet
  <2>5. ASSUME NEW j \in Writes(kind), j < k
        PROVE  Place(kind, j) < Place(kind, k)
    <3>1. j \in Nat
      BY <1>1, <2>5 DEF Writes
    <3>2. upTo(j) \in SUBSET upTo(k) /\ k \notin upTo(j)
      BY <1>2, <2>1, <2>5, <3>1 DEF Writes
    <3>3. /\ IsFiniteSet(upTo(j)) /\ Cardinality(upTo(j)) \in Nat
          /\ Cardinality(upTo(j)) <= Cardinality(upTo(k))
          /\ Cardinality(upTo(j)) # Cardinality(upTo(k))
      BY <2>2, <2>3, <3>2, FS_Subset, FS_CardinalityType
    <3> QED BY <2>2, <3>3 DEF Place
  <2>6. Place(kind, k) \in 1 .. Cardinality(Writes(kind))
    BY <1>3, <2>2, <2>4 DEF Place
  <2> QED BY <2>1, <2>5, <2>6
<1> QED BY <1>3, <1>4

(* Requests that are as they were have the places they had.                *)
LEMMA SamePlaces ==
  ASSUME requests' = requests
  PROVE  /\ \A kind : Writes(kind)' = Writes(kind)
         /\ \A kind, k : Place(kind, k)' = Place(kind, k)
BY DEF Writes, Place

(* A read adds no write.                                                   *)
LEMMA ReadPlaces ==
  ASSUME Types, NEW i, RequestMade("read", i)
  PROVE  /\ \A kind : Writes(kind)' = Writes(kind)
         /\ \A kind, k : Place(kind, k)' = Place(kind, k)
<1>1. ASSUME NEW kind
      PROVE  Writes(kind)' = Writes(kind)
  BY DEF RequestMade, Writes
<1> QED BY <1>1 DEF Place

(* A write has the next place of its kind, and changes no other.           *)
LEMMA WritePlaces ==
  ASSUME Types, NEW i, RequestMade("write", i)
  PROVE  /\ Writes(i[1])' = Writes(i[1]) \cup {Len(requests) + 1}
         /\ Cardinality(Writes(i[1])') = Cardinality(Writes(i[1])) + 1
         /\ \A n : n = Len(requests) + 1 => Place(i[1], n)' = Cardinality(Writes(i[1])) + 1
         /\ \A kind : kind # i[1] => Writes(kind)' = Writes(kind)
         /\ \A kind : \A k \in Writes(kind) : Place(kind, k)' = Place(kind, k)
<1>1. Len(requests) \in Nat
  BY LenProperties DEF Types
<1>2. Writes(i[1])' = Writes(i[1]) \cup {Len(requests) + 1} /\ Len(requests) + 1 \notin Writes(i[1])
  BY <1>1 DEF RequestMade, Writes
<1>3. ASSUME NEW kind, kind # i[1]
      PROVE  Writes(kind)' = Writes(kind)
  BY <1>1, <1>3 DEF RequestMade, Writes
<1>4. Cardinality(Writes(i[1])') = Cardinality(Writes(i[1])) + 1
  BY <1>2, Places, FS_AddElement
<1>5. {j \in Writes(i[1])' : j <= Len(requests) + 1} = Writes(i[1])'
  BY <1>1, <1>2, Places DEF Writes
<1>7. ASSUME NEW n, n = Len(requests) + 1
      PROVE  Place(i[1], n)' = Cardinality(Writes(i[1])) + 1
  BY <1>4, <1>5, <1>7 DEF Place
<1>8. ASSUME NEW kind, NEW k \in Writes(kind)
      PROVE  Place(kind, k)' = Place(kind, k)
  <2>1. k \in 1 .. Len(requests)
    BY <1>8 DEF Writes
  <2>2. {j \in Writes(kind)' : j <= k} = {j \in Writes(kind) : j <= k}
    BY <1>1, <1>2, <1>3, <2>1
  <2> QED BY <2>2 DEF Place
<1> QED BY <1>2, <1>3, <1>4, <1>7, <1>8

(* The group that the k-th request writes a projection of starts after     *)
(* this one.                                                               *)
Base(kind, k) == Place(kind, k) - 1 - requests[k].image[2]

(* A group starts after projection b.                                      *)
StartsGroup(b) == \E g \in Nat : b = ProjectionsPerStep * g

(* Each file has been sent the projections that main has come to, from the *)
(* slots of their groups.                                                  *)
WritesCounted ==
  /\ StartsGroup(p)
  /\ main \notin Lost => \A kind \in Streams : Output(kind) => Cardinality(Writes(kind)) = WriteIssued(kind)
  /\ \A kind \in Streams : \A k \in Writes(kind) :
       StartsGroup(Base(kind, k)) /\ requests[k].image[2] < ProjectionsPerStep

(* A turn is left only for the next, or by a failure.                      *)
LEMMA StaysInTurn ==
  ASSUME Control, Main, main \in Turn, main' \notin Lost, ~NextGroup
  PROVE  main' \in Turn
<1>1. CASE RequestNext
  BY <1>1, PhaseOrder DEF RequestNext, Request, EndRequests, FromConvert, FromSynchronize0,
     FromCorrect, FromSwap, FromFilter
<1>2. CASE WriteAttenuation \/ WriteFiltered
  BY <1>2, PhaseOrder DEF WriteAttenuation, WriteFiltered, Request, EndRequests, FromWrite, FromApply
<1>3. CASE SwapAttenuation \/ SwapInput \/ SwapFiltered \/ Synchronize
  BY <1>3, PhaseOrder DEF SwapAttenuation, SwapInput, SwapFiltered, Synchronize, FromFilter
<1>4. CASE Convert \/ CorrectBeamPower \/ Filter \/ ApplyProjections
  BY <1>4, PhaseOrder DEF Convert, CorrectBeamPower, Filter, ApplyProjections, FromSynchronize0,
     FromCorrect, FromSwap, FromFilter, Control, Scheduled
<1>5. CASE SetReference \/ Check
  BY <1>5, PhaseOrder DEF SetReference, Check, MainThrows, FromCorrect, FromSwap, FromFilter,
     FromCheck, FromWrite, FromApply, Lost
<1>6. CASE Barrier
  BY <1>6 DEF Barrier
<1>7. CASE Create \/ FirstRequests \/ WaitForCompletion \/ CountRequests \/ WriteVolume \/ BarrierVolume \/ Leave
  BY <1>7 DEF Create, FirstRequests, WaitForCompletion, CountRequests, WriteVolume, BarrierVolume, Leave
<1> QED BY <1>1, <1>2, <1>3, <1>4, <1>5, <1>6, <1>7 DEF Main

(* Who requests writes, and who goes on to do so.                          *)
LEMMA OnlyWritesAt ==
  ASSUME Control, Main
  PROVE  /\ main = "writeAttenuation" => WriteAttenuation
         /\ main = "writeFiltered" => WriteFiltered
         /\ main' \in {"writeAttenuation", "writeFiltered"} => WriteAttenuation \/ WriteFiltered \/ Check
<1>1. /\ main = "writeAttenuation" => WriteAttenuation
      /\ main = "writeFiltered" => WriteFiltered
  BY DEF Main, Create, FirstRequests, SwapAttenuation, SwapInput, RequestNext, Convert,
   Synchronize, Barrier,
     SetReference, CorrectBeamPower, SwapFiltered, Filter, Check, WriteAttenuation, WriteFiltered,
     ApplyProjections, NextGroup, WaitForCompletion, CountRequests, WriteVolume, BarrierVolume, Leave
<1>2. CASE SwapAttenuation \/ SwapInput \/ SwapFiltered \/ Synchronize \/ Barrier
  BY <1>2, PhaseOrder DEF SwapAttenuation, SwapInput, SwapFiltered, Synchronize, Barrier, FromFilter
<1>3. CASE Convert \/ CorrectBeamPower \/ Filter \/ ApplyProjections
  BY <1>3, PhaseOrder DEF Convert, CorrectBeamPower, Filter, ApplyProjections, FromSynchronize0,
     FromCorrect, FromSwap, FromFilter, Control, Scheduled
<1>4. CASE RequestNext \/ FirstRequests
  BY <1>4, PhaseOrder, FirstPhaseIsBehind DEF RequestNext, FirstRequests, Request, EndRequests,
     FromConvert, FromSynchronize0, FromCorrect, FromSwap, FromFilter
<1>5. CASE SetReference
  BY <1>5, PhaseOrder DEF SetReference, MainThrows, FromCorrect, FromSwap, FromFilter
<1>6. CASE Create \/ NextGroup \/ WaitForCompletion \/ CountRequests \/ WriteVolume \/ BarrierVolume \/ Leave
  BY <1>6, FirstPhaseIsBehind DEF Create, NextGroup, WaitForCompletion, CountRequests, MainThrows,
     WriteVolume, BarrierVolume, Leave
<1> QED BY <1>1, <1>2, <1>3, <1>4, <1>5, <1>6 DEF Main

(* The loop of writes is left when all of the group's are requested, and   *)
(* is taken up with the first.                                             *)
LEMMA LoopOfWrites ==
  ASSUME Control, Main, NEW kind \in Streams, ~WriteRequested(kind)
  PROVE  /\ Requesting(kind) => pp = ProjectionsThisStep /\ main' # main
         /\ Requesting(kind)' => pp' = 0
<1> USE DEF Control
<1>1. CASE Check
  BY <1>1 DEF Check, MainThrows, Requesting, Scheduled, mainVars
<1>2. CASE WriteAttenuation
  <2>1. kind = "attenuation" => pp = ProjectionsThisStep /\ pp' = 0 /\ main' # "writeAttenuation"
    BY <1>2, PhaseOrder DEF WriteAttenuation, WriteRequested, EndRequests, FromWrite, FromApply
  <2>2. main' = "writeFiltered" => pp' = 0
    BY <1>2 DEF WriteAttenuation, EndRequests, Request
  <2> QED BY <1>2, <2>1, <2>2 DEF Requesting, Streams, WriteAttenuation
<1>3. CASE WriteFiltered
  <2>1. kind = "filtered" => pp = ProjectionsThisStep /\ pp' = 0 /\ main' # "writeFiltered"
    BY <1>3, PhaseOrder DEF WriteFiltered, WriteRequested, EndRequests, FromApply
  <2>2. main' # "writeAttenuation"
    BY <1>3, PhaseOrder DEF WriteFiltered, EndRequests, FromApply, Request
  <2> QED BY <1>3, <2>1, <2>2 DEF Requesting, Streams, WriteFiltered
<1>4. CASE ~Check /\ ~WriteAttenuation /\ ~WriteFiltered
  BY <1>4, OnlyWritesAt DEF Requesting
<1> QED BY <1>1, <1>2, <1>3, <1>4

(* What a step other than a request does to the number of writes that      *)
(* there should be: nothing.                                               *)
LEMMA IssuedStays ==
  ASSUME Control, Main, main' \notin Lost, NEW kind \in Streams, Output(kind), ~WriteRequested(kind)
  PROVE  WriteIssued(kind)' = WriteIssued(kind)
<1> USE DEF Control
<1>0. p \in Nat /\ pp \in Nat /\ ProjectionsThisStep \in Int /\ ProjectionsPerStep \in Nat
  BY Sizes DEF Types
<1>1. CASE NextGroup
  <2>1. main = "next" /\ p' = p + ProjectionsPerStep /\ p < NumberOfProjections
    BY <1>1 DEF NextGroup, Scheduled
  <2>2. main' \in {"swapAttenuation", "swapInput", "complete"}
    BY <1>1, FirstPhaseIsBehind DEF NextGroup
  <2>3. Writing(kind) /\ ~Requesting(kind) /\ ~Writing(kind)'
    BY <2>1, <2>2 DEF Writing, Requesting
  <2>4. WriteIssued(kind) = p + ProjectionsThisStep /\ WriteIssued(kind)' = Lesser(p', NumberOfProjections)
    BY <2>3 DEF WriteIssued
  <2> QED BY <1>0, <2>1, <2>4 DEF ProjectionsThisStep, Lesser
<1>2. CASE SwapAttenuation \/ SwapInput \/ SwapFiltered
  <2>1. UNCHANGED <<job, p, pp>>
    BY <1>2 DEF SwapAttenuation, SwapInput, SwapFiltered
  <2>2. ~Writing(kind)
    BY <1>2 DEF SwapAttenuation, SwapInput, SwapFiltered, Writing
  <2>3. ~Writing(kind)'
    BY <1>2, PhaseOrder DEF SwapAttenuation, SwapInput, SwapFiltered, Writing, FromFilter
  <2> QED BY <2>1, <2>2, <2>3 DEF WriteIssued
<1>3. CASE Move /\ UNCHANGED <<job, p, side>> /\ ~NextGroup
  <2>1. ProjectionsThisStep' = ProjectionsThisStep
    BY <1>3, SameSizes
  <2>2. Writing(kind) => Writing(kind)'
    <3>1. SUFFICES ASSUME Writing(kind), ~Writing(kind)' PROVE FALSE
      OBVIOUS
    <3>2. main \in Turn /\ main' \in Turn
      BY <1>3, <3>1, StaysInTurn DEF Writing
    <3>3. main' \notin Ending /\ main' # main
      BY <3>1, <3>2 DEF Ending, Writing
    <3> QED BY <1>3, <3>1, <3>3 DEF Move, Writing, FromWrite, FromApply, FromCheck, FirstPhase
  <2>3. CASE ~Writing(kind) /\ Writing(kind)'
    <3>1. main' \in Turn
      BY <2>3 DEF Writing
    <3>2. Requesting(kind)'
      BY <1>3, <2>3, <3>1, WritingBegins
    <3>3. p < NumberOfProjections
      BY <3>2, <1>3, MainControl DEF Requesting, Scheduled
    <3> QED BY <1>0, <1>3, <2>1, <2>3, <3>2, <3>3, LoopOfWrites DEF WriteIssued, Lesser
  <2>4. CASE Writing(kind) /\ Writing(kind)'
    <3>1. Requesting(kind) => ~Requesting(kind)'
      BY LoopOfWrites DEF Requesting
    <3>2. ~Requesting(kind) => ~Requesting(kind)'
      BY <1>3, <2>4 DEF Move, Writing, Requesting, Streams, FromWrite, FromApply, Ending
    <3> QED BY <3>1, <3>2, <1>0, <1>3, <2>1, <2>4, LoopOfWrites DEF WriteIssued
  <2>5. CASE ~Writing(kind) /\ ~Writing(kind)'
    BY <1>3, <2>5 DEF WriteIssued
  <2> QED BY <2>2, <2>3, <2>4, <2>5
<1> QED BY <1>1, <1>2, <1>3, MainMoves

(* Main's job is its job, and what has gone wrong has gone wrong.          *)
LEMMA MainJob ==
  ASSUME Control, Main
  PROVE  job' = job
BY MainMoves DEF SwapAttenuation, SwapInput, SwapFiltered, NextGroup

(* Once main is throwing it does not go on.                                *)
LEMMA LostStays ==
  ASSUME Main, main \in Lost
  PROVE  main' \in Lost
BY DEF Lost, Main, Create, FirstRequests, SwapAttenuation, SwapInput, RequestNext, Convert,
   Synchronize, Barrier, SetReference, CorrectBeamPower, SwapFiltered, Filter, Check,
   WriteAttenuation, WriteFiltered, ApplyProjections, NextGroup, WaitForCompletion,
   CountRequests, WriteVolume, BarrierVolume, Leave

(* A write is requested with the next place of its file.                   *)
LEMMA WriteNumbered ==
  ASSUME Control, Requested, WritesCounted, NEW kind \in Streams, WriteRequested(kind)
  PROVE  /\ Cardinality(Writes(kind)) = p + pp
         /\ p \in Nat /\ pp \in Nat /\ pp \in Threads /\ pp < ProjectionsPerStep
         /\ RequestMade("write", Active(kind, pp)) /\ Output(kind)
         /\ Writes(kind)' = Writes(kind) \cup {Len(requests) + 1}
         /\ \A n : n = Len(requests) + 1 =>
              /\ Place(kind, n)' = p + pp + 1
              /\ requests'[n] = [op |-> "write", image |-> Active(kind, pp)]
         /\ Cardinality(Writes(kind)') = p + pp + 1
         /\ \A k \in Streams : k # kind => Writes(k)' = Writes(k)
         /\ \A k : \A n \in Writes(k) : Place(k, n)' = Place(k, n) /\ requests'[n] = requests[n]
<1> USE DEF Control
<1>1. RequestMade("write", Active(kind, pp)) /\ Output(kind) /\ pp \in Threads
  BY WriteMade DEF Streams
<1>2. Requesting(kind) /\ Writing(kind) /\ main \notin Lost /\ pp < ProjectionsThisStep /\ p < NumberOfProjections
  BY DEF WriteRequested, Requesting, Writing, Streams, Lost, Scheduled
<1>3. pp < ProjectionsPerStep /\ pp \in Nat /\ p \in Nat
  BY <1>2, Sizes DEF Types
<1>4. Cardinality(Writes(kind)) = p + pp
  BY <1>1, <1>2 DEF WritesCounted, WriteIssued
<1>5. Active(kind, pp)[1] = kind
  BY DEF Active
<1>6. \A k : \A n \in Writes(k) : requests'[n] = requests[n]
  BY <1>1 DEF RequestMade, Writes
<1>7. requests'[Len(requests) + 1] = [op |-> "write", image |-> Active(kind, pp)]
  BY <1>1 DEF RequestMade
<1> QED BY <1>1, <1>3, <1>4, <1>5, <1>6, <1>7, WritePlaces

(* A step of main keeps the count.                                         *)
LEMMA MainCountsWrites ==
  ASSUME Control, Requested, WritesCounted, Main
  PROVE  WritesCounted'
<1> USE DEF Control
<1>1. job' = job /\ ProjectionsPerStep' = ProjectionsPerStep /\ p \in Nat /\ ProjectionsPerStep \in Nat
      /\ \A kind : Output(kind)' = Output(kind)
  BY MainJob, SameSizes, Sizes DEF Types
<1>2. StartsGroup(p)'
  <2>1. p' = p \/ p' = p + ProjectionsPerStep
    BY MainMoves DEF SwapAttenuation, SwapInput, SwapFiltered, NextGroup
  <2>2. PICK g \in Nat : p = ProjectionsPerStep * g
    BY DEF WritesCounted, StartsGroup
  <2>3. p + ProjectionsPerStep = ProjectionsPerStep * (g + 1)
    BY <1>1, <2>2
  <2>4. g + 1 \in Nat /\ (p' = ProjectionsPerStep * g \/ p' = ProjectionsPerStep * (g + 1))
    BY <2>1, <2>2, <2>3
  <2>5. \E h \in Nat : p' = ProjectionsPerStep * h
    BY <2>4
  <2> QED BY <1>1, <2>5 DEF StartsGroup
<1>3. main' \notin Lost => main \notin Lost
  BY LostStays
<1>4. CASE \E kind \in Streams : WriteRequested(kind)
  <2>1. PICK kind \in Streams : WriteRequested(kind)
    BY <1>4
  <2>2. /\ Cardinality(Writes(kind)) = p + pp
        /\ p \in Nat /\ pp \in Nat /\ pp \in Threads /\ pp < ProjectionsPerStep
        /\ RequestMade("write", Active(kind, pp)) /\ Output(kind)
        /\ Writes(kind)' = Writes(kind) \cup {Len(requests) + 1}
        /\ \A n : n = Len(requests) + 1 =>
              /\ Place(kind, n)' = p + pp + 1
              /\ requests'[n] = [op |-> "write", image |-> Active(kind, pp)]
        /\ Cardinality(Writes(kind)') = p + pp + 1
        /\ \A k \in Streams : k # kind => Writes(k)' = Writes(k)
        /\ \A k : \A n \in Writes(k) : Place(k, n)' = Place(k, n) /\ requests'[n] = requests[n]
    BY <2>1, WriteNumbered
  <2>3. UNCHANGED <<main, p, side>> /\ pp' = pp + 1 /\ ProjectionsThisStep' = ProjectionsThisStep
    BY <2>2, SameSizes DEF RequestMade
  <2>4. Requesting(kind)' /\ Writing(kind)'
    BY <2>1, <2>3 DEF WriteRequested, Requesting, Writing, Streams
  <2>5. ASSUME NEW k \in Streams, Output(k)', main' \notin Lost
        PROVE  Cardinality(Writes(k))' = WriteIssued(k)'
    <3>1. CASE k = kind
      <4>1. WriteIssued(kind)' = p + pp + 1
        BY <2>2, <2>3, <2>4 DEF WriteIssued
      <4>2. Cardinality(Writes(kind))' = p + pp + 1
        BY <2>2
      <4> QED BY <3>1, <4>1, <4>2
    <3>2. CASE k # kind
      <4>1. ~WriteRequested(k)
        BY <2>1, <3>2 DEF WriteRequested, Streams
      <4>2. WriteIssued(k)' = WriteIssued(k)
        BY <1>1, <2>5, <4>1, IssuedStays
      <4> QED BY <1>1, <1>3, <2>2, <2>5, <3>2, <4>2 DEF WritesCounted
    <3> QED BY <3>1, <3>2
  <2>6. ASSUME NEW k \in Streams, NEW n \in Writes(k)'
        PROVE  StartsGroup(Base(k, n))' /\ requests'[n].image[2] < ProjectionsPerStep
    <3>1. CASE n \in Writes(k)
      <4>1. Place(k, n)' = Place(k, n) /\ requests'[n] = requests[n]
        BY <2>2, <3>1
      <4> QED BY <1>1, <3>1, <4>1 DEF WritesCounted, StartsGroup, Base
    <3>2. CASE n \notin Writes(k)
      <4>1. k = kind /\ n = Len(requests) + 1
        BY <2>2, <2>6, <3>2
      <4>2. Place(k, n)' = p + pp + 1 /\ requests'[n].image[2] = pp
        BY <2>2, <4>1 DEF Active
      <4>3. Base(k, n)' = p
        BY <2>2, <4>2 DEF Base
      <4> QED BY <1>2, <2>2, <2>3, <4>2, <4>3 DEF StartsGroup
    <3> QED BY <3>1, <3>2
  <2> QED BY <1>1, <1>2, <2>5, <2>6 DEF WritesCounted
<1>5. CASE \A kind \in Streams : ~WriteRequested(kind)
  <2>1. /\ \A kind : Writes(kind)' = Writes(kind)
        /\ \A kind, k : Place(kind, k)' = Place(kind, k)
        /\ \A k \in 1 .. Len(requests) : requests'[k] = requests[k]
    <3>1. CASE ReadRequested
      BY <3>1, ReadMade, ReadPlaces DEF RequestMade
    <3>2. CASE requests' = requests
      BY <3>2, SamePlaces
    <3> QED BY <1>5, <3>1, <3>2, MainIO DEF Streams, Leave
  <2>2. ASSUME NEW k \in Streams, Output(k)', main' \notin Lost
        PROVE  Cardinality(Writes(k))' = WriteIssued(k)'
    BY <1>1, <1>3, <1>5, <2>1, <2>2, IssuedStays DEF WritesCounted
  <2>3. ASSUME NEW k \in Streams, NEW n \in Writes(k)'
        PROVE  StartsGroup(Base(k, n))' /\ requests'[n].image[2] < ProjectionsPerStep
    <3>1. n \in Writes(k) /\ n \in 1 .. Len(requests)
      BY <2>1, <2>3 DEF Writes
    <3> QED BY <1>1, <2>1, <3>1 DEF WritesCounted, StartsGroup, Base
  <2> QED BY <1>1, <1>2, <2>2, <2>3 DEF WritesCounted
<1> QED BY <1>4, <1>5

(* Each step keeps the count of the writes.                                *)
LEMMA QuietWrites ==
  ASSUME WritesCounted, UNCHANGED <<job, p, pp, requests>>, main' \in {main, "crashed"}
  PROVE  WritesCounted'
<1>1. /\ ProjectionsPerStep' = ProjectionsPerStep /\ ProjectionsThisStep' = ProjectionsThisStep
      /\ \A kind : Output(kind)' = Output(kind)
  BY SameSizes
<1>2. /\ \A kind : Writes(kind)' = Writes(kind)
      /\ \A kind, k : Place(kind, k)' = Place(kind, k)
  BY SamePlaces
<1>3. StartsGroup(p)'
  BY <1>1 DEF WritesCounted, StartsGroup
<1>4. ASSUME main' \notin Lost, NEW kind \in Streams, Output(kind)'
      PROVE  Cardinality(Writes(kind))' = WriteIssued(kind)'
  <2>1. main' = main
    BY <1>4 DEF Lost
  <2>2. WriteIssued(kind)' = WriteIssued(kind)
    BY <1>1, <2>1 DEF WriteIssued, Writing, Requesting
  <2> QED BY <1>1, <1>2, <1>4, <2>1, <2>2 DEF WritesCounted
<1>5. ASSUME NEW kind \in Streams, NEW k \in Writes(kind)'
      PROVE  StartsGroup(Base(kind, k))' /\ requests'[k].image[2] < ProjectionsPerStep
  <2>1. Base(kind, k)' = Base(kind, k) /\ k \in Writes(kind)
    BY <1>2, <1>5 DEF Base
  <2> QED BY <1>1, <2>1 DEF WritesCounted, StartsGroup
<1> QED BY <1>1, <1>3, <1>4, <1>5 DEF WritesCounted

(* Each step keeps the count.                                              *)
LEMMA NextCountsWrites ==
  ASSUME Control, Requested, WritesCounted, [Next]_vars
  PROVE  WritesCounted'
<1>1. CASE Main
  BY <1>1, MainCountsWrites
<1>2. ASSUME NEW t \in Threads, Worker(t) PROVE WritesCounted'
  BY <1>2, WorkerFacts, WorkerCrash, QuietWrites
<1>3. CASE Settle
  BY <1>3, SettleData, QuietWrites
<1>4. CASE UNCHANGED vars
  BY <1>4, QuietWrites DEF vars
<1> QED BY <1>1, <1>2, <1>3, <1>4 DEF Next, Ended

(* The reads requested when a write is are of this group and the next: no  *)
(* later one can come before it.                                           *)
LateReads ==
  IOWell => \A kind \in Streams : \A w \in Writes(kind) : fate[w] = "pending" =>
    /\ nextRead <= Base(kind, w) + ProjectionsPerStep + ProjectionsPerStep + 1
    /\ \A r \in 1 .. w - 1 : PendingRead(r) =>
         Target(requests[r].image) <= Base(kind, w) + ProjectionsPerStep + ProjectionsPerStep

(* The reads that were pending are for the same projections.               *)
LEMMA OldReads ==
  ASSUME Control, Requested, Sheltered, ReadOrder, IOWell, Main, ~Leave,
         NEW k \in 1 .. Len(requests), PendingRead(k)'
  PROVE  /\ PendingRead(k) /\ requests'[k] = requests[k]
         /\ Target(requests[k].image)' = Target(requests[k].image)
<1> USE DEF Control
<1>1. PendingRead(k) /\ requests'[k] = requests[k]
  <2>1. CASE UNCHANGED <<requests, fate>>
    BY <2>1 DEF PendingRead
  <2>2. CASE ReadRequested
    BY <2>2, ReadMade DEF PendingRead, RequestMade
  <2>3. ASSUME NEW kind \in Streams, WriteRequested(kind)
        PROVE  PendingRead(k) /\ requests'[k] = requests[k]
    BY <2>3, WriteMade DEF PendingRead, RequestMade, Streams
  <2> QED BY <2>1, <2>2, <2>3, MainIO DEF Streams
<1>2. PICK i \in Images : i = requests[k].image /\ i[1] = job.source
  BY <1>1, PendingReadType
<1>3. job' = job /\ ProjectionsPerStep' = ProjectionsPerStep /\ ProjectionsPerStep \in Nat /\ p \in Nat
  BY MainJob, SameSizes, Sizes DEF Types
<1>4. CASE SwapInput
  <2>1. i[3] # side[i[1]] /\ i[3] \in Sides /\ side[job.source] \in Sides
    BY <1>1, <1>2, <1>4, ImageParts, SidesOf, JobFacts DEF ReadOrder, ReadAhead, SwapInput, Behind
  <2>2. p' = p /\ main \in Behind /\ main' \notin Behind /\ side'[i[1]] = Other(side[i[1]])
    BY <1>2, <1>4, JobFacts DEF SwapInput, Swap, Behind, Types
  <2>3. i[3] = side'[i[1]]
    BY <1>2, <2>1, <2>2, TwoSides
  <2>4. i[2] \in Nat
    BY ImageParts
  <2>5. Target(i)' = Target(i)
    BY <1>3, <2>1, <2>2, <2>3, <2>4 DEF Target, LoadBase
  <2> QED BY <1>1, <1>2, <2>5
<1>5. CASE NextGroup /\ main' = "complete"
  <2>1. main = "next" /\ p + ProjectionsPerStep >= NumberOfProjections
    BY <1>3, <1>5, FirstPhaseIsBehind DEF NextGroup
  <2> QED BY <1>1, <2>1, NoReadsAtEnd
<1>6. CASE SameTargets \/ UNCHANGED <<LoadBase, p, side, main>>
  <2>1. Target(i)' = Target(i)
    BY <1>2, <1>3, <1>6 DEF SameTargets, Target
  <2> QED BY <1>1, <1>2, <2>1
<1> QED BY <1>4, <1>5, <1>6, MainTargets DEF ReadOrder

(* A write that is pending was, or is new.                                 *)
LEMMA OldWrites ==
  ASSUME Control, Requested, WritesCounted, Main, ~Leave,
         NEW kind \in Streams, NEW w \in Writes(kind)', fate'[w] = "pending"
  PROVE  \/ w \in Writes(kind) /\ fate[w] = "pending" /\ requests'[w] = requests[w]
            /\ Place(kind, w)' = Place(kind, w)
         \/ WriteRequested(kind) /\ w = Len(requests) + 1
<1> USE DEF Control
<1>1. CASE UNCHANGED <<requests, fate>>
  BY <1>1, SamePlaces
<1>2. CASE ReadRequested
  <2>1. RequestMade("read", Loading(job.source, pp))
    BY <1>2, ReadMade
  <2>2. w \in Writes(kind) /\ Place(kind, w)' = Place(kind, w)
    BY <2>1, ReadPlaces
  <2>3. w \in 1 .. Len(requests)
    BY <2>2 DEF Writes
  <2> QED BY <2>1, <2>2, <2>3 DEF RequestMade
<1>3. ASSUME NEW k \in Streams, WriteRequested(k)
      PROVE  \/ w \in Writes(kind) /\ fate[w] = "pending" /\ requests'[w] = requests[w]
                /\ Place(kind, w)' = Place(kind, w)
             \/ WriteRequested(kind) /\ w = Len(requests) + 1
  <2>1. /\ RequestMade("write", Active(k, pp))
        /\ Writes(k)' = Writes(k) \cup {Len(requests) + 1}
        /\ \A l \in Streams : l # k => Writes(l)' = Writes(l)
        /\ \A l : \A n \in Writes(l) : Place(l, n)' = Place(l, n) /\ requests'[n] = requests[n]
    BY <1>3, WriteNumbered
  <2>2. w \in Writes(kind) => w \in 1 .. Len(requests)
    BY DEF Writes
  <2>3. w \in 1 .. Len(requests) => fate'[w] = fate[w]
    BY <2>1 DEF RequestMade
  <2> QED BY <1>3, <2>1, <2>2, <2>3
<1> QED BY <1>1, <1>2, <1>3, MainIO DEF Streams

-----------------------------------------------------------------------------
(* The reads are over when main waits for the last writes.                 *)

(* The base of a group is a number.                                        *)
LEMMA BaseTypes ==
  ASSUME Types, NEW kind \in Streams, NEW w \in Writes(kind)
  PROVE  /\ Base(kind, w) \in Int
         /\ w \in 1 .. Len(requests) /\ Len(requests) \in Nat
<1>1. w \in 1 .. Len(requests) /\ Len(requests) \in Nat
  BY LenProperties DEF Writes, Types
<1>2. requests[w].image \in Images
  BY <1>1, RequestTypes
<1>3. requests[w].image[2] \in Nat
  BY <1>2, ImageParts
<1>4. Place(kind, w) \in Nat
  BY Places
<1> QED BY <1>1, <1>3, <1>4 DEF Base

(* A step of main keeps the reads in their place.                          *)
LEMMA MainLateReads ==
  ASSUME Control, Requested, Sheltered, ReadOrder, WritesCounted, LateReads, Main
  PROVE  LateReads'
<1> USE DEF Control
<1>1. SUFFICES ASSUME IOWell', NEW kind \in Streams, NEW w \in Writes(kind)', fate'[w] = "pending"
               PROVE  /\ nextRead' <= Base(kind, w)' + ProjectionsPerStep' + ProjectionsPerStep' + 1
                      /\ \A r \in 1 .. w - 1 : PendingRead(r)' =>
                           Target(requests[r].image)' <= Base(kind, w)' + ProjectionsPerStep' + ProjectionsPerStep'
  BY DEF LateReads
<1>2. IOWell /\ ~Leave
  BY <1>1, MainIOWell
<1>3. nextRead' = nextRead /\ ProjectionsPerStep' = ProjectionsPerStep /\ ProjectionsPerStep \in Nat
  BY MainFacts, MainJob, SameSizes, Sizes
<1>4. Len(requests) \in Nat
  BY LenProperties DEF Types
<1>5. \A r \in 1 .. Len(requests) : PendingRead(r)' =>
        PendingRead(r) /\ Target(requests[r].image)' = Target(requests[r].image)
  BY <1>2, OldReads
<1>6. CASE w \in Writes(kind) /\ fate[w] = "pending" /\ requests'[w] = requests[w] /\ Place(kind, w)' = Place(kind, w)
  <2>1. Base(kind, w)' = Base(kind, w)
    BY <1>6 DEF Base
  <2>2. w \in 1 .. Len(requests)
    BY <1>6 DEF Writes
  <2>3. \A r \in 1 .. w - 1 : r \in 1 .. Len(requests)
    BY <1>4, <2>2
  <2>4. /\ nextRead <= Base(kind, w) + ProjectionsPerStep + ProjectionsPerStep + 1
        /\ \A r \in 1 .. w - 1 : PendingRead(r) =>
             Target(requests[r].image) <= Base(kind, w) + ProjectionsPerStep + ProjectionsPerStep
    BY <1>2, <1>6 DEF LateReads
  <2> QED BY <1>3, <1>5, <2>1, <2>3, <2>4
<1>7. CASE WriteRequested(kind) /\ w = Len(requests) + 1
  <2>1. /\ p \in Nat /\ pp \in Nat /\ RequestMade("write", Active(kind, pp))
        /\ Place(kind, w)' = p + pp + 1
        /\ requests'[w] = [op |-> "write", image |-> Active(kind, pp)]
    BY <1>7, WriteNumbered
  <2>2. Base(kind, w)' = p
    BY <2>1 DEF Base, Active
  <2>3. main \in {"writeAttenuation", "writeFiltered"}
    BY <1>7 DEF WriteRequested
  <2>4. Issued = Lesser(p + ProjectionsPerStep + ProjectionsPerStep, NumberOfProjections)
    BY <2>3 DEF Issued
  <2>5. Issued <= p + ProjectionsPerStep + ProjectionsPerStep /\ Issued \in Int
    BY <1>3, <2>1, <2>4 DEF Lesser
  <2>6. nextRead <= Issued + 1 /\ nextRead \in Nat
    BY DEF ReadOrder
  <2>7. nextRead' <= Base(kind, w)' + ProjectionsPerStep' + ProjectionsPerStep' + 1
    BY <1>3, <2>1, <2>2, <2>5, <2>6
  <2>8. ASSUME NEW r \in 1 .. w - 1, PendingRead(r)'
        PROVE  Target(requests[r].image)' <= p + ProjectionsPerStep + ProjectionsPerStep
    <3>1. r \in 1 .. Len(requests)
      BY <1>4, <1>7, <2>8
    <3>2. PendingRead(r) /\ Target(requests[r].image)' = Target(requests[r].image)
      BY <1>5, <2>8, <3>1
    <3>3. Target(requests[r].image) \in nextRead .. Issued
      BY <1>2, <3>1, <3>2 DEF ReadOrder, ReadsInOrder
    <3> QED BY <1>3, <2>1, <2>5, <2>6, <3>2, <3>3
  <2> QED BY <1>3, <2>2, <2>7, <2>8
<1> QED BY <1>1, <1>2, <1>6, <1>7, OldWrites

(* The I/O thread reads what comes before the write.                       *)
LEMMA SettleLateReads ==
  ASSUME Control, Requested, ReadOrder, WritesCounted, LateReads, Settle
  PROVE  LateReads'
<1> USE DEF Control
<1>1. SUFFICES ASSUME IOWell', NEW kind \in Streams, NEW w \in Writes(kind)', fate'[w] = "pending"
               PROVE  /\ nextRead' <= Base(kind, w)' + ProjectionsPerStep' + ProjectionsPerStep' + 1
                      /\ \A r \in 1 .. w - 1 : PendingRead(r)' =>
                           Target(requests[r].image)' <= Base(kind, w)' + ProjectionsPerStep' + ProjectionsPerStep'
  BY DEF LateReads
<1>2. UNCHANGED <<job, main, p, pp, side, requests, closed>> /\ ~closed
  BY SettleData
<1>3. PICK k \in 1 .. Len(requests) : Oldest(k) /\ (ReadsOne(k) \/ WritesOne(k))
  BY <1>1, SettleData DEF IOWell, FailsOne, DropsOne
<1>4. IOWell
  BY <1>2, <1>3 DEF IOWell, ReadsOne, WritesOne
<1>5. /\ ProjectionsPerStep' = ProjectionsPerStep /\ ProjectionsPerStep \in Nat
      /\ Len(requests) \in Nat /\ Len(fate) = Len(requests)
  BY <1>2, SameSizes, Sizes, LenProperties DEF Requested, Types
<1>6. w \in Writes(kind) /\ Base(kind, w)' = Base(kind, w) /\ Base(kind, w) \in Int
      /\ w \in 1 .. Len(requests)
  BY <1>1, <1>2, SamePlaces, BaseTypes DEF Base
<1>7. fate[w] = "pending" /\ w # k /\ k < w
  BY <1>1, <1>3, <1>5, <1>6 DEF Oldest
<1>8. /\ nextRead <= Base(kind, w) + ProjectionsPerStep + ProjectionsPerStep + 1
      /\ \A r \in 1 .. w - 1 : PendingRead(r) =>
           Target(requests[r].image) <= Base(kind, w) + ProjectionsPerStep + ProjectionsPerStep
  BY <1>4, <1>6, <1>7 DEF LateReads
<1>9. \A r \in 1 .. w - 1 : PendingRead(r)' => PendingRead(r) /\ Target(requests[r].image)' = Target(requests[r].image)
  <2>1. ASSUME NEW r \in 1 .. w - 1, PendingRead(r)'
        PROVE  PendingRead(r)
    BY <1>2, <1>3, <1>5, <1>6, <2>1 DEF PendingRead, Oldest
  <2>2. \A r : Target(requests[r].image)' = Target(requests[r].image)
    BY <1>2, <1>5 DEF Target, LoadBase
  <2> QED BY <2>1, <2>2
<1>10. nextRead' <= Base(kind, w) + ProjectionsPerStep + ProjectionsPerStep + 1
  <2>1. CASE ReadsOne(k)
    <3>1. PendingRead(k) /\ k \in 1 .. w - 1
      BY <1>3, <1>5, <1>6, <1>7, <2>1 DEF PendingRead, Oldest, ReadsOne
    <3>2. Target(requests[k].image) = nextRead /\ nextRead \in Nat
      BY <1>3, <1>4, <2>1, OldestRead DEF ReadsOne
    <3>3. nextRead <= Base(kind, w) + ProjectionsPerStep + ProjectionsPerStep
      BY <1>8, <3>1, <3>2
    <3> QED BY <1>5, <1>6, <2>1, <3>2, <3>3 DEF ReadsOne
  <2>2. CASE WritesOne(k)
    BY <1>8, <2>2 DEF WritesOne
  <2> QED BY <1>3, <2>1, <2>2
<1> QED BY <1>5, <1>6, <1>8, <1>9, <1>10

(* Each step keeps them so.                                                *)
LEMMA NextLateReads ==
  ASSUME Control, Requested, Sheltered, ReadOrder, WritesCounted, LateReads, [Next]_vars
  PROVE  LateReads'
<1>1. ASSUME UNCHANGED <<job, LoadBase, side, requests, fate, closed, nextRead>>
      PROVE  LateReads'
  <2>1. /\ ProjectionsPerStep' = ProjectionsPerStep
        /\ \A i : Target(i)' = Target(i)
    BY <1>1, SameSizes DEF Target
  <2>2. /\ \A kind : Writes(kind)' = Writes(kind)
        /\ \A kind, k : Place(kind, k)' = Place(kind, k)
    BY <1>1, SamePlaces
  <2>3. \A kind, k : Base(kind, k)' = Base(kind, k)
    BY <1>1, <2>2 DEF Base
  <2>4. \A r : PendingRead(r)' = PendingRead(r)
    BY <1>1 DEF PendingRead
  <2>5. IOWell' = IOWell
    BY <1>1 DEF IOWell, IO!Failed
  <2> QED BY <1>1, <2>1, <2>2, <2>3, <2>4, <2>5 DEF LateReads
<1>2. CASE Main
  BY <1>2, MainLateReads
<1>3. ASSUME NEW t \in Threads, Worker(t) PROVE LateReads'
  <2>1. UNCHANGED <<job, p, side, requests, fate, closed, nextRead>>
    BY <1>3, WorkerFacts
  <2>2. main' = main \/ (main' \notin Behind /\ main \notin Behind)
    BY <1>3, WorkerCrash DEF Applying, Behind
  <2>3. LoadBase' = LoadBase
    BY <2>1, <2>2, SameSizes DEF LoadBase
  <2> QED BY <1>1, <2>1, <2>3
<1>4. CASE Settle
  BY <1>4, SettleLateReads
<1>5. CASE UNCHANGED vars
  BY <1>1, <1>5, SameSizes DEF vars, LoadBase
<1> QED BY <1>2, <1>3, <1>4, <1>5 DEF Next, Ended

(* Groups of s out of n: the last but one and the last.                    *)
LEMMA Multiples ==
  ASSUME NEW s \in Nat \ {0}, NEW x \in Int, NEW y \in Int, s * x < s * y
  PROVE  x < y
BY Z3

(* The groups are as long as a step, but for the last.                     *)
LEMMA GroupArithmetic ==
  ASSUME NEW s \in Nat \ {0}, NEW n \in Nat \ {0}, NEW g \in Nat
  PROVE  /\ ((n - 1) % s) + 1 \in 1 .. s
         /\ n <= s * g + s + s => s * g >= n - (((n - 1) % s) + 1) - s
         /\ s * g < n /\ n <= s * g + s => n - s * g = ((n - 1) % s) + 1
<1>1. PICK m \in Int : m = (n - 1) \div s
  OBVIOUS
<1>2. PICK r \in 0 .. s - 1 : r = (n - 1) % s
  OBVIOUS
<1>3. n - 1 = s * m + r
  BY <1>1, <1>2
<1>4. ASSUME n <= s * g + s + s PROVE s * g >= n - (r + 1) - s
  <2>1. s * m < s * (g + 2)
    <3>1. s * (g + 2) = s * g + s + s
      OBVIOUS
    <3> QED BY <1>2, <1>3, <1>4, <3>1
  <2>2. m < g + 2
    BY <2>1, Multiples
  <2>3. m <= g + 1
    BY <2>2
  <2>4. s * (g + 1 - m) >= 0
    BY <2>3
  <2>5. s * (g + 1 - m) = s * g + s - s * m
    OBVIOUS
  <2> QED BY <1>2, <1>3, <2>4, <2>5
<1>5. ASSUME s * g < n, n <= s * g + s PROVE n - s * g = r + 1
  <2>1. s * m < s * (g + 1)
    <3>1. s * (g + 1) = s * g + s
      OBVIOUS
    <3> QED BY <1>2, <1>3, <1>5, <3>1
  <2>2. s * g < s * (m + 1)
    <3>1. s * (m + 1) = s * m + s
      OBVIOUS
    <3> QED BY <1>2, <1>3, <1>5, <3>1
  <2>3. m < g + 1 /\ g < m + 1
    BY <2>1, <2>2, Multiples
  <2>4. m = g
    BY <2>3
  <2> QED BY <1>2, <1>3, <2>4
<1> QED BY <1>2, <1>4, <1>5

(* After the loop over the groups has ended well.                          *)
Closing == {"count", "writeVolume", "barrierVolume", "synchronizeEnd", "barrierEnd", "return", "returned"}

(* Everything has been read by then, and what may still fail is a write of *)
(* one of the last two groups.                                             *)
ReadsEnded ==
  /\ main \in {"complete"} \cup Closing => p >= NumberOfProjections
  /\ main = "complete" /\ IOWell => nextRead = NumberOfProjections + 1
  /\ main \in Closing =>
       /\ nextRead = NumberOfProjections + 1
       /\ \A k \in 1 .. Len(requests) : fate[k] \in {"pending", "failed"} => LateWrite(k)

(* The writes of the groups before have been waited for.                   *)
LEMMA PendingIsLate ==
  ASSUME Control, Requested, ReadOrder, WritesCounted, LateReads, ReadsEnded, main = "complete", IOWell,
         NEW k \in 1 .. Len(requests), fate[k] = "pending"
  PROVE  LateWrite(k)
<1> USE DEF Control
<1>1. /\ ProjectionsPerStep \in Nat \ {0} /\ p \in Nat /\ p >= NumberOfProjections
      /\ nextRead = NumberOfProjections + 1
  BY Sizes DEF Types, ReadsEnded
<1>2. Issued = NumberOfProjections
  BY <1>1 DEF Issued, Lesser
<1>3. ~PendingRead(k)
  BY <1>1, <1>2 DEF ReadOrder, ReadsInOrder
<1>4. requests[k].op = "write"
  BY <1>3, RequestTypes DEF PendingRead
<1>5. PICK kind \in Streams : kind = requests[k].image[1]
  BY <1>4 DEF Requested, Output, Streams
<1>6. k \in Writes(kind)
  BY <1>4, <1>5 DEF Writes
<1>7. /\ nextRead <= Base(kind, k) + ProjectionsPerStep + ProjectionsPerStep + 1
      /\ StartsGroup(Base(kind, k))
  BY <1>6 DEF LateReads, WritesCounted
<1>8. PICK g \in Nat : Base(kind, k) = ProjectionsPerStep * g
  BY <1>7 DEF StartsGroup
<1>9. PICK b \in Int : b = Base(kind, k)
  BY <1>6, BaseTypes
<1>10. NumberOfProjections <= b + ProjectionsPerStep + ProjectionsPerStep /\ b = ProjectionsPerStep * g
  BY <1>1, <1>7, <1>8, <1>9
<1>11. b >= NumberOfProjections - LastGroup - ProjectionsPerStep
  BY <1>1, <1>10, GroupArithmetic DEF LastGroup
<1>12. requests[k].image[2] \in Nat
  BY RequestTypes, ImageParts
<1>13. Place(kind, k) > b /\ Place(kind, k) \in Int
  <2>1. PICK n \in Nat : n = Place(kind, k)
    BY <1>6, Places
  <2>2. PICK t \in Nat : t = requests[k].image[2]
    BY <1>12
  <2>3. b = n - 1 - t
    BY <1>9, <2>1, <2>2 DEF Base
  <2> QED BY <2>1, <2>3
<1>14. LastGroup \in Int
  BY <1>1, GroupArithmetic DEF LastGroup
<1>15. Place(kind, k) > NumberOfProjections - LastGroup - ProjectionsPerStep
  BY <1>1, <1>11, <1>13, <1>14
<1> QED BY <1>4, <1>5, <1>15 DEF LateWrite, Place

(* How main comes to the end.                                              *)
LEMMA ClosesFrom ==
  ASSUME Control, Main, main' \in {"complete"} \cup Closing
  PROVE  \/ NextGroup /\ main = "next" /\ main' = "complete" /\ p' >= NumberOfProjections
         \/ main = "complete" /\ main' = "count" /\ ~IO!Failed /\ UNCHANGED <<p, fate>>
         \/ main \in Closing /\ main' \in Closing /\ p' = p /\ (fate' = fate \/ IO!Close)
<1> USE DEF Control
<1>1. CASE main \in Turn /\ ~NextGroup
  <2>1. main' \notin Lost
    BY DEF Closing, Lost
  <2>2. main' \in Turn
    BY <1>1, <2>1, StaysInTurn
  <2> QED BY <2>2 DEF Closing
<1>2. CASE NextGroup
  BY <1>2, FirstPhaseIsBehind, MainControl DEF NextGroup, Closing, Behind, Types
<1>3. CASE main \in {"create", "firstRequests"}
  BY <1>3, FirstPhaseIsBehind DEF Main, Create, FirstRequests, SwapAttenuation, SwapInput, RequestNext, Convert,
   Synchronize, Barrier, SetReference, CorrectBeamPower, SwapFiltered, Filter, Check,
   WriteAttenuation, WriteFiltered, ApplyProjections, NextGroup, WaitForCompletion,
   CountRequests, WriteVolume, BarrierVolume, Leave, Request, EndRequests, Behind, Closing
<1>4. CASE WaitForCompletion \/ CountRequests
  BY <1>4 DEF WaitForCompletion, CountRequests, MainThrows, mainVars, ioVars, Closing
<1>5. CASE Leave
  BY <1>5 DEF Leave, mainVars, Closing
<1>6. CASE WriteVolume \/ BarrierVolume
  BY <1>6 DEF WriteVolume, BarrierVolume, mainVars, ioVars, Closing
<1>7. CASE Synchronize /\ main \notin Turn
  BY <1>7 DEF Synchronize, mainVars, ioVars, Closing
<1>8. CASE Barrier /\ main \notin Turn
  BY <1>8 DEF Barrier, mainVars, ioVars, Closing
<1>9. main \in Turn \cup {"create", "firstRequests"} \/ WaitForCompletion \/ CountRequests \/ Leave
      \/ WriteVolume \/ BarrierVolume \/ Synchronize \/ Barrier
  BY DEF Main, Create, FirstRequests, SwapAttenuation, SwapInput, RequestNext, Convert,
   SetReference, CorrectBeamPower, SwapFiltered, Filter, Check,
   WriteAttenuation, WriteFiltered, ApplyProjections, NextGroup
<1> QED BY <1>1, <1>2, <1>3, <1>4, <1>5, <1>6, <1>7, <1>8, <1>9

(* What is late stays so.                                                  *)
LEMMA StaysLate ==
  ASSUME UNCHANGED <<job, requests>>
  PROVE  \A k : LateWrite(k)' = LateWrite(k)
<1>1. ProjectionsPerStep' = ProjectionsPerStep
  BY SameSizes
<1>2. \A kind : Writes(kind)' = Writes(kind)
  BY SamePlaces
<1> QED BY <1>1, <1>2 DEF LateWrite, LastGroup

(* Main comes to the end with everything read.                             *)
LEMMA MainReadsEnded ==
  ASSUME Control, Requested, Sheltered, ReadOrder, WritesCounted, LateReads, ReadsEnded, Main
  PROVE  ReadsEnded'
<1> USE DEF Control
<1>1. nextRead' = nextRead /\ job' = job
  BY MainFacts, MainJob
<1>2. CASE main' \notin {"complete"} \cup Closing
  BY <1>2 DEF ReadsEnded
<1>3. CASE NextGroup /\ main = "next" /\ main' = "complete" /\ p' >= NumberOfProjections
  <2>1. ASSUME IOWell' PROVE nextRead = NumberOfProjections + 1
    <3>1. IOWell
      BY <2>1, MainIOWell
    <3>2. p' = p + ProjectionsPerStep /\ p \in Nat /\ ProjectionsPerStep \in Nat
      BY <1>3, Sizes DEF NextGroup, Types
    <3>3. Issued = NumberOfProjections
      BY <1>3, <3>2 DEF Issued, Lesser
    <3>4. \A k \in 1 .. Len(requests) : ~PendingRead(k)
      BY <1>3, <3>1, <3>2, NoReadsAtEnd
    <3>5. nextRead \in Nat /\ nextRead <= NumberOfProjections + 1
      BY <3>3 DEF ReadOrder
    <3>6. \A q \in nextRead .. NumberOfProjections : FALSE
      BY <3>1, <3>3, <3>4 DEF ReadOrder, ReadsInOrder, Awaiting
    <3> QED BY <3>5, <3>6
  <2> QED BY <1>1, <1>3, <2>1 DEF ReadsEnded, Closing
<1>4. CASE main = "complete" /\ main' = "count" /\ ~IO!Failed /\ UNCHANGED <<p, fate>>
  <2>1. IOWell
    BY <1>4 DEF IOWell, Scheduled
  <2>2. requests' = requests
    BY <1>4, MainIO DEF ReadRequested, WriteRequested, Leave
  <2>3. ASSUME NEW k \in 1 .. Len(requests), fate[k] \in {"pending", "failed"}
        PROVE  LateWrite(k)
    <3>1. fate[k] = "pending"
      BY <1>4, <2>3 DEF IO!Failed, Requested
    <3> QED BY <1>4, <2>1, <3>1, PendingIsLate
  <2> QED BY <1>1, <1>4, <2>1, <2>2, <2>3, StaysLate DEF ReadsEnded
<1>5. CASE main \in Closing /\ main' \in Closing /\ p' = p /\ (fate' = fate \/ IO!Close)
  <2>1. requests' = requests
    BY <1>5, MainIO DEF ReadRequested, WriteRequested, Leave, Closing
  <2>2. \A k \in 1 .. Len(requests) : fate'[k] \in {"pending", "failed"} => fate[k] \in {"pending", "failed"}
    <3>1. ASSUME NEW k \in 1 .. Len(requests), fate'[k] \in {"pending", "failed"}
          PROVE  fate[k] \in {"pending", "failed"}
      BY <1>5, <3>1 DEF IO!Close, Requested, Types
    <3> QED BY <3>1
  <2> QED BY <1>1, <1>5, <2>1, <2>2, StaysLate DEF ReadsEnded, Closing
<1> QED BY <1>2, <1>3, <1>4, <1>5, ClosesFrom

(* So it stays: the I/O thread has only writes left, and those are late.   *)
LEMMA SettleReadsEnded ==
  ASSUME Control, Requested, ReadOrder, ReadsEnded, Settle
  PROVE  ReadsEnded'
<1> USE DEF Control
<1>1. UNCHANGED <<job, main, p, requests, closed>> /\ ~closed
  BY SettleData
<1>2. PICK k \in 1 .. Len(requests) : Oldest(k) /\ (ReadsOne(k) \/ WritesOne(k) \/ FailsOne(k) \/ DropsOne(k))
  BY SettleData
<1>3. CASE main = "complete"
  <2>1. ASSUME IOWell' PROVE nextRead' = NumberOfProjections + 1
    <3>1. ReadsOne(k) \/ WritesOne(k)
      BY <1>2, <2>1 DEF FailsOne, DropsOne, IOWell
    <3>2. IOWell
      BY <1>1, <3>1 DEF IOWell, ReadsOne, WritesOne
    <3>3. ~ReadsOne(k)
      <4>1. SUFFICES ASSUME ReadsOne(k) PROVE FALSE
        OBVIOUS
      <4> QED BY <1>2, <1>3, <3>2, <4>1, OldestRead DEF ReadsOne, ReadsEnded
    <3> QED BY <1>3, <3>1, <3>2, <3>3 DEF WritesOne, ReadsEnded
  <2> QED BY <1>1, <1>3, <2>1 DEF ReadsEnded, Closing
<1>4. CASE main \in Closing
  <2>1. ~ReadsOne(k)
    <3>1. LateWrite(k)
      BY <1>2, <1>4 DEF Oldest, ReadsEnded
    <3> QED BY <3>1 DEF LateWrite, ReadsOne
  <2>2. nextRead' = nextRead
    BY <1>2, <2>1 DEF WritesOne, FailsOne, DropsOne
  <2>3. \A j \in 1 .. Len(requests) : fate'[j] \in {"pending", "failed"} => fate[j] \in {"pending", "failed"}
    BY <1>2 DEF Oldest, Requested
  <2> QED BY <1>1, <1>4, <2>2, <2>3, StaysLate DEF ReadsEnded, Closing
<1>5. CASE main \notin {"complete"} \cup Closing
  BY <1>1, <1>5 DEF ReadsEnded
<1> QED BY <1>3, <1>4, <1>5

(* Each step keeps it so.                                                  *)
LEMMA NextReadsEnded ==
  ASSUME Control, Requested, Sheltered, ReadOrder, WritesCounted, LateReads, ReadsEnded, [Next]_vars
  PROVE  ReadsEnded'
<1>1. ASSUME UNCHANGED <<job, p, requests, fate, closed, nextRead>>, main' \in {main, "crashed"}
      PROVE  ReadsEnded'
  BY <1>1, StaysLate DEF ReadsEnded, Closing, IOWell, IO!Failed
<1>2. CASE Main
  BY <1>2, MainReadsEnded
<1>3. ASSUME NEW t \in Threads, Worker(t) PROVE ReadsEnded'
  BY <1>1, <1>3, WorkerFacts, WorkerCrash
<1>4. CASE Settle
  BY <1>4, SettleReadsEnded
<1>5. CASE UNCHANGED vars
  BY <1>1, <1>5 DEF vars
<1> QED BY <1>2, <1>3, <1>4, <1>5 DEF Next, Ended

-----------------------------------------------------------------------------
(* Which failures main is told of.                                         *)

(* The workers are set up before anything else.                            *)
SetupsFirst ==
  /\ main = "create" => \A t \in Threads : exception[t] = "none"
  /\ \A t \in Threads : \A j \in 1 .. Len(box[t]) :
       box[t][j].op \in Setups =>
         /\ exception[t] \in Setups \cup {"none"}
         /\ \A l \in 1 .. j - 1 : box[t][l].op \in Setups

(* What has been looked at by now: what the group's workers threw before   *)
(* the last check; what the others may throw at all; and what is left at   *)
(* the end of the workers that had a projection.                           *)
LookedAt ==
  \A t \in Threads :
    /\ main \in {"writeAttenuation", "writeFiltered", "apply", "next"} /\ t < ProjectionsThisStep
         => exception[t] = "none"
    /\ main \in Turn /\ t < ProjectionsPerStep /\ t >= ProjectionsThisStep
         => exception[t] \in {"none", "apply"}
    /\ main \in Closing \cup {"complete"} /\ t < ProjectionsPerStep =>
         \/ exception[t] \in {"none", "writeVolume"}
         \/ exception[t] = "apply" /\ t >= LastGroup
    /\ (p > 0 \/ main \in Checked) /\ t < ProjectionsPerStep => exception[t] \notin Setups

(* A volume without memory was reported, and is used only by a worker that *)
(* nobody asked; main throws for a reason, and not silently.               *)
Reasons ==
  /\ \A t \in Threads : "nullVolume" \in ready[t] => exception[t] \in Setups
  /\ mainFailed => main \in {"unwind", "threw"}
  /\ main \in Lost => ~AllWell
  /\ main = "crashed" => \E t \in Threads : t >= ProjectionsPerStep /\ "nullVolume" \in ready[t]

(* Main sends the messages that set the workers up when there are no other.*)
LEMMA SetsUpOnce ==
  ASSUME Control, Main, ~Create, ~Empties,
         NEW t \in Threads, NEW j \in Len(box[t]) + 1 .. Len(box'[t])
  PROVE  box'[t][j].op \notin Setups
<1> USE DEF Control
<1>0. Len(box[t]) \in Nat
  BY LenProperties DEF Types
<1>1. ASSUME NEW kind, AwaitsSent(kind) PROVE box'[t][j].op \notin Setups
  <2>1. t < ProjectionsThisStep /\ j = Len(box[t]) + 1
    BY <1>0, <1>1 DEF AwaitsSent
  <2>2. box'[t][j] = Await(Active(kind, t))'
    BY <1>1, <2>1 DEF AwaitsSent
  <2> QED BY <2>2 DEF Await, Message, Setups
<1>2. ASSUME box' = box PROVE FALSE
  BY <1>0, <1>2
<1>3. CASE SwapAttenuation \/ SwapFiltered
  <2>1. PICK kind \in Kinds : SwapOutput(kind) /\ job' = job
    BY <1>3 DEF SwapAttenuation, SwapFiltered, Kinds
  <2> QED BY <1>1, <1>2, <2>1, SwapStep
<1>4. CASE RequestNext
  <2>1. CASE UNCHANGED box
    BY <1>2, <2>1
  <2>2. CASE Send(ProjectionsThisStep, LAMBDA k : Await(Active(job.source, k))) /\ UNCHANGED <<job, side>>
    BY <1>1, <2>2, RequestedAllStep
  <2> QED BY <1>4, <2>1, <2>2 DEF RequestNext, Request, EndRequests
<1>5. CASE Convert \/ CorrectBeamPower \/ Filter
  <2>1. PICK kinds : TransformsSent(kinds)
    BY <1>5, ConvertStep, CorrectStep, FilterStep
  <2>2. box'[t][j].op \in Transforms
    BY <2>1 DEF TransformsSent
  <2> QED BY <2>2 DEF Transforms, Setups
<1>6. CASE Synchronize
  <2>1. j = Len(box[t]) + 1 /\ box'[t][j] = Plain("barrier")
    BY <1>0, <1>6, SynchronizeStep DEF BarriersSent
  <2> QED BY <2>1 DEF Plain, Message, Setups
<1>7. CASE WriteVolume
  <2>1. /\ \A u \in Threads \ {pp} : box'[u] = <<>>
        /\ Len(box'[pp]) = 2
        /\ box'[pp][1] = Plain("writeVolume")
        /\ box'[pp][2] = Plain("barrier")
    BY <1>7, WriteVolumeStep
  <2>2. t = pp
    <3>1. SUFFICES ASSUME t # pp PROVE FALSE
      OBVIOUS
    <3>2. Len(box'[t]) = 0
      BY <2>1, <3>1
    <3> QED BY <1>0, <3>2
  <2>4. Len(box'[t]) = 2
    BY <2>1, <2>2
  <2>3. j \in 1 .. 2
    BY <1>0, <2>4
  <2> QED BY <2>1, <2>2, <2>3 DEF Plain, Message, Setups
<1>8. CASE ApplyProjections
  <2>1. Len(box'[t]) = Applicable /\ \A k \in 1 .. Len(box'[t]) : box'[t][k] = Apply(Active("filtered", k - 1), p + k)
    BY <1>8, ApplyStep DEF AppliesSent
  <2>2. j \in 1 .. Len(box'[t])
    BY <1>0, <2>1
  <2>3. box'[t][j] = Apply(Active("filtered", j - 1), p + j)
    BY <2>1, <2>2
  <2> QED BY <2>3 DEF Apply, Message, Setups
<1>9. CASE Barrier \/ BarrierVolume
  BY <1>9, BarrierControl, BarrierVolumeControl DEF Empties
<1>10. CASE FirstRequests \/ SwapInput \/ SetReference \/ Check \/ WriteAttenuation
           \/ WriteFiltered \/ NextGroup \/ WaitForCompletion \/ CountRequests \/ Leave
  <2>1. UNCHANGED box
    BY <1>10 DEF FirstRequests, SwapInput, SetReference, Check,
       WriteAttenuation,
       WriteFiltered, NextGroup, WaitForCompletion, CountRequests, Leave, Request, EndRequests, MainThrows
  <2> QED BY <1>2, <2>1
<1> QED BY <1>3, <1>4, <1>5, <1>6, <1>7, <1>8, <1>9, <1>10 DEF Main

(* What a worker reports, and why.                                         *)
LEMMA WorkerReportsOne ==
  ASSUME Control, Shaped, DataTypes, NEW t \in Threads, Worker(t)
  PROVE  /\ box[t] # <<>> /\ box[t][1].op \in Ops \ {"barrier"}
         /\ \A u \in Threads : exception'[u] = exception[u]
              \/ (u = t /\ exception[u] = "none" /\ exception'[u] = box[t][1].op)
         /\ \A u \in Threads : ready'[u] = ready[u]
              \/ (/\ u = t /\ box[t][1].op \in Setups
                  /\ "nullVolume" \in ready'[t] => "nullVolume" \in ready[t] \/ exception'[t] # "none")
         /\ main' = "crashed" => "nullVolume" \in ready[t] /\ UNCHANGED <<exception, ready, box>>
<1> USE DEF Control
<1>1. box[t] # <<>> /\ Head(box[t]) = box[t][1] /\ 1 \in 1 .. Len(box[t])
  BY WorkerStep, Taking
<1>2. box[t][1].op \in Ops
  BY <1>1, AwaitTypes DEF Messages
<1>3. box[t][1].op # "barrier"
  <2>1. CASE TransformImage(t)
    <3>1. Transformed(t)
      BY <2>1, WorkerContent
    <3> QED BY <3>1 DEF Transformed, Transforms
  <2> QED BY <1>1, <2>1 DEF Worker, Setup, AllocateNothing, AwaitBuffer, ApplyProjection, WriteVolumeData, Crash
<1>4. \A u \in Threads : exception'[u] = exception[u]
        \/ (u = t /\ exception[u] = "none" /\ exception'[u] = box[t][1].op)
  <2>1. UNCHANGED exception \/ exception' = [exception EXCEPT ![t] = IF @ = "none" THEN box[t][1].op ELSE @]
    BY <1>1 DEF Worker, Setup, AllocateNothing, AwaitBuffer, TransformImage,
       ApplyProjection, WriteVolumeData, Crash, Finish, Throw, workVars
  <2>2. PICK op \in Ops : op = box[t][1].op
    BY <1>2
  <2>3. ASSUME exception' = [exception EXCEPT ![t] = IF @ = "none" THEN op ELSE @], NEW u \in Threads
        PROVE  exception'[u] = exception[u] \/ (u = t /\ exception[u] = "none" /\ exception'[u] = op)
    BY <2>3 DEF DataTypes
  <2> QED BY <2>1, <2>2, <2>3
<1>5. \A u \in Threads : ready'[u] = ready[u]
        \/ (/\ u = t /\ box[t][1].op \in Setups
            /\ "nullVolume" \in ready'[t] => "nullVolume" \in ready[t] \/ exception'[t] # "none")
  <2>1. CASE ready' = ready
    BY <2>1
  <2>2. CASE AllocateNothing(t)
    <3>1. /\ box[t][1].op = "allocateVolume"
          /\ exception' = [exception EXCEPT ![t] = IF @ = "none" THEN "allocateVolume" ELSE @]
          /\ ready' = [ready EXCEPT ![t] = @ \cup {"nullVolume"}]
      BY <1>1, <2>2 DEF AllocateNothing
    <3>2. exception'[t] # "none"
      BY <3>1 DEF DataTypes
    <3> QED BY <3>1, <3>2 DEF DataTypes, Setups
  <2>3. CASE Setup(t) /\ ~UNCHANGED ready
    <3>1. /\ box[t][1].op \in Setups
          /\ ready' = [ready EXCEPT ![t] = @ \cup {box[t][1].op}]
      BY <1>1, <2>3 DEF Setup, Setups, Throw
    <3>2. "nullVolume" # box[t][1].op
      BY <3>1 DEF Setups
    <3> QED BY <3>1, <3>2 DEF DataTypes
  <2> QED BY <2>1, <2>2, <2>3 DEF Worker, AwaitBuffer, TransformImage, ApplyProjection,
             WriteVolumeData, Crash, Finish, Throw, workVars
<1>6. ASSUME main' = "crashed" PROVE "nullVolume" \in ready[t] /\ UNCHANGED <<exception, ready, box>>
  <2>1. Crash(t)
    BY <1>6 DEF Worker, Setup, AllocateNothing, AwaitBuffer, TransformImage,
       ApplyProjection, WriteVolumeData, Finish, Throw
  <2> QED BY <2>1 DEF Crash, workVars
<1> QED BY <1>1, <1>2, <1>3, <1>4, <1>5, <1>6

(* The check comes between the filtering and what follows.                 *)
LEMMA CheckComesFirst ==
  ASSUME Control, Main, main' \in Checked
  PROVE  /\ p' = p
         /\ main \in Checked \/ Check
         /\ main' \in {"writeAttenuation", "writeFiltered", "apply", "next"} =>
              main \in {"writeAttenuation", "writeFiltered", "apply"} \/ Check
<1> USE DEF Control
<1>1. CASE NextGroup
  BY <1>1, FirstPhaseIsBehind DEF NextGroup, Behind
<1>2. CASE SwapAttenuation \/ SwapInput \/ SwapFiltered
  BY <1>2, PhaseOrder DEF SwapAttenuation, SwapInput, SwapFiltered, FromFilter
<1>3. CASE Move /\ UNCHANGED <<job, p, side>>
  <2>1. main' = main \/ main \in Checked \cup {"check"}
    BY <1>3 DEF Move, FirstPhase, FromConvert, FromSynchronize0, FromCorrect, FromSwap, FromFilter, Ending
  <2>2. main \in {"check", "checkApplied"} => Check
    BY DEF Main, Create, FirstRequests, SwapAttenuation, SwapInput, RequestNext, Convert,
       Synchronize, Barrier, SetReference, CorrectBeamPower, SwapFiltered, Filter,
       WriteAttenuation, WriteFiltered, ApplyProjections, NextGroup, WaitForCompletion,
       CountRequests, WriteVolume, BarrierVolume, Leave
  <2>3. main = "next" => NextGroup
    BY DEF Main, Create, FirstRequests, SwapAttenuation, SwapInput, RequestNext, Convert,
       Synchronize, Barrier, SetReference, CorrectBeamPower, SwapFiltered, Filter, Check,
       WriteAttenuation, WriteFiltered, ApplyProjections, WaitForCompletion,
       CountRequests, WriteVolume, BarrierVolume, Leave
  <2>4. main \in {"synchronizeApplied", "barrierApplied"} => main' \in {"barrierApplied", "checkApplied"}
    BY DEF Main, Create, FirstRequests, SwapAttenuation, SwapInput, RequestNext, Convert,
       Synchronize, Barrier, SetReference, CorrectBeamPower, SwapFiltered, Filter, Check,
       WriteAttenuation, WriteFiltered, ApplyProjections, NextGroup, WaitForCompletion,
       CountRequests, WriteVolume, BarrierVolume, Leave
  <2> QED BY <1>1, <1>3, <2>1, <2>2, <2>3, <2>4
<1> QED BY <1>1, <1>2, <1>3, MainMoves

(* A check that lets main go on has found nothing.                         *)
LEMMA CheckedAll ==
  ASSUME Control, Check, main' # "unwind", NEW t \in Threads, t < ProjectionsThisStep
  PROVE  exception[t] = "none"
<1>1. ~\E u \in 0 .. ProjectionsThisStep - 1 : exception[u] # "none"
  BY DEF Check, MainThrows
<1>2. t \in 0 .. ProjectionsThisStep - 1
  BY Sizes DEF Threads, Control
<1> QED BY <1>1, <1>2

(* Where main is in the turns it came from the turns, or from the first    *)
(* requests.                                                               *)
LEMMA TurnsFrom ==
  ASSUME Control, Main, main' \in Turn
  PROVE  \/ NextGroup /\ main = "next"
         \/ p' = p /\ (main \in Turn \/ p = 0)
<1> USE DEF Control
<1>1. CASE NextGroup
  BY <1>1 DEF NextGroup
<1>2. CASE SwapAttenuation \/ SwapInput \/ SwapFiltered
  BY <1>2 DEF SwapAttenuation, SwapInput, SwapFiltered
<1>3. CASE Move /\ UNCHANGED <<job, p, side>>
  <2>1. main \in Early
    BY <1>3, Progress DEF Early
  <2> QED BY <1>3, <2>1 DEF Early, Scheduled
<1> QED BY <1>1, <1>2, <1>3, MainMoves

(* When main goes on to the next group nothing but applying the last       *)
(* projections can have failed on a worker that had a projection.          *)
LEMMA GroupLookedAt ==
  ASSUME Control, WritesCounted, LookedAt, NextGroup, NEW t \in Threads, t < ProjectionsPerStep
  PROVE  /\ exception[t] # "none" => t >= ProjectionsThisStep /\ exception[t] = "apply"
         /\ ProjectionsThisStep < ProjectionsPerStep => p + ProjectionsPerStep >= NumberOfProjections
         /\ p + ProjectionsPerStep >= NumberOfProjections => ProjectionsThisStep = LastGroup
<1> USE DEF Control
<1>1. main = "next" /\ p < NumberOfProjections /\ p \in Nat
  BY DEF NextGroup, Scheduled, Types
<1>2. t \in Nat /\ ProjectionsThisStep \in Int /\ ProjectionsPerStep \in Nat \ {0}
  BY Sizes DEF Threads
<1>3. exception[t] # "none" => t >= ProjectionsThisStep /\ exception[t] = "apply"
  BY <1>1, <1>2 DEF LookedAt
<1>4. ProjectionsThisStep < ProjectionsPerStep => p + ProjectionsPerStep >= NumberOfProjections
  BY <1>1, <1>2 DEF ProjectionsThisStep, Lesser
<1>5. ASSUME p + ProjectionsPerStep >= NumberOfProjections PROVE ProjectionsThisStep = LastGroup
  <2>1. PICK g \in Nat : p = ProjectionsPerStep * g
    BY DEF WritesCounted, StartsGroup
  <2>2. NumberOfProjections - ProjectionsPerStep * g = ((NumberOfProjections - 1) % ProjectionsPerStep) + 1
    <3>1. ProjectionsPerStep * g < NumberOfProjections /\ NumberOfProjections <= ProjectionsPerStep * g + ProjectionsPerStep
      BY <1>1, <1>2, <1>5, <2>1
    <3> QED BY <1>2, <3>1, GroupArithmetic
  <2>3. ProjectionsThisStep = NumberOfProjections - p
    BY <1>1, <1>2, <1>5 DEF ProjectionsThisStep, Lesser
  <2> QED BY <2>1, <2>2, <2>3 DEF LastGroup
<1> QED BY <1>3, <1>4, <1>5

(* Main looks at the workers as it should.                                 *)
LEMMA MainLooksAt ==
  ASSUME Control, Control', WritesCounted, LookedAt, Main
  PROVE  LookedAt'
<1> USE DEF Control
<1>1. exception' = exception /\ job' = job
  BY MainFacts, MainJob
<1>2. ProjectionsPerStep' = ProjectionsPerStep /\ (p' = p => ProjectionsThisStep' = ProjectionsThisStep) /\ LastGroup' = LastGroup
  BY <1>1, SameSizes DEF LastGroup
<1>3. ProjectionsPerStep \in Nat /\ ProjectionsThisStep \in Int /\ Threads \subseteq Nat /\ ProjectionsThisStep' \in Int
  <2>1. ProjectionsPerStep \in Nat /\ ProjectionsThisStep \in Int /\ Threads \subseteq Nat
    BY Sizes DEF Threads
  <2>2. p' \in Nat
    BY DEF Types
  <2>3. ProjectionsPerStep' \in Int /\ NumberOfProjections - p' \in Int
    BY <1>2, <2>1, <2>2
  <2>4. ProjectionsThisStep' \in Int
    BY <2>3 DEF ProjectionsThisStep, Lesser
  <2> QED BY <2>1, <2>4
<1>4. ASSUME NEW t \in Threads, main' \in {"writeAttenuation", "writeFiltered", "apply", "next"}, t < ProjectionsThisStep'
      PROVE  exception[t] = "none"
  <2>1. main \in {"writeAttenuation", "writeFiltered", "apply"} \/ Check
    BY <1>4, CheckComesFirst
  <2>2. t < ProjectionsThisStep
    BY <1>2, <1>4, CheckComesFirst
  <2> QED BY <1>4, <2>1, <2>2, CheckedAll DEF LookedAt
<1>5. ASSUME NEW t \in Threads, main' \in Turn, t < ProjectionsPerStep, t >= ProjectionsThisStep'
      PROVE  exception[t] \in {"none", "apply"}
  <2>1. CASE NextGroup /\ main = "next"
    BY <1>5, <2>1, GroupLookedAt
  <2>2. CASE p' = p /\ p = 0
    BY <1>2, <1>3, <1>5, <2>2, Sizes
  <2>3. CASE p' = p /\ main \in Turn
    BY <1>2, <1>5, <2>3 DEF LookedAt
  <2> QED BY <1>5, <2>1, <2>2, <2>3, TurnsFrom
<1>6. ASSUME NEW t \in Threads, main' \in Closing \cup {"complete"}, t < ProjectionsPerStep
      PROVE  \/ exception[t] \in {"none", "writeVolume"}
             \/ exception[t] = "apply" /\ t >= LastGroup
  <2>1. CASE NextGroup /\ p' >= NumberOfProjections
    <3>1. p + ProjectionsPerStep >= NumberOfProjections
      BY <2>1 DEF NextGroup
    <3> QED BY <1>6, <2>1, <3>1, GroupLookedAt
  <2>2. CASE main \in Closing \cup {"complete"}
    BY <1>6, <2>2 DEF LookedAt
  <2> QED BY <1>6, <2>1, <2>2, ClosesFrom
<1>7. ASSUME NEW t \in Threads, p' > 0 \/ main' \in Checked, t < ProjectionsPerStep
      PROVE  exception[t] \notin Setups
  <2>1. CASE p > 0 \/ main \in Checked
    BY <1>7, <2>1 DEF LookedAt
  <2>2. CASE ~(p > 0) /\ main \notin Checked /\ main' \in Checked
    <3>1. Check /\ main' # "unwind"
      BY <2>2, CheckComesFirst
    <3>2. p = 0
      BY <2>2 DEF Types
    <3>3. exception[t] = "none"
      BY <1>7, <3>1, <3>2, Sizes, CheckedAll
    <3> QED BY <3>3 DEF Setups
  <2>3. p' > 0 => p > 0 \/ main = "next"
    <3>1. p' # p => NextGroup
      BY MainMoves DEF SwapAttenuation, SwapInput, SwapFiltered
    <3> QED BY <3>1 DEF NextGroup
  <2> QED BY <1>7, <2>1, <2>2, <2>3
<1> QED BY <1>1, <1>2, <1>4, <1>5, <1>6, <1>7 DEF LookedAt

(* Main sets the workers up first.                                         *)
LEMMA MainSetsUpFirst ==
  ASSUME Control, SetupsFirst, Main
  PROVE  SetupsFirst'
<1> USE DEF Control
<1>1. exception' = exception
  BY MainFacts
<1>0. main' # "create"
  <2>1. CASE Move /\ UNCHANGED <<job, p, side>>
    <3>1. main = "create" => main' = "firstRequests"
      BY DEF Main, Create, FirstRequests, SwapAttenuation, SwapInput, RequestNext, Convert,
       Synchronize, Barrier, SetReference, CorrectBeamPower, SwapFiltered, Filter, Check,
       WriteAttenuation, WriteFiltered, ApplyProjections, NextGroup, WaitForCompletion,
       CountRequests, WriteVolume, BarrierVolume, Leave
    <3> QED BY <2>1, <3>1 DEF Move, FirstPhase, FromConvert, FromSynchronize0, FromCorrect, FromSwap,
       FromFilter, FromCheck, FromWrite, FromApply, Ending
  <2>2. CASE NextGroup
    BY <2>2 DEF NextGroup, FirstPhase
  <2>3. CASE SwapAttenuation \/ SwapInput \/ SwapFiltered
    BY <2>3, PhaseOrder DEF SwapAttenuation, SwapInput, SwapFiltered, FromFilter
  <2> QED BY <2>1, <2>2, <2>3, MainMoves
<1>2. CASE Empties
  <2>1. \A t \in Threads : Len(box'[t]) = 0
    BY <1>2 DEF Empties
  <2> QED BY <1>0, <2>1 DEF SetupsFirst
<1>3. CASE Create
  <2>1. \A t \in Threads : \A j \in 1 .. Len(box'[t]) : box'[t][j].op \in Setups
    <3>1. \A op : Plain(op).op = op
      BY DEF Plain, Message
    <3> QED BY <1>3, <3>1, CreateStep DEF SetupsSent
  <2>2. \A t \in Threads : Len(box'[t]) \in Nat
    BY <1>3, CreateStep, LenProperties DEF SetupsSent
  <2>3. \A t \in Threads : \A j \in 1 .. Len(box'[t]) : \A l \in 1 .. j - 1 : l \in 1 .. Len(box'[t])
    BY <2>2
  <2>4. main = "create"
    BY <1>3 DEF Create
  <2> QED BY <1>0, <1>1, <2>1, <2>3, <2>4 DEF SetupsFirst
<1>4. CASE ~Empties /\ ~Create
  <2>1. Adds
    BY <1>4, MainSends
  <2>2. ASSUME NEW t \in Threads, NEW j \in 1 .. Len(box'[t]), box'[t][j].op \in Setups
        PROVE  /\ exception[t] \in Setups \cup {"none"}
               /\ \A l \in 1 .. j - 1 : box'[t][l].op \in Setups
    <3>1. Keeps(t) /\ Len(box[t]) \in Nat /\ Len(box'[t]) \in Nat
      <4>1. box[t] \in Seq(Messages) /\ box'[t] \in Seq(Messages)
        BY <2>1 DEF Adds, Types
      <4> QED BY <2>1, <4>1, LenProperties DEF Adds
    <3>2. j \in 1 .. Len(box[t])
      BY <1>4, <2>2, <3>1, SetsUpOnce
    <3>3. box[t][j].op \in Setups
      BY <2>2, <3>1, <3>2 DEF Keeps
    <3>4. \A l \in 1 .. j - 1 : l \in 1 .. Len(box[t])
      BY <3>1, <3>2
    <3> QED BY <3>1, <3>2, <3>3, <3>4 DEF SetupsFirst, Keeps
  <2> QED BY <1>0, <1>1, <2>2 DEF SetupsFirst
<1> QED BY <1>2, <1>3, <1>4

(* The workers set themselves up first.                                    *)
LEMMA WorkerSetsUpFirst ==
  ASSUME Control, Shaped, DataTypes, SetupsFirst, NEW t \in Threads, Worker(t)
  PROVE  SetupsFirst'
<1> USE DEF Control
<1>1. CASE main' = "crashed"
  BY <1>1, WorkerReportsOne DEF SetupsFirst
<1>2. CASE main' # "crashed"
  <2>1. box' = [box EXCEPT ![t] = Tail(box[t])] /\ box[t] # <<>>
    BY <1>2, WorkerStep
  <2>2. ASSUME NEW u \in Threads, NEW j \in 1 .. Len(box'[u]), box'[u][j].op \in Setups
        PROVE  /\ exception'[u] \in Setups \cup {"none"}
               /\ \A l \in 1 .. j - 1 : box'[u][l].op \in Setups
    <3>1. CASE u # t
      <4>1. box'[u] = box[u] /\ exception'[u] = exception[u]
        BY <2>1, <3>1, WorkerReportsOne DEF Types
      <4> QED BY <2>2, <4>1 DEF SetupsFirst
    <3>2. CASE u = t
      <4>1. box'[t] = Tail(box[t])
        BY <2>1 DEF Types
      <4>2. /\ Len(box[t]) \in Nat \ {0}
            /\ Len(Tail(box[t])) = Len(box[t]) - 1
            /\ \A i \in 1 .. Len(box[t]) - 1 : Tail(box[t])[i] = box[t][i + 1]
        BY <2>1, Taking
      <4>3. j \in 1 .. Len(box[t]) - 1
        BY <2>2, <3>2, <4>1, <4>2
      <4>4. j + 1 \in 1 .. Len(box[t]) /\ box[t][j + 1].op \in Setups
        BY <2>2, <3>2, <4>1, <4>2, <4>3
      <4>5. exception[t] \in Setups \cup {"none"} /\ \A l \in 1 .. j + 1 - 1 : box[t][l].op \in Setups
        BY <4>4 DEF SetupsFirst
      <4>6. box[t][1].op \in Setups
        <5>1. 1 \in 1 .. j + 1 - 1
          BY <4>3
        <5> QED BY <4>5, <5>1
      <4>7. \A l \in 1 .. j - 1 : l + 1 \in 1 .. j + 1 - 1 /\ l \in 1 .. Len(box[t]) - 1
        BY <4>2, <4>3
      <4>8. \A l \in 1 .. j - 1 : box'[t][l].op \in Setups
        BY <4>1, <4>2, <4>5, <4>7
      <4>9. exception'[t] \in Setups \cup {"none"}
        BY <4>5, <4>6, WorkerReportsOne
      <4> QED BY <3>2, <4>8, <4>9
    <3> QED BY <3>1, <3>2
  <2>3. main' # "create"
    <3>1. main' = main
      BY <1>2, WorkerCrash
    <3>2. main \notin Idle
      BY <2>1 DEF Boxes
    <3> QED BY <3>1, <3>2 DEF Idle, Filling, Applying, MainStates
  <2> QED BY <2>2, <2>3 DEF SetupsFirst
<1> QED BY <1>1, <1>2

(* What a worker reports fits what has been looked at.                     *)
LEMMA WorkerLookedAt ==
  ASSUME Control, Shaped, DataTypes, LookedAt, NEW t \in Threads, Worker(t)
  PROVE  LookedAt'
<1> USE DEF Control
<1>1. UNCHANGED <<job, p>> /\ ProjectionsPerStep' = ProjectionsPerStep /\ ProjectionsThisStep' = ProjectionsThisStep /\ LastGroup' = LastGroup
  BY WorkerFacts, SameSizes DEF LastGroup
<1>2. main' = main \/ main' = "crashed"
  BY WorkerCrash
<1>3. CASE main' = "crashed"
  BY <1>1, <1>3, WorkerReportsOne DEF LookedAt, Closing
<1>4. CASE main' = main
  <2>1. box[t] # <<>> /\ 1 \in 1 .. Len(box[t]) /\ box[t][1].op \in Ops \ {"barrier"}
    BY WorkerReportsOne, Taking
  <2>2. Fits(t, 1, box[t][1]) /\ Shape(t, box[t][1])
    BY <2>1 DEF Boxes, Shaped
  <2>3. main \notin Idle /\ main # "crashed"
    BY <2>1, WorkerFacts DEF Boxes, Worker
  <2>4. main \notin {"writeAttenuation", "writeFiltered", "apply", "next"}
    BY <2>3 DEF Idle, Filling, Applying, MainStates, Phase, Types, States
  <2>5. main \in Turn /\ t < ProjectionsPerStep /\ t >= ProjectionsThisStep => box[t][1].op = "apply"
    <3>1. p = 0 => ProjectionsThisStep = ProjectionsPerStep
      BY Sizes
    <3>2. ProjectionsThisStep \in Int /\ ProjectionsPerStep \in Int /\ t \in Int
      BY Sizes DEF Threads
    <3> QED BY <2>1, <2>2, <3>1, <3>2 DEF Fits, Shape, Ops, Transforms, Setups
  <2>6. main \in Closing \cup {"complete"} => box[t][1].op = "writeVolume"
    BY <2>1, <2>2 DEF Fits, Ops, Transforms, Setups, Closing, Filling, Applying
  <2>7. p > 0 \/ main \in Checked => box[t][1].op \notin Setups
    BY <2>1, <2>2 DEF Fits, Filling
  <2> QED BY <1>1, <1>4, <2>4, <2>5, <2>6, <2>7, WorkerReportsOne DEF LookedAt
<1> QED BY <1>2, <1>3, <1>4

(* Main throws what it has found, or what it threw itself.                 *)
LEMMA MainThrowsFor ==
  ASSUME Control, Requested, DataTypes, Main, main' \in Lost, main \notin Lost
  PROVE  ~AllWell' /\ main' = "unwind"
<1> USE DEF Control
<1>1. CASE SetReference
  BY <1>1, PhaseOrder DEF SetReference, MainThrows, AllWell, Lost, FromCorrect, FromSwap, FromFilter
<1>2. CASE Check
  <2>1. main' = "unwind"
    BY <1>2, PhaseOrder DEF Check, MainThrows, Lost, FromCheck, FromWrite, FromApply
  <2>2. mainFailed' = TRUE \/ \E t \in 0 .. ProjectionsThisStep - 1 : exception[t] # "none"
    <3>1. main' = After(main) => main' # "unwind"
      BY <1>2, PhaseOrder DEF Check, FromCheck, FromWrite, FromApply
    <3> QED BY <1>2, <2>1, <3>1 DEF Check
  <2>3. ProjectionsThisStep <= NumberOfThreads /\ ProjectionsThisStep \in Int
    <3>1. main \in Turn
      BY <1>2 DEF Check
    <3> QED BY <3>1, Sizes DEF Scheduled
  <2>4. 0 .. ProjectionsThisStep - 1 \subseteq Threads
    BY <2>3 DEF Threads
  <2>5. exception' = exception
    BY MainFacts
  <2> QED BY <2>1, <2>2, <2>4, <2>5 DEF AllWell
<1>3. CASE WaitForCompletion \/ CountRequests
  <2>1. IO!Failed /\ main' = "unwind"
    BY <1>3 DEF WaitForCompletion, CountRequests, MainThrows, Lost
  <2> QED BY <2>1, FailedOnce DEF AllWell
<1>4. CASE Leave
  BY <1>4 DEF Leave, Lost
<1>5. CASE NextGroup
  BY <1>5, FirstPhaseIsBehind DEF NextGroup, Lost, Behind
<1>6. CASE FirstRequests \/ SwapAttenuation \/ SwapInput \/ RequestNext \/ Convert
  BY <1>6, PhaseOrder, FirstPhaseIsBehind DEF FirstRequests, SwapAttenuation, SwapInput, RequestNext, Convert, Request,
     EndRequests, Behind, Lost, FromConvert, FromSynchronize0, FromCorrect, FromSwap, FromFilter
<1>7. CASE CorrectBeamPower \/ SwapFiltered \/ Filter \/ WriteAttenuation \/ WriteFiltered
  BY <1>7, PhaseOrder DEF CorrectBeamPower, SwapFiltered, Filter, WriteAttenuation, WriteFiltered, Request,
     EndRequests, Lost, FromSwap, FromFilter, FromWrite, FromApply
<1>8. CASE Create \/ Synchronize \/ Barrier \/ WriteVolume \/ BarrierVolume
  BY <1>8 DEF Create, Synchronize, Barrier, WriteVolume, BarrierVolume, Lost
<1>9. CASE ApplyProjections
  BY <1>9, PhaseOrder DEF ApplyProjections, Lost, Scheduled
<1> QED BY <1>1, <1>2, <1>3, <1>4, <1>5, <1>6, <1>7, <1>8, <1>9 DEF Main

(* Main has its reasons.                                                   *)
LEMMA MainReasons ==
  ASSUME Control, Requested, DataTypes, Reasons, Main
  PROVE  Reasons'
<1> USE DEF Control
<1>1. UNCHANGED <<exception, ready>> /\ main # "crashed" /\ main \notin {"returned", "threw"}
  BY MainFacts, MainRuns
<1>2. mainFailed' => main' \in {"unwind", "threw"}
  <2>1. CASE main = "unwind"
    <3>1. Leave
      BY <2>1 DEF Main, Create, FirstRequests, SwapAttenuation, SwapInput, RequestNext, Convert,
       Synchronize, Barrier, SetReference, CorrectBeamPower, SwapFiltered, Filter, Check,
       WriteAttenuation, WriteFiltered, ApplyProjections, NextGroup, WaitForCompletion,
       CountRequests, WriteVolume, BarrierVolume
    <3> QED BY <2>1, <3>1 DEF Leave
  <2> QED BY <1>1, <2>1, MainFacts DEF Reasons
<1>3. main' \in Lost => ~AllWell'
  BY MainThrowsFor, StillWell DEF Reasons, Next
<1>4. main' # "crashed"
  <2>1. main \in Lost => main = "unwind"
    BY <1>1 DEF Lost
  <2>2. main = "unwind" => main' = "threw"
    BY DEF Main, Create, FirstRequests, SwapAttenuation, SwapInput, RequestNext, Convert,
       Synchronize, Barrier, SetReference, CorrectBeamPower, SwapFiltered, Filter, Check,
       WriteAttenuation, WriteFiltered, ApplyProjections, NextGroup, WaitForCompletion,
       CountRequests, WriteVolume, BarrierVolume, Leave
  <2> QED BY <2>1, <2>2, MainThrowsFor DEF Lost
<1> QED BY <1>1, <1>2, <1>3, <1>4 DEF Reasons

(* A worker has.                                                           *)
LEMMA WorkerReasons ==
  ASSUME Control, Requested, Shaped, DataTypes, SetupsFirst, LookedAt, Reasons, ReadsEnded,
         NEW t \in Threads, Worker(t)
  PROVE  Reasons'
<1> USE DEF Control
<1>1. UNCHANGED <<job, p, mainFailed>> /\ ProjectionsPerStep' = ProjectionsPerStep
  BY WorkerFacts, SameSizes
<1>2. main' = main \/ (main' = "crashed" /\ main \in Applying \cup {"barrierVolume"})
  BY WorkerCrash
<1>3. main # "crashed"
  BY DEF Worker
<1>4. box[t] # <<>> /\ 1 \in 1 .. Len(box[t])
  BY WorkerReportsOne, Taking
<1>5. ASSUME NEW u \in Threads, "nullVolume" \in ready'[u] PROVE exception'[u] \in Setups
  <2>0. \A op \in Setups : op # "none"
    BY DEF Setups
  <2>1. CASE "nullVolume" \in ready[u]
    BY <2>0, <2>1, WorkerReportsOne DEF Reasons
  <2>2. CASE "nullVolume" \notin ready[u]
    <3>1. u = t /\ box[t][1].op \in Setups /\ exception'[t] # "none"
      BY <1>5, <2>2, WorkerReportsOne
    <3>2. exception[t] \in Setups \cup {"none"}
      BY <1>4, <3>1 DEF SetupsFirst
    <3> QED BY <3>1, <3>2, WorkerReportsOne
  <2> QED BY <2>1, <2>2
<1>6. CASE main' = "crashed"
  <2>1. "nullVolume" \in ready[t] /\ UNCHANGED <<exception, ready>>
    BY <1>6, WorkerReportsOne
  <2>2. exception[t] \in Setups
    BY <2>1 DEF Reasons
  <2>3. p > 0 \/ main \in Checked
    <3>1. main = "barrierVolume" => p >= NumberOfProjections
      BY DEF ReadsEnded, Closing
    <3> QED BY <1>2, <1>3, <1>6, <3>1 DEF Applying, Types
  <2>4. ~(t < ProjectionsPerStep)
    BY <2>2, <2>3 DEF LookedAt
  <2>5. t >= ProjectionsPerStep
    BY <2>4, Sizes DEF Threads
  <2>6. ~AllWell'
    BY <2>1, <2>2 DEF AllWell, Setups
  <2>7. ~mainFailed
    BY <1>2, <1>3, <1>6 DEF Reasons, Applying
  <2> QED BY <1>1, <1>5, <2>1, <2>5, <2>6, <2>7 DEF Reasons
<1>7. CASE main' = main
  BY <1>1, <1>3, <1>5, <1>7, StillWell DEF Reasons, Next
<1> QED BY <1>2, <1>6, <1>7

(* What has been reported, and to whom.                                    *)
Reported == SetupsFirst /\ LookedAt /\ Reasons

(* Each step keeps it so.                                                  *)
LEMMA NextReported ==
  ASSUME Control, Control', Requested, Shaped, DataTypes, WritesCounted, ReadsEnded, Reported, [Next]_vars
  PROVE  Reported'
<1> USE DEF Reported
<1>1. CASE Main
  BY <1>1, MainSetsUpFirst, MainLooksAt, MainReasons
<1>2. ASSUME NEW t \in Threads, Worker(t) PROVE Reported'
  BY <1>2, WorkerSetsUpFirst, WorkerLookedAt, WorkerReasons
<1>3. CASE Settle
  <2>1. UNCHANGED <<job, main, p, box, exception, ready, mainFailed>>
    BY <1>3, SettleData
  <2>2. ProjectionsPerStep' = ProjectionsPerStep /\ ProjectionsThisStep' = ProjectionsThisStep /\ LastGroup' = LastGroup
    BY <2>1, SameSizes DEF LastGroup
  <2>3. AllWell' => AllWell
    BY <1>3, StillWell DEF Next
  <2> QED BY <2>1, <2>2, <2>3 DEF SetupsFirst, LookedAt, Reasons
<1>4. CASE UNCHANGED vars
  <2>1. UNCHANGED <<job, main, p, box, exception, ready, mainFailed>>
    BY <1>4 DEF vars
  <2>2. ProjectionsPerStep' = ProjectionsPerStep /\ ProjectionsThisStep' = ProjectionsThisStep /\ LastGroup' = LastGroup
    BY <2>1, SameSizes DEF LastGroup
  <2>3. AllWell' => AllWell
    BY <1>4, StillWell
  <2> QED BY <2>1, <2>2, <2>3 DEF SetupsFirst, LookedAt, Reasons
<1> QED BY <1>1, <1>2, <1>3, <1>4 DEF Next, Ended
(* All of it holds at the start.                                           *)
LEMMA InitOutputs ==
  ASSUME Init
  PROVE  WritesCounted /\ LateReads /\ ReadsEnded /\ Reported
<1>1. /\ main = "create" /\ p = 0 /\ pp = 0 /\ requests = <<>> /\ fate = <<>> /\ mainFailed = FALSE
      /\ exception = [t \in Threads |-> "none"] /\ ready = [t \in Threads |-> {}]
      /\ box = [t \in Threads |-> <<>>]
  BY DEF Init, IO!Init
<1>2. Types
  BY InitInOrder DEF InOrder, Control
<1>3. \A kind : Writes(kind) = {}
  <2>1. Len(requests) = 0
    BY <1>1
  <2> QED BY <2>1 DEF Writes
<1>4. WritesCounted
  <2>1. StartsGroup(p)
    <3>1. \E g \in Nat : p = ProjectionsPerStep * g
      <4>1. ProjectionsPerStep \in Nat
        BY <1>2, Sizes
      <4>2. p = ProjectionsPerStep * 0 /\ 0 \in Nat
        BY <1>1, <4>1
      <4> QED BY <4>2
    <3> QED BY <3>1 DEF StartsGroup
  <2>2. \A kind \in Streams : WriteIssued(kind) = 0
    BY <1>1 DEF WriteIssued, Writing, Lesser
  <2> QED BY <1>3, <2>1, <2>2, FS_EmptySet DEF WritesCounted
<1>5. LateReads
  BY <1>3 DEF LateReads
<1>6. ReadsEnded
  BY <1>1 DEF ReadsEnded, Closing
<1>7. Reported
  <2>1. \A t \in Threads : Len(box[t]) = 0
    BY <1>1
  <2>2. SetupsFirst
    BY <1>1, <2>1 DEF SetupsFirst
  <2>3. LookedAt
    BY <1>1 DEF LookedAt, Closing
  <2>4. Reasons
    BY <1>1 DEF Reasons, Lost
  <2> QED BY <2>2, <2>3, <2>4 DEF Reported
<1> QED BY <1>4, <1>5, <1>6, <1>7

(* The inductive invariant of the outputs and the failures.                *)
OutputsInOrder == DataInOrder /\ WritesCounted /\ LateReads /\ ReadsEnded /\ Reported

(* It always holds.                                                        *)
THEOREM AlwaysOutputsInOrder == Spec => []OutputsInOrder
<1>1. Init => WritesCounted /\ LateReads /\ ReadsEnded /\ Reported
  BY InitOutputs
<1>2. /\ DataInOrder /\ DataInOrder' /\ [Next]_vars
      /\ WritesCounted /\ LateReads /\ ReadsEnded /\ Reported
      => (WritesCounted /\ LateReads /\ ReadsEnded /\ Reported)'
  BY NextCountsWrites, NextLateReads, NextReadsEnded, NextReported
     DEF DataInOrder, TypesInOrder, InOrder
<1> QED BY <1>1, <1>2, AlwaysDataInOrder, PTL DEF Spec, OutputsInOrder

(* The failures the engine may be silent about.                            *)
LEMMA ImpliesSilentFailures ==
  ASSUME OutputsInOrder
  PROVE  SilentFailures
<1>1. Control /\ Requested
  BY DEF OutputsInOrder, DataInOrder, TypesInOrder, InOrder
<1>2. CASE main = "returned"
  <2>1. ~mainFailed
    BY <1>2 DEF OutputsInOrder, Reported, Reasons
  <2>2. \A k \in 1 .. Len(fate) : fate[k] = "failed" => LateWrite(k)
    BY <1>1, <1>2 DEF OutputsInOrder, ReadsEnded, Closing, Requested
  <2>3. \A t \in Threads : ~(t < ProjectionsPerStep) => t >= ProjectionsPerStep
    BY <1>1, Sizes DEF Threads, Control
  <2> QED BY <1>2, <2>1, <2>2, <2>3 DEF OutputsInOrder, Reported, LookedAt, Closing, SilentFailures
<1>3. CASE main = "crashed"
  BY <1>3 DEF OutputsInOrder, Reported, Reasons, SilentFailures
<1> QED BY <1>2, <1>3 DEF SilentFailures

(* The engine returns normally after a failure only if the failure was in  *)
(* writing a projection of the last two groups, in writing the volume, or  *)
(* on a worker that was not asked again: for every number of threads and   *)
(* projections and every job, however many failures there are.             *)
THEOREM EngineReportsFailures == Spec => []SilentFailures
<1>1. OutputsInOrder => SilentFailures
  BY ImpliesSilentFailures
<1> QED BY <1>1, AlwaysOutputsInOrder, PTL

-----------------------------------------------------------------------------
(* Writes are performed in the order of the projections.                   *)

(* A write that is still to come.                                          *)
PendingWrite(kind, k) == k \in Writes(kind) /\ fate[k] = "pending"

(* A file holds the projections up to some place, and the writes of the    *)
(* rest are pending, each once.                                            *)
WriteOrder ==
  IOWell => \A kind \in Streams :
    /\ Len(file[kind]) <= Cardinality(Writes(kind))
    /\ \A k : PendingWrite(kind, k) => Len(file[kind]) < Place(kind, k)
    /\ \A q \in Len(file[kind]) + 1 .. Cardinality(Writes(kind)) :
         \E k : PendingWrite(kind, k) /\ Place(kind, k) = q

(* What they are to write is in their images already.                      *)
Stored ==
  IOWell => \A kind \in Streams : \A k : PendingWrite(kind, k) =>
    content[requests[k].image] = Place(kind, k) /\ Place(kind, k) < nextRead

(* What is written while the group's workers rest is what they were given. *)
LEMMA StoresGroup ==
  ASSUME Control, Requested, Sheltered, ReadOrder, Flow, LookedAt, IOWell,
         NEW kind \in Streams, WriteRequested(kind)
  PROVE  /\ content[Active(kind, pp)] = p + pp + 1
         /\ p + pp + 1 < nextRead
<1> USE DEF Control
<1>1. /\ main \in {"writeAttenuation", "writeFiltered"}
      /\ pp < ProjectionsThisStep /\ pp \in Threads /\ pp \in Nat /\ p \in Nat
      /\ Output(kind) /\ kind \in Kinds
  <2>1. /\ main \in {"writeAttenuation", "writeFiltered"} /\ pp < ProjectionsThisStep
    BY DEF WriteRequested, WriteAttenuation, WriteFiltered, Requesting, EndRequests
  <2>2. pp \in Threads /\ Output(kind) /\ kind \in Kinds
    BY WriteMade DEF Streams, Kinds
  <2> QED BY <2>1, <2>2 DEF Types
<1>2. \A t \in Threads : box[t] = <<>>
  BY <1>1 DEF Boxes, Idle, Filling, Applying, MainStates, Phase, Types
<1>3. Well
  BY <1>1 DEF Well, LookedAt, IOWell
<1>4. Ready(kind)
  <2>1. kind = "attenuation" => job.source = "raw"
    BY <1>1, JobFacts DEF Output
  <2>2. kind = "filtered" => Filters(job)
    BY <1>1, JobFacts DEF Output, Filters
  <2> QED BY <1>1, <2>1, <2>2 DEF Ready, Streams
<1>5. Good(pp, Len(box[pp]), Active(kind, pp))
  BY <1>1, <1>3, <1>4 DEF Flow, GroupRight
<1>6. content[Active(kind, pp)] = p + pp + 1
  <2>1. Len(box[pp]) = 0
    BY <1>1, <1>2
  <2> QED BY <1>5, <2>1 DEF Good, Awaited
<1>7. p + pp + 1 < nextRead
  <2>0. /\ nextRead \in Nat /\ ProjectionsPerStep \in Nat /\ ProjectionsThisStep \in Int
        /\ ProjectionsThisStep <= ProjectionsPerStep /\ ProjectionsThisStep <= NumberOfProjections - p
    BY <1>1, Sizes DEF ReadOrder, ProjectionsThisStep, Lesser, Scheduled
  <2>1. SUFFICES ASSUME nextRead <= p + pp + 1 PROVE FALSE
    BY <1>1, <2>0
  <2>2. Issued = Lesser(p + ProjectionsPerStep + ProjectionsPerStep, NumberOfProjections)
    BY <1>1 DEF Issued
  <2>3. p + pp + 1 \in nextRead .. Issued
    BY <1>1, <2>0, <2>1, <2>2 DEF Lesser
  <2>4. PICK k \in 1 .. Len(requests) : PendingRead(k) /\ Target(requests[k].image) = p + pp + 1
    BY <2>3 DEF ReadOrder, ReadsInOrder, Awaiting
  <2>5. requests[k].image[3] # side[job.source]
    BY <1>1, <1>2, <2>4, NoActiveReads
  <2>6. requests[k].image \in Images /\ requests[k].image[1] = job.source
    BY <2>4, PendingReadType
  <2>7. requests[k].image[2] \in Nat
    BY <2>6, ImageParts
  <2>8. LoadBase = p + ProjectionsPerStep
    BY <1>1 DEF LoadBase, Behind
  <2>9. Target(requests[k].image) = p + ProjectionsPerStep + requests[k].image[2] + 1
    BY <2>5, <2>6, <2>8 DEF Target
  <2> QED BY <1>1, <2>0, <2>4, <2>7, <2>9
<1> QED BY <1>6, <1>7

(* Main adds writes at the end, of images that hold what is wanted.        *)
LEMMA MainWriteOrder ==
  ASSUME Control, Requested, Sheltered, ReadOrder, Flow, DataTypes, LookedAt, WritesCounted, WriteOrder, Stored, Main
  PROVE  WriteOrder' /\ Stored'
<1> USE DEF Control
<1>1. UNCHANGED <<content, nextRead, file>> /\ job' = job
  BY MainFacts, MainJob
<1>2. SUFFICES ASSUME IOWell', NEW kind \in Streams
      PROVE  /\ Len(file[kind]) <= Cardinality(Writes(kind)')
             /\ \A k : PendingWrite(kind, k)' => Len(file[kind]) < Place(kind, k)'
             /\ \A q \in Len(file[kind]) + 1 .. Cardinality(Writes(kind)') :
                  \E k : PendingWrite(kind, k)' /\ Place(kind, k)' = q
             /\ \A k : PendingWrite(kind, k)' =>
                  content[requests'[k].image] = Place(kind, k)' /\ Place(kind, k)' < nextRead
  BY <1>1 DEF WriteOrder, Stored
<1>3. IOWell /\ ~Leave
  BY <1>2, MainIOWell
<1>4. /\ Len(file[kind]) <= Cardinality(Writes(kind))
      /\ \A k : PendingWrite(kind, k) => Len(file[kind]) < Place(kind, k)
      /\ \A q \in Len(file[kind]) + 1 .. Cardinality(Writes(kind)) :
           \E k : PendingWrite(kind, k) /\ Place(kind, k) = q
      /\ \A k : PendingWrite(kind, k) =>
           content[requests[k].image] = Place(kind, k) /\ Place(kind, k) < nextRead
  BY <1>3 DEF WriteOrder, Stored
<1>5. CASE WriteRequested(kind)
  <2>1. /\ p \in Nat /\ pp \in Nat
        /\ RequestMade("write", Active(kind, pp))
        /\ Writes(kind)' = Writes(kind) \cup {Len(requests) + 1}
        /\ Cardinality(Writes(kind)) = p + pp
        /\ Cardinality(Writes(kind)') = p + pp + 1
        /\ \A n : n = Len(requests) + 1 =>
             Place(kind, n)' = p + pp + 1 /\ requests'[n] = [op |-> "write", image |-> Active(kind, pp)]
        /\ \A n \in Writes(kind) : Place(kind, n)' = Place(kind, n) /\ requests'[n] = requests[n]
    BY <1>5, WriteNumbered
  <2>2. content[Active(kind, pp)] = p + pp + 1 /\ p + pp + 1 < nextRead
    BY <1>3, <1>5, StoresGroup
  <2>3. PICK n \in Nat : n = Len(requests) + 1
    BY <2>1 DEF RequestMade
  <2>4. \A k : PendingWrite(kind, k) <=> PendingWrite(kind, k)' /\ k # n
    <3>1. \A k \in Writes(kind) : k \in 1 .. Len(requests)
      BY DEF Writes
    <3>2. Len(requests) \in Nat /\ \A k \in 1 .. Len(requests) : fate'[k] = fate[k]
      BY <2>1 DEF RequestMade
    <3>3. \A k \in Writes(kind) : k # n /\ fate'[k] = fate[k]
      BY <2>3, <3>1, <3>2
    <3> QED BY <2>1, <2>3, <3>3 DEF PendingWrite
  <2>5. PendingWrite(kind, n)'
    BY <2>1, <2>3 DEF PendingWrite, RequestMade
  <2>6. \A k : PendingWrite(kind, k) => Place(kind, k)' = Place(kind, k) /\ requests'[k] = requests[k]
    BY <2>1 DEF PendingWrite
  <2>7. Place(kind, n)' = p + pp + 1 /\ requests'[n].image = Active(kind, pp)
    BY <2>1, <2>3
  <2>8. Len(file[kind]) \in Nat /\ Len(file[kind]) < p + pp + 1
    <3>1. Len(file[kind]) \in Nat
      BY LenProperties DEF DataTypes, Streams, Kinds
    <3> QED BY <1>4, <2>1, <3>1
  <2>9. Len(file[kind]) <= Cardinality(Writes(kind)')
    BY <2>1, <2>8
  <2>10. ASSUME NEW k, PendingWrite(kind, k)'
         PROVE  /\ Len(file[kind]) < Place(kind, k)'
                /\ content[requests'[k].image] = Place(kind, k)' /\ Place(kind, k)' < nextRead
    <3>1. CASE k = n
      BY <2>2, <2>7, <2>8, <3>1
    <3>2. CASE k # n
      BY <1>4, <2>4, <2>6, <2>10, <3>2
    <3> QED BY <3>1, <3>2
  <2>11. ASSUME NEW q \in Len(file[kind]) + 1 .. Cardinality(Writes(kind)')
         PROVE  \E k : PendingWrite(kind, k)' /\ Place(kind, k)' = q
    <3>1. CASE q = p + pp + 1
      BY <2>5, <2>7, <3>1
    <3>2. CASE q # p + pp + 1
      <4>1. q \in Len(file[kind]) + 1 .. Cardinality(Writes(kind))
        BY <2>1, <2>8, <2>11, <3>2
      <4>2. PICK k : PendingWrite(kind, k) /\ Place(kind, k) = q
        BY <1>4, <4>1
      <4> QED BY <2>4, <2>6, <4>2
    <3> QED BY <3>1, <3>2
  <2> QED BY <2>9, <2>10, <2>11
<1>6. CASE ~WriteRequested(kind)
  <2>1. /\ Writes(kind)' = Writes(kind)
        /\ \A k \in Writes(kind) : Place(kind, k)' = Place(kind, k) /\ requests'[k] = requests[k] /\ fate'[k] = fate[k]
    <3>1. \A k \in Writes(kind) : k \in 1 .. Len(requests)
      BY DEF Writes
    <3>2. CASE UNCHANGED <<requests, fate>>
      BY <3>2, SamePlaces
    <3>3. CASE ReadRequested
      BY <3>1, <3>3, ReadMade, ReadPlaces DEF RequestMade
    <3>4. ASSUME NEW other \in {"attenuation", "filtered"}, WriteRequested(other), other # kind
          PROVE  /\ Writes(kind)' = Writes(kind)
                 /\ \A k \in Writes(kind) : Place(kind, k)' = Place(kind, k) /\ requests'[k] = requests[k] /\ fate'[k] = fate[k]
      <4>1. RequestMade("write", Active(other, pp)) /\ Active(other, pp)[1] = other
        BY <3>4, WriteMade DEF Active
      <4> QED BY <3>1, <3>4, <4>1, WritePlaces DEF RequestMade
    <3> QED BY <1>3, <1>6, <3>2, <3>3, <3>4, MainIO
  <2>2. \A k : PendingWrite(kind, k)' <=> PendingWrite(kind, k)
    BY <2>1 DEF PendingWrite
  <2>3. \A k : PendingWrite(kind, k) => Place(kind, k)' = Place(kind, k) /\ requests'[k] = requests[k]
    BY <2>1 DEF PendingWrite
  <2> QED BY <1>4, <2>1, <2>2, <2>3
<1> QED BY <1>5, <1>6

(* The write that is performed next is of the projection that its file     *)
(* lacks next.                                                             *)
LEMMA OldestWrite ==
  ASSUME Control, Requested, DataTypes, WriteOrder, IOWell,
         NEW k \in 1 .. Len(requests), Oldest(k), requests[k].op = "write",
         NEW kind, kind = requests[k].image[1]
  PROVE  /\ kind \in Streams /\ Output(kind) /\ PendingWrite(kind, k)
         /\ Len(file[kind]) \in Nat
         /\ Place(kind, k) = Len(file[kind]) + 1
         /\ Place(kind, k) <= Cardinality(Writes(kind))
         /\ \A j : PendingWrite(kind, j) => j = k \/ Place(kind, k) < Place(kind, j)
<1> USE DEF Control
<1>1. Output(kind) /\ kind \in Streams
  BY DEF Requested, Output, Streams
<1>2. PendingWrite(kind, k)
  BY DEF PendingWrite, Writes, Oldest
<1>3. Len(file[kind]) \in Nat
  BY <1>1, LenProperties DEF DataTypes, Streams, Kinds
<1>4. /\ Cardinality(Writes(kind)) \in Nat
      /\ \A j \in Writes(kind) :
           /\ j \in 1 .. Len(requests)
           /\ Place(kind, j) \in 1 .. Cardinality(Writes(kind))
           /\ \A l \in Writes(kind) : l < j => Place(kind, l) < Place(kind, j)
  BY Places
<1>5. ASSUME NEW j, PendingWrite(kind, j), j # k PROVE Place(kind, k) < Place(kind, j)
  <2>1. j \in Writes(kind) /\ k \in Writes(kind) /\ j \in 1 .. Len(requests) /\ Len(requests) \in Nat
    BY <1>2, <1>4, <1>5, LenProperties DEF PendingWrite, Types
  <2>2. ~(j < k)
    BY <1>5, <2>1 DEF Oldest, PendingWrite
  <2>3. k < j
    BY <1>5, <2>1, <2>2
  <2> QED BY <1>4, <2>1, <2>3
<1>6. Place(kind, k) \in Nat /\ Place(kind, k) <= Cardinality(Writes(kind)) /\ Len(file[kind]) < Place(kind, k)
  BY <1>1, <1>2, <1>4 DEF PendingWrite, WriteOrder
<1>7. Place(kind, k) = Len(file[kind]) + 1
  <2>1. Len(file[kind]) + 1 \in Len(file[kind]) + 1 .. Cardinality(Writes(kind))
    BY <1>3, <1>4, <1>6
  <2>2. PICK j : PendingWrite(kind, j) /\ Place(kind, j) = Len(file[kind]) + 1
    BY <1>1, <2>1 DEF WriteOrder
  <2> QED BY <1>3, <1>5, <1>6, <2>2
<1> QED BY <1>1, <1>2, <1>3, <1>5, <1>6, <1>7

(* The I/O thread writes in order what is stored, and reads elsewhere.     *)
LEMMA SettleWriteOrder ==
  ASSUME Control, Requested, ReadOrder, DataTypes, WriteOrder, Stored, Settle
  PROVE  WriteOrder' /\ Stored'
<1> USE DEF Control
<1>1. UNCHANGED <<job, requests, closed>> /\ ~closed
  BY SettleData
<1>2. PICK k \in 1 .. Len(requests) : Oldest(k) /\ (ReadsOne(k) \/ WritesOne(k) \/ FailsOne(k) \/ DropsOne(k))
  BY SettleData
<1>3. SUFFICES ASSUME IOWell', NEW kind \in Streams
      PROVE  /\ Len(file'[kind]) <= Cardinality(Writes(kind)')
             /\ \A j : PendingWrite(kind, j)' => Len(file'[kind]) < Place(kind, j)'
             /\ \A q \in Len(file'[kind]) + 1 .. Cardinality(Writes(kind)') :
                  \E j : PendingWrite(kind, j)' /\ Place(kind, j)' = q
             /\ \A j : PendingWrite(kind, j)' =>
                  content'[requests'[j].image] = Place(kind, j)' /\ Place(kind, j)' < nextRead'
  BY DEF WriteOrder, Stored
<1>4. ReadsOne(k) \/ WritesOne(k)
  BY <1>2, <1>3 DEF FailsOne, DropsOne, IOWell
<1>5. IOWell
  BY <1>1, <1>4 DEF ReadsOne, WritesOne, IOWell
<1>6. /\ Writes(kind)' = Writes(kind)
      /\ \A j : Place(kind, j)' = Place(kind, j)
  BY <1>1, SamePlaces
<1>7. /\ Len(file[kind]) <= Cardinality(Writes(kind))
      /\ \A j : PendingWrite(kind, j) => Len(file[kind]) < Place(kind, j)
      /\ \A q \in Len(file[kind]) + 1 .. Cardinality(Writes(kind)) :
           \E j : PendingWrite(kind, j) /\ Place(kind, j) = q
      /\ \A j : PendingWrite(kind, j) =>
           content[requests[j].image] = Place(kind, j) /\ Place(kind, j) < nextRead
  BY <1>5 DEF WriteOrder, Stored
<1>8. /\ \A j \in Writes(kind) : j \in 1 .. Len(requests) /\ requests[j].image[1] = kind /\ requests[j].op = "write"
                                 /\ requests[j].image \in Images
      /\ Len(fate) = Len(requests)
  BY RequestTypes DEF Writes, Requested
<1>9. \A j : PendingWrite(kind, j)' <=> PendingWrite(kind, j) /\ j # k
  BY <1>2, <1>6, <1>8 DEF PendingWrite, Oldest
<1>10. CASE ReadsOne(k)
  <2>1. file' = file /\ nextRead' = nextRead + 1 /\ content' = [content EXCEPT ![requests[k].image] = nextRead]
    BY <1>10 DEF ReadsOne
  <2>2. \A j : PendingWrite(kind, j) => j # k /\ requests[j].image # requests[k].image /\ requests[j].image \in Images
    <3>1. requests[k].image[1] = job.source /\ requests[k].op = "read"
      BY <1>10 DEF ReadsOne, Requested
    <3>2. \A j \in Writes(kind) : kind # job.source
      BY <1>8, JobFacts DEF Requested
    <3> QED BY <1>8, <3>1, <3>2 DEF PendingWrite
  <2>3. \A j : PendingWrite(kind, j) => content'[requests[j].image] = content[requests[j].image]
    BY <2>1, <2>2 DEF DataTypes
  <2>4. nextRead \in Nat /\ Cardinality(Writes(kind)) \in Nat /\ \A j \in Writes(kind) : Place(kind, j) \in Nat
    BY Places DEF ReadOrder
  <2> QED BY <1>1, <1>6, <1>7, <1>9, <2>1, <2>2, <2>3, <2>4 DEF PendingWrite
<1>11. CASE WritesOne(k) /\ requests[k].image[1] # kind
  <2>1. file'[kind] = file[kind] /\ nextRead' = nextRead /\ content' = content
    BY <1>11 DEF WritesOne, DataTypes
  <2>2. \A j : PendingWrite(kind, j) => j # k
    BY <1>8, <1>11 DEF PendingWrite
  <2> QED BY <1>1, <1>6, <1>7, <1>9, <2>1, <2>2
<1>12. CASE WritesOne(k) /\ requests[k].image[1] = kind
  <2>1. /\ Len(file[kind]) \in Nat
        /\ Place(kind, k) = Len(file[kind]) + 1
        /\ Place(kind, k) <= Cardinality(Writes(kind))
        /\ \A j : PendingWrite(kind, j) => j = k \/ Place(kind, k) < Place(kind, j)
    BY <1>2, <1>5, <1>12, OldestWrite DEF WritesOne
  <2>2. nextRead' = nextRead /\ content' = content /\ Len(file'[kind]) = Len(file[kind]) + 1
    <3>1. file'[kind] = Append(file[kind], content[requests[k].image])
      BY <1>12 DEF WritesOne, DataTypes, Streams, Kinds
    <3>2. file[kind] \in Seq(Projections) /\ content[requests[k].image] \in Projections
      BY RequestTypes DEF DataTypes, Streams, Kinds
    <3> QED BY <1>12, <3>1, <3>2 DEF WritesOne
  <2>3. \A q \in Len(file'[kind]) + 1 .. Cardinality(Writes(kind)) :
           q \in Len(file[kind]) + 1 .. Cardinality(Writes(kind)) /\ q # Place(kind, k)
    BY <2>1, <2>2, Places
  <2> QED BY <1>1, <1>6, <1>7, <1>9, <2>1, <2>2, <2>3
<1> QED BY <1>4, <1>10, <1>11, <1>12

(* No worker writes an image that is to be written to a file.              *)
LEMMA WorkerWriteOrder ==
  ASSUME Control, Requested, Sheltered, Shaped, DataTypes, WriteOrder, Stored, NEW t \in Threads, Worker(t)
  PROVE  WriteOrder' /\ Stored'
<1> USE DEF Control
<1>1. UNCHANGED <<job, requests, fate, closed, nextRead, file>>
  BY WorkerFacts
<1>2. IOWell' = IOWell
  BY <1>1 DEF IOWell, IO!Failed
<1>3. \A kind, k : Writes(kind)' = Writes(kind) /\ Place(kind, k)' = Place(kind, k) /\ PendingWrite(kind, k)' = PendingWrite(kind, k)
  BY <1>1, SamePlaces DEF PendingWrite
<1>4. ASSUME IOWell, NEW kind \in Streams, NEW k, PendingWrite(kind, k)
      PROVE  content'[requests[k].image] = content[requests[k].image]
  <2>1. k \in 1 .. Len(requests) /\ requests[k].image \in Images
    BY <1>4, RequestTypes DEF PendingWrite, Writes
  <2>2. CASE Transformed(t)
    <3>1. PICK k1 \in Kinds : box[t][1].to = {Active(k1, t)} /\ \E c : content' = [content EXCEPT ![Active(k1, t)] = c]
      BY <2>2 DEF Transformed
    <3>2. box[t] # <<>> /\ 1 \in 1 .. Len(box[t])
      BY WorkerStep, Taking
    <3>3. ~Clash(box[t][1], k)
      BY <1>4, <2>1, <3>2 DEF Sheltered, Guarded, Awaited, IOWell
    <3>4. requests[k].image # Active(k1, t)
      BY <1>4, <3>1, <3>3 DEF Clash, PendingWrite
    <3> QED BY <2>1, <3>1, <3>4 DEF DataTypes
  <2> QED BY <2>2, WorkerContent
<1> QED BY <1>1, <1>2, <1>3, <1>4 DEF WriteOrder, Stored

(* Each step keeps them so.                                                *)
LEMMA NextWriteOrder ==
  ASSUME Control, Requested, Sheltered, ReadOrder, Shaped, Flow, DataTypes, LookedAt, WritesCounted, WriteOrder, Stored, [Next]_vars
  PROVE  WriteOrder' /\ Stored'
<1>1. CASE UNCHANGED vars
  <2>1. UNCHANGED <<requests, fate, closed, nextRead, file, content>>
    BY <1>1 DEF vars
  <2>2. \A kind, k : Writes(kind)' = Writes(kind) /\ Place(kind, k)' = Place(kind, k) /\ PendingWrite(kind, k)' = PendingWrite(kind, k)
    BY <2>1, SamePlaces DEF PendingWrite
  <2> QED BY <2>1, <2>2 DEF WriteOrder, Stored, IOWell, IO!Failed
<1> QED BY <1>1, MainWriteOrder, WorkerWriteOrder, SettleWriteOrder DEF Next, Ended

-----------------------------------------------------------------------------
(* What is written at the end.                                             *)

(* Once main has counted the requests only the last can be pending.        *)
LastPending ==
  main \in Closing \ {"count"} => \A k \in 1 .. Len(fate) - 1 : fate[k] # "pending"

(* The subvolumes that have been written when nothing has failed.          *)
WrittenVolumes ==
  CASE main = "writeVolume" -> pp
    [] main = "barrierVolume" -> pp + 2 - Len(box[pp])
    [] main \in {"synchronizeEnd", "barrierEnd", "return", "returned", "unwind", "threw", "crashed"} -> NumberOfThreads
    [] OTHER -> 0

(* Main and the worker that writes agree on how many subvolumes there are. *)
VolumesWritten ==
  /\ main = "barrierVolume" =>
      \/ Len(box[pp]) = 2 /\ box[pp][1].op = "writeVolume" /\ box[pp][2].op = "barrier"
      \/ Len(box[pp]) = 1 /\ box[pp][1].op = "barrier"
  /\ Len(volumeFile) <= WrittenVolumes
  /\ AllWell /\ job.volumeWriter => Len(volumeFile) = WrittenVolumes

(* Each step keeps the first so.                                           *)
LEMMA NextLastPending ==
  ASSUME Control, Requested, LastPending, [Next]_vars
  PROVE  LastPending'
<1> USE DEF Control
<1>0. Len(fate) \in Nat
  BY LenProperties DEF Types
<1>1. CASE Main
  <2>1. SUFFICES ASSUME main' \in Closing \ {"count"} PROVE LastPending'
    BY DEF LastPending
  <2>2. main \in Closing /\ main' \in Closing /\ (fate' = fate \/ IO!Close)
    BY <1>1, <2>1, ClosesFrom DEF Closing
  <2>3. CASE main = "count"
    <3>1. CountRequests
      BY <1>1, <2>3 DEF Main, Create, FirstRequests, SwapAttenuation, SwapInput, RequestNext, Convert,
       Synchronize, Barrier, SetReference, CorrectBeamPower, SwapFiltered, Filter, Check,
       WriteAttenuation, WriteFiltered, ApplyProjections, NextGroup, WaitForCompletion,
       WriteVolume, BarrierVolume, Leave
    <3> QED BY <2>1, <3>1 DEF CountRequests, MainThrows, ioVars, LastPending, Closing
  <2>4. CASE main # "count"
    <3>1. \A k \in 1 .. Len(fate) - 1 : fate[k] # "pending"
      BY <2>2, <2>4 DEF LastPending
    <3>2. CASE fate' = fate
      BY <3>1, <3>2 DEF LastPending
    <3>3. CASE IO!Close
      <4>1. fate' = [k \in DOMAIN fate |-> IF fate[k] = "pending" THEN "dropped" ELSE fate[k]]
        BY <3>3 DEF IO!Close
      <4>2. Len(fate') = Len(fate) /\ DOMAIN fate = 1 .. Len(fate)
        BY <4>1, <1>0, LenProperties DEF Types
      <4> QED BY <1>0, <4>1, <4>2 DEF LastPending
    <3> QED BY <2>2, <3>2, <3>3
  <2> QED BY <2>3, <2>4
<1>2. ASSUME NEW t \in Threads, Worker(t) PROVE LastPending'
  BY <1>2, WorkerFacts, WorkerCrash DEF LastPending, Closing
<1>3. CASE Settle
  <2>1. main' = main
    BY <1>3, SettleData
  <2>2. PICK k \in 1 .. Len(requests) : Oldest(k)
    BY <1>3, SettleData
  <2> QED BY <1>0, <2>1, <2>2 DEF LastPending, Oldest
<1>4. CASE UNCHANGED vars
  BY <1>4 DEF vars, LastPending
<1> QED BY <1>1, <1>2, <1>3, <1>4 DEF Next, Ended

(* The steps of the end.                                                   *)
LEMMA EndSteps ==
  ASSUME Control, Main, main \in Closing
  PROVE  \/ CountRequests /\ main = "count"
              /\ \/ main' = (IF job.volumeWriter THEN "writeVolume" ELSE "synchronizeEnd") /\ pp' = pp
                 \/ main' = "unwind"
         \/ WriteVolume /\ main = "writeVolume" /\ main' = "barrierVolume" /\ pp' = pp
         \/ BarrierVolume /\ main = "barrierVolume" /\ pp' = pp + 1
              /\ main' = (IF pp' = NumberOfThreads THEN "synchronizeEnd" ELSE "writeVolume")
         \/ main \in {"synchronizeEnd", "barrierEnd", "return"} /\ main' \in {"barrierEnd", "return", "returned"}
BY DEF Main, Create, FirstRequests, SwapAttenuation, SwapInput, RequestNext, Convert,
       Synchronize, Barrier, SetReference, CorrectBeamPower, SwapFiltered, Filter, Check,
       WriteAttenuation, WriteFiltered, ApplyProjections, NextGroup, WaitForCompletion,
       CountRequests, WriteVolume, BarrierVolume, Leave, MainThrows, mainVars, Closing

(* Main counts the volumes.                                                *)
LEMMA MainVolumesWritten ==
  ASSUME Control, Requested, DataTypes, Reasons, Reasons', VolumesWritten, Main
  PROVE  VolumesWritten'
<1> USE DEF Control
<1>1. volumeFile' = volumeFile /\ job' = job /\ (AllWell' => AllWell)
  BY MainFacts, MainJob, StillWell DEF Next
<1>2. Len(volumeFile) \in Nat /\ pp \in Nat /\ pp' \in Nat
  BY LenProperties, MainControl DEF DataTypes, Types
<1>3. CASE WriteVolume
  <2>1. pp' = pp /\ main' = "barrierVolume" /\ main = "writeVolume"
    BY <1>3 DEF WriteVolume, mainVars
  <2>2. Len(box'[pp]) = 2 /\ box'[pp][1].op = "writeVolume" /\ box'[pp][2].op = "barrier"
    BY <1>3, WriteVolumeStep DEF Plain, Message
  <2>3. WrittenVolumes' = pp
    BY <1>2, <2>1, <2>2 DEF WrittenVolumes
  <2>4. WrittenVolumes = pp
    BY <2>1 DEF WrittenVolumes
  <2> QED BY <1>1, <2>1, <2>2, <2>3, <2>4 DEF VolumesWritten
<1>4. CASE BarrierVolume
  <2>1. main = "barrierVolume" /\ pp' = pp + 1 /\ main' = (IF pp' = NumberOfThreads THEN "synchronizeEnd" ELSE "writeVolume")
    BY <1>4 DEF BarrierVolume
  <2>2. pp \in Threads
    BY <1>2, <2>1 DEF Scheduled, Threads
  <2>3. box[pp] # <<>> /\ box[pp][1].op = "barrier"
    BY <1>4, <2>2, Taking DEF BarrierVolume, AtBarrier
  <2>4. Len(box[pp]) = 1
    BY <2>1, <2>3 DEF VolumesWritten
  <2>5. WrittenVolumes = pp + 1 /\ WrittenVolumes' = pp + 1
    BY <1>2, <2>1, <2>4 DEF WrittenVolumes
  <2> QED BY <1>1, <2>1, <2>5 DEF VolumesWritten
<1>5. CASE main = "count" /\ main' = "writeVolume"
  <2>1. pp' = 0
    BY <1>5, EndSteps DEF Closing, Scheduled
  <2>2. WrittenVolumes = 0
    BY <1>5 DEF WrittenVolumes
  <2>3. WrittenVolumes' = 0
    BY <1>5, <2>1 DEF WrittenVolumes
  <2> QED BY <1>1, <1>5, <2>2, <2>3 DEF VolumesWritten
<1>6. CASE main = "count" /\ main' = "synchronizeEnd" /\ ~job.volumeWriter
  <2>1. WrittenVolumes = 0
    BY <1>6 DEF WrittenVolumes
  <2>2. WrittenVolumes' = NumberOfThreads
    BY <1>6 DEF WrittenVolumes
  <2> QED BY <1>1, <1>2, <1>6, <2>1, <2>2 DEF VolumesWritten
<1>7. CASE main \in {"synchronizeEnd", "barrierEnd", "return"} /\ main' \in {"barrierEnd", "return", "returned"}
  <2>1. WrittenVolumes = NumberOfThreads
    BY <1>7 DEF WrittenVolumes
  <2>2. WrittenVolumes' = NumberOfThreads
    BY <1>7 DEF WrittenVolumes
  <2> QED BY <1>1, <1>7, <2>1, <2>2 DEF VolumesWritten
<1>8. CASE main' \in {"unwind", "threw", "crashed"}
  <2>1. WrittenVolumes \in {0, NumberOfThreads}
    <3>1. main \notin {"writeVolume", "barrierVolume"}
      BY <1>8, EndSteps DEF Closing
    <3> QED BY <3>1 DEF WrittenVolumes
  <2>2. WrittenVolumes' = NumberOfThreads
    BY <1>8 DEF WrittenVolumes
  <2>3. ~AllWell'
    BY <1>8 DEF Reasons, Lost
  <2> QED BY <1>1, <1>2, <1>8, <2>1, <2>2, <2>3 DEF VolumesWritten
<1>9. CASE main \notin Closing /\ main' \notin {"unwind", "threw", "crashed"}
  <2>1. main' \notin Closing \ {"count"}
    BY <1>9, ClosesFrom DEF Closing
  <2>2. main \notin Lost
    <3>1. main \in Lost => main' \in Lost
      BY LostStays
    <3> QED BY <1>9, <3>1 DEF Lost
  <2>3. WrittenVolumes = 0
    BY <1>9, <2>2 DEF WrittenVolumes, Closing, Lost
  <2>4. WrittenVolumes' = 0
    BY <1>9, <2>1 DEF WrittenVolumes, Closing
  <2> QED BY <1>1, <2>1, <2>3, <2>4 DEF VolumesWritten, Closing
<1> QED BY <1>3, <1>4, <1>5, <1>6, <1>7, <1>8, <1>9, EndSteps

(* A worker that writes its subvolume is counted.                          *)
LEMMA WorkerVolumesWritten ==
  ASSUME Control, Requested, Shaped, DataTypes, Applied, Reasons', VolumesWritten, NEW t \in Threads, Worker(t)
  PROVE  /\ VolumesWritten'
         /\ volumeFile' = volumeFile
            \/ (/\ main = "barrierVolume" /\ Len(volumeFile) < NumberOfThreads
                /\ volumeFile' = Append(volumeFile, volume[t]) /\ UNCHANGED <<exception, main>>)
<1> USE DEF Control
<1>1. UNCHANGED <<job, pp, mainFailed>> /\ (AllWell' => AllWell)
  BY WorkerFacts, StillWell DEF Next
<1>2. Len(volumeFile) \in Nat /\ pp \in Nat /\ volumeFile \in Seq(Seq(Projections \X Projections))
      /\ volume[t] \in Seq(Projections \X Projections)
  BY LenProperties DEF DataTypes, Types
<1>3. box[t] # <<>> /\ 1 \in 1 .. Len(box[t]) /\ box[t][1].op \in Ops \ {"barrier"} /\ Head(box[t]) = box[t][1]
  BY WorkerReportsOne, Taking
<1>4. main # "crashed"
  BY DEF Worker
<1>5. CASE main' = "crashed"
  <2>1. volumeFile' = volumeFile
    BY <1>4, <1>5 DEF Worker, Setup, AllocateNothing, AwaitBuffer, TransformImage,
       ApplyProjection, WriteVolumeData, Crash, Finish, Throw, dataVars
  <2>2. ~AllWell'
    BY <1>5 DEF Reasons, Lost
  <2>3. main \in Applying \cup {"barrierVolume"}
    BY <1>4, <1>5, WorkerCrash
  <2>4. WrittenVolumes <= NumberOfThreads
    <3>1. CASE main = "barrierVolume"
      <4>1. pp < NumberOfThreads
        BY <3>1 DEF Scheduled
      <4>2. box[pp][1].op # "barrier"
        <5>1. t = pp
          BY <1>3, <3>1 DEF Boxes
        <5> QED BY <1>3, <5>1
      <4>3. Len(box[pp]) = 2
        BY <3>1, <4>2 DEF VolumesWritten
      <4> QED BY <1>2, <3>1, <4>1, <4>3 DEF WrittenVolumes
    <3>2. CASE main # "barrierVolume"
      BY <2>3, <3>2 DEF WrittenVolumes, Applying
    <3> QED BY <3>1, <3>2
  <2>5. WrittenVolumes' = NumberOfThreads
    BY <1>5 DEF WrittenVolumes
  <2>6. Len(volumeFile) <= WrittenVolumes /\ WrittenVolumes \in Int
    <3>1. WrittenVolumes \in Int
      BY <1>2, <2>3, LenProperties DEF WrittenVolumes, Applying, Scheduled, Threads, Types
    <3> QED BY <3>1 DEF VolumesWritten
  <2> QED BY <1>2, <1>5, <2>1, <2>2, <2>4, <2>5, <2>6 DEF VolumesWritten
<1>6. CASE main' = main /\ main # "barrierVolume"
  <2>1. volumeFile' = volumeFile
    <3>1. box[t][1].op # "writeVolume"
      BY <1>3, <1>4, <1>6 DEF Boxes, Fits
    <3> QED BY <1>3, <3>1 DEF Worker, Setup, AllocateNothing, AwaitBuffer, TransformImage,
       ApplyProjection, WriteVolumeData, Crash, Finish, Throw, dataVars
  <2>2. WrittenVolumes' = WrittenVolumes
    BY <1>1, <1>6 DEF WrittenVolumes
  <2> QED BY <1>1, <1>6, <2>1, <2>2 DEF VolumesWritten
<1>7. CASE main' = main /\ main = "barrierVolume"
  <2>1. t = pp
    BY <1>3, <1>7 DEF Boxes
  <2>2. Len(box[t]) = 2 /\ box[t][1].op = "writeVolume" /\ box[t][2].op = "barrier"
    BY <1>3, <1>7, <2>1 DEF VolumesWritten
  <2>3. box'[t] = Tail(box[t]) /\ Len(box'[t]) = 1 /\ box'[t][1].op = "barrier"
    <3>1. box' = [box EXCEPT ![t] = Tail(box[t])]
      BY <1>4, <1>7, WorkerStep
    <3>2. box'[t] = Tail(box[t])
      BY <3>1 DEF Types
    <3>3. Len(Tail(box[t])) = 1 /\ Tail(box[t])[1] = box[t][2]
      BY <1>3, <2>2, Taking
    <3> QED BY <2>2, <3>2, <3>3
  <2>4. WrittenVolumes = pp /\ WrittenVolumes' = pp + 1
    <3>1. WrittenVolumes = pp + 2 - Len(box[pp]) /\ WrittenVolumes' = pp' + 2 - Len(box'[pp'])
      BY <1>7 DEF WrittenVolumes
    <3>2. Len(box[pp]) = 2 /\ Len(box'[pp']) = 1
      BY <1>1, <2>1, <2>2, <2>3
    <3> QED BY <1>1, <1>2, <3>1, <3>2
  <2>5. WriteVolumeData(t)
    <3>1. ~TransformImage(t)
      BY <1>3, <2>2, WorkerContent DEF Transformed, Transforms
    <3>2. ~Crash(t)
      BY <1>4, <1>7 DEF Crash
    <3>3. Head(box[t]).op = "writeVolume"
      BY <1>3, <2>2
    <3> QED BY <3>1, <3>2, <3>3 DEF Worker, Setup, AllocateNothing, AwaitBuffer, ApplyProjection
  <2>6. \/ volumeFile' = Append(volumeFile, volume[t]) /\ UNCHANGED exception
        \/ volumeFile' = volumeFile /\ UNCHANGED exception /\ "allocateVolume" \notin ready[t]
        \/ volumeFile' = volumeFile /\ ~AllWell'
    <3>1. CASE Throw(t)
      <4>1. ~AllWell'
        BY <1>3, <2>2, <3>1, Throws
      <4> QED BY <2>5, <3>1, <4>1 DEF WriteVolumeData, Finish, Throw
    <3> QED BY <2>5, <3>1 DEF WriteVolumeData, Finish
  <2>7. AllWell /\ job.volumeWriter => "allocateVolume" \in ready[t]
    <3>1. SUFFICES ASSUME AllWell, job.volumeWriter PROVE "allocateVolume" \in ready[t]
      OBVIOUS
    <3>2. "allocateVolume" \in ready[t] \/ \E j \in 1 .. Len(box[t]) : box[t][j].op = "allocateVolume"
      BY <1>7, <3>1 DEF Applied, Allocated, Lost
    <3> QED BY <2>2, <3>2
  <2>8. pp < NumberOfThreads /\ Len(volumeFile) <= pp
    BY <1>7, <2>4 DEF Scheduled, VolumesWritten
  <2>9. Len(Append(volumeFile, volume[t])) = Len(volumeFile) + 1
    BY <1>2
  <2>10. Len(volumeFile') <= pp + 1 /\ (volumeFile' # volumeFile => volumeFile' = Append(volumeFile, volume[t]) /\ UNCHANGED exception)
    BY <1>2, <2>6, <2>8, <2>9
  <2>11. AllWell' /\ job.volumeWriter => Len(volumeFile') = pp + 1
    BY <1>1, <1>2, <2>4, <2>6, <2>7, <2>9 DEF VolumesWritten
  <2>12. Len(volumeFile) < NumberOfThreads
    BY <1>2, <2>8
  <2> QED BY <1>1, <1>7, <2>1, <2>3, <2>4, <2>10, <2>11, <2>12 DEF VolumesWritten
<1> QED BY <1>5, <1>6, <1>7, WorkerCrash

(* Each step counts the volumes.                                           *)
LEMMA NextVolumesWritten ==
  ASSUME Control, Requested, Shaped, DataTypes, Applied, Reasons, Reasons', VolumesWritten, [Next]_vars
  PROVE  VolumesWritten'
<1>1. ASSUME UNCHANGED <<volumeFile, main, pp, box, job>>
      PROVE  VolumesWritten'
  <2>1. AllWell' => AllWell
    BY StillWell
  <2> QED BY <1>1, <2>1 DEF VolumesWritten, WrittenVolumes
<1>2. CASE Main
  BY <1>2, MainVolumesWritten
<1>3. ASSUME NEW t \in Threads, Worker(t) PROVE VolumesWritten'
  BY <1>3, WorkerVolumesWritten
<1>4. CASE Settle
  BY <1>1, <1>4, SettleData
<1>5. CASE UNCHANGED vars
  BY <1>1, <1>5 DEF vars
<1> QED BY <1>2, <1>3, <1>4, <1>5 DEF Next, Ended

(* The inductive invariant of the promise.                                 *)
PromiseInOrder == OutputsInOrder /\ WriteOrder /\ Stored /\ LastPending /\ VolumesWritten

(* It holds at the start.                                                  *)
LEMMA InitPromise ==
  ASSUME Init
  PROVE  WriteOrder /\ Stored /\ LastPending /\ VolumesWritten
<1>1. /\ main = "create" /\ requests = <<>> /\ volumeFile = <<>>
      /\ file = [k \in Kinds |-> <<>>]
  BY DEF Init
<1>2. \A kind : Writes(kind) = {}
  <2>1. Len(requests) = 0
    BY <1>1
  <2> QED BY <2>1 DEF Writes
<1>3. WriteOrder
  <2>1. \A kind \in Streams : Len(file[kind]) = 0
    BY <1>1 DEF Streams, Kinds
  <2>2. \A kind \in Streams : Cardinality(Writes(kind)) = 0
    BY <1>2, FS_EmptySet
  <2> QED BY <1>2, <2>1, <2>2 DEF WriteOrder, PendingWrite
<1>4. Stored
  BY <1>2 DEF Stored, PendingWrite
<1>5. LastPending
  BY <1>1 DEF LastPending, Closing
<1>6. VolumesWritten
  <2>1. WrittenVolumes = 0
    BY <1>1 DEF WrittenVolumes
  <2> QED BY <1>1, <2>1 DEF VolumesWritten
<1> QED BY <1>3, <1>4, <1>5, <1>6

(* It always holds.                                                        *)
THEOREM AlwaysPromiseInOrder == Spec => []PromiseInOrder
<1>1. Init => WriteOrder /\ Stored /\ LastPending /\ VolumesWritten
  BY InitPromise
<1>2. /\ OutputsInOrder /\ OutputsInOrder' /\ [Next]_vars
      /\ WriteOrder /\ Stored /\ LastPending /\ VolumesWritten
      => (WriteOrder /\ Stored /\ LastPending /\ VolumesWritten)'
  BY NextWriteOrder, NextLastPending, NextVolumesWritten
     DEF OutputsInOrder, DataInOrder, TypesInOrder, InOrder, VolumeInOrder, Reported
<1> QED BY <1>1, <1>2, AlwaysOutputsInOrder, PTL DEF Spec, PromiseInOrder

-----------------------------------------------------------------------------
(* The engine's state as Reconstruction sees it.                           *)
Wholes  == [k \in DOMAIN volumeFile |-> volumeFile[k] = WholeSubvolume]

(* The files asked for, and how the call ended.                            *)
Files   == [k \in {"attenuation", "filtered"} |-> file[k]]
Outcome == IF main \in {"returned", "threw"} THEN main ELSE "running"

(* A step that writes nothing.                                             *)
SameOutputs == UNCHANGED <<job, nextRead, file, volumeFile>>

(* Outputs that stay as they are look as they were.                        *)
LEMMA SameView ==
  ASSUME SameOutputs
  PROVE  /\ Wanted(job)' = Wanted(job)
         /\ Wholes' = Wholes
         /\ Files' = Files
BY DEF SameOutputs, Wholes, Files, WholeSubvolume

(* A step that changes no output is a stutter or a failure.                *)
LEMMA QuietStep ==
  ASSUME SameOutputs, AllWell' => AllWell, Outcome = "running", Outcome' = "running"
  PROVE  [Promise!Next]_(Promise!vars)
<1>1. Wanted(job)' = Wanted(job) /\ Wholes' = Wholes /\ Files' = Files
  BY SameView
<1>2. CASE AllWell' = AllWell
  BY <1>1, <1>2 DEF Promise!vars, Wholes, Files, Outcome, SameOutputs
<1>3. CASE AllWell' # AllWell
  <2>1. ~AllWell'
    BY <1>3 DEF AllWell
  <2>2. Promise!Fail
    BY <1>1, <2>1 DEF Promise!Fail, Wholes, Files, Outcome, SameOutputs
  <2> QED BY <2>2 DEF Promise!Next
<1> QED BY <1>2, <1>3

(* The subvolumes written, as a sequence.                                  *)
LEMMA WholesFacts ==
  ASSUME DataTypes
  PROVE  Wholes \in Seq(BOOLEAN) /\ Len(Wholes) = Len(volumeFile)
<1>1. Len(volumeFile) \in Nat /\ DOMAIN volumeFile = 1 .. Len(volumeFile)
  BY LenProperties DEF DataTypes
<1>2. Wholes \in [1 .. Len(volumeFile) -> BOOLEAN] /\ DOMAIN Wholes = 1 .. Len(volumeFile)
  BY <1>1 DEF Wholes
<1>3. Wholes \in Seq(BOOLEAN)
  BY <1>1, <1>2, SeqDef
<1> QED BY <1>1, <1>2, <1>3, LenProperties

(* So in the state after a step.                                           *)
LEMMA NextWholes ==
  DataTypes' => (Wholes \in Seq(BOOLEAN) /\ Len(Wholes) = Len(volumeFile))'
<1>1. DataTypes => Wholes \in Seq(BOOLEAN) /\ Len(Wholes) = Len(volumeFile)
  BY WholesFacts
<1> QED BY <1>1, PTL

(* One more is one more there.                                             *)
LEMMA WholesAppended ==
  ASSUME DataTypes, DataTypes', job' = job,
         NEW v \in Seq(Projections \X Projections), volumeFile' = Append(volumeFile, v)
  PROVE  Wholes' = Append(Wholes, v = WholeSubvolume)
<1> DEFINE b == v = WholeSubvolume
           n == Len(volumeFile)
<1>1. /\ n \in Nat /\ Len(volumeFile') = n + 1
      /\ \A k \in 1 .. n : volumeFile'[k] = volumeFile[k]
      /\ volumeFile'[n + 1] = v
      /\ DOMAIN volumeFile = 1 .. n /\ DOMAIN volumeFile' = 1 .. n + 1
  BY LenProperties, AppendProperties DEF DataTypes
<1>2. /\ Wholes \in Seq(BOOLEAN) /\ Len(Wholes) = n /\ Wholes' \in Seq(BOOLEAN) /\ Len(Wholes') = n + 1
  BY <1>1, NextWholes, WholesFacts
<1>3. /\ Append(Wholes, b) \in Seq(BOOLEAN) /\ Len(Append(Wholes, b)) = n + 1
      /\ \A k \in 1 .. n : Append(Wholes, b)[k] = Wholes[k]
      /\ Append(Wholes, b)[n + 1] = b
  BY <1>1, <1>2, AppendProperties
<1>4. WholeSubvolume' = WholeSubvolume
  BY DEF WholeSubvolume
<1>5. \A k \in 1 .. n + 1 : Wholes'[k] = Append(Wholes, b)[k]
  <2> TAKE k \in 1 .. n + 1
  <2>1. Wholes'[k] = (volumeFile'[k] = WholeSubvolume)
    BY <1>1, <1>4 DEF Wholes
  <2>2. CASE k \in 1 .. n
    BY <1>1, <1>3, <2>1, <2>2 DEF Wholes
  <2>3. CASE k = n + 1
    BY <1>1, <1>3, <2>1, <2>3
  <2>4. k \in 1 .. n \/ k = n + 1
    BY <1>1
  <2> HIDE DEF b, n
  <2> QED BY <2>2, <2>3, <2>4
<1> HIDE DEF b, n
<1>6. Wholes' = Append(Wholes, b)
  BY <1>1, <1>2, <1>3, <1>5, SeqEqual
<1> QED BY <1>6 DEF b

(* A worker that writes does what the promise says.                        *)
LEMMA WorkerRefines ==
  ASSUME PromiseInOrder, PromiseInOrder', NEW t \in Threads, Worker(t)
  PROVE  [Promise!Next]_(Promise!vars)
<1> USE DEF Control
<1>a. /\ Control /\ Requested /\ Shaped /\ DataTypes /\ DataTypes' /\ Applied /\ Completed /\ Prefixed'
      /\ Reasons /\ Reasons' /\ ReadsEnded /\ VolumesWritten
  BY DEF PromiseInOrder, OutputsInOrder, DataInOrder, TypesInOrder, InOrder, VolumeInOrder, Reported
<1>1. UNCHANGED <<job, mainFailed, nextRead, file, fate>> /\ (AllWell' => AllWell)
  BY <1>a, WorkerFacts, StillWell DEF Next
<1>2. Outcome = "running" /\ Outcome' = "running"
  <2>1. box[t] # <<>>
    BY <1>a, WorkerReportsOne
  <2>2. main \notin Idle
    BY <1>a, <2>1 DEF Boxes
  <2>3. main \notin {"returned", "threw"}
    BY <2>2 DEF Idle, MainStates, Filling, Applying
  <2>4. main' \in {main, "crashed"}
    BY <1>a, WorkerCrash
  <2> QED BY <2>3, <2>4 DEF Outcome
<1>3. CASE volumeFile' = volumeFile
  BY <1>1, <1>2, <1>3, QuietStep DEF SameOutputs
<1>4. CASE /\ main = "barrierVolume" /\ Len(volumeFile) < NumberOfThreads
           /\ volumeFile' = Append(volumeFile, volume[t]) /\ UNCHANGED <<exception, main>>
  <2>1. volume[t] \in Seq(Projections \X Projections)
    BY <1>a DEF DataTypes
  <2>2. Wholes' = Append(Wholes, volume[t] = WholeSubvolume)
    BY <1>1, <1>4, <1>a, <2>1, WholesAppended
  <2>3. AllWell' = AllWell
    BY <1>1, <1>4 DEF AllWell, IO!Failed
  <2>4. AllWell => volume[t] = WholeSubvolume
    <3>1. SUFFICES ASSUME AllWell PROVE volume[t] = WholeSubvolume
      OBVIOUS
    <3>2. Len(volumeFile) \in Nat /\ Len(volumeFile') = Len(volumeFile) + 1
          /\ volumeFile'[Len(volumeFile) + 1] = volume[t]
      BY <1>4, <1>a, <2>1, LenProperties, AppendProperties DEF DataTypes
    <3>3. \A k \in 1 .. Len(volumeFile') : volumeFile'[k] = WholeSubvolume'
      BY <1>a, <2>3, <3>1 DEF Prefixed
    <3>4. WholeSubvolume' = WholeSubvolume
      BY <1>1 DEF WholeSubvolume
    <3> QED BY <3>2, <3>3, <3>4
  <2>5. (volume[t] = WholeSubvolume) \in {TRUE, ~~AllWell}
    BY <2>4 DEF AllWell
  <2>6. nextRead - 1 = NumberOfProjections /\ job.volumeWriter
    BY <1>4, <1>a DEF ReadsEnded, Closing, Completed
  <2>7. "volume" \in Wanted(job) /\ Wanted(job)' = Wanted(job)
    BY <1>1, <2>6 DEF Wanted
  <2>8. Files' = Files
    BY <1>1 DEF Files
  <2>9. Len(Wholes) < NumberOfThreads
    BY <1>4, <1>a, WholesFacts
  <2>10. \E whole \in {TRUE, ~~AllWell} : Wholes' = Append(Wholes, whole)
    BY <2>2, <2>5
  <2>11. Promise!WriteSubvolume
    BY <1>1, <1>2, <2>3, <2>6, <2>7, <2>8, <2>9, <2>10 DEF Promise!WriteSubvolume, Wholes, Files, Outcome
  <2> QED BY <2>11 DEF Promise!Next
<1> QED BY <1>3, <1>4, <1>a, WorkerVolumesWritten

(* What a file asked for lacks at the end, when nothing has failed, is the *)
(* last request of all.                                                    *)
LEMMA LacksTheLast ==
  ASSUME PromiseInOrder, main = "return", AllWell, NEW kind \in Streams, Output(kind)
  PROVE  /\ Len(file[kind]) \in {NumberOfProjections - 1, NumberOfProjections}
         /\ Len(file[kind]) = NumberOfProjections - 1 =>
              Len(fate) \in Writes(kind)
<1> USE DEF Control
<1>a. /\ Control /\ Requested /\ DataTypes /\ ReadsEnded /\ WritesCounted /\ WriteOrder /\ LastPending
  BY DEF PromiseInOrder, OutputsInOrder, DataInOrder, TypesInOrder, InOrder
<1>1. IOWell
  BY <1>a DEF IOWell, AllWell, Scheduled
<1>2. Cardinality(Writes(kind)) = NumberOfProjections
  <2>1. p >= NumberOfProjections /\ p \in Nat
    BY <1>a DEF ReadsEnded, Closing, Types
  <2>2. WriteIssued(kind) = NumberOfProjections
    BY <2>1 DEF WriteIssued, Writing, Lesser
  <2> QED BY <1>a, <2>2 DEF WritesCounted, Lost
<1>3. Len(file[kind]) \in Nat /\ Len(file[kind]) <= NumberOfProjections
  BY <1>1, <1>2, <1>a, LenProperties DEF WriteOrder, DataTypes, Streams, Kinds
<1>4. \A k : PendingWrite(kind, k) => k = Len(fate)
  <2> SUFFICES ASSUME NEW k, PendingWrite(kind, k) PROVE k = Len(fate)
    OBVIOUS
  <2>1. k \in 1 .. Len(fate) /\ fate[k] = "pending"
    BY <1>a DEF PendingWrite, Writes, Requested
  <2>2. \A j \in 1 .. Len(fate) - 1 : fate[j] # "pending"
    BY <1>a DEF LastPending, Closing
  <2>3. Len(fate) \in Nat
    BY <1>a, LenProperties DEF Types
  <2> QED BY <2>1, <2>2, <2>3
<1>5. \A q \in Len(file[kind]) + 1 .. NumberOfProjections :
        PendingWrite(kind, Len(fate)) /\ Place(kind, Len(fate)) = q
  BY <1>1, <1>2, <1>4, <1>a DEF WriteOrder
<1>6. Len(file[kind]) >= NumberOfProjections - 1
  <2>1. SUFFICES ASSUME Len(file[kind]) < NumberOfProjections - 1 PROVE FALSE
    BY <1>3
  <2>2. NumberOfProjections - 1 \in Len(file[kind]) + 1 .. NumberOfProjections
        /\ NumberOfProjections \in Len(file[kind]) + 1 .. NumberOfProjections
    BY <1>3, <2>1
  <2>3. Place(kind, Len(fate)) = NumberOfProjections - 1 /\ Place(kind, Len(fate)) = NumberOfProjections
    BY <1>5, <2>2
  <2> QED BY <2>3
<1>7. ASSUME Len(file[kind]) = NumberOfProjections - 1 PROVE Len(fate) \in Writes(kind)
  <2>1. NumberOfProjections \in Len(file[kind]) + 1 .. NumberOfProjections
    BY <1>3, <1>7
  <2> QED BY <1>5, <2>1 DEF PendingWrite
<1> QED BY <1>3, <1>6, <1>7

(* When nothing has failed the engine returns with everything done but, at *)
(* most, the last write it requested.                                      *)
LEMMA ReturnsComplete ==
  ASSUME PromiseInOrder, main = "return", AllWell
  PROVE  Promise!Complete
<1>a. /\ Control /\ DataTypes /\ ReadsEnded /\ VolumesWritten
  BY DEF PromiseInOrder, OutputsInOrder, DataInOrder, TypesInOrder, InOrder
<1>1. nextRead - 1 = NumberOfProjections
  BY <1>a DEF ReadsEnded, Closing
<1>2. "volume" \in Wanted(job) => Len(Wholes) = NumberOfThreads
  <2>1. "volume" \in Wanted(job) => job.volumeWriter
    BY DEF Wanted
  <2>2. WrittenVolumes = NumberOfThreads
    BY DEF WrittenVolumes
  <2> QED BY <1>a, <2>1, <2>2, WholesFacts DEF VolumesWritten
<1>3. \A kind \in Streams : kind \in Wanted(job) => Output(kind)
  BY DEF Wanted, Output, Streams
<1>4. \A kind \in Streams : kind \in Wanted(job) =>
        /\ Len(file[kind]) \in {NumberOfProjections - 1, NumberOfProjections}
        /\ Len(file[kind]) = NumberOfProjections - 1 => Len(fate) \in Writes(kind)
  BY <1>3, LacksTheLast
<1> DEFINE lacks(kind) == IF kind \in Wanted(job) THEN NumberOfProjections - Len(Files[kind]) ELSE 0
<1>5. \A kind \in Streams : Files[kind] = file[kind]
  BY DEF Files, Streams
<1>6. \A kind \in Streams : lacks(kind) \in {0, 1} /\ (lacks(kind) = 1 => Len(fate) \in Writes(kind))
  BY <1>4, <1>5
<1>7. ~(Len(fate) \in Writes("attenuation") /\ Len(fate) \in Writes("filtered"))
  BY DEF Writes
<1>8. lacks("attenuation") + lacks("filtered") <= 1
  <2>1. "attenuation" \in Streams /\ "filtered" \in Streams
    BY DEF Streams
  <2> HIDE DEF lacks
  <2> QED BY <1>6, <1>7, <2>1
<1>9. Promise!Lacking("attenuation") = lacks("attenuation") /\ Promise!Lacking("filtered") = lacks("filtered")
  BY DEF Promise!Lacking, Files
<1> HIDE DEF lacks
<1> QED BY <1>1, <1>2, <1>8, <1>9 DEF Promise!Complete, Wholes

(* Main returns or throws as the promise says.                             *)
LEMMA MainRefines ==
  ASSUME PromiseInOrder, Main
  PROVE  [Promise!Next]_(Promise!vars)
<1> USE DEF Control
<1>a. Control /\ Requested /\ DataTypes /\ Reasons
  BY DEF PromiseInOrder, OutputsInOrder, DataInOrder, TypesInOrder, InOrder, Reported
<1>1. SameOutputs /\ (AllWell' => AllWell)
  BY <1>a, MainFacts, MainJob, StillWell DEF Next, SameOutputs
<1>2. CASE ~Leave
  <2>1. main \notin {"returned", "threw"}
    BY MainRuns
  <2>2. closed' = closed
    BY <1>2 DEF Main, Create, FirstRequests, SwapAttenuation, SwapInput, RequestNext, Convert,
       Synchronize, Barrier, SetReference, CorrectBeamPower, SwapFiltered, Filter, Check,
       WriteAttenuation, WriteFiltered, ApplyProjections, NextGroup, WaitForCompletion,
       CountRequests, WriteVolume, BarrierVolume, MainThrows, Request, EndRequests, ioVars, IO!Issue
  <2>3. Control'
    BY <1>a, MainControl
  <2>4. main' \notin {"returned", "threw"}
    BY <1>a, <2>1, <2>2, <2>3 DEF Scheduled
  <2> QED BY <1>1, <2>1, <2>4, QuietStep DEF Outcome
<1>3. CASE Leave
  <2>1. /\ main \in {"return", "unwind"} /\ main' = (IF main = "return" THEN "returned" ELSE "threw")
        /\ UNCHANGED <<mainVars, box, workVars, dataVars, requests>> /\ IO!Close
    BY <1>3 DEF Leave
  <2>2. Wanted(job)' = Wanted(job) /\ Wholes' = Wholes /\ Files' = Files
    BY <1>1, SameView
  <2>3. AllWell' = AllWell
    <3>1. IO!Failed' = IO!Failed
      <4>1. fate' = [k \in DOMAIN fate |-> IF fate[k] = "pending" THEN "dropped" ELSE fate[k]]
        BY <2>1 DEF IO!Close
      <4>2. Len(fate') = Len(fate) /\ DOMAIN fate = 1 .. Len(fate)
        BY <1>a, <4>1, LenProperties DEF Types
      <4> QED BY <4>1, <4>2 DEF IO!Failed
    <3> QED BY <2>1, <3>1 DEF AllWell, mainVars, workVars
  <2>4. Outcome = "running"
    BY <2>1 DEF Outcome
  <2>5. CASE main = "return"
    <3>1. Outcome' = "returned"
      BY <2>1, <2>5 DEF Outcome
    <3>2. IF ~AllWell THEN TRUE ELSE Promise!Complete
      BY <2>5, ReturnsComplete
    <3>3. Promise!Return
      BY <1>1, <2>2, <2>3, <2>4, <3>1, <3>2 DEF Promise!Return, Wholes, Files, Outcome, SameOutputs
    <3> QED BY <3>3 DEF Promise!Next
  <2>6. CASE main = "unwind"
    <3>1. Outcome' = "threw"
      BY <2>1, <2>6 DEF Outcome
    <3>2. ~AllWell
      BY <1>a, <2>6 DEF Reasons, Lost
    <3>3. Promise!Throw
      BY <1>1, <2>2, <2>3, <2>4, <3>1, <3>2 DEF Promise!Throw, Wholes, Files, Outcome, SameOutputs
    <3> QED BY <3>3 DEF Promise!Next
  <2> QED BY <2>1, <2>5, <2>6
<1> QED BY <1>2, <1>3

(* A request that succeeds takes the next projection or writes the next    *)
(* one to its file; one that fails or is dropped changes no output.        *)
LEMMA SettleRefines ==
  ASSUME PromiseInOrder, Settle
  PROVE  [Promise!Next]_(Promise!vars)
<1> USE DEF Control
<1>a. /\ Control /\ Requested /\ DataTypes /\ ReadOrder /\ WriteOrder /\ Stored
  BY DEF PromiseInOrder, OutputsInOrder, DataInOrder, TypesInOrder, InOrder
<1>1. /\ UNCHANGED <<job, main, requests, closed, exception, volumeFile, mainFailed>> /\ ~closed
      /\ AllWell' => AllWell
  BY <1>a, SettleData, StillWell DEF Next
<1>2. PICK k \in 1 .. Len(requests) : Oldest(k) /\ (ReadsOne(k) \/ WritesOne(k) \/ FailsOne(k) \/ DropsOne(k))
  BY <1>a, SettleData
<1>3. Outcome = "running" /\ Outcome' = "running"
  BY <1>1, <1>a DEF Outcome, Scheduled
<1>4. Wanted(job)' = Wanted(job) /\ Wholes' = Wholes
  BY <1>1 DEF Wholes, WholeSubvolume
<1>5. CASE FailsOne(k) \/ DropsOne(k)
  BY <1>1, <1>3, <1>5, QuietStep DEF FailsOne, DropsOne, SameOutputs
<1>6. CASE ReadsOne(k)
  <2>1. IOWell /\ requests[k].op = "read" /\ nextRead' = nextRead + 1 /\ file' = file
    BY <1>1, <1>6 DEF ReadsOne, IOWell
  <2>2. nextRead \in Nat \ {0} /\ nextRead <= NumberOfProjections
    BY <1>2, <1>a, <2>1, OldestRead DEF ReadOrder
  <2>3. AllWell' = AllWell
    BY <1>1, <1>6 DEF AllWell, ReadsOne
  <2>4. nextRead - 1 < NumberOfProjections /\ nextRead' - 1 = nextRead - 1 + 1
    BY <2>1, <2>2
  <2>5. Files' = Files
    BY <2>1 DEF Files
  <2>6. Promise!Take
    BY <1>1, <1>3, <1>4, <2>3, <2>4, <2>5 DEF Promise!Take, Wholes, Files, Outcome
  <2> QED BY <2>6 DEF Promise!Next
<1>7. CASE WritesOne(k)
  <2>0. PICK kind \in Streams : kind = requests[k].image[1]
    BY <1>1, <1>2, <1>7, <1>a, OldestWrite DEF WritesOne, IOWell
  <2>1. /\ IOWell /\ requests[k].op = "write"
        /\ file' = [file EXCEPT ![kind] = Append(@, content[requests[k].image])]
        /\ UNCHANGED <<content, nextRead>>
    BY <1>1, <1>7, <2>0 DEF WritesOne, IOWell
  <2>2. /\ kind \in Streams /\ Output(kind) /\ PendingWrite(kind, k)
        /\ Len(file[kind]) \in Nat /\ Place(kind, k) = Len(file[kind]) + 1
    BY <1>2, <1>a, <2>0, <2>1, OldestWrite
  <2>3. content[requests[k].image] = Len(file[kind]) + 1 /\ Len(file[kind]) + 1 < nextRead
    BY <1>a, <2>1, <2>2 DEF Stored
  <2>4. AllWell' = AllWell
    BY <1>1, <1>7 DEF AllWell, WritesOne
  <2>5. kind \in Wanted(job)
    BY <2>2 DEF Wanted, Output
  <2>6. Len(file[kind]) < nextRead - 1
    BY <1>a, <2>2, <2>3 DEF ReadOrder
  <2>7. Files[kind] = file[kind]
    BY <2>2 DEF Files, Streams
  <2>8. Files' = [Files EXCEPT ![kind] = Append(@, Len(@) + 1)]
    <3>1. file' = [file EXCEPT ![kind] = Append(file[kind], Len(file[kind]) + 1)]
      BY <2>1, <2>3
    <3>2. file \in [Kinds -> Seq(Projections)] /\ kind \in Kinds
      BY <1>a, <2>2 DEF DataTypes, Streams, Kinds
    <3> QED BY <2>2, <2>7, <3>1, <3>2 DEF Files, Streams, Kinds
  <2>9. Promise!Write(kind)
    BY <1>1, <1>3, <1>4, <2>1, <2>4, <2>5, <2>6, <2>7, <2>8 DEF Promise!Write, Wholes, Files, Outcome
  <2>10. kind \in Promise!Streams
    BY <2>2 DEF Promise!Streams, Streams
  <2>11. Promise!Next
    BY <2>9, <2>10 DEF Promise!Next
  <2> QED BY <2>11
<1> QED BY <1>2, <1>5, <1>6, <1>7

(* The engine starts as Reconstruction does.                               *)
LEMMA InitRefines ==
  ASSUME Init
  PROVE  Promise!Init
<1>1. /\ job \in AllowedJobs /\ main = "create" /\ nextRead = 1 /\ volumeFile = <<>> /\ ~mainFailed
      /\ file = [k \in Kinds |-> <<>>] /\ exception = [t \in Threads |-> "none"] /\ fate = <<>>
  BY JobsAssumption DEF Init, IO!Init
<1>2. Wholes = <<>>
  <2>1. DOMAIN Wholes = 1 .. 0
    BY <1>1 DEF Wholes
  <2>2. Wholes \in [1 .. 0 -> BOOLEAN]
    BY <2>1 DEF Wholes
  <2>3. Wholes \in Seq(BOOLEAN)
    BY <2>2, SeqDef
  <2>4. Len(Wholes) = 0
    BY <2>1, <2>3, LenProperties
  <2> QED BY <2>3, <2>4, EmptySeq
<1>3. Files = [k \in Promise!Streams |-> <<>>]
  BY <1>1 DEF Files, Promise!Streams, Kinds
<1>4. AllWell
  BY <1>1 DEF AllWell, IO!Failed
<1>5. Outcome = "running"
  BY <1>1 DEF Outcome
<1>6. Wanted(job) \in SUBSET Promise!Outputs
  BY DEF Wanted, Promise!Outputs, Promise!Streams
<1> QED BY <1>1, <1>2, <1>3, <1>4, <1>5, <1>6 DEF Promise!Init, Promise!Empty, Wholes, Files, Outcome

(* The multi-threaded engine implements Reconstruction.  Whatever the      *)
(* number of threads and projections, the job and the failures, it takes   *)
(* the projections in order, writes them to the files asked for in that    *)
(* order and the subvolumes after them; it throws only after a failure,    *)
(* and it returns after none with everything written but, at most, one     *)
(* projection: the last one it asked for.                                  *)
THEOREM EngineKeepsPromise == Spec => KeepsPromise
<1>1. Init => Promise!Init
  BY InitRefines
<1>2. PromiseInOrder /\ PromiseInOrder' /\ [Next]_vars => [Promise!Next]_(Promise!vars)
  <2>1. SUFFICES ASSUME PromiseInOrder, PromiseInOrder', [Next]_vars
                 PROVE  [Promise!Next]_(Promise!vars)
    OBVIOUS
  <2>2. CASE UNCHANGED vars
    <3>1. Promise!vars' = Promise!vars
      BY <2>2 DEF vars, Promise!vars, WholeSubvolume, AllWell, IO!Failed
    <3> QED BY <3>1
  <2> QED BY <2>1, <2>2, MainRefines, WorkerRefines, SettleRefines DEF Next, Ended
<1> QED BY <1>1, <1>2, AlwaysPromiseInOrder, PTL DEF Spec, KeepsPromise, Promise!Spec
=============================================================================
