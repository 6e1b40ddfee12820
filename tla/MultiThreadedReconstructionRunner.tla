------------------ MODULE MultiThreadedReconstructionRunner ------------------
(***************************************************************************)
(* The multi-threaded engine (source/engines/multi_threaded/               *)
(* MultiThreadedReconstructionRunner.txx and ReconstructionMessages.txx):  *)
(* the main thread walks the projections in groups, one projection per     *)
(* worker, and sends the workers messages; the I/O processor reads the     *)
(* next group and writes the last one meanwhile; barriers separate         *)
(* filtering from back-projection and one group from the next.             *)
(*                                                                         *)
(* The I/O processor is used as the module OrderedIO describes it, and a   *)
(* worker's queue as Mailbox does.  A for loop that only sends messages is *)
(* one action: nobody else sends, so a worker that sees half of the loop's *)
(* messages can as well see them all.  Every RequestIOOperation is an      *)
(* action of its own.                                                      *)
(*                                                                         *)
(* The data is abstract: a buffer holds a projection, identified by its    *)
(* number in the input, or garbage; a subvolume is the sequence of what    *)
(* was applied to it.  Any message but a barrier may throw and any I/O     *)
(* fail, MaxFailures times in all.                                         *)
(***************************************************************************)
EXTENDS Integers, Sequences, FiniteSets, ReconstructionJob

CONSTANTS
  NumberOfThreads,       \* m_NumberOfThreads
  NumberOfProjections,   \* the reader's GetNumberOfProjections
  Jobs,                  \* the ways the launcher may set up the engine
  MaxFailures            \* bound: spontaneous failures

ASSUME NumberOfThreadsAssumption == NumberOfThreads \in Nat \ {0}
ASSUME NumberOfProjectionsAssumption == NumberOfProjections \in Nat \ {0}
ASSUME MaxFailuresAssumption == MaxFailures \in Nat

Threads == 0 .. NumberOfThreads - 1
Sides   == {"A", "B"}

(* The objects of the DoubleBuffers: a pair for each kind and slot.        *)
Images == Kinds \X Threads \X Sides

ASSUME JobsAssumption == Jobs \subseteq AllowedJobs

VARIABLES
  job,                   \* the set-up of this run
  main,                  \* where the main thread is in ExecuteOnThreads
  p,                     \* number of the group's first projection, from 0
  pp,                    \* index of the loop that main is in
  side,                  \* side[k]: which side of the kind's buffers is active
  box,                   \* box[t]: the messages worker t has not finished
  exception,             \* exception[t]: what threw first on worker t, or none
  ready,                 \* ready[t]: what worker t has set up
  content,               \* content[i]: the projection in image i, 0 if garbage
  reference,             \* the reference projection of the beam power corrector
  volume,                \* volume[t]: the projections applied, and their angles
  requests,              \* requests[k]: the k-th I/O request
  nextRead,              \* the projection the reader reads next
  file,                  \* file[k]: the projections written, in order
  volumeFile,            \* the subvolumes written, in order
  mainFailed,            \* the main thread itself has thrown
  fate, loan, closed     \* the I/O processor, see OrderedIO

IO == INSTANCE OrderedIO

ioVars   == <<requests, fate, loan, closed>>
mainVars == <<job, p, pp, side, mainFailed>>
dataVars == <<content, reference, volume, nextRead, file, volumeFile>>
workVars == <<exception, ready>>
vars == <<job, main, p, pp, side, box, exception, ready, content, reference,
          volume, requests, nextRead, file, volumeFile, mainFailed, fate, loan,
          closed>>

-----------------------------------------------------------------------------
(* Groups, buffers and messages                                            *)

Lesser(a, b) == IF a < b THEN a ELSE b

ProjectionsPerStep ==
  Lesser(IF job.source = "filtered" THEN 1 ELSE NumberOfThreads,
         NumberOfProjections)
ProjectionsThisStep == Lesser(ProjectionsPerStep, NumberOfProjections - p)

(* Fault: the last group is thought to be whole.                           *)
ForgetsTheEnd == ProjectionsPerStep

ProjectionsNextStep ==
  Lesser(ProjectionsPerStep, NumberOfProjections - p - ProjectionsPerStep)

Other(s) == IF s = "A" THEN "B" ELSE "A"
Active(kind, k)  == <<kind, k, side[kind]>>
Loading(kind, k) == <<kind, k, Other(side[kind])>>
Swap(kind) == side' = [side EXCEPT ![kind] = Other(side[kind])]

(* A message reads the images "from" and writes the images "to" (neither,  *)
(* for WaitForBufferRelease, which names its image in "awaits").           *)
Message(op, from, to, awaits, angle) ==
  [op |-> op, from |-> from, to |-> to, awaits |-> awaits, angle |-> angle]
Plain(op)           == Message(op, {}, {}, {}, 0)
Await(i)            == Message("await", {}, {}, {i}, 0)
Transform(op, i, j) == Message(op, {i}, {j}, {}, 0)
Apply(i, k)         == Message("apply", {i}, {}, {}, k)

(* for (pp < count) threadRunners[pp].SetMessage(M(pp))                    *)
Send(count, M(_)) ==
  box' = [t \in Threads |->
            IF t < count THEN Append(box[t], M(t)) ELSE box[t]]

-----------------------------------------------------------------------------
(* The order of things in one turn of the main loop; a phase that the job  *)
(* does not ask for is passed over.                                        *)
Phases ==
  <<"swapAttenuation", "swapInput", "request", "convert", "synchronize0",
    "reference", "correct", "swapFiltered", "filter", "synchronize", "check",
    "writeAttenuation", "writeFiltered", "apply", "synchronizeApplied",
    "checkApplied", "next">>

Asked(phase) ==
  CASE phase \in {"swapAttenuation", "writeAttenuation"} ->
         job.attenuationWriter
    [] phase = "convert" -> job.source = "raw"
    [] phase \in {"synchronize0", "reference"} -> job.beamPower /\ p = 0
    [] phase = "correct" -> job.beamPower
    [] phase \in {"swapFiltered", "writeFiltered"} -> job.filteredWriter
    [] phase = "filter" -> Filters(job)
    [] phase \in {"apply", "synchronizeApplied", "checkApplied"} ->
         job.volumeWriter
    [] OTHER -> TRUE

After(phase) ==
  LET later == {k \in DOMAIN Phases :
                  /\ Asked(Phases[k])
                  /\ \E j \in 1 .. k - 1 : Phases[j] = phase}
  IN  Phases[CHOOSE k \in later : \A j \in later : k <= j]

FirstPhase ==
  IF job.attenuationWriter THEN "swapAttenuation" ELSE "swapInput"

Init ==
  /\ job \in Jobs
  /\ main = "create"
  /\ p = 0
  /\ pp = 0
  /\ side = [k \in Kinds |-> "B"]
  /\ box = [t \in Threads |-> <<>>]
  /\ exception = [t \in Threads |-> "none"]
  /\ ready = [t \in Threads |-> {}]
  /\ content = [i \in Images |-> 0]
  /\ reference = 0
  /\ volume = [t \in Threads |-> <<>>]
  /\ requests = <<>>
  /\ nextRead = 1
  /\ file = [k \in Kinds |-> <<>>]
  /\ volumeFile = <<>>
  /\ mainFailed = FALSE
  /\ IO!Init

(* Failures are spontaneous until the bound is reached.                    *)
MayFail ==
  Cardinality({t \in Threads : exception[t] # "none"})
    + (IF IO!Failed THEN 1 ELSE 0) + (IF mainFailed THEN 1 ELSE 0)
  < MaxFailures

-----------------------------------------------------------------------------
(* The main thread                                                         *)

(* The messages that set up the workers: filterer, back projector, volume. *)
(* The ThreadWorker they are kept in was created by the first message.     *)
Create ==
  /\ main = "create"
  /\ LET filterer == IF Filters(job) THEN <<Plain("createFilterer")>>
                     ELSE <<>>
         projector == IF job.volumeWriter
                      THEN <<Plain("createBackProjector"),
                             Plain("allocateVolume")>>
                      ELSE <<>>
     IN  box' = [t \in Threads |-> filterer \o projector]
  /\ main' = "firstRequests"
  /\ UNCHANGED <<mainVars, workVars, dataVars, ioVars>>

(* One RequestIOOperation.                                                 *)
Request(op, i) ==
  /\ IO!Issue(i)
  /\ requests' = Append(requests, [op |-> op, image |-> i])
  /\ pp' = pp + 1
  /\ UNCHANGED <<job, main, p, side, mainFailed, box, workVars, dataVars>>

(* The loop of requests is over.                                           *)
EndRequests(phase) ==
  /\ pp' = 0
  /\ main' = phase
  /\ UNCHANGED <<job, p, side, mainFailed, workVars, dataVars, ioVars>>

FirstRequests ==
  /\ main = "firstRequests"
  /\ \/ pp < ProjectionsPerStep /\ Request("read", Loading(job.source, pp))
     \/ /\ pp = ProjectionsPerStep
        /\ EndRequests(FirstPhase)
        /\ UNCHANGED box

(* Fault: the wait starts with the second group, before any buffer is used *)
(* again.                                                                  *)
WaitsTooSoon(kind) ==
  /\ Swap(kind)
  /\ IF p > 0
     THEN Send(ProjectionsThisStep, LAMBDA k : Await(<<kind, k, side'[kind]>>))
     ELSE UNCHANGED box

(* An output's buffers are swapped; from the third group on, the write     *)
(* that used the buffer last must be over.                                 *)
SwapOutput(kind) ==
  /\ Swap(kind)
  /\ IF p > ProjectionsPerStep
     THEN Send(ProjectionsThisStep, LAMBDA k : Await(<<kind, k, side'[kind]>>))
     ELSE UNCHANGED box

SwapAttenuation ==
  /\ main = "swapAttenuation"
  /\ SwapOutput("attenuation")
  /\ main' = After("swapAttenuation")
  /\ UNCHANGED <<job, p, pp, mainFailed, workVars, dataVars, ioVars>>

SwapFiltered ==
  /\ main = "swapFiltered"
  /\ SwapOutput("filtered")
  /\ main' = After("swapFiltered")
  /\ UNCHANGED <<job, p, pp, mainFailed, workVars, dataVars, ioVars>>

(* The three readers' loops differ in the kind only; the filtered reader's *)
(* comes after SwapFiltered in the code, but the two exclude each other.   *)
SwapInput ==
  /\ main = "swapInput"
  /\ Swap(job.source)
  /\ main' = "request"
  /\ UNCHANGED <<job, p, pp, mainFailed, box, workVars, dataVars, ioVars>>

(* The next group is requested; then the workers wait for this one.        *)
RequestNext ==
  /\ main = "request"
  /\ \/ pp < ProjectionsNextStep /\ Request("read", Loading(job.source, pp))
     \/ /\ pp >= ProjectionsNextStep
        /\ Send(ProjectionsThisStep, LAMBDA k : Await(Active(job.source, k)))
        /\ EndRequests(After("request"))

(* Attenuation from raw data, and the correction of bad pixels in place.   *)
Convert ==
  /\ main = "convert"
  /\ LET convert(k) == Transform("convert", Active("raw", k),
                                 Active("attenuation", k))
         repair(k)  == Transform("badPixels", Active("attenuation", k),
                                 Active("attenuation", k))
     IN  box' = [t \in Threads |->
                   IF t >= ProjectionsThisStep THEN box[t]
                   ELSE IF job.badPixels
                        THEN box[t] \o <<convert(t), repair(t)>>
                        ELSE Append(box[t], convert(t))]
  /\ main' = After("convert")
  /\ UNCHANGED <<mainVars, workVars, dataVars, ioVars>>

(* Fault: only the workers with a projection are told to synchronize.      *)
SynchronizesGroup ==
  /\ main \in {"synchronize0", "synchronize", "synchronizeApplied",
               "synchronizeEnd"}
  /\ Send(ProjectionsThisStep, LAMBDA k : Plain("barrier"))
  /\ main' = [synchronize0 |-> "barrier0", synchronize |-> "barrier",
              synchronizeApplied |-> "barrierApplied",
              synchronizeEnd |-> "barrierEnd"][main]
  /\ UNCHANGED <<mainVars, workVars, dataVars, ioVars>>

(* SynchronizeAllAndWait sends every worker a barrier message...           *)
Synchronize ==
  /\ main \in {"synchronize0", "synchronize", "synchronizeApplied",
               "synchronizeEnd"}
  /\ Send(NumberOfThreads, LAMBDA k : Plain("barrier"))
  /\ main' = [synchronize0 |-> "barrier0", synchronize |-> "barrier",
              synchronizeApplied |-> "barrierApplied",
              synchronizeEnd |-> "barrierEnd"][main]
  /\ UNCHANGED <<mainVars, workVars, dataVars, ioVars>>

AtBarrier(t) == box[t] # <<>> /\ Head(box[t]).op = "barrier"

(* ...and main waits; the barrier opens when all have come.                *)
Barrier ==
  /\ main \in {"barrier0", "barrier", "barrierApplied", "barrierEnd"}
  /\ \A t \in Threads : AtBarrier(t)
  /\ box' = [t \in Threads |-> Tail(box[t])]
  /\ main' = [barrier0 |-> "reference", barrier |-> "check",
              barrierApplied |-> "checkApplied", barrierEnd |-> "return"][main]
  /\ UNCHANGED <<mainVars, workVars, dataVars, ioVars>>

(* An exception leaves ExecuteOnThreads.                                   *)
MainThrows ==
  /\ main' = "unwind"
  /\ UNCHANGED <<job, p, pp, side, box, workVars, dataVars, ioVars>>

(* SetReferenceProjection; the main thread reads the first image itself.   *)
SetReference ==
  /\ main = "reference"
  /\ \/ /\ reference' = content[Active("attenuation", 0)]
        /\ main' = After("reference")
        /\ UNCHANGED <<mainVars, box, workVars, content, volume, nextRead,
                       file, volumeFile, ioVars>>
     \/ MayFail /\ MainThrows /\ mainFailed' = TRUE

CorrectBeamPower ==
  /\ main = "correct"
  /\ Send(ProjectionsThisStep,
          LAMBDA k : Transform("beamPower", Active("attenuation", k),
                               Active("attenuation", k)))
  /\ main' = After("correct")
  /\ UNCHANGED <<mainVars, workVars, dataVars, ioVars>>

Filter ==
  /\ main = "filter"
  /\ Send(ProjectionsThisStep,
          LAMBDA k : Transform("filter", Active("attenuation", k),
                               Active("filtered", k)))
  /\ main' = After("filter")
  /\ UNCHANGED <<mainVars, workVars, dataVars, ioVars>>

(* Fault: only the first worker is looked at.                              *)
ChecksFirst ==
  /\ main \in {"check", "checkApplied"}
  /\ IF exception[0] # "none"
     THEN MainThrows /\ UNCHANGED mainFailed
     ELSE /\ main' = After(main)
          /\ UNCHANGED <<mainVars, box, workVars, dataVars, ioVars>>

(* CheckException on the workers that have a projection in this group.     *)
(* The corrections file, written after the first check, may throw too.     *)
Check ==
  /\ main \in {"check", "checkApplied"}
  /\ IF \E t \in 0 .. ProjectionsThisStep - 1 : exception[t] # "none"
     THEN MainThrows /\ UNCHANGED mainFailed
     ELSE \/ /\ main' = After(main)
             /\ UNCHANGED <<mainVars, box, workVars, dataVars, ioVars>>
          \/ /\ main = "check" /\ job.beamPower /\ MayFail
             /\ MainThrows
             /\ mainFailed' = TRUE

WriteAttenuation ==
  /\ main = "writeAttenuation"
  /\ \/ /\ pp < ProjectionsThisStep
        /\ Request("write", Active("attenuation", pp))
     \/ /\ pp = ProjectionsThisStep
        /\ EndRequests(After("writeAttenuation"))
        /\ UNCHANGED box

WriteFiltered ==
  /\ main = "writeFiltered"
  /\ \/ /\ pp < ProjectionsThisStep
        /\ Request("write", Active("filtered", pp))
     \/ /\ pp = ProjectionsThisStep
        /\ EndRequests(After("writeFiltered"))
        /\ UNCHANGED box

(* Fault: every worker applies its own projection only.                    *)
AppliesOwn ==
  /\ main = "apply"
  /\ Send(ProjectionsThisStep, LAMBDA k : Apply(Active("filtered", k), p + k + 1))
  /\ main' = After("apply")
  /\ UNCHANGED <<mainVars, workVars, dataVars, ioVars>>

(* Fault: no barrier after the last projection was sent.                   *)
AppliesAndGoesOn ==
  /\ main = "apply"
  /\ LET applied == [k \in 1 .. ProjectionsThisStep |->
                       Apply(Active("filtered", k - 1), p + k)]
     IN  box' = [t \in Threads |-> box[t] \o applied]
  /\ main' = "next"
  /\ UNCHANGED <<mainVars, workVars, dataVars, ioVars>>

(* Every worker applies every projection of the group to its subvolume,    *)
(* the last projection of all excepted if it repeats the first.            *)
ApplyProjections ==
  /\ main = "apply"
  /\ LET count == IF job.atBothLimits
                     /\ p + ProjectionsThisStep = NumberOfProjections
                  THEN ProjectionsThisStep - 1 ELSE ProjectionsThisStep
         applied == [k \in 1 .. count |->
                       Apply(Active("filtered", k - 1), p + k)]
     IN  box' = [t \in Threads |-> box[t] \o applied]
  /\ main' = After("apply")
  /\ UNCHANGED <<mainVars, workVars, dataVars, ioVars>>

NextGroup ==
  /\ main = "next"
  /\ p' = p + ProjectionsPerStep
  /\ main' = IF p' < NumberOfProjections THEN FirstPhase ELSE "complete"
  /\ UNCHANGED <<job, pp, side, mainFailed, box, workVars, dataVars, ioVars>>

(* WaitForCompletion: an exception of the I/O thread is thrown at the      *)
(* start...                                                                *)
WaitForCompletion ==
  /\ main = "complete"
  /\ IF IO!Failed THEN MainThrows /\ UNCHANGED mainFailed
     ELSE /\ main' = "count"
          /\ UNCHANGED <<mainVars, box, workVars, dataVars, ioVars>>

(* Fault: the requests are not counted.                                    *)
CompletesAtOnce ==
  /\ main = "count"
  /\ main' = IF job.volumeWriter THEN "writeVolume" ELSE "synchronizeEnd"
  /\ UNCHANGED <<mainVars, box, workVars, dataVars, ioVars>>

(* ...and after each wait; it returns when the queue is empty, whatever    *)
(* has failed since, the last request possibly still being dealt with.     *)
CountRequests ==
  /\ main = "count"
  /\ \/ /\ \A k \in 1 .. Len(fate) - 1 : fate[k] # "pending"
        /\ main' = IF job.volumeWriter THEN "writeVolume" ELSE "synchronizeEnd"
        /\ UNCHANGED <<mainVars, box, workVars, dataVars, ioVars>>
     \/ IO!Failed /\ MainThrows /\ UNCHANGED mainFailed

(* One worker after the other writes its subvolume, and meets main at a    *)
(* barrier of two.                                                         *)
WriteVolume ==
  /\ main = "writeVolume"
  /\ pp < NumberOfThreads
  /\ box' = [box EXCEPT ![pp] = @ \o <<Plain("writeVolume"), Plain("barrier")>>]
  /\ main' = "barrierVolume"
  /\ UNCHANGED <<mainVars, workVars, dataVars, ioVars>>

BarrierVolume ==
  /\ main = "barrierVolume"
  /\ AtBarrier(pp)
  /\ box' = [box EXCEPT ![pp] = Tail(@)]
  /\ pp' = pp + 1
  /\ main' = IF pp' = NumberOfThreads THEN "synchronizeEnd" ELSE "writeVolume"
  /\ UNCHANGED <<job, p, side, mainFailed, workVars, dataVars, ioVars>>

(* ExecuteOnThreads is left: the I/O processor is destroyed, then the      *)
(* buffers.  Stop and join follow, see ThreadRunner.                       *)
Leave ==
  /\ main \in {"return", "unwind"}
  /\ IO!Close
  /\ main' = IF main = "return" THEN "returned" ELSE "threw"
  /\ UNCHANGED <<mainVars, box, workVars, dataVars, requests>>

Main ==
  \/ Create \/ FirstRequests
  \/ SwapAttenuation \/ SwapInput \/ RequestNext \/ Convert
  \/ Synchronize \/ Barrier \/ SetReference \/ CorrectBeamPower
  \/ SwapFiltered \/ Filter \/ Check \/ WriteAttenuation \/ WriteFiltered
  \/ ApplyProjections \/ NextGroup
  \/ WaitForCompletion \/ CountRequests
  \/ WriteVolume \/ BarrierVolume \/ Leave

-----------------------------------------------------------------------------
(* The workers.  Everything below is the message at the head of the box.   *)

Done(t) == box' = [box EXCEPT ![t] = Tail(box[t])]

(* The runner keeps the first exception and goes on to the next message.   *)
Throw(t) ==
  /\ exception' = [exception EXCEPT ![t] =
                     IF @ = "none" THEN Head(box[t]).op ELSE @]
  /\ Done(t)
  /\ UNCHANGED <<main, mainVars, ready>>

Finish(t) ==
  /\ Done(t)
  /\ UNCHANGED <<main, mainVars, exception>>

Setup(t) ==
  /\ box[t] # <<>>
  /\ Head(box[t]).op \in {"createFilterer", "createBackProjector",
                          "allocateVolume"}
  /\ \/ /\ Head(box[t]).op = "allocateVolume" => "createBackProjector" \in ready[t]
        /\ ready' = [ready EXCEPT ![t] = @ \cup {Head(box[t]).op}]
        /\ Finish(t)
     \/ /\ \/ MayFail
           \/ /\ Head(box[t]).op = "allocateVolume"
              /\ "createBackProjector" \notin ready[t]
        /\ Throw(t)
  /\ UNCHANGED <<dataVars, ioVars>>

(* A volume for which there is no memory counts as constructed all the     *)
(* same: the flag is set before new[] throws.                              *)
AllocateNothing(t) ==
  /\ box[t] # <<>>
  /\ Head(box[t]).op = "allocateVolume"
  /\ "createBackProjector" \in ready[t]
  /\ MayFail
  /\ exception' = [exception EXCEPT ![t] =
                     IF @ = "none" THEN "allocateVolume" ELSE @]
  /\ ready' = [ready EXCEPT ![t] = @ \cup {"nullVolume"}]
  /\ Done(t)
  /\ UNCHANGED <<main, mainVars, dataVars, ioVars>>

(* To apply a projection to it, or to write it, is to use a null pointer;  *)
(* but no pixel is touched if its slices are out of the projection's sight.*)
Crash(t) ==
  /\ box[t] # <<>>
  /\ Head(box[t]).op \in {"apply", "writeVolume"}
  /\ "nullVolume" \in ready[t]
  /\ main' = "crashed"
  /\ UNCHANGED <<mainVars, box, workVars, dataVars, ioVars>>

(* WaitForBufferRelease returns when the request on its image is settled,  *)
(* and throws when a request has failed.                                   *)
AwaitBuffer(t) ==
  /\ box[t] # <<>>
  /\ Head(box[t]).op = "await"
  /\ \/ /\ \E i \in Head(box[t]).awaits : IO!Release(i)
        /\ Finish(t)
        /\ UNCHANGED ready
     \/ /\ IO!Failed
        /\ Throw(t)
        /\ UNCHANGED <<fate, loan, closed>>
  /\ UNCHANGED <<dataVars, requests>>

(* What a message puts in an image when all goes well: the projection it   *)
(* read.  A beam power correction is only as good as its reference.        *)
Result(m, projection) ==
  IF m.op = "beamPower" /\ reference # 1 THEN 0 ELSE projection

TransformImage(t) ==
  /\ box[t] # <<>>
  /\ LET m == Head(box[t])
         able == m.op = "filter" => "createFilterer" \in ready[t]
     IN  \E i \in m.from, j \in m.to :
           \/ /\ able
              /\ content' = [content EXCEPT ![j] = Result(m, content[i])]
              /\ Finish(t)
              /\ UNCHANGED ready
           \/ /\ MayFail \/ ~able
              /\ content' = [content EXCEPT ![j] = 0]
              /\ Throw(t)
  /\ UNCHANGED <<reference, volume, nextRead, file, volumeFile, ioVars>>

(* Without a volume ApplyProjection and WriteVolumeData do nothing: it is  *)
(* taken for a subvolume of no slices.                                     *)
ApplyProjection(t) ==
  /\ box[t] # <<>>
  /\ Head(box[t]).op = "apply"
  /\ LET m == Head(box[t])
         able == "createBackProjector" \in ready[t]
     IN  \/ /\ able
            /\ volume' =
                 IF "allocateVolume" \in ready[t]
                 THEN [volume EXCEPT ![t] =
                         Append(@, <<content[CHOOSE i \in m.from : TRUE],
                                     m.angle>>)]
                 ELSE volume
            /\ Finish(t)
            /\ UNCHANGED ready
         \/ /\ MayFail \/ ~able
            /\ Throw(t)
            /\ UNCHANGED volume
  /\ UNCHANGED <<content, reference, nextRead, file, volumeFile, ioVars>>

WriteVolumeData(t) ==
  /\ box[t] # <<>>
  /\ Head(box[t]).op = "writeVolume"
  /\ LET able == /\ "createBackProjector" \in ready[t]
                 /\ "nullVolume" \notin ready[t]
     IN  \/ /\ able
            /\ volumeFile' = IF "allocateVolume" \in ready[t]
                             THEN Append(volumeFile, volume[t])
                             ELSE volumeFile
            /\ Finish(t)
            /\ UNCHANGED ready
         \/ /\ MayFail \/ ~able
            /\ Throw(t)
            /\ UNCHANGED volumeFile
  /\ UNCHANGED <<content, reference, volume, nextRead, file, ioVars>>

Worker(t) ==
  /\ main # "crashed"
  /\ \/ Setup(t) \/ AllocateNothing(t) \/ AwaitBuffer(t) \/ TransformImage(t)
     \/ ApplyProjection(t) \/ WriteVolumeData(t) \/ Crash(t)

-----------------------------------------------------------------------------
(* The I/O thread settles the oldest request.  A read that fails leaves    *)
(* garbage; a request that is dropped leaves the image as it is.           *)
Settle ==
  /\ ~closed
  /\ main # "crashed"
  /\ IO!Settle
  /\ LET k == CHOOSE k \in 1 .. Len(fate) :
                /\ fate[k] = "pending"
                /\ \A j \in 1 .. k - 1 : fate[j] # "pending"
         i == requests[k].image
     IN  \/ /\ fate'[k] = "done" /\ requests[k].op = "read"
            /\ content' = [content EXCEPT ![i] = nextRead]
            /\ nextRead' = nextRead + 1
            /\ UNCHANGED file
         \/ /\ fate'[k] = "done" /\ requests[k].op = "write"
            /\ file' = [file EXCEPT ![i[1]] = Append(@, content[i])]
            /\ UNCHANGED <<content, nextRead>>
         \/ /\ fate'[k] = "failed" /\ MayFail
            /\ content' = IF requests[k].op = "read"
                          THEN [content EXCEPT ![i] = 0] ELSE content
            /\ UNCHANGED <<nextRead, file>>
         \/ /\ fate'[k] = "dropped"
            /\ UNCHANGED <<content, nextRead, file>>
  /\ UNCHANGED <<main, mainVars, box, workVars, requests, reference, volume,
                 volumeFile>>

Ended ==
  /\ main \in {"returned", "threw", "crashed"}
  /\ UNCHANGED vars

Next ==
  \/ Main
  \/ \E t \in Threads : Worker(t)
  \/ Settle
  \/ Ended

Spec == Init /\ [][Next]_vars

(* The main thread, the workers and the I/O thread are each scheduled; a   *)
(* step of one, once possible, stays possible.                             *)
Fairness ==
  /\ WF_vars(Main)
  /\ \A t \in Threads : WF_vars(Worker(t))
  /\ WF_vars(Settle)

FairSpec == Spec /\ Fairness

-----------------------------------------------------------------------------
(* Properties                                                              *)

Phase == {Phases[k] : k \in DOMAIN Phases}
MainStates ==
  Phase \cup {"create", "firstRequests", "barrier0", "barrier",
              "barrierApplied", "complete", "count", "writeVolume",
              "barrierVolume", "synchronizeEnd", "barrierEnd", "return",
              "unwind", "returned", "threw", "crashed"}
Setups == {"createFilterer", "createBackProjector", "allocateVolume"}
Ops ==
  Setups \cup {"await", "convert", "badPixels", "beamPower", "filter",
               "apply", "writeVolume", "barrier"}
Projections == 0 .. NumberOfProjections
Messages ==
  [op : Ops, from : SUBSET Images, to : SUBSET Images, awaits : SUBSET Images,
   angle : Projections]

TypeOK ==
  /\ job \in Jobs
  /\ main \in MainStates
  /\ p \in 0 .. NumberOfProjections + NumberOfThreads
  /\ pp \in 0 .. NumberOfThreads
  /\ side \in [Kinds -> Sides]
  /\ box \in [Threads -> Seq(Messages)]
  /\ exception \in [Threads -> Ops \cup {"none"}]
  /\ ready \in [Threads -> SUBSET (Setups \cup {"nullVolume"})]
  /\ content \in [Images -> Projections]
  /\ reference \in Projections
  /\ volume \in [Threads -> Seq(Projections \X Projections)]
  /\ requests \in Seq([op : {"read", "write"}, image : Images])
  /\ nextRead \in 1 .. NumberOfProjections + 1
  /\ file \in [Kinds -> Seq(Projections)]
  /\ volumeFile \in Seq(Seq(Projections \X Projections))
  /\ mainFailed \in BOOLEAN
  /\ IO!TypeOK

(* What may be happening at this moment: the message at the head of each   *)
(* box, the I/O that is pending (unless a failure keeps it from being      *)
(* done), and the main thread's use of the first attenuation image.        *)
Uses ==
  {[actor |-> <<"worker", t>>, reads |-> Head(box[t]).from, writes |-> Head(box[t]).to] :
     t \in {u \in Threads : box[u] # <<>>}}
  \cup
  {[actor |-> <<"io">>,
    reads  |-> IF requests[k].op = "write" THEN {requests[k].image} ELSE {},
    writes |-> IF requests[k].op = "read" THEN {requests[k].image} ELSE {}] :
     k \in {j \in 1 .. Len(fate) : fate[j] = "pending" /\ ~IO!Failed}}
  \cup
  (IF main = "reference"
   THEN {[actor |-> <<"main">>, reads |-> {Active("attenuation", 0)},
          writes |-> {}]}
   ELSE {})

(* The double buffers, the barriers and WaitForBufferRelease keep the      *)
(* actors apart: while one may be writing an image no other uses it.       *)
NoClobber ==
  \A a, b \in Uses :
    a.actor # b.actor => a.writes \cap (b.reads \cup b.writes) = {}

AllWell ==
  /\ \A t \in Threads : exception[t] = "none"
  /\ ~IO!Failed
  /\ ~mainFailed

WholeSubvolume == WholeVolume(job, NumberOfProjections)

(* When nothing has failed each subvolume has had the first so many        *)
(* projections, and those written had all of them.                         *)
VolumeIsRight ==
  AllWell =>
    /\ \A t \in Threads :
         volume[t] = SubSeq(WholeSubvolume, 1, Len(volume[t]))
    /\ \A k \in 1 .. Len(volumeFile) : volumeFile[k] = WholeSubvolume

Writes(kind) ==
  {k \in 1 .. Len(requests) :
     requests[k].op = "write" /\ requests[k].image[1] = kind}

LastGroup == ((NumberOfProjections - 1) % ProjectionsPerStep) + 1

(* The write of a projection of one of the last two groups.                *)
LateWrite(k) ==
  LET kind == requests[k].image[1]
  IN  /\ requests[k].op = "write"
      /\ Cardinality({j \in Writes(kind) : j <= k})
           > NumberOfProjections - LastGroup - ProjectionsPerStep

(* The engine returns normally after a failure only if the failure was in  *)
(* writing a projection of the last two groups, in writing the volume, or  *)
(* on a worker that had no projection in the last group: while applying    *)
(* the last projections, or, when it never had one, at any time.  Only the *)
(* latter can crash: a worker that had a projection has been asked for its *)
(* exceptions before it reaches for a volume for which there was no memory.*)
SilentFailures ==
  /\ main = "returned" =>
       /\ ~mainFailed
       /\ \A k \in 1 .. Len(fate) : fate[k] = "failed" => LateWrite(k)
       /\ \A t \in Threads :
            \/ exception[t] \in {"none", "writeVolume"}
            \/ exception[t] = "apply" /\ t >= LastGroup
            \/ t >= ProjectionsPerStep
  /\ main = "crashed" =>
       \E t \in Threads :
         t >= ProjectionsPerStep /\ "nullVolume" \in ready[t]

(* A worker that is to wait for a buffer waits for a request that was      *)
(* issued and not yet released: it cannot wait for ever, nor be let        *)
(* through by what an earlier use of the buffer left behind.               *)
WaitsAreMatched ==
  \A t \in Threads : \A k \in 1 .. Len(box[t]) :
    \A i \in box[t][k].awaits : loan[i] # 0

(* When ExecuteOnThreads is left, normally or not, no worker has anything  *)
(* left to do with the processor and the buffers that it destroys.         *)
NothingOutlives == closed => \A t \in Threads : box[t] = <<>>

(* What AsynchronousIOProcessor demands of those that use it.              *)
ContractsAreKept == WaitsAreMatched /\ NothingOutlives

(* The engine returns or throws, or crashes for want of memory.            *)
Terminates == <>(main \in {"returned", "threw", "crashed"})

(* The engine implements Reconstruction: it may lose the last write it     *)
(* requested, and may be silent about a failure.                           *)
Promise == INSTANCE Reconstruction
  WITH Subvolumes <- NumberOfThreads,
       AtRisk     <- 1,
       Silent     <- TRUE,
       wanted     <- Wanted(job),
       taken      <- nextRead - 1,
       file       <- [k \in {"attenuation", "filtered"} |-> file[k]],
       volumeFile <- [k \in DOMAIN volumeFile |->
                        volumeFile[k] = WholeSubvolume],
       failed     <- ~AllWell,
       outcome    <- IF main \in {"returned", "threw"} THEN main
                     ELSE "running"

KeepsPromise == Promise!Spec

-----------------------------------------------------------------------------
(* What the sources say of the engine, and the code does not do            *)

(* MultiThreadedReconstructionRunner.txx:540: after back-projecting,       *)
(* "check and re-throw exceptions in worker threads".                      *)
ApplyFailuresAreReported ==
  main = "returned" => \A t \in Threads : exception[t] # "apply"
=============================================================================
