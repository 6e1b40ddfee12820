-------------------------- MODULE MultiThreadedProofs --------------------------
(***************************************************************************)
(* The control of MultiThreadedReconstructionRunner and how it shares its  *)
(* buffers, for every job and every number of threads and projections:     *)
(* where the main thread can be, and what the workers can have in their    *)
(* boxes meanwhile; then, that the workers, the I/O thread and main never  *)
(* use an image together, and that what the workers wait for is always on  *)
(* loan.  The other proofs about the engine rest on it.                    *)
(***************************************************************************)
EXTENDS MultiThreadedReconstructionRunner, SequenceTheorems, TLAPS

USE NumberOfThreadsAssumption, NumberOfProjectionsAssumption

(* The messages that read and write images.                                *)
Transforms == {"convert", "badPixels", "beamPower", "filter"}

(* What the control of the engine rests on: the types of everything but    *)
(* the data.                                                               *)
Types ==
  /\ job \in AllowedJobs
  /\ main \in MainStates
  /\ p \in Nat
  /\ pp \in Nat
  /\ side \in [Kinds -> Sides]
  /\ box \in [Threads -> Seq(Messages)]
  /\ requests \in Seq([op : {"read", "write"}, image : Images])
  /\ fate \in Seq(IO!Fates)
  /\ loan \in [Images -> Nat]
  /\ closed \in BOOLEAN

(* Parts of a turn: what has been done already.                            *)
Late  == {"apply", "synchronizeApplied", "barrierApplied", "checkApplied", "next"}
WroteAttenuation == Late \cup {"writeFiltered"}
Checked == WroteAttenuation \cup {"writeAttenuation"}
HasFiltered == Checked \cup {"filter", "synchronize", "barrier", "check"}
HasRequested == HasFiltered \cup {"convert", "synchronize0", "barrier0", "reference", "correct", "swapFiltered"}
HasInput == HasRequested \cup {"request"}
HasAttenuation == HasInput \cup {"swapInput"}
Turn == HasAttenuation \cup {"swapAttenuation"}

(* While the workers may be filtering the group, while they may be         *)
(* applying it, and while they have nothing to do.                         *)
Filling == Turn \ (Checked \cup {"reference", "check"})
Applying == {"synchronizeApplied", "barrierApplied", "crashed"}
Idle == MainStates \ (Filling \cup Applying \cup {"firstRequests", "barrierVolume", "barrierEnd"})

(* The next phase that the job asks for, from each phase on.               *)
FromFilter == IF Filters(job) THEN "filter" ELSE "synchronize"
FromSwap == IF job.filteredWriter THEN "swapFiltered" ELSE FromFilter
FromCorrect == IF job.beamPower THEN "correct" ELSE FromSwap
FromSynchronize0 == IF job.beamPower /\ p = 0 THEN "synchronize0" ELSE FromCorrect
FromConvert == IF job.source = "raw" THEN "convert" ELSE FromSynchronize0
FromApply == IF job.volumeWriter THEN "apply" ELSE "next"
FromWrite == IF job.filteredWriter THEN "writeFiltered" ELSE FromApply
FromCheck == IF job.attenuationWriter THEN "writeAttenuation" ELSE FromWrite

(* What After comes to: the order of the phases.                           *)
LEMMA PhaseOrder ==
  /\ After("swapAttenuation") = "swapInput"
  /\ After("request") = FromConvert
  /\ After("convert") = FromSynchronize0
  /\ After("reference") = FromCorrect
  /\ After("correct") = FromSwap
  /\ After("swapFiltered") = FromFilter
  /\ After("filter") = "synchronize"
  /\ After("check") = FromCheck
  /\ After("writeAttenuation") = FromWrite
  /\ After("writeFiltered") = FromApply
  /\ job.volumeWriter => After("apply") = "synchronizeApplied"
  /\ After("checkApplied") = "next"
<1>1. After("swapAttenuation") = "swapInput"
  BY DEF After, Phases, Asked
<1>2. After("request") = FromConvert
  BY DEF After, Phases, Asked, FromConvert, FromSynchronize0, FromCorrect, FromSwap,
     FromFilter
<1>3. After("convert") = FromSynchronize0
  BY DEF After, Phases, Asked, FromSynchronize0, FromCorrect, FromSwap, FromFilter
<1>4. After("reference") = FromCorrect
  BY DEF After, Phases, Asked, FromCorrect, FromSwap, FromFilter
<1>5. After("correct") = FromSwap
  BY DEF After, Phases, Asked, FromSwap, FromFilter
<1>6. After("swapFiltered") = FromFilter
  BY DEF After, Phases, Asked, FromFilter
<1>7. After("filter") = "synchronize"
  BY DEF After, Phases, Asked
<1>8. After("check") = FromCheck
  BY DEF After, Phases, Asked, FromCheck, FromWrite, FromApply
<1>9. After("writeAttenuation") = FromWrite
  BY DEF After, Phases, Asked, FromWrite, FromApply
<1>10. After("writeFiltered") = FromApply
  BY DEF After, Phases, Asked, FromApply
<1>11. job.volumeWriter => After("apply") = "synchronizeApplied"
  BY DEF After, Phases, Asked
<1>12. After("checkApplied") = "next"
  BY DEF After, Phases, Asked
<1> QED BY <1>1, <1>2, <1>3, <1>4, <1>5, <1>6, <1>7, <1>8, <1>9, <1>10, <1>11, <1>12

(* The kinds that are written to a file.                                   *)
Output(kind) ==
  \/ kind = "attenuation" /\ job.attenuationWriter
  \/ kind = "filtered" /\ job.filteredWriter

(* Whether the buffers of a kind have been swapped in this turn, whether a *)
(* worker may have been told to use the group's buffers of the kind, and   *)
(* whether they may be being written to the file.                          *)
Swapped(kind) ==
  main \in (IF kind = job.source THEN HasInput
            ELSE IF kind = "attenuation" THEN HasAttenuation ELSE HasFiltered)
Told(kind) ==
  main \in (IF kind = job.source THEN HasRequested
            ELSE IF kind = "attenuation" THEN HasAttenuation ELSE HasFiltered)
Writing(kind) == main \in (IF kind = "attenuation" THEN Checked ELSE WroteAttenuation)

(* Where main can be: only in phases the job asks for, with a group left   *)
(* to do, and with a loop index that fits.                                 *)
Scheduled ==
  /\ main \in {"swapAttenuation", "writeAttenuation"} => job.attenuationWriter
  /\ main = "convert" => job.source = "raw"
  /\ main \in {"synchronize0", "barrier0", "reference"} => job.beamPower /\ p = 0
  /\ main = "correct" => job.beamPower
  /\ main \in {"swapFiltered", "writeFiltered"} => job.filteredWriter
  /\ main = "filter" => Filters(job)
  /\ main \in {"apply", "synchronizeApplied", "barrierApplied", "checkApplied"} => job.volumeWriter
  /\ main \in Turn => p < NumberOfProjections
  /\ main \in {"create", "firstRequests"} => p = 0
  /\ main \notin {"firstRequests", "request", "writeAttenuation", "writeFiltered",
                  "writeVolume", "barrierVolume", "crashed"} => pp \in {0, NumberOfThreads}
  /\ main \in Turn \ {"request", "writeAttenuation", "writeFiltered"} => pp = 0
  /\ main \in {"create", "complete", "count"} => pp = 0
  /\ main \in {"firstRequests", "request"} => pp <= ProjectionsPerStep
  /\ main \in {"writeAttenuation", "writeFiltered"} => pp <= ProjectionsThisStep
  /\ main \in {"writeVolume", "barrierVolume"} => pp < NumberOfThreads
  /\ closed <=> main \in {"returned", "threw"}

(* A message of worker t may be in its box, at place j, only at the time   *)
(* it is sent for, and it uses only the active buffers of the worker's own *)
(* slot, of a kind that main has told the workers of.                      *)
Fits(t, j, m) ==
  /\ m.op \in Setups => p = 0 /\ main \in Filling \cup {"firstRequests"}
  /\ m.op \in Setups \cup {"barrier", "writeVolume"} => m.from = {} /\ m.to = {} /\ m.awaits = {}
  /\ m.op = "barrier" => main \in {"barrier0", "barrier", "barrierApplied", "barrierEnd", "barrierVolume", "crashed"} /\ j = Len(box[t])
  /\ m.op = "writeVolume" => main \in {"barrierVolume", "crashed"}
  /\ m.op = "await" =>
       /\ main \in Filling /\ m.from = {} /\ m.to = {}
       /\ \E kind \in Kinds : m.awaits = {Active(kind, t)} /\ Told(kind)
  /\ m.op \in Transforms =>
       /\ main \in Filling /\ m.awaits = {}
       /\ \A i \in m.from \cup m.to : \E kind \in Kinds : i = Active(kind, t) /\ Told(kind)
  /\ m.op = "apply" =>
       /\ main \in Applying /\ m.to = {} /\ m.awaits = {}

(* Every message fits, and between the stages of a turn the boxes are      *)
(* empty.                                                                  *)
Boxes ==
  /\ \A t \in Threads : \A j \in 1 .. Len(box[t]) : Fits(t, j, box[t][j])
  /\ main \in Idle => \A t \in Threads : box[t] = <<>>
  /\ main = "barrierVolume" => \A t \in Threads \ {pp} : box[t] = <<>>

(* What any step of a worker does to main, to the I/O and to its box.      *)
LEMMA WorkerStep ==
  ASSUME NEW t \in Threads, Worker(t)
  PROVE  /\ box[t] # <<>>
         /\ UNCHANGED <<mainVars, requests, fate, closed>>
         /\ \/ /\ main' = "crashed"
               /\ Head(box[t]).op \in {"apply", "writeVolume"}
               /\ UNCHANGED <<box, loan>>
            \/ /\ main' = main
               /\ box' = [box EXCEPT ![t] = Tail(box[t])]
               /\ \/ /\ UNCHANGED loan
                     /\ Head(box[t]).op = "await" => IO!Failed \/ Head(box[t]).from # {}
                  \/ /\ ~closed
                     /\ \E i \in Head(box[t]).awaits :
                          /\ loan[i] # 0
                          /\ fate[loan[i]] # "pending"
                          /\ loan' = [loan EXCEPT ![i] = 0]
<1>1. CASE Setup(t)
  BY <1>1 DEF Setup, Finish, Throw, Done, mainVars, ioVars, dataVars
<1>2. CASE AllocateNothing(t)
  BY <1>2 DEF AllocateNothing, Done, mainVars, ioVars, dataVars
<1>3. CASE AwaitBuffer(t)
  BY <1>3 DEF AwaitBuffer, Finish, Throw, Done, mainVars, ioVars, dataVars, IO!Release
<1>4. CASE TransformImage(t)
  BY <1>4 DEF TransformImage, Finish, Throw, Done, mainVars, ioVars
<1>5. CASE ApplyProjection(t)
  BY <1>5 DEF ApplyProjection, Finish, Throw, Done, mainVars, ioVars
<1>6. CASE WriteVolumeData(t)
  BY <1>6 DEF WriteVolumeData, Finish, Throw, Done, mainVars, ioVars
<1>7. CASE Crash(t)
  BY <1>7 DEF Crash, mainVars, ioVars
<1> QED BY <1>1, <1>2, <1>3, <1>4, <1>5, <1>6, <1>7 DEF Worker

(* What a step of the I/O thread does to the requests.                     *)
LEMMA SettleStep ==
  ASSUME Types, Settle
  PROVE  /\ UNCHANGED <<main, mainVars, box, requests, loan, closed>>
         /\ ~closed
         /\ \E k \in 1 .. Len(fate), f \in {"done", "failed", "dropped"} :
              /\ fate[k] = "pending"
              /\ \A j \in 1 .. k - 1 : fate[j] # "pending"
              /\ f = "dropped" <=> IO!Failed
              /\ fate' = [fate EXCEPT ![k] = f]
  BY DEF Settle, IO!Settle, Types, mainVars

(* The sizes of groups.                                                    *)
LEMMA Sizes ==
  ASSUME Types
  PROVE  /\ ProjectionsPerStep \in 1 .. NumberOfThreads
         /\ ProjectionsPerStep <= NumberOfProjections
         /\ ProjectionsThisStep \in Int
         /\ ProjectionsNextStep \in Int
         /\ ProjectionsNextStep <= ProjectionsPerStep
         /\ p < NumberOfProjections =>
              /\ ProjectionsThisStep \in 1 .. ProjectionsPerStep
              /\ ProjectionsNextStep <= ProjectionsThisStep
              /\ ProjectionsNextStep > 0 => ProjectionsThisStep = ProjectionsPerStep
         /\ p = 0 => ProjectionsThisStep = ProjectionsPerStep
  BY DEF Types, ProjectionsPerStep, ProjectionsThisStep, ProjectionsNextStep, Lesser,
     AllowedJobs

(* The messages that main sends are messages.                              *)
LEMMA MessageTypes ==
  ASSUME Types
  PROVE  /\ \A op \in Ops : Plain(op) \in Messages
         /\ \A i \in Images : Await(i) \in Messages
         /\ \A i, j \in Images : \A op \in Ops : Transform(op, i, j) \in Messages
         /\ \A i \in Images : \A k \in Projections : Apply(i, k) \in Messages
         /\ \A kind \in Kinds, t \in Threads :
              Active(kind, t) \in Images /\ Loading(kind, t) \in Images
<1>1. \A op \in Ops : Plain(op) \in Messages
  BY DEF Plain, Message, Messages, Projections
<1>2. \A i \in Images : Await(i) \in Messages
  BY DEF Await, Message, Messages, Projections, Ops
<1>3. \A i, j \in Images : \A op \in Ops : Transform(op, i, j) \in Messages
  BY DEF Transform, Message, Messages, Projections, Ops
<1>4. \A i \in Images : \A k \in Projections : Apply(i, k) \in Messages
  BY DEF Apply, Message, Messages, Projections, Ops
<1>5. \A kind \in Kinds, t \in Threads :
              Active(kind, t) \in Images /\ Loading(kind, t) \in Images
  BY DEF Active, Loading, Other, Images, Types, Sides
<1> QED BY <1>1, <1>2, <1>3, <1>4, <1>5

(* What a loop of SetMessage does to the boxes.                            *)
LEMMA Sending ==
  ASSUME Types, NEW n, NEW m \in [Threads -> Messages],
         box' = [t \in Threads |-> IF t < n THEN Append(box[t], m[t]) ELSE box[t]]
  PROVE  /\ box' \in [Threads -> Seq(Messages)]
         /\ \A t \in Threads :
              IF t < n
              THEN /\ Len(box'[t]) = Len(box[t]) + 1
                   /\ \A j \in 1 .. Len(box[t]) : box'[t][j] = box[t][j]
                   /\ box'[t][Len(box[t]) + 1] = m[t]
              ELSE box'[t] = box[t]
  BY AppendProperties DEF Types

(* What a worker finds at the head of its box, and leaves in it.           *)
LEMMA Taking ==
  ASSUME Types, NEW t \in Threads, box[t] # <<>>
  PROVE  /\ Len(box[t]) \in Nat \ {0}
         /\ Head(box[t]) = box[t][1]
         /\ Tail(box[t]) \in Seq(Messages)
         /\ Len(Tail(box[t])) = Len(box[t]) - 1
         /\ \A j \in 1 .. Len(box[t]) - 1 : Tail(box[t])[j] = box[t][j + 1]
<1>1. box[t] \in Seq(Messages)
  BY DEF Types
<1> QED BY <1>1, HeadTailProperties, LenProperties, EmptySeq

(* The workers of the group have been told to wait for the buffers of a    *)
(* kind.                                                                   *)
AwaitsSent(kind) ==
  /\ box' \in [Threads -> Seq(Messages)]
  /\ \A t \in Threads :
       IF t < ProjectionsThisStep
       THEN /\ Len(box'[t]) = Len(box[t]) + 1
            /\ \A j \in 1 .. Len(box[t]) : box'[t][j] = box[t][j]
            /\ box'[t][Len(box[t]) + 1] = Await(Active(kind, t))'
       ELSE box'[t] = box[t]

(* What swapping an output's buffers does.                                 *)
LEMMA SwapStep ==
  ASSUME Types, Scheduled, NEW kind \in Kinds, SwapOutput(kind), job' = job
  PROVE  /\ side' = [side EXCEPT ![kind] = Other(side[kind])]
         /\ side' \in [Kinds -> Sides]
         /\ \/ p > ProjectionsPerStep /\ AwaitsSent(kind)
            \/ p <= ProjectionsPerStep /\ box' = box
<1>1. side' = [side EXCEPT ![kind] = Other(side[kind])]
  BY DEF SwapOutput, Swap
<1>2. side' \in [Kinds -> Sides]
  BY <1>1 DEF Types, Other, Sides
<1>3. p <= ProjectionsPerStep \/ p > ProjectionsPerStep
  BY Sizes DEF Types
<1>4. CASE p <= ProjectionsPerStep
  BY <1>1, <1>2, <1>4, Sizes DEF SwapOutput, Types
<1>5. CASE p > ProjectionsPerStep
  <2> DEFINE m == [t \in Threads |-> Await(<<kind, t, side'[kind]>>)]
  <2>1. m \in [Threads -> Messages]
    <3>1. \A t \in Threads : <<kind, t, side'[kind]>> \in Images
      BY <1>2 DEF Images
    <3> QED BY <3>1, MessageTypes
  <2>2. box' = [t \in Threads |-> IF t < ProjectionsThisStep THEN Append(box[t], m[t]) ELSE box[t]]
    BY <1>5 DEF SwapOutput, Send
  <2>3. \A t \in Threads : m[t] = Await(Active(kind, t))'
    BY DEF Active, Await, Message
  <2> HIDE DEF m
  <2>4. AwaitsSent(kind)
    BY <2>1, <2>2, <2>3, Sending DEF AwaitsSent
  <2> QED BY <1>1, <1>2, <1>5, <2>4
<1> QED BY <1>3, <1>4, <1>5

(* What the end of the loop of read requests does.                         *)
LEMMA RequestedAllStep ==
  ASSUME Types, Send(ProjectionsThisStep, LAMBDA k : Await(Active(job.source, k))),
         job' = job, side' = side
  PROVE  AwaitsSent(job.source)
<1> DEFINE m == [t \in Threads |-> Await(Active(job.source, t))]
<1>0. job.source \in Kinds
  BY DEF Types, AllowedJobs
<1>1. m \in [Threads -> Messages]
  BY <1>0, MessageTypes
<1>2. box' = [t \in Threads |-> IF t < ProjectionsThisStep THEN Append(box[t], m[t]) ELSE box[t]]
  BY DEF Send
<1>3. \A t \in Threads : m[t] = Await(Active(job.source, t))'
  BY DEF Active, Await, Message
<1> HIDE DEF m
<1> QED BY <1>1, <1>2, <1>3, Sending DEF AwaitsSent

(* The messages of worker t stay where they are.                           *)
Keeps(t) ==
  /\ Len(box[t]) <= Len(box'[t])
  /\ \A j \in 1 .. Len(box[t]) : box'[t][j] = box[t][j]

(* The workers of the group have been sent messages that transform images  *)
(* of these kinds.                                                         *)
TransformsSent(kinds) ==
  /\ box' \in [Threads -> Seq(Messages)]
  /\ \A t \in Threads :
       /\ Keeps(t)
       /\ \A j \in Len(box[t]) + 1 .. Len(box'[t]) :
            /\ t < ProjectionsThisStep
            /\ box'[t][j].op \in Transforms
            /\ box'[t][j].awaits = {}
            /\ \A i \in box'[t][j].from \cup box'[t][j].to :
                 \E kind \in kinds : i = Active(kind, t)

(* Two messages sent in a row.                                             *)
LEMMA AppendedTwo ==
  ASSUME NEW b \in Seq(Messages), NEW x \in Messages, NEW y \in Messages
  PROVE  /\ b \o <<x, y>> \in Seq(Messages)
         /\ Len(b \o <<x, y>>) = Len(b) + 2
         /\ \A j \in 1 .. Len(b) : (b \o <<x, y>>)[j] = b[j]
         /\ (b \o <<x, y>>)[Len(b) + 1] = x
         /\ (b \o <<x, y>>)[Len(b) + 2] = y
<1>1. <<x, y>> \in Seq(Messages) /\ Len(<<x, y>>) = 2 /\ <<x, y>>[1] = x /\ <<x, y>>[2] = y
  OBVIOUS
<1>2. Len(b) \in Nat
  BY LenProperties
<1> HIDE DEF Messages
<1> QED BY <1>1, <1>2, ConcatProperties

(* The three transformations.                                              *)
LEMMA FilterStep ==
  ASSUME Types, Filter
  PROVE  TransformsSent({"attenuation", "filtered"})
<1> DEFINE m == [t \in Threads |-> Transform("filter", Active("attenuation", t), Active("filtered", t))]
<1>1. m \in [Threads -> Messages]
  BY MessageTypes DEF Kinds, Ops
<1>2. box' = [t \in Threads |-> IF t < ProjectionsThisStep THEN Append(box[t], m[t]) ELSE box[t]]
  BY DEF Send, Filter
<1>3. \A t \in Threads : m[t].op \in Transforms /\ m[t].awaits = {} /\
        m[t].from = {Active("attenuation", t)} /\ m[t].to = {Active("filtered", t)}
  BY DEF Transforms, Transform, Message
<1> HIDE DEF m
<1>4. \A t \in Threads : Len(box[t]) \in Nat
  BY LenProperties DEF Types
<1>5. /\ box' \in [Threads -> Seq(Messages)]
      /\ \A t \in Threads :
           IF t < ProjectionsThisStep
           THEN /\ Len(box'[t]) = Len(box[t]) + 1
                /\ \A j \in 1 .. Len(box[t]) : box'[t][j] = box[t][j]
                /\ box'[t][Len(box[t]) + 1] = m[t]
           ELSE box'[t] = box[t]
  BY <1>1, <1>2, Sending
<1>6. ASSUME NEW t \in Threads
      PROVE  Keeps(t)
  BY <1>4, <1>5, <1>6 DEF Keeps
<1>7. ASSUME NEW t \in Threads, NEW j \in Len(box[t]) + 1 .. Len(box'[t])
      PROVE  t < ProjectionsThisStep /\ box'[t][j] = m[t]
  BY <1>4, <1>5, <1>7
<1> QED BY <1>3, <1>5, <1>6, <1>7 DEF TransformsSent

LEMMA CorrectStep ==
  ASSUME Types, CorrectBeamPower
  PROVE  TransformsSent({"attenuation"})
<1> DEFINE m == [t \in Threads |-> Transform("beamPower", Active("attenuation", t), Active("attenuation", t))]
<1>1. m \in [Threads -> Messages]
  BY MessageTypes DEF Kinds, Ops
<1>2. box' = [t \in Threads |-> IF t < ProjectionsThisStep THEN Append(box[t], m[t]) ELSE box[t]]
  BY DEF Send, CorrectBeamPower
<1>3. \A t \in Threads : m[t].op \in Transforms /\ m[t].awaits = {} /\
        m[t].from = {Active("attenuation", t)} /\ m[t].to = {Active("attenuation", t)}
  BY DEF Transforms, Transform, Message
<1> HIDE DEF m
<1>4. \A t \in Threads : Len(box[t]) \in Nat
  BY LenProperties DEF Types
<1>5. /\ box' \in [Threads -> Seq(Messages)]
      /\ \A t \in Threads :
           IF t < ProjectionsThisStep
           THEN /\ Len(box'[t]) = Len(box[t]) + 1
                /\ \A j \in 1 .. Len(box[t]) : box'[t][j] = box[t][j]
                /\ box'[t][Len(box[t]) + 1] = m[t]
           ELSE box'[t] = box[t]
  BY <1>1, <1>2, Sending
<1>6. ASSUME NEW t \in Threads
      PROVE  Keeps(t)
  BY <1>4, <1>5, <1>6 DEF Keeps
<1>7. ASSUME NEW t \in Threads, NEW j \in Len(box[t]) + 1 .. Len(box'[t])
      PROVE  t < ProjectionsThisStep /\ box'[t][j] = m[t]
  BY <1>4, <1>5, <1>7
<1> QED BY <1>3, <1>5, <1>6, <1>7 DEF TransformsSent

LEMMA ConvertStep ==
  ASSUME Types, Convert
  PROVE  TransformsSent({"raw", "attenuation"})
<1> DEFINE x(t) == Transform("convert", Active("raw", t), Active("attenuation", t))
           y(t) == Transform("badPixels", Active("attenuation", t), Active("attenuation", t))
           New(t, m) == /\ m.op \in Transforms
                        /\ m.awaits = {}
                        /\ \A i \in m.from \cup m.to :
                             \E kind \in {"raw", "attenuation"} : i = Active(kind, t)
<1>1. \A t \in Threads : box[t] \in Seq(Messages) /\ Len(box[t]) \in Nat
  BY LenProperties DEF Types
<1>2. ASSUME NEW t \in Threads
      PROVE  x(t) \in Messages /\ y(t) \in Messages
  BY <1>2, MessageTypes DEF Kinds, Ops
<1>3. ASSUME NEW t \in Threads
      PROVE  New(t, x(t)) /\ New(t, y(t))
  BY <1>3 DEF Transforms, Transform, Message
<1>4. ASSUME NEW t \in Threads
      PROVE  box'[t] = IF t >= ProjectionsThisStep THEN box[t]
                       ELSE IF job.badPixels THEN box[t] \o <<x(t), y(t)>>
                       ELSE Append(box[t], x(t))
  BY <1>4 DEF Convert
<1>5. box' = [t \in Threads |-> box'[t]]
  BY DEF Convert
<1>6. ProjectionsThisStep \in Int
  BY DEF ProjectionsThisStep, ProjectionsPerStep, Lesser, Types
<1> HIDE DEF x, y, New
<1>7. ASSUME NEW t \in Threads
      PROVE  /\ box'[t] \in Seq(Messages)
             /\ Keeps(t)
             /\ \A j \in Len(box[t]) + 1 .. Len(box'[t]) :
                  t < ProjectionsThisStep /\ New(t, box'[t][j])
  <2>1. CASE t >= ProjectionsThisStep
    <3>1. box'[t] = box[t]
      BY <2>1, <1>4
    <3> QED BY <3>1, <1>1 DEF Keeps
  <2>2. CASE ~(t >= ProjectionsThisStep) /\ job.badPixels
    <3>1. box'[t] = box[t] \o <<x(t), y(t)>>
      BY <1>4, <2>2
    <3>2. /\ box'[t] \in Seq(Messages)
          /\ Len(box'[t]) = Len(box[t]) + 2
          /\ \A j \in 1 .. Len(box[t]) : box'[t][j] = box[t][j]
          /\ box'[t][Len(box[t]) + 1] = x(t)
          /\ box'[t][Len(box[t]) + 2] = y(t)
      BY <3>1, <1>1, <1>2, AppendedTwo
    <3> QED BY <3>2, <2>2, <1>1, <1>3, <1>6 DEF Keeps, Threads
  <2>3. CASE ~(t >= ProjectionsThisStep) /\ ~job.badPixels
    <3>1. box'[t] = Append(box[t], x(t))
      BY <1>4, <2>3
    <3>2. /\ box'[t] \in Seq(Messages)
          /\ Len(box'[t]) = Len(box[t]) + 1
          /\ \A j \in 1 .. Len(box[t]) : box'[t][j] = box[t][j]
          /\ box'[t][Len(box[t]) + 1] = x(t)
      BY <3>1, <1>1, <1>2, AppendProperties
    <3> QED BY <3>2, <2>3, <1>1, <1>3, <1>6 DEF Keeps, Threads
  <2> QED BY <2>1, <2>2, <2>3
<1>8. box' \in [Threads -> Seq(Messages)]
  BY <1>5, <1>7
<1> QED BY <1>7, <1>8 DEF TransformsSent, New

(* The boxes hold the messages that set up the workers.                    *)
SetupsSent ==
  /\ box' \in [Threads -> Seq(Messages)]
  /\ \A t \in Threads : \A j \in 1 .. Len(box'[t]) :
       \E op \in Setups : box'[t][j] = Plain(op)

(* What the first step of main sends.                                      *)
LEMMA CreateStep ==
  ASSUME Types, Create
  PROVE  SetupsSent
<1> DEFINE a == IF Filters(job) THEN <<Plain("createFilterer")>> ELSE <<>>
           b == IF job.volumeWriter
                THEN <<Plain("createBackProjector"), Plain("allocateVolume")>>
                ELSE <<>>
           Setup0 == {Plain(op) : op \in Setups}
<1>1. a \in Seq(Setup0) /\ b \in Seq(Setup0)
  <2>1. {Plain("createFilterer"), Plain("createBackProjector"), Plain("allocateVolume")} \subseteq Setup0
    BY DEF Setups
  <2> HIDE DEF Setup0
  <2> QED BY <2>1
<1>2. Setup0 \subseteq Messages
  BY MessageTypes DEF Ops
<1>3. box' = [t \in Threads |-> a \o b]
  BY DEF Create
<1> HIDE DEF a, b, Setup0
<1>4. a \o b \in Seq(Setup0)
  BY <1>1, ConcatProperties
<1>5. a \o b \in Seq(Messages)
  BY <1>2, <1>4, SeqMonotonic
<1>6. \A j \in 1 .. Len(a \o b) : (a \o b)[j] \in Setup0
  BY <1>4, ElementOfSeq
<1> QED BY <1>3, <1>5, <1>6 DEF SetupsSent, Setup0

(* Every worker has been sent a barrier message.                           *)
BarriersSent ==
  /\ box' \in [Threads -> Seq(Messages)]
  /\ \A t \in Threads :
       /\ Len(box'[t]) = Len(box[t]) + 1
       /\ \A j \in 1 .. Len(box[t]) : box'[t][j] = box[t][j]
       /\ box'[t][Len(box[t]) + 1] = Plain("barrier")

(* What SynchronizeAllAndWait sends.                                       *)
LEMMA SynchronizeStep ==
  ASSUME Types, Synchronize
  PROVE  BarriersSent
<1> DEFINE m == [t \in Threads |-> Plain("barrier")]
<1>1. m \in [Threads -> Messages]
  BY MessageTypes DEF Ops
<1>2. box' = [t \in Threads |-> IF t < NumberOfThreads THEN Append(box[t], m[t]) ELSE box[t]]
  BY DEF Send, Synchronize
<1>3. \A t \in Threads : m[t] = Plain("barrier") /\ t < NumberOfThreads
  BY DEF Threads
<1> HIDE DEF m
<1> QED BY <1>1, <1>2, <1>3, Sending DEF BarriersSent

(* How many of the group's projections are back-projected.                 *)
Applicable ==
  IF job.atBothLimits /\ p + ProjectionsThisStep = NumberOfProjections
  THEN ProjectionsThisStep - 1 ELSE ProjectionsThisStep

(* The boxes hold the group's projections to be applied.                   *)
AppliesSent ==
  /\ box' \in [Threads -> Seq(Messages)]
  /\ \A t \in Threads :
       /\ Len(box'[t]) = Applicable
       /\ Len(box'[t]) <= ProjectionsThisStep
       /\ \A j \in 1 .. Len(box'[t]) :
            box'[t][j] = Apply(Active("filtered", j - 1), p + j)

(* What ApplyProjections sends.                                            *)
LEMMA ApplyStep ==
  ASSUME Types, Scheduled, Boxes, ApplyProjections
  PROVE  AppliesSent
<1> DEFINE count == Applicable
           e(k) == Apply(Active("filtered", k - 1), p + k)
           applied == [k \in 1 .. count |-> e(k)]
<1>1. p < NumberOfProjections /\ main = "apply"
  BY DEF ApplyProjections, Scheduled, Turn, HasAttenuation, HasInput, HasRequested,
     HasFiltered, Checked, WroteAttenuation, Late
<1>2. count \in Nat /\ count <= ProjectionsThisStep /\ ProjectionsThisStep \in Nat /\ ProjectionsThisStep <= NumberOfThreads
      /\ p + count <= NumberOfProjections
  BY <1>1, Sizes DEF Types, Applicable, ProjectionsThisStep, Lesser
<1>3. \A k \in 1 .. count : e(k) \in Messages
  <2> SUFFICES ASSUME NEW k \in 1 .. count PROVE e(k) \in Messages
    OBVIOUS
  <2> HIDE DEF count
  <2>1. k - 1 \in Threads /\ p + k \in Projections
    BY <1>2 DEF Threads, Projections, Types
  <2> QED BY <2>1, MessageTypes DEF Kinds, e
<1>4. box' = [t \in Threads |-> box[t] \o applied]
  BY DEF ApplyProjections, Applicable
<1>5. \A t \in Threads : box[t] = <<>>
  BY <1>1 DEF Boxes, Idle, MainStates, Phase, Phases, Filling, Applying, Checked,
     WroteAttenuation, Late
<1> HIDE DEF count, e
<1>6. applied \in Seq(Messages)
  BY <1>2, <1>3, IsASeq
<1>7. Len(applied) = count /\ \A j \in 1 .. count : applied[j] = e(j)
  BY <1>2, <1>6
<1> HIDE DEF applied
<1>8. \A t \in Threads : box'[t] = applied
  BY <1>4, <1>5, <1>6, ConcatEmptySeq
<1>9. box' \in [Threads -> Seq(Messages)]
  BY <1>4, <1>6, <1>8
<1> QED BY <1>2, <1>7, <1>8, <1>9 DEF AppliesSent, e, count

(* What the worker whose turn it is to write its subvolume is sent.        *)
LEMMA WriteVolumeStep ==
  ASSUME Types, Boxes, WriteVolume
  PROVE  /\ box' \in [Threads -> Seq(Messages)]
         /\ pp \in Threads
         /\ \A t \in Threads \ {pp} : box'[t] = <<>>
         /\ Len(box'[pp]) = 2
         /\ box'[pp][1] = Plain("writeVolume")
         /\ box'[pp][2] = Plain("barrier")
<1>1. \A t \in Threads : box[t] = <<>>
  BY DEF WriteVolume, Boxes, Idle, MainStates, Phase, Phases, Filling, Applying, Turn,
     HasAttenuation, HasInput, HasRequested, HasFiltered, Checked, WroteAttenuation,
     Late
<1>2. pp \in Threads
  BY DEF WriteVolume, Types, Threads
<1>3. Plain("writeVolume") \in Messages /\ Plain("barrier") \in Messages
  BY MessageTypes DEF Ops
<1>4. box' = [box EXCEPT ![pp] = box[pp] \o <<Plain("writeVolume"), Plain("barrier")>>]
  BY DEF WriteVolume
<1>5. Len(<<>>) = 0 /\ <<>> \in Seq(Messages)
  OBVIOUS
<1> QED BY <1>1, <1>2, <1>3, <1>4, <1>5, AppendedTwo DEF Types

-----------------------------------------------------------------------------

(* The control of the engine, an inductive invariant.                      *)
Control == Types /\ Scheduled /\ Boxes

USE DEF Late, WroteAttenuation, Checked, HasFiltered, HasRequested, HasInput,
        HasAttenuation, Turn

(* All the places main can be.                                             *)
LEMMA States ==
  MainStates = Turn \cup {"create", "firstRequests", "complete", "count",
     "writeVolume", "barrierVolume", "synchronizeEnd", "barrierEnd", "return",
     "unwind", "returned", "threw", "crashed"}
<1>1. Phase = {"swapAttenuation", "swapInput", "request", "convert", "synchronize0",
    "reference", "correct", "swapFiltered", "filter", "synchronize", "check",
    "writeAttenuation", "writeFiltered", "apply", "synchronizeApplied",
    "checkApplied", "next"}
  <2>1. Phase \subseteq {"swapAttenuation", "swapInput", "request", "convert", "synchronize0",
    "reference", "correct", "swapFiltered", "filter", "synchronize", "check",
    "writeAttenuation", "writeFiltered", "apply", "synchronizeApplied",
    "checkApplied", "next"}
    BY DEF Phase, Phases
  <2>2. /\ DOMAIN Phases = 1 .. 17
        /\ Phases[1] = "swapAttenuation" /\ Phases[2] = "swapInput" /\ Phases[3] = "request"
        /\ Phases[4] = "convert" /\ Phases[5] = "synchronize0" /\ Phases[6] = "reference"
        /\ Phases[7] = "correct" /\ Phases[8] = "swapFiltered" /\ Phases[9] = "filter"
        /\ Phases[10] = "synchronize" /\ Phases[11] = "check" /\ Phases[12] = "writeAttenuation"
        /\ Phases[13] = "writeFiltered" /\ Phases[14] = "apply" /\ Phases[15] = "synchronizeApplied"
        /\ Phases[16] = "checkApplied" /\ Phases[17] = "next"
    BY DEF Phases
  <2>3. \A k \in 1 .. 17 : Phases[k] \in Phase
    BY <2>2 DEF Phase
  <2>4. {"swapAttenuation", "swapInput", "request", "convert", "synchronize0",
    "reference", "correct", "swapFiltered", "filter", "synchronize", "check",
    "writeAttenuation", "writeFiltered", "apply", "synchronizeApplied",
    "checkApplied", "next"} \subseteq Phase
    BY <2>2, <2>3
  <2> QED BY <2>1, <2>4
<1> QED BY <1>1 DEF MainStates

(* A message that fits goes on fitting while the group is being filtered.  *)
LEMMA Forward ==
  ASSUME main \in Filling \ {"barrier0", "barrier"}, main' \in Filling,
         job' = job, p' = p,
         \A kind \in Kinds : Told(kind) => Told(kind)' /\ side'[kind] = side[kind],
         NEW t, NEW i, NEW j, NEW m, Fits(t, i, m)
  PROVE  Fits(t, j, m)'
<1>1. m.op # "barrier" /\ m.op # "writeVolume" /\ m.op # "apply"
  BY DEF Fits, Filling, Applying
<1>2. \A kind \in Kinds : Told(kind) => Told(kind)' /\ Active(kind, t)' = Active(kind, t)
  BY DEF Active
<1> HIDE DEF Filling, Told, Active, Setups, Transforms
<1> QED BY <1>1, <1>2 DEF Fits

(* The sizes of groups depend only on the job and the place in the file.   *)
LEMMA SameSizes ==
  ASSUME job' = job
  PROVE  /\ ProjectionsPerStep' = ProjectionsPerStep
         /\ p' = p => /\ ProjectionsThisStep' = ProjectionsThisStep
                      /\ ProjectionsNextStep' = ProjectionsNextStep
         /\ Filters(job') = Filters(job)
         /\ \A kind : Output(kind)' = Output(kind)
  BY DEF ProjectionsPerStep, ProjectionsThisStep, ProjectionsNextStep, Lesser, Output

(* A step of main alone keeps the types.                                   *)
LEMMA Quiet ==
  ASSUME Types, main' \in MainStates, p' \in Nat, pp' \in Nat,
         UNCHANGED <<job, side, box, requests, fate, loan, closed>>
  PROVE  Types'
  BY DEF Types

(* Nothing but the set-up of the workers is under way.                     *)
LEMMA CreateControl ==
  ASSUME Control, Create
  PROVE  Control'
<1> USE DEF Control
<1>1. /\ main = "create" /\ main' = "firstRequests"
      /\ UNCHANGED <<job, p, pp, side, requests, fate, loan, closed>>
  BY DEF Create, mainVars, ioVars
<1>2. SetupsSent
  BY CreateStep
<1>3. Types'
  BY <1>1, <1>2, States DEF Types, SetupsSent
<1>4. Scheduled'
  BY <1>1, Sizes, SameSizes DEF Scheduled, Types
<1>5. Boxes'
  <2>1. p' = 0
    BY <1>1 DEF Scheduled
  <2>2. ASSUME NEW t \in Threads, NEW j \in 1 .. Len(box'[t])
        PROVE  Fits(t, j, box[t][j])'
    <3>1. PICK op \in Setups : box'[t][j] = Plain(op)
      BY <1>2, <2>2 DEF SetupsSent
    <3>2. op \notin Transforms \cup {"barrier", "writeVolume", "await", "apply"}
      BY DEF Setups, Transforms
    <3> QED BY <1>1, <2>1, <3>1, <3>2 DEF Fits, Plain, Message
  <2> QED BY <1>1, <2>2 DEF Boxes, Idle, Filling
<1> QED BY <1>3, <1>4, <1>5

(* What a RequestIOOperation does.                                         *)
LEMMA RequestStep ==
  ASSUME Types, NEW op \in {"read", "write"}, NEW i \in Images, Request(op, i)
  PROVE  /\ UNCHANGED <<job, main, p, side, box, closed>>
         /\ pp' = pp + 1
         /\ requests' \in Seq([op : {"read", "write"}, image : Images])
         /\ Len(requests') = Len(requests) + 1
         /\ \A k \in 1 .. Len(requests) : requests'[k] = requests[k]
         /\ requests'[Len(requests) + 1] = [op |-> op, image |-> i]
         /\ fate' \in Seq(IO!Fates)
         /\ Len(fate') = Len(fate) + 1
         /\ \A k \in 1 .. Len(fate) : fate'[k] = fate[k]
         /\ fate'[Len(fate) + 1] = "pending"
         /\ loan[i] = 0
         /\ loan' = [loan EXCEPT ![i] = Len(fate) + 1]
         /\ ~closed
         /\ Types'
<1>1. /\ UNCHANGED <<job, main, p, side, box, closed>>
      /\ pp' = pp + 1
      /\ requests' = Append(requests, [op |-> op, image |-> i])
      /\ fate' = Append(fate, "pending")
      /\ loan[i] = 0
      /\ loan' = [loan EXCEPT ![i] = Len(fate) + 1]
      /\ ~closed
  BY DEF Request, IO!Issue
<1>2. [op |-> op, image |-> i] \in [op : {"read", "write"}, image : Images]
  OBVIOUS
<1>3. requests \in Seq([op : {"read", "write"}, image : Images]) /\ fate \in Seq(IO!Fates)
  BY DEF Types
<1>4. "pending" \in IO!Fates
  BY DEF IO!Fates
<1>5. /\ requests' \in Seq([op : {"read", "write"}, image : Images])
      /\ Len(requests') = Len(requests) + 1
      /\ \A k \in 1 .. Len(requests) : requests'[k] = requests[k]
      /\ requests'[Len(requests) + 1] = [op |-> op, image |-> i]
  BY <1>1, <1>2, <1>3, AppendProperties
<1>6. /\ fate' \in Seq(IO!Fates)
      /\ Len(fate') = Len(fate) + 1
      /\ \A k \in 1 .. Len(fate) : fate'[k] = fate[k]
      /\ fate'[Len(fate) + 1] = "pending"
      /\ Len(fate) \in Nat
  BY <1>1, <1>3, <1>4, AppendProperties, LenProperties
<1>7. Types'
  BY <1>1, <1>5, <1>6 DEF Types
<1> QED BY <1>1, <1>5, <1>6, <1>7

(* Read requests are for images that exist.                                *)
LEMMA InputImages ==
  ASSUME Types, NEW k \in Nat, k < ProjectionsPerStep
  PROVE  k \in Threads /\ Loading(job.source, k) \in Images
<1>1. job.source \in Kinds
  BY DEF Types, AllowedJobs
<1>2. k \in Threads
  BY Sizes DEF Threads
<1> QED BY <1>1, <1>2, MessageTypes

(* RequestIOOperation keeps control.                                       *)
LEMMA RequestControl ==
  ASSUME Control, NEW op \in {"read", "write"}, NEW i \in Images, Request(op, i),
         \/ main \in {"firstRequests", "request"} /\ pp < ProjectionsPerStep
         \/ main \in {"writeAttenuation", "writeFiltered"} /\ pp < ProjectionsThisStep
  PROVE  Control'
<1> USE DEF Control
<1>1. /\ UNCHANGED <<job, main, p, side, box, closed>>
      /\ pp' = pp + 1
      /\ Types'
  BY RequestStep
<1>2. Scheduled'
  BY <1>1, Sizes, SameSizes, SMTT(30) DEF Scheduled, Types
<1>3. \A t \in Threads : \A j, m : Fits(t, j, m)' = Fits(t, j, m)
  BY <1>1 DEF Fits, Active, Told
<1>4. Boxes'
  BY <1>1, <1>3 DEF Boxes
<1> QED BY <1>1, <1>2, <1>4

(* The loop that requests the first group keeps control.                   *)
LEMMA FirstRequestsControl ==
  ASSUME Control, FirstRequests
  PROVE  Control'
<1> USE DEF Control
<1>1. CASE pp < ProjectionsPerStep /\ Request("read", Loading(job.source, pp))
  BY <1>1, InputImages, RequestControl DEF FirstRequests, Types
<1>2. CASE pp = ProjectionsPerStep /\ EndRequests(FirstPhase) /\ UNCHANGED box
  <2>1. /\ main = "firstRequests" /\ main' = FirstPhase /\ pp' = 0 /\ p' = p
        /\ UNCHANGED <<job, side, box, requests, fate, loan, closed>>
        /\ main' \in {"swapAttenuation", "swapInput"}
    BY <1>2 DEF FirstRequests, EndRequests, FirstPhase, mainVars, ioVars
  <2>2. Types'
    BY <2>1, Quiet, States DEF Types
  <2>3. Scheduled'
    BY <2>1, Sizes, SameSizes DEF Scheduled, Types, FirstPhase
  <2>4. ASSUME NEW t \in Threads, NEW j \in 1 .. Len(box[t])
        PROVE  Fits(t, j, box[t][j])'
    <3> DEFINE m == box[t][j]
    <3>1. Fits(t, j, m)
      BY <2>4 DEF Boxes
    <3>2. m.op \notin Transforms \cup {"barrier", "writeVolume", "await", "apply"}
      BY <2>1, <3>1 DEF Fits, Filling, Applying
    <3>3. box'[t][j] = m
      BY <2>1
    <3>4. Fits(t, j, m)'
      BY <2>1, <3>1, <3>2, <3>3 DEF Fits, Filling
    <3> QED BY <3>3, <3>4
  <2>5. Boxes'
    BY <2>1, <2>4 DEF Boxes, Idle, Filling
  <2> QED BY <2>2, <2>3, <2>5
<1> QED BY <1>1, <1>2 DEF FirstRequests

(* What a job's input says of its outputs.                                 *)
LEMMA JobFacts ==
  ASSUME Types
  PROVE  /\ job.source \in Kinds
         /\ job.attenuationWriter => job.source = "raw"
         /\ job.beamPower => job.source = "raw"
         /\ job.filteredWriter => job.source # "filtered"
         /\ \A kind : Output(kind) => kind \in Kinds /\ kind # job.source
  BY DEF Types, AllowedJobs, Output, Kinds

(* A swap leaves alone the messages sent before it.                        *)
LEMMA SwapOutputControl ==
  ASSUME Control, NEW kind \in Kinds, SwapOutput(kind), main' = After(main),
         \/ kind = "attenuation" /\ main = "swapAttenuation"
         \/ kind = "filtered" /\ main = "swapFiltered",
         UNCHANGED <<job, p, pp, requests, fate, loan, closed>>
  PROVE  Control'
<1> USE DEF Control
<1>1. /\ side' = [side EXCEPT ![kind] = Other(side[kind])]
      /\ side' \in [Kinds -> Sides]
      /\ \/ p > ProjectionsPerStep /\ AwaitsSent(kind)
         \/ p <= ProjectionsPerStep /\ box' = box
  BY SwapStep
<1>2. main' \in {"swapInput", "filter", "synchronize"} /\ (main' = "filter" => Filters(job))
      /\ (main' = "swapInput" <=> kind = "attenuation")
  BY PhaseOrder DEF FromFilter
<1>3. box' \in [Threads -> Seq(Messages)] /\ \A t \in Threads : Len(box[t]) \in Nat
  BY <1>1, LenProperties DEF AwaitsSent, Types
<1>4. Types'
  BY <1>1, <1>2, <1>3, States DEF Types
<1>5. Scheduled'
  BY <1>2, SameSizes DEF Scheduled
<1>6. main \in Filling \ {"barrier0", "barrier"} /\ main' \in Filling /\ Told(kind)' /\ ~Told(kind)
      /\ kind # job.source
  BY <1>2, JobFacts DEF Filling, Told, Scheduled
<1>7. \A k \in Kinds : Told(k) => Told(k)' /\ side'[k] = side[k]
  BY <1>1, <1>2, <1>6, JobFacts DEF Told, Scheduled, Types
<1>8. ASSUME NEW t \in Threads, NEW j \in 1 .. Len(box'[t])
      PROVE  Fits(t, j, box[t][j])'
  <2>1. CASE j \in 1 .. Len(box[t])
    <3>1. Fits(t, j, box[t][j]) /\ box'[t][j] = box[t][j]
      BY <1>1, <2>1 DEF Boxes, AwaitsSent
    <3> QED BY <3>1, <1>6, <1>7, Forward
  <2>2. CASE j \notin 1 .. Len(box[t])
    <3>1. box'[t][j] = Await(Active(kind, t))'
      BY <1>1, <1>3, <1>8, <2>2 DEF AwaitsSent
    <3>2. box'[t][j].op = "await" /\ box'[t][j].from = {} /\ box'[t][j].to = {}
          /\ box'[t][j].awaits = {Active(kind, t)'}
      BY <3>1 DEF Await, Message
    <3>3. "await" \notin Setups \cup Transforms \cup {"barrier", "writeVolume", "apply"}
      BY DEF Setups, Transforms
    <3> QED BY <3>2, <3>3, <1>6 DEF Fits
  <2> QED BY <2>1, <2>2
<1>9. Boxes'
  BY <1>2, <1>8 DEF Boxes, Idle, Filling
<1> QED BY <1>4, <1>5, <1>9

(* The swaps keep control.                                                 *)
LEMMA SwapAttenuationControl ==
  ASSUME Control, SwapAttenuation
  PROVE  Control'
  BY SwapOutputControl DEF SwapAttenuation, Kinds, ioVars

LEMMA SwapFilteredControl ==
  ASSUME Control, SwapFiltered
  PROVE  Control'
  BY SwapOutputControl DEF SwapFiltered, Kinds, ioVars

LEMMA SwapInputControl ==
  ASSUME Control, SwapInput
  PROVE  Control'
<1> USE DEF Control
<1>1. /\ main = "swapInput" /\ main' = "request"
      /\ side' = [side EXCEPT ![job.source] = Other(side[job.source])]
      /\ UNCHANGED <<job, p, pp, box, requests, fate, loan, closed>>
  BY DEF SwapInput, Swap, ioVars
<1>2. side' \in [Kinds -> Sides]
  BY <1>1 DEF Types, Other, Sides
<1>3. Types'
  BY <1>1, <1>2, States DEF Types
<1>4. Scheduled'
  BY <1>1, Sizes, SameSizes DEF Scheduled
<1>5. main \in Filling \ {"barrier0", "barrier"} /\ main' \in Filling
  BY <1>1 DEF Filling
<1>6. \A k \in Kinds : Told(k) => Told(k)' /\ side'[k] = side[k]
  BY <1>1, JobFacts DEF Told, Types
<1>7. ASSUME NEW t \in Threads, NEW j \in 1 .. Len(box'[t])
      PROVE  Fits(t, j, box[t][j])'
  <2>1. Fits(t, j, box[t][j]) /\ box'[t][j] = box[t][j]
    BY <1>1, <1>7 DEF Boxes
  <2> QED BY <1>1, <2>1, <1>5, <1>6, Forward
<1>8. Boxes'
  BY <1>5, <1>7, <1>1 DEF Boxes, Idle, Filling
<1> QED BY <1>3, <1>4, <1>8

(* The loop that requests the next group keeps control.                    *)
LEMMA RequestNextControl ==
  ASSUME Control, RequestNext
  PROVE  Control'
<1> USE DEF Control
<1>1. CASE pp < ProjectionsNextStep /\ Request("read", Loading(job.source, pp))
  <2>1. pp \in Nat /\ pp < ProjectionsPerStep
    BY <1>1, Sizes DEF Types
  <2> QED BY <1>1, <2>1, InputImages, RequestControl DEF RequestNext
<1>2. CASE /\ Send(ProjectionsThisStep, LAMBDA k : Await(Active(job.source, k)))
           /\ EndRequests(After("request"))
  <2>1. /\ main = "request" /\ main' = FromConvert /\ pp' = 0
        /\ UNCHANGED <<job, p, side, requests, fate, loan, closed>>
    BY <1>2, PhaseOrder DEF RequestNext, EndRequests, ioVars
  <2>2. AwaitsSent(job.source)
    BY <1>2, <2>1, RequestedAllStep
  <2>3. box' \in [Threads -> Seq(Messages)] /\ \A t \in Threads : Len(box[t]) \in Nat
    BY <2>2, LenProperties DEF AwaitsSent, Types
  <2>4. main' \in {"convert", "synchronize0", "correct", "swapFiltered", "filter", "synchronize"}
    BY <2>1 DEF FromConvert, FromSynchronize0, FromCorrect, FromSwap, FromFilter
  <2>5. Types'
    BY <2>1, <2>3, <2>4, States DEF Types
  <2>6. Scheduled'
    BY <2>1, <2>4, SameSizes DEF Scheduled, FromConvert, FromSynchronize0, FromCorrect,
       FromSwap, FromFilter
  <2>7. main \in Filling \ {"barrier0", "barrier"} /\ main' \in Filling
        /\ Told(job.source)' /\ job.source \in Kinds
    BY <2>1, <2>4, JobFacts DEF Filling, Told
  <2>8. \A k \in Kinds : Told(k) => Told(k)' /\ side'[k] = side[k]
    BY <2>1, <2>4 DEF Told
  <2>9. ASSUME NEW t \in Threads, NEW j \in 1 .. Len(box'[t])
        PROVE  Fits(t, j, box[t][j])'
    <3>1. CASE j \in 1 .. Len(box[t])
      <4>1. Fits(t, j, box[t][j]) /\ box'[t][j] = box[t][j]
        BY <2>2, <3>1 DEF Boxes, AwaitsSent
      <4> QED BY <2>1, <4>1, <2>7, <2>8, Forward
    <3>2. CASE j \notin 1 .. Len(box[t])
      <4>1. box'[t][j] = Await(Active(job.source, t))'
        BY <2>2, <2>3, <2>9, <3>2 DEF AwaitsSent
      <4>2. box'[t][j].op = "await" /\ box'[t][j].from = {} /\ box'[t][j].to = {}
            /\ \E kind \in Kinds : box'[t][j].awaits = {Active(kind, t)'} /\ Told(kind)'
        BY <4>1, <2>1, <2>7 DEF Await, Message, Active
      <4>3. "await" \notin Setups \cup Transforms \cup {"barrier", "writeVolume", "apply"}
        BY DEF Setups, Transforms
      <4> QED BY <4>2, <4>3, <2>7 DEF Fits
    <3> QED BY <3>1, <3>2
  <2>10. Boxes'
    BY <2>4, <2>9 DEF Boxes, Idle, Filling
  <2> QED BY <2>5, <2>6, <2>10
<1> QED BY <1>1, <1>2 DEF RequestNext

(* Sending transformations of kinds the workers were told of keeps         *)
(* control.                                                                *)
LEMMA TransformsControl ==
  ASSUME Control, NEW kinds \in SUBSET Kinds, TransformsSent(kinds),
         main \in Filling \ {"barrier0", "barrier"}, main' \in Filling,
         UNCHANGED <<job, p, side>>,
         \A kind \in Kinds : Told(kind) => Told(kind)',
         \A kind \in kinds : Told(kind)'
  PROVE  Boxes'
<1> USE DEF Control
<1>1. ASSUME NEW t \in Threads, NEW j \in 1 .. Len(box'[t])
      PROVE  Fits(t, j, box[t][j])'
  <2>1. Keeps(t) /\ Len(box[t]) \in Nat /\ Len(box'[t]) \in Nat
    BY LenProperties DEF TransformsSent, Types
  <2>2. CASE j \in 1 .. Len(box[t])
    <3>1. Fits(t, j, box[t][j]) /\ box'[t][j] = box[t][j]
      BY <2>1, <2>2 DEF Boxes, Keeps
    <3> QED BY <3>1, Forward
  <2>3. CASE j \notin 1 .. Len(box[t])
    <3> DEFINE m == box'[t][j]
    <3>1. /\ m.op \in Transforms
          /\ m.awaits = {}
          /\ \A i \in m.from \cup m.to : \E kind \in kinds : i = Active(kind, t)
      BY <2>1, <2>3, <1>1 DEF TransformsSent
    <3>2. \A i \in m.from \cup m.to : \E kind \in Kinds : i = Active(kind, t)' /\ Told(kind)'
      BY <3>1 DEF Active
    <3>3. m.op \notin Setups \cup {"barrier", "writeVolume", "apply", "await"}
      BY <3>1 DEF Setups, Transforms
    <3> QED BY <3>1, <3>2, <3>3 DEF Fits
  <2> QED BY <2>2, <2>3
<1> QED BY <1>1 DEF Boxes, Idle, Filling

(* The three transformations keep control.                                 *)
LEMMA ConvertControl ==
  ASSUME Control, Convert
  PROVE  Control'
<1> USE DEF Control
<1>1. /\ main = "convert" /\ main' = FromSynchronize0
      /\ UNCHANGED <<job, p, pp, side, requests, fate, loan, closed>>
  BY PhaseOrder DEF Convert, mainVars, ioVars
<1>2. TransformsSent({"raw", "attenuation"})
  BY ConvertStep
<1>3. main' \in {"synchronize0", "correct", "swapFiltered", "filter", "synchronize"}
  BY <1>1 DEF FromSynchronize0, FromCorrect, FromSwap, FromFilter
<1>4. Types'
  BY <1>1, <1>2, <1>3, States DEF Types, TransformsSent
<1>5. Scheduled'
  BY <1>1, <1>3, SameSizes DEF Scheduled, FromSynchronize0, FromCorrect, FromSwap,
     FromFilter
<1>6. Boxes'
  <2>1. main \in Filling \ {"barrier0", "barrier"} /\ main' \in Filling
    BY <1>1, <1>3 DEF Filling
  <2>2. \A kind \in Kinds : Told(kind) => Told(kind)'
    BY <1>1, <1>3 DEF Told
  <2>3. \A kind \in {"raw", "attenuation"} : Told(kind)' /\ kind \in Kinds
    BY <1>1, <1>3 DEF Told, Scheduled, Kinds
  <2> QED BY <1>1, <1>2, <2>1, <2>2, <2>3, TransformsControl
<1> QED BY <1>4, <1>5, <1>6

LEMMA CorrectControl ==
  ASSUME Control, CorrectBeamPower
  PROVE  Control'
<1> USE DEF Control
<1>1. /\ main = "correct" /\ main' = FromSwap
      /\ UNCHANGED <<job, p, pp, side, requests, fate, loan, closed>>
  BY PhaseOrder DEF CorrectBeamPower, mainVars, ioVars
<1>2. TransformsSent({"attenuation"})
  BY CorrectStep
<1>3. main' \in {"swapFiltered", "filter", "synchronize"}
  BY <1>1 DEF FromSwap, FromFilter
<1>4. Types'
  BY <1>1, <1>2, <1>3, States DEF Types, TransformsSent
<1>5. Scheduled'
  BY <1>1, <1>3, SameSizes DEF Scheduled, FromSwap, FromFilter
<1>6. Boxes'
  <2>1. main \in Filling \ {"barrier0", "barrier"} /\ main' \in Filling
    BY <1>1, <1>3 DEF Filling
  <2>2. \A kind \in Kinds : Told(kind) => Told(kind)'
    BY <1>1, <1>3 DEF Told
  <2>3. \A kind \in {"attenuation"} : Told(kind)' /\ kind \in Kinds
    BY <1>1, <1>3, JobFacts DEF Told, Scheduled, Kinds
  <2> QED BY <1>1, <1>2, <2>1, <2>2, <2>3, TransformsControl
<1> QED BY <1>4, <1>5, <1>6

LEMMA FilterControl ==
  ASSUME Control, Filter
  PROVE  Control'
<1> USE DEF Control
<1>1. /\ main = "filter" /\ main' = "synchronize"
      /\ UNCHANGED <<job, p, pp, side, requests, fate, loan, closed>>
  BY PhaseOrder DEF Filter, mainVars, ioVars
<1>2. TransformsSent({"attenuation", "filtered"})
  BY FilterStep
<1>4. Types'
  BY <1>1, <1>2, States DEF Types, TransformsSent
<1>5. Scheduled'
  BY <1>1, SameSizes DEF Scheduled
<1>6. Boxes'
  <2>1. main \in Filling \ {"barrier0", "barrier"} /\ main' \in Filling
    BY <1>1 DEF Filling
  <2>2. \A kind \in Kinds : Told(kind) => Told(kind)'
    BY <1>1 DEF Told
  <2>3. \A kind \in {"attenuation", "filtered"} : Told(kind)' /\ kind \in Kinds
    BY <1>1 DEF Told, Kinds
  <2> QED BY <1>1, <1>2, <2>1, <2>2, <2>3, TransformsControl
<1> QED BY <1>4, <1>5, <1>6

(* SynchronizeAllAndWait keeps control: the barrier is the last message of *)
(* every worker.                                                           *)
LEMMA SynchronizeControl ==
  ASSUME Control, Synchronize
  PROVE  Control'
<1> USE DEF Control
<1>1. /\ \/ main = "synchronize0" /\ main' = "barrier0"
         \/ main = "synchronize" /\ main' = "barrier"
         \/ main = "synchronizeApplied" /\ main' = "barrierApplied"
         \/ main = "synchronizeEnd" /\ main' = "barrierEnd"
      /\ UNCHANGED <<job, p, pp, side, requests, fate, loan, closed>>
  BY DEF Synchronize, mainVars, ioVars
<1>2. BarriersSent
  BY SynchronizeStep
<1>4. Types'
  BY <1>1, <1>2, States DEF Types, BarriersSent
<1>5. Scheduled'
  BY <1>1, SameSizes DEF Scheduled
<1>6. Boxes'
  <2>1. ASSUME NEW t \in Threads, NEW j \in 1 .. Len(box'[t])
        PROVE  Fits(t, j, box[t][j])'
    <3>1. Len(box[t]) \in Nat
      BY LenProperties DEF Types
    <3>2. CASE j \in 1 .. Len(box[t])
      <4> DEFINE m == box[t][j]
      <4>1. Fits(t, j, m) /\ box'[t][j] = m
        BY <1>2, <3>2 DEF Boxes, BarriersSent
      <4>2. CASE main = "synchronizeApplied"
        <5>1. m.op \notin Setups \cup Transforms \cup {"barrier", "writeVolume", "await"}
          BY <4>1, <4>2 DEF Fits, Filling
        <5> QED BY <4>1, <5>1, <1>1, <4>2 DEF Fits, Applying
      <4>3. CASE main \in {"synchronize0", "synchronize"}
        <5>1. main \in Filling \ {"barrier0", "barrier"} /\ main' \in Filling
          BY <1>1, <4>3 DEF Filling
        <5>2. \A kind \in Kinds : Told(kind) => Told(kind)' /\ side'[kind] = side[kind]
          BY <1>1, <4>3 DEF Told
        <5> QED BY <1>1, <4>1, <5>1, <5>2, Forward
      <4>4. CASE main = "synchronizeEnd"
        BY <4>1, <3>2, <4>4, <3>1, States DEF Boxes, Idle, Filling, Applying
      <4> QED BY <1>1, <4>2, <4>3, <4>4
    <3>3. CASE j \notin 1 .. Len(box[t])
      <4>1. box'[t][j] = Plain("barrier") /\ j = Len(box'[t])
        BY <1>2, <3>1, <2>1, <3>3 DEF BarriersSent
      <4>2. box'[t][j].op = "barrier" /\ box'[t][j].from = {} /\ box'[t][j].to = {}
            /\ box'[t][j].awaits = {}
        BY <4>1 DEF Plain, Message
      <4>3. "barrier" \notin Setups \cup Transforms \cup {"writeVolume", "apply", "await"}
        BY DEF Setups, Transforms
      <4> QED BY <4>1, <4>2, <4>3, <1>1 DEF Fits
    <3> QED BY <3>2, <3>3
  <2> QED BY <1>1, <2>1 DEF Boxes, Idle, Filling, Applying
<1> QED BY <1>4, <1>5, <1>6

(* When all have come, nothing is left but the barrier.                    *)
LEMMA BarrierControl ==
  ASSUME Control, Barrier
  PROVE  Control' /\ \A t \in Threads : box'[t] = <<>>
<1> USE DEF Control
<1>1. /\ \/ main = "barrier0" /\ main' = "reference"
         \/ main = "barrier" /\ main' = "check"
         \/ main = "barrierApplied" /\ main' = "checkApplied"
         \/ main = "barrierEnd" /\ main' = "return"
      /\ UNCHANGED <<job, p, pp, side, requests, fate, loan, closed>>
      /\ box' = [t \in Threads |-> Tail(box[t])]
      /\ \A t \in Threads : box[t] # <<>> /\ Head(box[t]).op = "barrier"
  BY DEF Barrier, mainVars, ioVars, AtBarrier
<1>2. ASSUME NEW t \in Threads
      PROVE  box'[t] = <<>> /\ box'[t] \in Seq(Messages)
  <2>1. Fits(t, 1, box[t][1]) /\ box[t][1].op = "barrier" /\ Tail(box[t]) \in Seq(Messages)
        /\ Len(Tail(box[t])) = Len(box[t]) - 1
    BY <1>1, <1>2, Taking DEF Boxes
  <2>2. Len(box[t]) = 1
    BY <2>1 DEF Fits
  <2> QED BY <1>1, <2>1, <2>2, EmptySeq
<1>3. box' \in [Threads -> Seq(Messages)]
  BY <1>1, <1>2
<1>4. Types'
  BY <1>1, <1>3, States DEF Types
<1>5. Scheduled'
  BY <1>1, SameSizes DEF Scheduled
<1>6. Boxes'
  <2>1. \A t \in Threads : 1 .. Len(box'[t]) = {}
    BY <1>2
  <2> QED BY <1>1, <1>2, <2>1 DEF Boxes
<1> QED BY <1>2, <1>4, <1>5, <1>6

(* With nothing in any box, main may go where nothing need be.             *)
LEMMA EmptyControl ==
  ASSUME Control, \A t \in Threads : box[t] = <<>>, UNCHANGED box
  PROVE  Boxes'
<1>1. \A t \in Threads : box'[t] = <<>> /\ 1 .. Len(box'[t]) = {}
  OBVIOUS
<1> QED BY <1>1 DEF Boxes

(* Between the stages the boxes are empty.                                 *)
LEMMA IdleIsEmpty ==
  ASSUME Control, main \notin Filling \cup Applying \cup {"firstRequests", "barrierVolume", "barrierEnd"}
  PROVE  \A t \in Threads : box[t] = <<>>
  BY DEF Control, Boxes, Idle, Types

(* The steps of main in which the boxes are empty keep control.            *)
LEMMA SetReferenceControl ==
  ASSUME Control, SetReference
  PROVE  Control'
<1> USE DEF Control
<1>1. /\ main = "reference" /\ main' \in {FromCorrect, "unwind"}
      /\ UNCHANGED <<job, p, pp, side, box, requests, fate, loan, closed>>
  BY PhaseOrder DEF SetReference, MainThrows, mainVars, ioVars
<1>2. main' \in {"correct", "swapFiltered", "filter", "synchronize", "unwind"}
  BY <1>1 DEF FromCorrect, FromSwap, FromFilter
<1>3. Types'
  BY <1>1, <1>2, Quiet, States DEF Types
<1>4. Scheduled'
  BY <1>1, <1>2, SameSizes DEF Scheduled, FromCorrect, FromSwap, FromFilter
<1>5. Boxes'
  BY <1>1, IdleIsEmpty, EmptyControl DEF Filling, Applying
<1> QED BY <1>3, <1>4, <1>5

LEMMA CheckControl ==
  ASSUME Control, Check
  PROVE  Control'
<1> USE DEF Control
<1>0. /\ main \in {"check", "checkApplied"} /\ main' \in {After(main), "unwind"}
      /\ UNCHANGED <<job, p, pp, side, box, requests, fate, loan, closed>>
  BY DEF Check, MainThrows, mainVars, ioVars
<1>1. \/ main = "check" /\ main' \in {FromCheck, "unwind"}
      \/ main = "checkApplied" /\ main' \in {"next", "unwind"}
  BY <1>0, PhaseOrder
<1>2. main' \in {"writeAttenuation", "writeFiltered", "apply", "next", "unwind"}
  BY <1>1 DEF FromCheck, FromWrite, FromApply
<1>3. Types'
  BY <1>0, <1>2, Quiet, States DEF Types
<1>4. p < NumberOfProjections /\ pp = 0
  BY <1>1 DEF Scheduled
<1>5. Scheduled'
  BY <1>0, <1>1, <1>2, <1>4, Sizes, SameSizes DEF Scheduled, FromCheck, FromWrite,
     FromApply
<1>6. Boxes'
  BY <1>0, IdleIsEmpty, EmptyControl DEF Filling, Applying
<1> QED BY <1>3, <1>5, <1>6

(* The loops that request writes keep control.                             *)
LEMMA WriteAttenuationControl ==
  ASSUME Control, WriteAttenuation
  PROVE  Control'
<1> USE DEF Control
<1>0. main = "writeAttenuation" /\ p < NumberOfProjections
  BY DEF WriteAttenuation, Scheduled
<1>1. CASE pp < ProjectionsThisStep /\ Request("write", Active("attenuation", pp))
  <2>1. pp \in Threads
    BY <1>0, <1>1, Sizes DEF Threads, Types
  <2> QED BY <1>0, <1>1, <2>1, MessageTypes, RequestControl DEF Kinds
<1>2. CASE pp = ProjectionsThisStep /\ EndRequests(After("writeAttenuation")) /\ UNCHANGED box
  <2>1. /\ main' = FromWrite /\ pp' = 0
        /\ UNCHANGED <<job, p, side, box, requests, fate, loan, closed>>
    BY <1>2, PhaseOrder DEF EndRequests, ioVars
  <2>2. main' \in {"writeFiltered", "apply", "next"}
    BY <2>1 DEF FromWrite, FromApply
  <2>3. Types'
    BY <2>1, <2>2, Quiet, States DEF Types
  <2>4. Scheduled'
    BY <1>0, <2>1, <2>2, Sizes, SameSizes DEF Scheduled, FromWrite, FromApply
  <2>5. Boxes'
    BY <1>0, <2>1, IdleIsEmpty, EmptyControl DEF Filling, Applying
  <2> QED BY <2>3, <2>4, <2>5
<1> QED BY <1>1, <1>2 DEF WriteAttenuation

LEMMA WriteFilteredControl ==
  ASSUME Control, WriteFiltered
  PROVE  Control'
<1> USE DEF Control
<1>0. main = "writeFiltered" /\ p < NumberOfProjections
  BY DEF WriteFiltered, Scheduled
<1>1. CASE pp < ProjectionsThisStep /\ Request("write", Active("filtered", pp))
  <2>1. pp \in Threads
    BY <1>0, <1>1, Sizes DEF Threads, Types
  <2> QED BY <1>0, <1>1, <2>1, MessageTypes, RequestControl DEF Kinds
<1>2. CASE pp = ProjectionsThisStep /\ EndRequests(After("writeFiltered")) /\ UNCHANGED box
  <2>1. /\ main' = FromApply /\ pp' = 0
        /\ UNCHANGED <<job, p, side, box, requests, fate, loan, closed>>
    BY <1>2, PhaseOrder DEF EndRequests, ioVars
  <2>2. main' \in {"apply", "next"}
    BY <2>1 DEF FromApply
  <2>3. Types'
    BY <2>1, <2>2, Quiet, States DEF Types
  <2>4. Scheduled'
    BY <1>0, <2>1, <2>2, Sizes, SameSizes DEF Scheduled, FromApply
  <2>5. Boxes'
    BY <1>0, <2>1, IdleIsEmpty, EmptyControl DEF Filling, Applying
  <2> QED BY <2>3, <2>4, <2>5
<1> QED BY <1>1, <1>2 DEF WriteFiltered

(* Applying the group and going on to the next keep control.               *)
LEMMA ApplyControl ==
  ASSUME Control, ApplyProjections
  PROVE  Control'
<1> USE DEF Control
<1>0. main = "apply" /\ job.volumeWriter
  BY DEF ApplyProjections, Scheduled
<1>1. /\ main' = "synchronizeApplied"
      /\ UNCHANGED <<job, p, pp, side, requests, fate, loan, closed>>
  BY <1>0, PhaseOrder DEF ApplyProjections, mainVars, ioVars
<1>2. AppliesSent
  BY ApplyStep
<1>3. Types'
  BY <1>1, <1>2, States DEF Types, AppliesSent
<1>4. Scheduled'
  BY <1>0, <1>1, SameSizes DEF Scheduled
<1>5. ASSUME NEW t \in Threads, NEW j \in 1 .. Len(box'[t])
      PROVE  Fits(t, j, box[t][j])'
  <2>1. box'[t][j] = Apply(Active("filtered", j - 1), p + j)
    BY <1>2, <1>5 DEF AppliesSent
  <2>2. box'[t][j].op = "apply" /\ box'[t][j].to = {} /\ box'[t][j].awaits = {}
    BY <2>1 DEF Apply, Message
  <2>3. "apply" \notin Setups \cup Transforms \cup {"writeVolume", "barrier", "await"}
    BY DEF Setups, Transforms
  <2> QED BY <1>1, <2>2, <2>3 DEF Fits, Applying
<1>6. Boxes'
  BY <1>1, <1>5 DEF Boxes, Idle, Applying
<1> QED BY <1>3, <1>4, <1>6

LEMMA NextGroupControl ==
  ASSUME Control, NextGroup
  PROVE  Control'
<1> USE DEF Control
<1>1. /\ main = "next" /\ p' = p + ProjectionsPerStep
      /\ main' = IF p' < NumberOfProjections THEN FirstPhase ELSE "complete"
      /\ UNCHANGED <<job, pp, side, box, requests, fate, loan, closed>>
  BY DEF NextGroup, ioVars
<1>2. p' \in Nat /\ p' > 0
  BY <1>1, Sizes DEF Types
<1>3. Types'
  BY <1>1, <1>2, Quiet, States DEF Types, FirstPhase
<1>4. Scheduled'
  BY <1>1, <1>2, Sizes, SameSizes DEF Scheduled, FirstPhase
<1>5. Boxes'
  BY <1>1, IdleIsEmpty, EmptyControl DEF Filling, Applying
<1> QED BY <1>3, <1>4, <1>5

(* WaitForCompletion keeps control.                                        *)
LEMMA CompletionControl ==
  ASSUME Control, WaitForCompletion \/ CountRequests
  PROVE  Control'
<1> USE DEF Control
<1>1. /\ \/ main = "complete" /\ main' \in {"count", "unwind"}
         \/ main = "count" /\ main' \in {IF job.volumeWriter THEN "writeVolume" ELSE "synchronizeEnd", "unwind"}
      /\ UNCHANGED <<job, p, pp, side, box, requests, fate, loan, closed>>
  BY DEF WaitForCompletion, CountRequests, MainThrows, mainVars, ioVars
<1>2. main' \in {"count", "unwind", "writeVolume", "synchronizeEnd"}
  BY <1>1
<1>3. Types'
  BY <1>1, <1>2, Quiet, States DEF Types
<1>4. Scheduled'
  BY <1>1, <1>2, SameSizes DEF Scheduled
<1>5. Boxes'
  BY <1>1, IdleIsEmpty, EmptyControl DEF Filling, Applying
<1> QED BY <1>3, <1>4, <1>5

(* Writing the subvolumes, one worker after the other, keeps control.      *)
LEMMA WriteVolumeControl ==
  ASSUME Control, WriteVolume
  PROVE  Control'
<1> USE DEF Control
<1>1. /\ main = "writeVolume" /\ main' = "barrierVolume"
      /\ UNCHANGED <<job, p, pp, side, requests, fate, loan, closed>>
  BY DEF WriteVolume, mainVars, ioVars
<1>2. /\ box' \in [Threads -> Seq(Messages)]
      /\ pp \in Threads
      /\ \A t \in Threads \ {pp} : box'[t] = <<>>
      /\ Len(box'[pp]) = 2
      /\ box'[pp][1] = Plain("writeVolume")
      /\ box'[pp][2] = Plain("barrier")
  BY WriteVolumeStep
<1>3. Types'
  BY <1>1, <1>2, States DEF Types
<1>4. Scheduled'
  BY <1>1, SameSizes DEF Scheduled
<1>5. ASSUME NEW t \in Threads, NEW j \in 1 .. Len(box'[t])
      PROVE  Fits(t, j, box[t][j])'
  <2>1. /\ t = pp
        /\ \/ box'[t][j] = Plain("writeVolume")
           \/ j = Len(box'[t]) /\ box'[t][j] = Plain("barrier")
    <3>1. \A u \in Threads \ {pp} : 1 .. Len(box'[u]) = {}
      BY <1>2
    <3>2. t = pp
      BY <1>5, <3>1
    <3>3. Len(box'[t]) = 2 /\ box'[t][1] = Plain("writeVolume") /\ box'[t][2] = Plain("barrier")
      BY <1>2, <3>2
    <3>4. j = 1 \/ j = 2
      BY <1>5, <3>3
    <3>5. CASE j = 1
      BY <3>2, <3>3, <3>5
    <3>6. CASE j = 2
      BY <3>2, <3>3, <3>6
    <3> QED BY <3>4, <3>5, <3>6
  <2>2. {"barrier", "writeVolume"} \cap (Setups \cup Transforms \cup {"apply", "await"}) = {}
    BY DEF Setups, Transforms
  <2> QED BY <1>1, <2>1, <2>2 DEF Fits, Plain, Message
<1>6. Boxes'
  BY <1>1, <1>2, <1>5 DEF Boxes, Idle
<1> QED BY <1>3, <1>4, <1>6

LEMMA BarrierVolumeControl ==
  ASSUME Control, BarrierVolume
  PROVE  Control' /\ \A t \in Threads : box'[t] = <<>>
<1> USE DEF Control
<1>1. /\ main = "barrierVolume" /\ pp' = pp + 1
      /\ main' = IF pp' = NumberOfThreads THEN "synchronizeEnd" ELSE "writeVolume"
      /\ UNCHANGED <<job, p, side, requests, fate, loan, closed>>
      /\ box' = [box EXCEPT ![pp] = Tail(box[pp])]
      /\ box[pp] # <<>> /\ Head(box[pp]).op = "barrier"
  BY DEF BarrierVolume, AtBarrier, ioVars
<1>2. pp \in Threads
  BY <1>1 DEF Scheduled, Types, Threads
<1>3. box'[pp] = <<>> /\ box'[pp] \in Seq(Messages)
  <2>1. Fits(pp, 1, box[pp][1]) /\ box[pp][1].op = "barrier" /\ Tail(box[pp]) \in Seq(Messages)
        /\ Len(Tail(box[pp])) = Len(box[pp]) - 1
    BY <1>1, <1>2, Taking DEF Boxes
  <2>2. Len(box[pp]) = 1
    BY <2>1 DEF Fits
  <2> QED BY <1>1, <1>2, <2>1, <2>2, EmptySeq DEF Types
<1>4. \A t \in Threads : box'[t] = <<>>
  BY <1>1, <1>3 DEF Boxes, Types
<1>5. box' \in [Threads -> Seq(Messages)]
  BY <1>1, <1>2, <1>3 DEF Types
<1>6. Types'
  BY <1>1, <1>5, States DEF Types
<1>7. Scheduled'
  BY <1>1, <1>2, SameSizes DEF Scheduled, Threads, Types
<1>8. Boxes'
  <2>1. \A t \in Threads : 1 .. Len(box'[t]) = {}
    BY <1>4
  <2> QED BY <1>1, <1>4, <2>1 DEF Boxes
<1> QED BY <1>4, <1>6, <1>7, <1>8

(* Leaving ExecuteOnThreads keeps control.                                 *)
LEMMA LeaveControl ==
  ASSUME Control, Leave
  PROVE  Control'
<1> USE DEF Control
<1>1. /\ main \in {"return", "unwind"} /\ main' \in {"returned", "threw"}
      /\ closed' = TRUE
      /\ UNCHANGED <<job, p, pp, side, box, requests, loan>>
      /\ fate' = [k \in DOMAIN fate |-> IF fate[k] = "pending" THEN "dropped" ELSE fate[k]]
  BY DEF Leave, IO!Close, mainVars
<1>2. fate' \in Seq(IO!Fates)
  <2> DEFINE e(k) == IF fate[k] = "pending" THEN "dropped" ELSE fate[k]
  <2>1. Len(fate) \in Nat /\ DOMAIN fate = 1 .. Len(fate) /\ \A k \in 1 .. Len(fate) : fate[k] \in IO!Fates
    BY LenProperties, ElementOfSeq DEF Types
  <2>2. \A k \in 1 .. Len(fate) : e(k) \in IO!Fates
    BY <2>1 DEF IO!Fates
  <2>3. fate' = [k \in 1 .. Len(fate) |-> e(k)]
    BY <1>1, <2>1
  <2> HIDE DEF e
  <2> QED BY <2>1, <2>2, <2>3, IsASeq
<1>3. Types'
  BY <1>1, <1>2, States DEF Types
<1>4. Scheduled'
  BY <1>1, SameSizes DEF Scheduled
<1>5. Boxes'
  BY <1>1, IdleIsEmpty, EmptyControl DEF Filling, Applying
<1> QED BY <1>3, <1>4, <1>5

(* The I/O thread keeps control.                                           *)
LEMMA SettleControl ==
  ASSUME Control, Settle
  PROVE  Control'
<1> USE DEF Control
<1>1. UNCHANGED <<job, main, p, pp, side, box, requests, loan, closed>>
  BY SettleStep DEF mainVars
<1>2. fate' \in Seq(IO!Fates)
  <2>1. PICK k \in 1 .. Len(fate), f \in {"done", "failed", "dropped"} : fate' = [fate EXCEPT ![k] = f]
    BY SettleStep
  <2>2. fate \in Seq(IO!Fates) /\ f \in IO!Fates
    BY DEF Types, IO!Fates
  <2> QED BY <2>1, <2>2, ExceptSeq
<1>3. Types'
  BY <1>1, <1>2 DEF Types
<1>4. Scheduled'
  BY <1>1, SameSizes DEF Scheduled
<1>5. \A t \in Threads : \A j, m : Fits(t, j, m)' = Fits(t, j, m)
  BY <1>1 DEF Fits, Active, Told
<1>6. Boxes'
  BY <1>1, <1>5 DEF Boxes
<1> QED BY <1>3, <1>4, <1>6

(* A worker takes a message out of its box.                                *)
LEMMA PopStep ==
  ASSUME Types, NEW t \in Threads, box[t] # <<>>, box' = [box EXCEPT ![t] = Tail(box[t])]
  PROVE  /\ box' \in [Threads -> Seq(Messages)]
         /\ Len(box[t]) \in Nat
         /\ Len(box'[t]) = Len(box[t]) - 1
         /\ \A j \in 1 .. Len(box'[t]) : box'[t][j] = box[t][j + 1] /\ j + 1 \in 1 .. Len(box[t])
         /\ \A u \in Threads \ {t} : box'[u] = box[u]
<1>1. /\ Len(box[t]) \in Nat
      /\ box'[t] = Tail(box[t])
      /\ Tail(box[t]) \in Seq(Messages)
      /\ Len(Tail(box[t])) = Len(box[t]) - 1
      /\ \A j \in 1 .. Len(box[t]) - 1 : Tail(box[t])[j] = box[t][j + 1]
  BY Taking DEF Types
<1>2. box' \in [Threads -> Seq(Messages)]
  BY <1>1 DEF Types
<1>3. \A u \in Threads \ {t} : box'[u] = box[u]
  BY DEF Types
<1> QED BY <1>1, <1>2, <1>3

(* A message that fits goes on fitting while main stands still.            *)
LEMMA Still ==
  ASSUME UNCHANGED <<job, p, side, main>>,
         NEW t, NEW i, NEW j, NEW m, Fits(t, i, m), i = Len(box[t]) => j = Len(box'[t])
  PROVE  Fits(t, j, m)'
  BY DEF Fits, Active, Told

(* The workers keep control.                                               *)
LEMMA WorkerControl ==
  ASSUME Control, NEW t \in Threads, Worker(t)
  PROVE  Control'
<1> USE DEF Control
<1>1. /\ box[t] # <<>>
      /\ UNCHANGED <<job, p, pp, side, requests, fate, closed>>
  BY WorkerStep DEF mainVars
<1>2. loan' \in [Images -> Nat]
  <2>1. ASSUME NEW i, loan' = [loan EXCEPT ![i] = 0]
        PROVE  loan' \in [Images -> Nat]
    BY <2>1 DEF Types
  <2> QED BY <2>1, WorkerStep DEF Types
<1>3. CASE /\ main' = "crashed"
           /\ Head(box[t]).op \in {"apply", "writeVolume"}
           /\ box' = box
  <2>1. main \in Applying \cup {"barrierVolume"}
    <3>1. Fits(t, 1, box[t][1]) /\ box[t][1].op \in {"apply", "writeVolume"}
      BY <1>1, <1>3, Taking DEF Boxes
    <3> QED BY <3>1 DEF Fits, Applying
  <2>2. Types'
    BY <1>1, <1>2, <1>3, States DEF Types
  <2>3. Scheduled'
    BY <1>1, <1>3, <2>1 DEF Scheduled, Applying
  <2>4. ASSUME NEW u \in Threads, NEW j \in 1 .. Len(box'[u])
        PROVE  Fits(u, j, box[u][j])'
    <3> DEFINE m == box[u][j]
    <3>1. Fits(u, j, m) /\ box'[u][j] = m
      BY <1>3, <2>4 DEF Boxes
    <3>2. m.op \notin Setups \cup Transforms \cup {"await"}
      BY <2>1, <3>1 DEF Fits, Filling, Applying
    <3> QED BY <1>3, <3>1, <3>2 DEF Fits, Applying
  <2>5. Boxes'
    BY <1>3, <2>4 DEF Boxes, Idle, Applying
  <2> QED BY <2>2, <2>3, <2>5
<1>4. CASE /\ main' = main
           /\ box' = [box EXCEPT ![t] = Tail(box[t])]
  <2>1. /\ box' \in [Threads -> Seq(Messages)]
        /\ Len(box[t]) \in Nat
        /\ Len(box'[t]) = Len(box[t]) - 1
        /\ \A j \in 1 .. Len(box'[t]) : box'[t][j] = box[t][j + 1] /\ j + 1 \in 1 .. Len(box[t])
        /\ \A u \in Threads \ {t} : box'[u] = box[u]
    BY <1>1, <1>4, PopStep
  <2>2. Types'
    BY <1>1, <1>2, <1>4, <2>1 DEF Types
  <2>3. Scheduled'
    BY <1>1, <1>4, SameSizes DEF Scheduled
  <2>4. ASSUME NEW u \in Threads, NEW j \in 1 .. Len(box'[u])
        PROVE  Fits(u, j, box[u][j])'
    <3>1. CASE u = t
      <4>1. Fits(u, j + 1, box[u][j + 1]) /\ box'[u][j] = box[u][j + 1]
        BY <2>1, <2>4, <3>1 DEF Boxes
      <4>2. j + 1 = Len(box[u]) => j = Len(box'[u])
        BY <2>1, <2>4, <3>1
      <4> QED BY <1>1, <1>4, <4>1, <4>2, Still
    <3>2. CASE u # t
      <4>1. Fits(u, j, box[u][j]) /\ box'[u][j] = box[u][j] /\ Len(box'[u]) = Len(box[u])
        BY <2>1, <2>4, <3>2 DEF Boxes
      <4> QED BY <1>1, <1>4, <4>1, Still
    <3> QED BY <3>1, <3>2
  <2>5. main \notin Idle
    BY <1>1 DEF Boxes
  <2>6. main = "barrierVolume" => t = pp
    BY <1>1 DEF Boxes
  <2>7. Boxes'
    BY <1>1, <1>4, <2>1, <2>4, <2>5, <2>6 DEF Boxes, Idle
  <2> QED BY <2>2, <2>3, <2>7
<1> QED BY <1>3, <1>4, WorkerStep

(* Control is there from the start, and no step loses it.                  *)
LEMMA InitControl ==
  ASSUME Init
  PROVE  Control
<1> USE JobsAssumption DEF Init, IO!Init
<1>1. Types
  <2>1. <<>> \in Seq(Messages) /\ <<>> \in Seq(IO!Fates)
        /\ <<>> \in Seq([op : {"read", "write"}, image : Images])
    BY EmptySeq
  <2> QED BY <2>1, States DEF Types, Sides
<1>2. Scheduled
  BY <1>1, Sizes DEF Scheduled
<1>3. Boxes
  <2>1. \A t \in Threads : box[t] = <<>> /\ 1 .. Len(box[t]) = {}
    OBVIOUS
  <2> QED BY <2>1 DEF Boxes
<1> QED BY <1>1, <1>2, <1>3 DEF Control

LEMMA MainControl ==
  ASSUME Control, Main
  PROVE  Control'
BY CreateControl, FirstRequestsControl, SwapAttenuationControl, SwapInputControl,
   RequestNextControl, ConvertControl, SynchronizeControl, BarrierControl,
   SetReferenceControl, CorrectControl, SwapFilteredControl, FilterControl,
   CheckControl, WriteAttenuationControl, WriteFilteredControl, ApplyControl,
   NextGroupControl, CompletionControl, WriteVolumeControl, BarrierVolumeControl,
   LeaveControl
   DEF Main

LEMMA StutterControl ==
  ASSUME Control, UNCHANGED vars
  PROVE  Control'
<1> USE DEF Control
<1>1. UNCHANGED <<job, main, p, pp, side, box, requests, fate, loan, closed>>
  BY DEF vars
<1>2. Types'
  BY <1>1 DEF Types
<1>3. Scheduled'
  BY <1>1, SameSizes DEF Scheduled
<1>4. \A t \in Threads : \A j, m : Fits(t, j, m)' = Fits(t, j, m)
  BY <1>1 DEF Fits, Active, Told
<1>5. Boxes'
  BY <1>1, <1>4 DEF Boxes
<1> QED BY <1>2, <1>3, <1>5

LEMMA NextControl ==
  ASSUME Control, [Next]_vars
  PROVE  Control'
BY MainControl, WorkerControl, SettleControl, StutterControl DEF Next, Ended

(* Main walks through the phases the job asks for, in their order; every   *)
(* message is in its box at the time it is meant for, for the buffers of   *)
(* its own slot; and no message is left when main goes on to the next      *)
(* stage, leaves, or destroys the buffers.                                 *)
THEOREM AlwaysControl == Spec => []Control
BY InitControl, NextControl, PTL DEF Spec

-----------------------------------------------------------------------------
(* The buffers.                                                            *)

(* The requests that main makes: reads of the next group, and writes of    *)
(* this one.                                                               *)
ReadRequested ==
  /\ \/ main = "firstRequests" /\ pp < ProjectionsPerStep
     \/ main = "request" /\ pp < ProjectionsNextStep
  /\ Request("read", Loading(job.source, pp))

WriteRequested(kind) ==
  /\ main = (IF kind = "attenuation" THEN "writeAttenuation" ELSE "writeFiltered")
  /\ pp < ProjectionsThisStep
  /\ Request("write", Active(kind, pp))

(* What a step of main does to the I/O.                                    *)
LEMMA MainIO ==
  ASSUME Control, Main
  PROVE  \/ UNCHANGED <<job, requests, fate, loan>>
         \/ ReadRequested
         \/ \E kind \in {"attenuation", "filtered"} : WriteRequested(kind)
         \/ Leave
<1>1. CASE FirstRequests
  BY <1>1 DEF FirstRequests, ReadRequested, EndRequests, ioVars
<1>2. CASE RequestNext
  BY <1>2 DEF RequestNext, ReadRequested, EndRequests, ioVars
<1>3. CASE WriteAttenuation
  BY <1>3 DEF WriteAttenuation, WriteRequested, EndRequests, ioVars
<1>4. CASE WriteFiltered
  BY <1>4 DEF WriteFiltered, WriteRequested, EndRequests, ioVars
<1>5. CASE Create \/ SwapAttenuation \/ SwapInput \/ Convert \/ Synchronize \/ Barrier
           \/ CorrectBeamPower \/ SwapFiltered \/ Filter \/ ApplyProjections
           \/ NextGroup \/ WriteVolume \/ BarrierVolume
  BY <1>5 DEF Create, SwapAttenuation, SwapInput, Convert, Synchronize, Barrier,
     CorrectBeamPower, SwapFiltered, Filter, ApplyProjections, NextGroup, WriteVolume,
     BarrierVolume, mainVars, ioVars
<1>6. CASE SetReference \/ Check \/ WaitForCompletion \/ CountRequests
  BY <1>6 DEF SetReference, Check, WaitForCompletion, CountRequests, MainThrows,
     mainVars, ioVars
<1> QED BY <1>1, <1>2, <1>3, <1>4, <1>5, <1>6 DEF Main

(* Requests are for images that exist, and for outputs the job asks for.   *)
LEMMA RequestedImages ==
  ASSUME Control
  PROVE  /\ (main = "firstRequests" /\ pp < ProjectionsPerStep) \/ (main = "request" /\ pp < ProjectionsNextStep)
              => pp \in Threads /\ Loading(job.source, pp) \in Images
         /\ \A kind \in {"attenuation", "filtered"} :
              main = (IF kind = "attenuation" THEN "writeAttenuation" ELSE "writeFiltered") /\ pp < ProjectionsThisStep
              => Output(kind) /\ pp \in Threads /\ Active(kind, pp) \in Images
<1> USE DEF Control
<1>1. ASSUME (main = "firstRequests" /\ pp < ProjectionsPerStep) \/ (main = "request" /\ pp < ProjectionsNextStep)
      PROVE  pp \in Threads /\ Loading(job.source, pp) \in Images
  <2>1. pp \in Nat /\ pp < ProjectionsPerStep
    BY <1>1, Sizes DEF Types
  <2> QED BY <2>1, InputImages
<1>2. ASSUME NEW kind \in {"attenuation", "filtered"}, pp < ProjectionsThisStep,
             main = (IF kind = "attenuation" THEN "writeAttenuation" ELSE "writeFiltered")
      PROVE  Output(kind) /\ pp \in Threads /\ Active(kind, pp) \in Images
  <2>1. p < NumberOfProjections /\ Output(kind)
    BY <1>2 DEF Scheduled, Output
  <2>2. pp \in Threads
    BY <2>1, <1>2, Sizes DEF Types, Threads
  <2> QED BY <2>1, <2>2, MessageTypes DEF Kinds
<1> QED BY <1>1, <1>2

(* Reads are of the input, writes of an output, and a pending request has  *)
(* its image on loan.                                                      *)
Requested ==
  /\ Len(fate) = Len(requests)
  /\ \A k \in 1 .. Len(requests) :
       /\ requests[k].op = "read" => requests[k].image[1] = job.source
       /\ requests[k].op = "write" => Output(requests[k].image[1])
       /\ fate[k] = "pending" => loan[requests[k].image] = k

(* The requests have their types.                                          *)
LEMMA RequestTypes ==
  ASSUME Types, NEW k \in 1 .. Len(requests)
  PROVE  requests[k].image \in Images /\ requests[k].op \in {"read", "write"}
<1>1. requests \in Seq([op : {"read", "write"}, image : Images])
  BY DEF Types
<1>2. requests[k] \in [op : {"read", "write"}, image : Images]
  BY <1>1, ElementOfSeq
<1> QED BY <1>2

(* A new request is as requests should be.                                 *)
LEMMA RequestRequested ==
  ASSUME Control, Requested, NEW op \in {"read", "write"}, NEW i \in Images, Request(op, i),
         op = "read" => i[1] = job.source,
         op = "write" => Output(i[1])
  PROVE  Requested'
<1>1. /\ UNCHANGED <<job, main, p, side, box, closed>>
      /\ Len(requests') = Len(requests) + 1
      /\ \A k \in 1 .. Len(requests) : requests'[k] = requests[k]
      /\ requests'[Len(requests) + 1] = [op |-> op, image |-> i]
      /\ Len(fate') = Len(fate) + 1
      /\ \A k \in 1 .. Len(fate) : fate'[k] = fate[k]
      /\ loan[i] = 0
      /\ loan' = [loan EXCEPT ![i] = Len(fate) + 1]
  BY RequestStep DEF Control
<1>2. Len(requests) \in Nat /\ loan \in [Images -> Nat] /\ Len(fate) = Len(requests)
  BY LenProperties DEF Control, Types, Requested
<1>3. ASSUME NEW k \in 1 .. Len(requests')
      PROVE  /\ requests'[k].op = "read" => requests'[k].image[1] = job.source
             /\ requests'[k].op = "write" => Output(requests'[k].image[1])
             /\ fate'[k] = "pending" => loan'[requests'[k].image] = k
  <2>1. CASE k \in 1 .. Len(requests)
    <3>1. requests'[k] = requests[k] /\ fate'[k] = fate[k] /\ requests[k].image \in Images
      BY <1>1, <1>2, <2>1, RequestTypes DEF Control
    <3>2. fate[k] = "pending" => requests[k].image # i
      BY <1>1, <1>2, <2>1 DEF Requested
    <3> QED BY <1>1, <1>2, <2>1, <3>1, <3>2 DEF Requested
  <2>2. CASE k \notin 1 .. Len(requests)
    <3>1. k = Len(requests) + 1
      BY <1>1, <1>2, <1>3, <2>2
    <3> QED BY <1>1, <1>2, <3>1
  <2> QED BY <2>1, <2>2
<1>4. \A kind : Output(kind)' = Output(kind)
  BY <1>1, SameSizes
<1> QED BY <1>1, <1>2, <1>3, <1>4 DEF Requested

(* Requests are always as they should be.                                  *)
LEMMA NextRequested ==
  ASSUME Control, Requested, [Next]_vars
  PROVE  Requested'
<1>1. ASSUME UNCHANGED <<job, requests, fate, loan>>
      PROVE  Requested'
  BY <1>1 DEF Requested, Output
<1>2. CASE Main
  <2>1. CASE ReadRequested
    BY <2>1, RequestedImages, RequestRequested DEF ReadRequested, Loading
  <2>2. ASSUME NEW kind \in {"attenuation", "filtered"}, WriteRequested(kind)
        PROVE  Requested'
    BY <2>2, RequestedImages, RequestRequested DEF WriteRequested, Active
  <2>3. CASE Leave
    <3>1. /\ UNCHANGED <<job, requests, loan>>
          /\ fate' = [k \in DOMAIN fate |-> IF fate[k] = "pending" THEN "dropped" ELSE fate[k]]
      BY <2>3 DEF Leave, IO!Close, mainVars
    <3>2. DOMAIN fate = 1 .. Len(fate) /\ Len(fate) \in Nat
      BY LenProperties DEF Control, Types
    <3>3. Len(fate') = Len(fate) /\ \A k \in 1 .. Len(fate) : fate'[k] # "pending"
      BY <3>1, <3>2
    <3> QED BY <3>1, <3>3 DEF Requested, Output
  <2> QED BY <1>1, <1>2, <2>1, <2>2, <2>3, MainIO
<1>3. ASSUME NEW t \in Threads, Worker(t)
      PROVE  Requested'
  <2>1. UNCHANGED <<job, requests, fate>>
    BY <1>3, WorkerStep DEF mainVars
  <2>2. CASE loan' = loan
    BY <1>1, <2>1, <2>2
  <2>3. ASSUME NEW i, fate[loan[i]] # "pending", loan' = [loan EXCEPT ![i] = 0]
        PROVE  Requested'
    <3>1. \A k \in 1 .. Len(requests) : requests[k].image \in Images
      BY RequestTypes DEF Control
    <3>2. \A k \in 1 .. Len(requests) : fate[k] = "pending" => loan'[requests[k].image] = k
      BY <2>3, <3>1 DEF Requested, Control, Types
    <3> QED BY <2>1, <3>2 DEF Requested, Output
  <2> QED BY <1>3, <2>2, <2>3, WorkerStep
<1>4. CASE Settle
  <2>1. UNCHANGED <<job, requests, loan>>
    BY <1>4, SettleStep DEF mainVars, Control
  <2>2. PICK k \in 1 .. Len(fate), f \in {"done", "failed", "dropped"} : fate' = [fate EXCEPT ![k] = f]
    BY <1>4, SettleStep DEF Control
  <2>3. fate \in Seq(IO!Fates) /\ f \in IO!Fates
    BY DEF Control, Types, IO!Fates
  <2>4. Len(fate') = Len(fate) /\ \A j \in 1 .. Len(fate) : fate'[j] = IF j = k THEN f ELSE fate[j]
    BY <2>2, <2>3, ExceptSeq
  <2> QED BY <2>1, <2>4 DEF Requested, Output
<1>5. CASE UNCHANGED vars
  BY <1>1, <1>5 DEF vars
<1> QED BY <1>2, <1>3, <1>4, <1>5 DEF Next, Ended

-----------------------------------------------------------------------------

(* Where main is when it is done with the groups.                          *)
Ending == {"unwind", "complete", "count", "writeVolume", "barrierVolume", "synchronizeEnd",
           "barrierEnd", "return", "returned", "threw", "crashed"}

(* The steps of main that swap no buffers and start no new group.          *)
Move ==
  \/ main' = main
  \/ main = "create" /\ main' = "firstRequests"
  \/ main = "firstRequests" /\ main' = FirstPhase
  \/ main = "request" /\ main' = FromConvert
  \/ main = "convert" /\ main' = FromSynchronize0
  \/ main = "synchronize0" /\ main' = "barrier0"
  \/ main = "barrier0" /\ main' = "reference"
  \/ main = "reference" /\ main' = FromCorrect
  \/ main = "correct" /\ main' = FromSwap
  \/ main = "filter" /\ main' = "synchronize"
  \/ main = "synchronize" /\ main' = "barrier"
  \/ main = "barrier" /\ main' = "check"
  \/ main = "check" /\ main' = FromCheck
  \/ main = "writeAttenuation" /\ main' = FromWrite
  \/ main = "writeFiltered" /\ main' = FromApply
  \/ main = "apply" /\ main' = "synchronizeApplied"
  \/ main = "synchronizeApplied" /\ main' = "barrierApplied"
  \/ main = "barrierApplied" /\ main' = "checkApplied"
  \/ main = "checkApplied" /\ main' = "next"
  \/ main' \in Ending

(* Every step of main swaps buffers, starts a group, or is a move.         *)
LEMMA MainMoves ==
  ASSUME Control, Main
  PROVE  \/ SwapAttenuation \/ SwapInput \/ SwapFiltered \/ NextGroup
         \/ Move /\ UNCHANGED <<job, p, side>>
<1> SUFFICES ASSUME ~SwapAttenuation, ~SwapInput, ~SwapFiltered, ~NextGroup
             PROVE  Move /\ UNCHANGED <<job, p, side>>
  OBVIOUS
<1>1. CASE Create
  BY <1>1 DEF Create, Move, mainVars
<1>2. CASE FirstRequests
  BY <1>2 DEF FirstRequests, Request, EndRequests, Move
<1>3. CASE RequestNext
  BY <1>3, PhaseOrder DEF RequestNext, Request, EndRequests, Move
<1>4. CASE Convert
  BY <1>4, PhaseOrder DEF Convert, Move, mainVars
<1>5. CASE Synchronize
  BY <1>5 DEF Synchronize, Move, mainVars, Ending
<1>6. CASE Barrier
  BY <1>6 DEF Barrier, Move, mainVars, Ending
<1>7. CASE SetReference
  BY <1>7, PhaseOrder DEF SetReference, MainThrows, Move, mainVars, Ending
<1>8. CASE CorrectBeamPower
  BY <1>8, PhaseOrder DEF CorrectBeamPower, Move, mainVars
<1>9. CASE Filter
  BY <1>9, PhaseOrder DEF Filter, Move, mainVars
<1>10. CASE Check
  <2>1. /\ main \in {"check", "checkApplied"} /\ main' \in {After(main), "unwind"}
        /\ UNCHANGED <<job, p, side>>
    BY <1>10 DEF Check, MainThrows, mainVars
  <2> QED BY <2>1, PhaseOrder DEF Move, Ending
<1>11. CASE WriteAttenuation
  BY <1>11, PhaseOrder DEF WriteAttenuation, Request, EndRequests, Move
<1>12. CASE WriteFiltered
  BY <1>12, PhaseOrder DEF WriteFiltered, Request, EndRequests, Move
<1>13. CASE ApplyProjections
  BY <1>13, PhaseOrder DEF ApplyProjections, Move, mainVars, Control, Scheduled
<1>14. CASE WaitForCompletion \/ CountRequests
  BY <1>14 DEF WaitForCompletion, CountRequests, MainThrows, Move, mainVars, Ending
<1>15. CASE WriteVolume \/ BarrierVolume \/ Leave
  BY <1>15 DEF WriteVolume, BarrierVolume, Leave, Move, mainVars, Ending
<1> QED BY <1>1, <1>2, <1>3, <1>4, <1>5, <1>6, <1>7, <1>8, <1>9, <1>10, <1>11, <1>12,
           <1>13, <1>14, <1>15 DEF Main

(* Until the last group is done.                                           *)
Early == Turn \cup {"create", "firstRequests"}

(* A move does not change what has been swapped in this turn, nor take     *)
(* back what is being written.                                             *)
LEMMA Progress ==
  ASSUME Control, Move, UNCHANGED <<job, p, side>>, main' \in Early
  PROVE  /\ main \in Early
         /\ \A kind : Output(kind) =>
              /\ Swapped(kind)' <=> Swapped(kind)
              /\ Writing(kind) => Writing(kind)'
<1>1. main \in Early
  BY DEF Move, Early, Ending
<1>2. ASSUME NEW kind, Output(kind)
      PROVE  /\ Swapped(kind)' <=> Swapped(kind)
             /\ Writing(kind) => Writing(kind)'
  <2>1. kind \in {"attenuation", "filtered"} /\ kind # job.source
        /\ (kind = "attenuation" => job.attenuationWriter)
        /\ (kind = "filtered" => job.filteredWriter)
    BY <1>2, JobFacts DEF Output, Control
  <2>2. main' \notin Ending
    BY DEF Early, Ending
  <2> QED BY <2>1, <2>2 DEF Move, Swapped, Writing, FirstPhase, FromConvert,
      FromSynchronize0, FromCorrect, FromSwap, FromFilter, FromCheck, FromWrite, FromApply
<1> QED BY <1>1, <1>2

(* No request has ever been made for a kind's images of side s.            *)
NoRequest(kind, s) ==
  \A k \in 1 .. Len(requests) : requests[k].image[1] = kind => requests[k].image[3] # s

(* In the first two groups the side of an output that is about to be       *)
(* filled has never been requested: there is nothing to wait for.          *)
Fresh ==
  main \in Early =>
    \A kind \in Kinds : Output(kind) =>
      IF Swapped(kind)
      THEN /\ p = 0 => NoRequest(kind, Other(side[kind]))
           /\ p <= ProjectionsPerStep /\ ~Writing(kind) => NoRequest(kind, side[kind])
      ELSE /\ p = 0 => NoRequest(kind, side[kind])
           /\ p <= ProjectionsPerStep => NoRequest(kind, Other(side[kind]))

(* Moves without requests keep fresh sides fresh.                          *)
LEMMA FreshMove ==
  ASSUME Control, Fresh, Move, UNCHANGED <<job, p, side, requests>>
  PROVE  Fresh'
<1> SUFFICES ASSUME main' \in Early, NEW kind \in Kinds, Output(kind)'
             PROVE  IF Swapped(kind)'
                    THEN /\ p = 0 => NoRequest(kind, Other(side[kind]))
                         /\ p <= ProjectionsPerStep /\ ~Writing(kind)' => NoRequest(kind, side[kind])
                    ELSE /\ p = 0 => NoRequest(kind, side[kind])
                         /\ p <= ProjectionsPerStep => NoRequest(kind, Other(side[kind]))
  BY SameSizes DEF Fresh, NoRequest, Other
<1>1. Output(kind)
  BY SameSizes
<1>2. main \in Early /\ (Swapped(kind)' <=> Swapped(kind)) /\ (Writing(kind) => Writing(kind)')
  BY <1>1, Progress
<1> QED BY <1>1, <1>2 DEF Fresh

(* There are two sides.                                                    *)
LEMMA OtherSide ==
  ASSUME Types, NEW kind \in Kinds
  PROVE  /\ Other(side[kind]) # side[kind]
         /\ Other(Other(side[kind])) = side[kind]
  BY DEF Types, Sides, Other

(* Fresh sides are only requested once they have been filled.              *)
LEMMA NextFresh ==
  ASSUME Control, Requested, Fresh, [Next]_vars
  PROVE  Fresh'
<1> USE DEF Control
<1>1. ASSUME UNCHANGED <<job, main, p, side, requests>>
      PROVE  Fresh'
  BY <1>1, FreshMove DEF Move
<1>2. CASE Main
  <2>1. CASE SwapAttenuation
    <3>1. /\ main = "swapAttenuation" /\ main' = "swapInput"
          /\ side' = [side EXCEPT !["attenuation"] = Other(side["attenuation"])]
          /\ UNCHANGED <<job, p, requests>>
      BY <2>1, PhaseOrder DEF SwapAttenuation, SwapOutput, Swap, ioVars
    <3> SUFFICES ASSUME NEW kind \in Kinds, Output(kind)'
                 PROVE  IF Swapped(kind)'
                    THEN /\ p = 0 => NoRequest(kind, Other(side'[kind]))
                         /\ p <= ProjectionsPerStep /\ ~Writing(kind)' => NoRequest(kind, side'[kind])
                    ELSE /\ p = 0 => NoRequest(kind, side'[kind])
                         /\ p <= ProjectionsPerStep => NoRequest(kind, Other(side'[kind]))
      BY <3>1, SameSizes DEF Fresh, NoRequest, Other
    <3>2. Output(kind) /\ kind # job.source /\ kind \in {"attenuation", "filtered"}
      BY <3>1, SameSizes, JobFacts DEF Output
    <3>3. main \in Early /\ ~Swapped(kind) /\ (Swapped(kind)' <=> kind = "attenuation")
      BY <3>1, <3>2 DEF Early, Swapped
    <3>4. IF kind = "attenuation" THEN side'[kind] = Other(side[kind]) /\ Other(side'[kind]) = side[kind]
          ELSE side'[kind] = side[kind]
      BY <3>1, OtherSide DEF Types
    <3> QED BY <3>2, <3>3, <3>4 DEF Fresh
  <2>2. CASE SwapFiltered
    <3>1. /\ main = "swapFiltered" /\ main' \in {"filter", "synchronize"}
          /\ side' = [side EXCEPT !["filtered"] = Other(side["filtered"])]
          /\ UNCHANGED <<job, p, requests>>
      BY <2>2, PhaseOrder DEF SwapFiltered, SwapOutput, Swap, ioVars, FromFilter
    <3> SUFFICES ASSUME NEW kind \in Kinds, Output(kind)'
                 PROVE  IF Swapped(kind)'
                    THEN /\ p = 0 => NoRequest(kind, Other(side'[kind]))
                         /\ p <= ProjectionsPerStep /\ ~Writing(kind)' => NoRequest(kind, side'[kind])
                    ELSE /\ p = 0 => NoRequest(kind, side'[kind])
                         /\ p <= ProjectionsPerStep => NoRequest(kind, Other(side'[kind]))
      BY <3>1, SameSizes DEF Fresh, NoRequest, Other
    <3>2. Output(kind) /\ kind # job.source /\ kind \in {"attenuation", "filtered"}
      BY <3>1, SameSizes, JobFacts DEF Output
    <3>3. main \in Early /\ (Swapped(kind) <=> kind = "attenuation") /\ Swapped(kind)' /\ ~Writing(kind)
      BY <3>1, <3>2 DEF Early, Swapped, Writing
    <3>4. IF kind = "filtered" THEN side'[kind] = Other(side[kind]) /\ Other(side'[kind]) = side[kind]
          ELSE side'[kind] = side[kind]
      BY <3>1, OtherSide DEF Types
    <3> QED BY <3>2, <3>3, <3>4 DEF Fresh
  <2>3. CASE SwapInput
    <3>1. /\ main = "swapInput" /\ main' = "request"
          /\ side' = [side EXCEPT ![job.source] = Other(side[job.source])]
          /\ UNCHANGED <<job, p, requests>>
      BY <2>3 DEF SwapInput, Swap, ioVars
    <3> SUFFICES ASSUME NEW kind \in Kinds, Output(kind)'
                 PROVE  IF Swapped(kind)'
                    THEN /\ p = 0 => NoRequest(kind, Other(side'[kind]))
                         /\ p <= ProjectionsPerStep /\ ~Writing(kind)' => NoRequest(kind, side'[kind])
                    ELSE /\ p = 0 => NoRequest(kind, side'[kind])
                         /\ p <= ProjectionsPerStep => NoRequest(kind, Other(side'[kind]))
      BY <3>1, SameSizes DEF Fresh, NoRequest, Other
    <3>2. Output(kind) /\ kind # job.source /\ kind \in {"attenuation", "filtered"}
      BY <3>1, SameSizes, JobFacts DEF Output
    <3>3. main \in Early /\ (Swapped(kind)' <=> Swapped(kind)) /\ ~Writing(kind)
      BY <3>1, <3>2 DEF Early, Swapped, Writing
    <3>4. side'[kind] = side[kind]
      BY <3>1, <3>2 DEF Types
    <3> QED BY <3>2, <3>3, <3>4 DEF Fresh
  <2>4. CASE NextGroup
    <3>1. /\ main = "next" /\ p' = p + ProjectionsPerStep
          /\ main' \in {FirstPhase, "complete"}
          /\ UNCHANGED <<job, side, requests>>
      BY <2>4 DEF NextGroup, ioVars
    <3> SUFFICES ASSUME main' \in Early, NEW kind \in Kinds, Output(kind)'
                 PROVE  IF Swapped(kind)'
                    THEN /\ p' = 0 => NoRequest(kind, Other(side[kind]))
                         /\ p' <= ProjectionsPerStep /\ ~Writing(kind)' => NoRequest(kind, side[kind])
                    ELSE /\ p' = 0 => NoRequest(kind, side[kind])
                         /\ p' <= ProjectionsPerStep => NoRequest(kind, Other(side[kind]))
      BY <3>1, SameSizes DEF Fresh, NoRequest, Other
    <3>2. Output(kind) /\ kind # job.source /\ kind \in {"attenuation", "filtered"}
      BY <3>1, SameSizes, JobFacts DEF Output
    <3>3. main \in Early /\ Swapped(kind)
      BY <3>1, <3>2 DEF Early, Swapped
    <3>4. ~Swapped(kind)'
      BY <3>1, <3>2 DEF Early, Swapped, FirstPhase, Output
    <3>5. p' # 0 /\ (p' <= ProjectionsPerStep => p = 0)
      BY <3>1, Sizes DEF Types
    <3> QED BY <3>2, <3>3, <3>4, <3>5 DEF Fresh
  <2>5. CASE Move /\ UNCHANGED <<job, p, side>>
    <3>1. CASE UNCHANGED requests
      BY <2>5, <3>1, FreshMove
    <3>2. ASSUME NEW op \in {"read", "write"}, NEW i \in Images, Request(op, i),
                 op = "read" => i[1] = job.source,
                 op = "write" => /\ Output(i[1])
                                 /\ i[3] = side[i[1]]
                                 /\ main = (IF i[1] = "attenuation" THEN "writeAttenuation" ELSE "writeFiltered")
          PROVE  Fresh'
      <4>1. /\ UNCHANGED <<job, main, p, side>>
            /\ Len(requests) \in Nat
            /\ Len(requests') = Len(requests) + 1
            /\ \A k \in 1 .. Len(requests) : requests'[k] = requests[k]
            /\ requests'[Len(requests) + 1] = [op |-> op, image |-> i]
        BY <3>2, RequestStep, LenProperties DEF Types
      <4> SUFFICES ASSUME main \in Early, NEW kind \in Kinds, Output(kind)
                   PROVE  IF Swapped(kind)
                    THEN /\ p = 0 => NoRequest(kind, Other(side[kind]))'
                         /\ p <= ProjectionsPerStep /\ ~Writing(kind) => NoRequest(kind, side[kind])'
                    ELSE /\ p = 0 => NoRequest(kind, side[kind])'
                         /\ p <= ProjectionsPerStep => NoRequest(kind, Other(side[kind]))'
        BY <4>1, SameSizes DEF Fresh, Swapped, Writing
      <4>2. kind # job.source /\ kind \in {"attenuation", "filtered"}
        BY JobFacts DEF Output
      <4>3. \A s : NoRequest(kind, s) /\ (i[1] = kind => i[3] # s) => NoRequest(kind, s)'
        BY <4>1 DEF NoRequest
      <4>4. i[1] = kind => Swapped(kind) /\ Writing(kind) /\ i[3] = side[kind]
        BY <3>2, <4>2 DEF Swapped, Writing
      <4> QED BY <4>1, <4>3, <4>4, OtherSide DEF Fresh
    <3>3. CASE ReadRequested
      BY <3>2, <3>3, RequestedImages DEF ReadRequested, Loading
    <3>4. ASSUME NEW kind \in {"attenuation", "filtered"}, WriteRequested(kind)
          PROVE  Fresh'
      BY <3>2, <3>4, RequestedImages DEF WriteRequested, Active
    <3>5. CASE Leave
      BY <2>5, <3>1, <3>5 DEF Leave
    <3> QED BY <1>2, <3>1, <3>3, <3>4, <3>5, MainIO
  <2> QED BY <1>2, <2>1, <2>2, <2>3, <2>4, <2>5, MainMoves
<1>3. ASSUME NEW t \in Threads, Worker(t)
      PROVE  Fresh'
  <2>1. UNCHANGED <<job, p, side, requests>> /\ main' \in {main, "crashed"}
    BY <1>3, WorkerStep DEF mainVars
  <2> QED BY <2>1, FreshMove DEF Move, Ending
<1>4. CASE Settle
  BY <1>1, <1>4, SettleStep DEF mainVars
<1>5. CASE UNCHANGED vars
  BY <1>1, <1>5 DEF vars
<1> QED BY <1>2, <1>3, <1>4, <1>5 DEF Next, Ended

-----------------------------------------------------------------------------

(* Worker t waits for image i before its message n + 1.                    *)
Awaited(t, n, i) == \E l \in 1 .. n : i \in box[t][l].awaits

(* Message m would use an image while the pending k-th request uses it.    *)
Clash(m, k) ==
  /\ fate[k] = "pending"
  /\ \/ requests[k].image \in m.to
     \/ requests[k].image \in m.from /\ requests[k].op = "read"

(* Every message that would clash with a request comes after a wait for    *)
(* it.                                                                     *)
Guarded ==
  ~IO!Failed =>
  \A t \in Threads : \A j \in 1 .. Len(box[t]) : \A k \in 1 .. Len(requests) :
    Clash(box[t][j], k) => Awaited(t, j - 1, requests[k].image)

(* The group's buffers of this kind are the workers' to use.               *)
Held(kind) == Told(kind) /\ ~(Output(kind) /\ Writing(kind))

(* A pending request for a buffer that is the workers' to use will have    *)
(* been waited for before any message that may yet be sent.                *)
Covered ==
  ~IO!Failed =>
  \A kind \in Kinds, t \in Threads :
    t < ProjectionsThisStep /\ Held(kind) =>
      \A k \in 1 .. Len(requests) :
        fate[k] = "pending" /\ requests[k].image = Active(kind, t)
          => Awaited(t, Len(box[t]), Active(kind, t))

(* The workers are kept apart from the I/O processor.                      *)
Sheltered == Guarded /\ Covered

(* Only inputs and outputs are ever requested.                             *)
LEMMA Strangers ==
  ASSUME Control, Requested, NEW k \in 1 .. Len(requests)
  PROVE  \/ requests[k].image[1] = job.source
         \/ Output(requests[k].image[1])
  BY RequestTypes DEF Control, Requested

(* A move gives the workers no new buffers, but when the input has been    *)
(* waited for.                                                             *)
LEMMA HeldMove ==
  ASSUME Control, Move, UNCHANGED <<job, p, side>>, NEW kind, Output(kind) \/ kind = job.source,
         kind = job.source => main' = main \/ main # "request",
         Held(kind)'
  PROVE  Held(kind)
<1>1. main' \notin Ending
  BY DEF Held, Told, Ending
<1>2. CASE kind = job.source
  <2>1. ~Output(kind) /\ ~Output(kind)'
    BY <1>2, JobFacts, SameSizes DEF Control
  <2> QED BY <1>1, <1>2, <2>1 DEF Held, Told, Move, FirstPhase, FromConvert,
      FromSynchronize0, FromCorrect, FromSwap, FromFilter, FromCheck, FromWrite, FromApply
<1>3. CASE Output(kind) /\ kind # job.source
  <2>1. kind \in {"attenuation", "filtered"}
        /\ (kind = "attenuation" => job.attenuationWriter)
        /\ (kind = "filtered" => job.filteredWriter)
    BY <1>3 DEF Output
  <2>2. Output(kind)'
    BY <1>3, SameSizes
  <2> QED BY <1>1, <1>3, <2>1, <2>2 DEF Held, Told, Writing, Move, FirstPhase,
             FromConvert,
      FromSynchronize0, FromCorrect, FromSwap, FromFilter, FromCheck, FromWrite, FromApply
<1> QED BY <1>2, <1>3

(* A wait stays in front of what it was in front of.                       *)
LEMMA KeepsAwaited ==
  ASSUME NEW t, Keeps(t), Len(box[t]) \in Nat, Len(box'[t]) \in Nat,
         NEW n \in Nat, n <= Len(box[t]), NEW m \in Nat, n <= m,
         NEW i, Awaited(t, n, i)
  PROVE  Awaited(t, m, i)'
<1>1. PICK l \in 1 .. n : i \in box[t][l].awaits
  BY DEF Awaited
<1>2. l \in 1 .. m /\ box'[t][l] = box[t][l]
  BY DEF Keeps
<1> QED BY <1>1, <1>2 DEF Awaited

(* When everything new in the boxes comes after a wait for what it clashes *)
(* with, everything does.                                                  *)
LEMMA GuardedSends ==
  ASSUME Types, Types', Guarded, UNCHANGED <<requests, fate>>,
         \A t \in Threads : Keeps(t),
         \A t \in Threads : \A j \in Len(box[t]) + 1 .. Len(box'[t]) :
           \A k \in 1 .. Len(requests) :
             ~IO!Failed /\ Clash(box'[t][j], k) => Awaited(t, Len(box[t]), requests[k].image)
  PROVE  Guarded'
<1> SUFFICES ASSUME ~IO!Failed, NEW t \in Threads, NEW j \in 1 .. Len(box'[t]),
                    NEW k \in 1 .. Len(requests), Clash(box'[t][j], k)
             PROVE  Awaited(t, j - 1, requests[k].image)'
  BY DEF Guarded, IO!Failed, Clash
<1>1. Len(box[t]) \in Nat /\ Len(box'[t]) \in Nat
  BY LenProperties DEF Types
<1>2. CASE j \in 1 .. Len(box[t])
  <2>1. box'[t][j] = box[t][j]
    BY <1>2 DEF Keeps
  <2>2. Awaited(t, j - 1, requests[k].image)
    BY <1>2, <2>1 DEF Guarded
  <2> QED BY <1>1, <1>2, <2>2, KeepsAwaited
<1>3. CASE j \notin 1 .. Len(box[t])
  <2>1. Awaited(t, Len(box[t]), requests[k].image)
    BY <1>1, <1>3
  <2> QED BY <1>1, <1>3, <2>1, KeepsAwaited
<1> QED BY <1>2, <1>3

(* What was covered stays covered while messages are only added.           *)
LEMMA CoveredSends ==
  ASSUME Types, Types', Covered, UNCHANGED <<job, p, requests, fate>>,
         \A t \in Threads : Keeps(t),
         \A kind \in Kinds : \A t \in Threads : \A k \in 1 .. Len(requests) :
           /\ ~IO!Failed
           /\ Held(kind)'
           /\ t < ProjectionsThisStep
           /\ fate[k] = "pending"
           /\ requests[k].image = Active(kind, t)'
           => \/ Held(kind) /\ side'[kind] = side[kind]
              \/ Awaited(t, Len(box[t]), Active(kind, t))'
  PROVE  Covered'
<1> SUFFICES ASSUME ~IO!Failed, NEW kind \in Kinds, NEW t \in Threads, t < ProjectionsThisStep,
                    Held(kind)', NEW k \in 1 .. Len(requests), fate[k] = "pending",
                    requests[k].image = Active(kind, t)'
             PROVE  Awaited(t, Len(box[t]), Active(kind, t))'
  BY SameSizes DEF Covered, IO!Failed
<1>1. Len(box[t]) \in Nat /\ Len(box'[t]) \in Nat /\ Len(box[t]) <= Len(box'[t])
  BY LenProperties DEF Types, Keeps
<1>2. CASE Held(kind) /\ side'[kind] = side[kind]
  <2>1. Active(kind, t)' = Active(kind, t)
    BY <1>2 DEF Active
  <2>2. Awaited(t, Len(box[t]), Active(kind, t))
    BY <1>2, <2>1 DEF Covered
  <2>3. PICK l \in 1 .. Len(box[t]) : Active(kind, t) \in box[t][l].awaits
    BY <2>2 DEF Awaited
  <2>4. l \in 1 .. Len(box'[t]) /\ box'[t][l] = box[t][l]
    BY <1>1 DEF Keeps
  <2> QED BY <2>1, <2>3, <2>4 DEF Awaited
<1> QED BY <1>2

(* No message of the group awaits, reads or writes anything any more.      *)
LEMMA ClearedSheltered ==
  ASSUME Types, \A t \in Threads : box'[t] = <<>>, UNCHANGED <<job, p, requests, fate>>,
         \A kind \in Kinds : \A t \in Threads : \A k \in 1 .. Len(requests) :
           ~IO!Failed /\ Held(kind)' /\ t < ProjectionsThisStep /\ fate[k] = "pending"
           => requests[k].image # Active(kind, t)'
  PROVE  Sheltered'
<1>1. \A t \in Threads : 1 .. Len(box'[t]) = {}
  OBVIOUS
<1>2. Guarded'
  BY <1>1 DEF Guarded
<1>3. Covered'
  BY SameSizes DEF Covered, IO!Failed
<1> QED BY <1>2, <1>3 DEF Sheltered

(* Boxes that stay the same.                                               *)
LEMMA SameBoxes ==
  ASSUME UNCHANGED box
  PROVE  \A t \in Threads : Keeps(t) /\ Len(box[t]) + 1 .. Len(box'[t]) = {}
<1>1. \A t \in Threads : box'[t] = box[t]
  OBVIOUS
<1> QED BY <1>1 DEF Keeps

(* The images of the requests that are not read or written by the group.   *)
LEMMA QuietSheltered ==
  ASSUME Control, Control', Requested, Sheltered, UNCHANGED <<job, p, side, requests, fate>>, Move,
         \A t \in Threads : Keeps(t),
         \A t \in Threads : \A j \in Len(box[t]) + 1 .. Len(box'[t]) :
           \A k \in 1 .. Len(requests) :
             ~IO!Failed /\ Clash(box'[t][j], k) => Awaited(t, Len(box[t]), requests[k].image),
         main = "request" => main' = main
  PROVE  Sheltered'
<1> USE DEF Control
<1>1. Guarded'
  BY GuardedSends DEF Sheltered
<1>2. ASSUME NEW kind \in Kinds, NEW t \in Threads, NEW k \in 1 .. Len(requests),
             Held(kind)', requests[k].image = Active(kind, t)'
      PROVE  Held(kind) /\ side'[kind] = side[kind]
  <2>1. Output(kind) \/ kind = job.source
    BY <1>2, Strangers DEF Active
  <2> QED BY <1>2, <2>1, HeldMove
<1>3. Covered'
  BY <1>2, CoveredSends DEF Sheltered
<1> QED BY <1>1, <1>3 DEF Sheltered

(* The messages that set up the workers use no images.                     *)
LEMMA CreateSheltered ==
  ASSUME Control, Control', Requested, Sheltered, Create
  PROVE  Sheltered'
<1> USE DEF Control
<1>1. /\ main = "create" /\ main' = "firstRequests"
      /\ UNCHANGED <<job, p, pp, side, requests, fate, loan, closed>>
  BY DEF Create, mainVars, ioVars
<1>2. \A t \in Threads : box[t] = <<>> /\ Len(box'[t]) \in Nat
  BY <1>1, IdleIsEmpty, LenProperties DEF Filling, Applying, Types
<1>3. \A t \in Threads : Keeps(t)
  <2>1. \A t \in Threads : Len(box[t]) = 0 /\ 1 .. Len(box[t]) = {}
    BY <1>2
  <2> QED BY <1>2, <2>1 DEF Keeps
<1>4. ASSUME NEW t \in Threads, NEW j \in Len(box[t]) + 1 .. Len(box'[t]), NEW k
      PROVE  ~Clash(box'[t][j], k)
  <2>1. j \in 1 .. Len(box'[t])
    BY <1>2, <1>4
  <2>2. \E op \in Setups : box'[t][j] = Plain(op)
    BY <2>1, CreateStep DEF SetupsSent
  <2>3. box'[t][j].from = {} /\ box'[t][j].to = {}
    BY <2>2 DEF Plain, Message
  <2> QED BY <2>3 DEF Clash
<1> QED BY <1>1, <1>3, <1>4, QuietSheltered DEF Move

(* Waits are sent after the messages that are there.                       *)
LEMMA AwaitsKeep ==
  ASSUME Types, NEW kind, AwaitsSent(kind), NEW t \in Threads
  PROVE  Len(box[t]) \in Nat /\ Keeps(t)
<1>1. Len(box[t]) \in Nat
  BY LenProperties DEF Types
<1>2. CASE t < ProjectionsThisStep
  BY <1>1, <1>2 DEF AwaitsSent, Keeps
<1>3. CASE ~(t < ProjectionsThisStep)
  <2>1. box'[t] = box[t]
    BY <1>3 DEF AwaitsSent
  <2> QED BY <1>1, <2>1 DEF Keeps
<1> QED BY <1>1, <1>2, <1>3

(* A swap of outputs comes with the waits for their last writes, or there  *)
(* were none.                                                              *)
LEMMA SwapOutputSheltered ==
  ASSUME Control, Control', Requested, Fresh, Sheltered, NEW kind \in Kinds, SwapOutput(kind), main' = After(main),
         \/ kind = "attenuation" /\ main = "swapAttenuation"
         \/ kind = "filtered" /\ main = "swapFiltered",
         UNCHANGED <<job, p, pp, requests, fate, loan, closed>>
  PROVE  Sheltered'
<1> USE DEF Control
<1>1. /\ side' = [side EXCEPT ![kind] = Other(side[kind])]
      /\ \/ p > ProjectionsPerStep /\ AwaitsSent(kind)
         \/ p <= ProjectionsPerStep /\ box' = box
  BY SwapStep
<1>2. main' \in {"swapInput", "filter", "synchronize"}
      /\ (main' = "swapInput" <=> kind = "attenuation")
  BY PhaseOrder DEF FromFilter
<1>3. \A t \in Threads : Len(box[t]) \in Nat /\ Keeps(t)
  BY <1>1, LenProperties, SameBoxes, AwaitsKeep DEF Types
<1>4. ASSUME NEW t \in Threads, NEW j \in Len(box[t]) + 1 .. Len(box'[t]), NEW k
      PROVE  ~Clash(box'[t][j], k)
  <2>1. AwaitsSent(kind)
    BY <1>1, <1>4, SameBoxes
  <2>2. box'[t][j] = Await(Active(kind, t))'
    BY <1>3, <1>4, <2>1 DEF AwaitsSent
  <2>3. box'[t][j].from = {} /\ box'[t][j].to = {}
    BY <2>2 DEF Await, Message
  <2> QED BY <2>3 DEF Clash
<1>5. Guarded'
  BY <1>3, <1>4, GuardedSends DEF Sheltered
<1>6. ASSUME NEW other \in Kinds, NEW t \in Threads, NEW k \in 1 .. Len(requests),
             Held(other)', t < ProjectionsThisStep, requests[k].image = Active(other, t)'
      PROVE  \/ Held(other) /\ side'[other] = side[other]
             \/ Awaited(t, Len(box[t]), Active(other, t))'
  <2>1. other = job.source \/ Output(other)
    BY <1>6, Strangers DEF Active
  <2>2. CASE other # kind
    <3>1. side'[other] = side[other]
      BY <1>1, <2>2 DEF Types
    <3>2. Output(other) => other \in {"attenuation", "filtered"} /\ other # job.source
      BY JobFacts DEF Output
    <3>3. Told(other)
      BY <1>2, <1>6, <2>1, <2>2, <3>2 DEF Held, Told
    <3>4. ~Writing(other)
      BY DEF Writing
    <3> QED BY <3>1, <3>3, <3>4 DEF Held
  <2>3. CASE other = kind
    <3>1. Output(kind) /\ kind # job.source
      BY <1>1, JobFacts DEF Output, Scheduled
    <3>2. main \in Early /\ ~Swapped(kind)
      BY <3>1 DEF Early, Swapped
    <3>3. requests[k].image = <<kind, t, Other(side[kind])>>
      BY <1>1, <1>6, <2>3 DEF Active, Types
    <3>4. ~(p <= ProjectionsPerStep)
      BY <3>1, <3>2, <3>3 DEF Fresh, NoRequest
    <3>5. AwaitsSent(kind)
      BY <1>1, <3>4
    <3>6. /\ Len(box'[t]) = Len(box[t]) + 1
          /\ box'[t][Len(box[t]) + 1] = Await(Active(kind, t))'
      BY <1>6, <3>5 DEF AwaitsSent
    <3>7. Active(kind, t)' \in box'[t][Len(box'[t])].awaits /\ Len(box'[t]) \in 1 .. Len(box'[t])
      BY <1>3, <3>6 DEF Await, Message
    <3> QED BY <2>3, <3>7 DEF Awaited
  <2> QED BY <2>2, <2>3
<1>7. Covered'
  BY <1>3, <1>6, CoveredSends DEF Sheltered
<1> QED BY <1>5, <1>7 DEF Sheltered

(* The input is not the workers' to use when it is swapped.                *)
LEMMA SwapInputSheltered ==
  ASSUME Control, Control', Requested, Sheltered, SwapInput
  PROVE  Sheltered'
<1> USE DEF Control
<1>1. /\ main = "swapInput" /\ main' = "request"
      /\ side' = [side EXCEPT ![job.source] = Other(side[job.source])]
      /\ UNCHANGED <<job, p, pp, box, requests, fate, loan, closed>>
  BY DEF SwapInput, Swap, ioVars
<1>2. \A t \in Threads : Keeps(t) /\ Len(box[t]) + 1 .. Len(box'[t]) = {}
  BY <1>1, SameBoxes
<1>3. Guarded'
  BY <1>1, <1>2, GuardedSends DEF Sheltered
<1>4. ASSUME NEW kind \in Kinds, NEW t \in Threads, NEW k \in 1 .. Len(requests),
             Held(kind)', requests[k].image = Active(kind, t)'
      PROVE  Held(kind) /\ side'[kind] = side[kind]
  <2>1. kind # job.source
    BY <1>1, <1>4 DEF Held, Told
  <2>2. Output(kind)
    BY <2>1, <1>4, Strangers DEF Active
  <2>3. side'[kind] = side[kind] /\ Told(kind) /\ ~Writing(kind)
    BY <1>1, <1>4, <2>1, <2>2 DEF Held, Told, Writing, Output, Types
  <2> QED BY <2>3 DEF Held
<1>5. Covered'
  BY <1>1, <1>2, <1>4, CoveredSends DEF Sheltered
<1> QED BY <1>3, <1>5 DEF Sheltered

(* When the next group has been requested the workers are told to wait for *)
(* this one.                                                               *)
LEMMA RequestedAllSheltered ==
  ASSUME Control, Control', Requested, Sheltered, RequestNext, UNCHANGED requests
  PROVE  Sheltered'
<1> USE DEF Control
<1>1. /\ Send(ProjectionsThisStep, LAMBDA k : Await(Active(job.source, k)))
      /\ EndRequests(After("request")) /\ main = "request"
  <2>1. ASSUME Request("read", Loading(job.source, pp)) PROVE requests' # requests
    <3>1. requests \in Seq([op : {"read", "write"}, image : Images])
      BY DEF Types
    <3>2. Len(requests') = Len(requests) + 1 \/ Loading(job.source, pp) \notin Images
      BY <2>1, RequestStep
    <3>3. requests' = Append(requests, [op |-> "read", image |-> Loading(job.source, pp)])
      BY <2>1 DEF Request
    <3> QED BY <3>1, <3>3
  <2> QED BY <2>1 DEF RequestNext
<1>2. /\ main' = FromConvert /\ pp' = 0
      /\ UNCHANGED <<job, p, side, requests, fate, loan, closed>>
  BY <1>1, PhaseOrder DEF EndRequests, ioVars
<1>3. AwaitsSent(job.source)
  BY <1>1, <1>2, RequestedAllStep
<1>4. main' \in {"convert", "synchronize0", "correct", "swapFiltered", "filter", "synchronize"}
  BY <1>2 DEF FromConvert, FromSynchronize0, FromCorrect, FromSwap, FromFilter
<1>5. \A t \in Threads : Len(box[t]) \in Nat /\ Keeps(t)
  BY <1>3, AwaitsKeep
<1>6. ASSUME NEW t \in Threads, NEW j \in Len(box[t]) + 1 .. Len(box'[t]), NEW k
      PROVE  ~Clash(box'[t][j], k)
  <2>2. box'[t][j] = Await(Active(job.source, t))'
    BY <1>3, <1>5, <1>6 DEF AwaitsSent
  <2>3. box'[t][j].from = {} /\ box'[t][j].to = {}
    BY <2>2 DEF Await, Message
  <2> QED BY <2>3 DEF Clash
<1>7. Guarded'
  BY <1>2, <1>5, <1>6, GuardedSends DEF Sheltered
<1>8. ASSUME NEW kind \in Kinds, NEW t \in Threads, NEW k \in 1 .. Len(requests),
             Held(kind)', t < ProjectionsThisStep, requests[k].image = Active(kind, t)'
      PROVE  \/ Held(kind) /\ side'[kind] = side[kind]
             \/ Awaited(t, Len(box[t]), Active(kind, t))'
  <2>1. CASE kind # job.source
    <3>1. Output(kind)
      BY <2>1, <1>8, Strangers DEF Active
    <3>2. Move
      BY <1>1, <1>2 DEF Move
    <3> QED BY <1>2, <1>8, <2>1, <3>1, <3>2, HeldMove
  <2>2. CASE kind = job.source
    <3>1. /\ Len(box'[t]) = Len(box[t]) + 1
          /\ box'[t][Len(box[t]) + 1] = Await(Active(job.source, t))'
      BY <1>8, <1>3 DEF AwaitsSent
    <3>2. Active(kind, t)' \in box'[t][Len(box'[t])].awaits /\ Len(box'[t]) \in 1 .. Len(box'[t])
      BY <1>2, <1>5, <2>2, <3>1 DEF Await, Message, Active
    <3> QED BY <3>2 DEF Awaited
  <2> QED BY <2>1, <2>2
<1>9. Covered'
  BY <1>2, <1>5, <1>8, CoveredSends DEF Sheltered
<1> QED BY <1>7, <1>9 DEF Sheltered

(* Transformations of buffers that are the workers' to use are behind the  *)
(* waits for them.                                                         *)
LEMMA TransformsSheltered ==
  ASSUME Control, Control', Requested, Sheltered, NEW kinds \in SUBSET Kinds, TransformsSent(kinds),
         UNCHANGED <<job, p, side, requests, fate>>, Move, main # "request",
         \A kind \in kinds : Held(kind)
  PROVE  Sheltered'
<1> USE DEF Control
<1>1. ASSUME NEW t \in Threads, NEW j \in Len(box[t]) + 1 .. Len(box'[t]),
             NEW k \in 1 .. Len(requests), ~IO!Failed, Clash(box'[t][j], k)
      PROVE  Awaited(t, Len(box[t]), requests[k].image)
  <2>1. t < ProjectionsThisStep /\ \A i \in box'[t][j].from \cup box'[t][j].to :
                 \E kind \in kinds : i = Active(kind, t)
    BY <1>1 DEF TransformsSent
  <2>2. fate[k] = "pending" /\ requests[k].image \in box'[t][j].from \cup box'[t][j].to
    BY <1>1 DEF Clash
  <2>3. PICK kind \in kinds : requests[k].image = Active(kind, t)
    BY <2>1, <2>2
  <2>4. kind \in Kinds
    BY <2>3
  <2> QED BY <1>1, <2>1, <2>2, <2>3, <2>4 DEF Sheltered, Covered
<1>2. \A t \in Threads : Keeps(t)
  BY DEF TransformsSent
<1> QED BY <1>1, <1>2, QuietSheltered

(* That is so for all three.                                               *)
LEMMA TransformSheltered ==
  ASSUME Control, Control', Requested, Sheltered, Convert \/ CorrectBeamPower \/ Filter
  PROVE  Sheltered'
<1> USE DEF Control
<1>1. CASE Convert
  <2>1. /\ main = "convert" /\ Move /\ UNCHANGED <<job, p, side, requests, fate>>
    BY <1>1, PhaseOrder DEF Convert, Move, mainVars, ioVars
  <2>2. \A kind \in {"raw", "attenuation"} : Held(kind) /\ kind \in Kinds
    BY <2>1 DEF Held, Told, Writing, Scheduled, Kinds
  <2> QED BY <1>1, <2>1, <2>2, ConvertStep, TransformsSheltered
<1>2. CASE CorrectBeamPower
  <2>1. /\ main = "correct" /\ Move /\ UNCHANGED <<job, p, side, requests, fate>>
    BY <1>2, PhaseOrder DEF CorrectBeamPower, Move, mainVars, ioVars
  <2>2. \A kind \in {"attenuation"} : Held(kind) /\ kind \in Kinds
    BY <2>1 DEF Held, Told, Writing, Scheduled, Kinds
  <2> QED BY <1>2, <2>1, <2>2, CorrectStep, TransformsSheltered
<1>3. CASE Filter
  <2>1. /\ main = "filter" /\ Move /\ UNCHANGED <<job, p, side, requests, fate>>
    BY <1>3, PhaseOrder DEF Filter, Move, mainVars, ioVars
  <2>2. \A kind \in {"attenuation", "filtered"} : Held(kind) /\ kind \in Kinds
    BY <2>1 DEF Held, Told, Writing, Kinds
  <2> QED BY <1>3, <2>1, <2>2, FilterStep, TransformsSheltered
<1> QED BY <1>1, <1>2, <1>3

(* Barriers use no images.                                                 *)
LEMMA SynchronizeSheltered ==
  ASSUME Control, Control', Requested, Sheltered, Synchronize
  PROVE  Sheltered'
<1> USE DEF Control
<1>1. /\ Move /\ UNCHANGED <<job, p, side, requests, fate>> /\ main # "request"
  BY DEF Synchronize, Move, mainVars, ioVars, Ending
<1>2. BarriersSent
  BY SynchronizeStep
<1>3. \A t \in Threads : Len(box[t]) \in Nat /\ Keeps(t)
  BY <1>2, LenProperties DEF BarriersSent, Types, Keeps
<1>4. ASSUME NEW t \in Threads, NEW j \in Len(box[t]) + 1 .. Len(box'[t]), NEW k
      PROVE  ~Clash(box'[t][j], k)
  <2>1. box'[t][j] = Plain("barrier")
    BY <1>2, <1>3, <1>4 DEF BarriersSent
  <2>2. box'[t][j].from = {} /\ box'[t][j].to = {}
    BY <2>1 DEF Plain, Message
  <2> QED BY <2>2 DEF Clash
<1> QED BY <1>1, <1>3, <1>4, QuietSheltered

(* To apply projections is to read buffers that are at most being written  *)
(* to the file meanwhile.                                                  *)
LEMMA ApplySheltered ==
  ASSUME Control, Control', Requested, Sheltered, ApplyProjections
  PROVE  Sheltered'
<1> USE DEF Control
<1>0. main = "apply" /\ job.volumeWriter /\ p < NumberOfProjections
  BY DEF ApplyProjections, Scheduled
<1>1. /\ Move /\ UNCHANGED <<job, p, side, requests, fate>>
  BY <1>0, PhaseOrder DEF ApplyProjections, Move, mainVars, ioVars
<1>2. AppliesSent
  BY ApplyStep
<1>3. \A t \in Threads : box[t] = <<>> /\ Len(box[t]) = 0 /\ 1 .. Len(box[t]) = {} /\ Len(box'[t]) \in Nat
  BY <1>0, IdleIsEmpty, LenProperties DEF Filling, Applying, Types
<1>4. \A t \in Threads : Keeps(t)
  BY <1>3 DEF Keeps
<1>5. ASSUME NEW t \in Threads, NEW j \in Len(box[t]) + 1 .. Len(box'[t]),
             NEW k \in 1 .. Len(requests), ~IO!Failed, Clash(box'[t][j], k)
      PROVE  FALSE
  <2>1. j \in 1 .. Len(box'[t]) /\ Len(box'[t]) <= ProjectionsThisStep
        /\ box'[t][j] = Apply(Active("filtered", j - 1), p + j)
    BY <1>2, <1>3, <1>5 DEF AppliesSent
  <2>2. /\ fate[k] = "pending" /\ requests[k].op = "read"
        /\ requests[k].image = Active("filtered", j - 1)
    BY <1>5, <2>1 DEF Clash, Apply, Message
  <2>3. job.source = "filtered"
    BY <2>2 DEF Requested, Active
  <2>4. Held("filtered")
    BY <1>0, <2>3, JobFacts DEF Held, Told, Output
  <2>5. j - 1 \in Threads /\ j - 1 < ProjectionsThisStep
    BY <1>0, <1>3, <2>1, Sizes DEF Threads
  <2>6. Awaited(j - 1, Len(box[j - 1]), Active("filtered", j - 1))
    BY <1>5, <2>2, <2>4, <2>5 DEF Sheltered, Covered, Kinds
  <2> QED BY <1>3, <2>5, <2>6 DEF Awaited
<1> QED BY <1>0, <1>1, <1>4, <1>5, QuietSheltered

(* At a barrier no request is pending on what the workers hold.            *)
LEMMA BarrierSheltered ==
  ASSUME Control, Control', Requested, Sheltered, Barrier
  PROVE  Sheltered'
<1> USE DEF Control
<1>1. /\ Move /\ UNCHANGED <<job, p, side, requests, fate>> /\ main # "request"
      /\ \A t \in Threads : box[t] # <<>> /\ Head(box[t]).op = "barrier"
  BY DEF Barrier, Move, mainVars, ioVars, AtBarrier, Ending
<1>2. \A t \in Threads : box'[t] = <<>>
  BY BarrierControl
<1>3. ASSUME NEW t \in Threads, NEW i
      PROVE  ~Awaited(t, Len(box[t]), i)
  <2>1. Fits(t, 1, box[t][1]) /\ box[t][1].op = "barrier"
    BY <1>1, Taking DEF Boxes
  <2>2. Len(box[t]) = 1 /\ box[t][1].awaits = {}
    BY <2>1 DEF Fits
  <2> QED BY <2>2 DEF Awaited
<1>4. ASSUME NEW kind \in Kinds, NEW t \in Threads, NEW k \in 1 .. Len(requests), ~IO!Failed,
             Held(kind)', t < ProjectionsThisStep, fate[k] = "pending", requests[k].image = Active(kind, t)'
      PROVE  FALSE
  <2>1. Output(kind) \/ kind = job.source
    BY <1>4, Strangers DEF Active
  <2>2. Held(kind)
    BY <1>1, <1>4, <2>1, HeldMove
  <2>3. requests[k].image = Active(kind, t)
    BY <1>1, <1>4 DEF Active
  <2> QED BY <1>3, <1>4, <2>2, <2>3 DEF Sheltered, Covered
<1> QED BY <1>1, <1>2, <1>4, ClearedSheltered

(* A request is for an image that no message to come reads or writes.      *)
LEMMA RequestSheltered ==
  ASSUME Control, Control', Requested, Sheltered, ReadRequested \/ \E kind \in {"attenuation", "filtered"} : WriteRequested(kind)
  PROVE  Sheltered'
<1> USE DEF Control
<1>1. PICK op \in {"read", "write"}, i \in Images :
        /\ Request(op, i)
        /\ \/ op = "read" /\ ReadRequested /\ i = Loading(job.source, pp)
           \/ op = "write" /\ \E kind \in {"attenuation", "filtered"} : WriteRequested(kind) /\ i = Active(kind, pp) /\ Output(kind)
  BY RequestedImages DEF ReadRequested, WriteRequested
<1>2. /\ UNCHANGED <<job, main, p, side, box>>
      /\ Len(requests) \in Nat /\ Len(fate) = Len(requests)
      /\ Len(requests') = Len(requests) + 1
      /\ \A k \in 1 .. Len(requests) : requests'[k] = requests[k] /\ fate'[k] = fate[k]
      /\ requests'[Len(requests) + 1] = [op |-> op, image |-> i]
      /\ fate'[Len(requests) + 1] = "pending"
  BY <1>1, RequestStep, LenProperties DEF Types, Requested
<1>3. ~IO!Failed' => ~IO!Failed
  BY <1>1, <1>2, RequestStep DEF IO!Failed
<1>4. ASSUME NEW t \in Threads, NEW j \in 1 .. Len(box[t])
      PROVE  i \notin box[t][j].from \cup box[t][j].to
  <2>1. CASE op = "write"
    <3>1. main \in {"writeAttenuation", "writeFiltered"}
      BY <1>1, <2>1 DEF WriteRequested
    <3>2. box[t] = <<>> /\ Len(box[t]) = 0
      BY <3>1, IdleIsEmpty DEF Filling, Applying
    <3> QED BY <1>4, <3>2
  <2>2. CASE op = "read"
    <3>1. main \in {"firstRequests", "request"} /\ i = Loading(job.source, pp)
      BY <1>1, <2>2 DEF ReadRequested
    <3>2. Fits(t, j, box[t][j]) /\ box[t][j].op \in Ops
      <4>1. box[t][j] \in Messages
        BY <1>4, ElementOfSeq DEF Types
      <4> QED BY <1>4, <4>1 DEF Boxes, Messages
    <3>3. \A x \in box[t][j].from \cup box[t][j].to : \E kind \in Kinds : x = Active(kind, t)
      BY <3>1, <3>2 DEF Fits, Ops, Transforms, Setups, Filling, Applying
    <3>4. \A kind \in Kinds : Loading(job.source, pp) # Active(kind, t)
      BY OtherSide DEF Loading, Active
    <3> QED BY <3>1, <3>3, <3>4
  <2> QED BY <2>1, <2>2
<1>5. Guarded'
  <2> SUFFICES ASSUME ~IO!Failed', NEW t \in Threads, NEW j \in 1 .. Len(box[t]),
                      NEW k \in 1 .. Len(requests'), Clash(box[t][j], k)'
               PROVE  Awaited(t, j - 1, requests[k].image)'
    BY <1>2 DEF Guarded
  <2>1. CASE k \in 1 .. Len(requests)
    <3>1. Clash(box[t][j], k)
      BY <1>2, <2>1 DEF Clash
    <3> QED BY <1>2, <1>3, <2>1, <3>1 DEF Sheltered, Guarded, Awaited
  <2>2. CASE k \notin 1 .. Len(requests)
    <3>1. requests'[k].image = i
      BY <1>2, <2>2
    <3> QED BY <1>2, <1>4, <3>1 DEF Clash
  <2> QED BY <2>1, <2>2
<1>6. Covered'
  <2> SUFFICES ASSUME ~IO!Failed', NEW kind \in Kinds, NEW t \in Threads, t < ProjectionsThisStep, Held(kind),
                      NEW k \in 1 .. Len(requests'), fate'[k] = "pending",
                      requests'[k].image = Active(kind, t)
               PROVE  Awaited(t, Len(box[t]), Active(kind, t))
    BY <1>2, SameSizes DEF Covered, Held, Told, Writing, Active, Awaited
  <2>1. CASE k \in 1 .. Len(requests)
    BY <1>2, <1>3, <2>1 DEF Sheltered, Covered
  <2>2. CASE k \notin 1 .. Len(requests)
    <3>1. requests'[k].image = i
      BY <1>2, <2>2
    <3>2. CASE op = "write"
      <4>1. PICK out \in {"attenuation", "filtered"} : WriteRequested(out) /\ i = Active(out, pp) /\ Output(out)
        BY <1>1, <3>2
      <4>2. kind = out
        BY <3>1, <4>1 DEF Active
      <4> QED BY <4>1, <4>2 DEF WriteRequested, Held, Writing
    <3>3. CASE op = "read"
      <4>1. i = Loading(job.source, pp)
        BY <1>1, <3>3
      <4> QED BY <3>1, <4>1, OtherSide DEF Loading, Active
    <3> QED BY <3>2, <3>3
  <2> QED BY <2>1, <2>2
<1> QED BY <1>5, <1>6 DEF Sheltered

(* Writing subvolumes uses no images.                                      *)
LEMMA WriteVolumeSheltered ==
  ASSUME Control, Control', Requested, Sheltered, WriteVolume
  PROVE  Sheltered'
<1> USE DEF Control
<1>1. /\ main = "writeVolume" /\ main' = "barrierVolume"
      /\ UNCHANGED <<job, p, side, requests, fate>>
  BY DEF WriteVolume, mainVars, ioVars
<1>2. /\ pp \in Threads
      /\ \A t \in Threads \ {pp} : box'[t] = <<>>
      /\ Len(box'[pp]) = 2
      /\ box'[pp][1] = Plain("writeVolume")
      /\ box'[pp][2] = Plain("barrier")
  BY WriteVolumeStep
<1>3. ASSUME NEW t \in Threads, NEW j \in 1 .. Len(box'[t]), NEW k
      PROVE  ~Clash(box[t][j], k)'
  <2>1. CASE t # pp
    <3>1. 1 .. Len(box'[t]) = {}
      BY <1>2, <2>1
    <3> QED BY <1>3, <3>1
  <2>2. CASE t = pp
    <3>1. box'[t][j] = Plain("writeVolume") \/ box'[t][j] = Plain("barrier")
      <4>1. Len(box'[t]) = 2 /\ box'[t][1] = Plain("writeVolume") /\ box'[t][2] = Plain("barrier")
        BY <1>2, <2>2
      <4>2. j = 1 \/ j = 2
        BY <1>3, <4>1
      <4> QED BY <4>1, <4>2
    <3>2. box'[t][j].from = {} /\ box'[t][j].to = {}
      BY <3>1 DEF Plain, Message
    <3> QED BY <3>2 DEF Clash
  <2> QED BY <2>1, <2>2
<1>4. Guarded'
  BY <1>3 DEF Guarded
<1>5. Covered'
  BY <1>1 DEF Covered, Held, Told
<1> QED BY <1>4, <1>5 DEF Sheltered

LEMMA BarrierVolumeSheltered ==
  ASSUME Control, Control', Requested, Sheltered, BarrierVolume
  PROVE  Sheltered'
<1>1. /\ main' \in {"synchronizeEnd", "writeVolume"}
      /\ UNCHANGED <<job, p, requests, fate>>
  BY DEF BarrierVolume, ioVars
<1>2. \A t \in Threads : box'[t] = <<>>
  BY BarrierVolumeControl
<1>3. \A kind : ~Held(kind)'
  BY <1>1 DEF Held, Told
<1> QED BY <1>1, <1>2, <1>3, ClearedSheltered DEF Control

(* At the start of a group no buffers are the workers' to use.             *)
LEMMA NextGroupSheltered ==
  ASSUME Control, Control', Requested, Sheltered, NextGroup
  PROVE  Sheltered'
<1> USE DEF Control
<1>1. /\ main = "next" /\ main' \in {FirstPhase, "complete"}
      /\ UNCHANGED <<job, side, box, requests, fate>>
  BY DEF NextGroup, ioVars
<1>2. \A t \in Threads : 1 .. Len(box'[t]) = {}
  BY <1>1, IdleIsEmpty DEF Filling, Applying
<1>3. Guarded'
  BY <1>2 DEF Guarded
<1>4. ASSUME NEW kind, Held(kind)'
      PROVE  kind # job.source /\ ~Output(kind)
  BY <1>1, <1>4 DEF Held, Told, FirstPhase, Output
<1>5. ASSUME NEW kind, Held(kind)', NEW t, NEW k \in 1 .. Len(requests)
      PROVE  requests[k].image # Active(kind, t)'
  BY <1>4, <1>5, Strangers DEF Active
<1>6. Covered'
  BY <1>1, <1>5 DEF Covered
<1> QED BY <1>3, <1>6 DEF Sheltered

(* Main keeps the workers apart from the I/O.                              *)
LEMMA MainSheltered ==
  ASSUME Control, Control', Requested, Fresh, Sheltered, Main
  PROVE  Sheltered'
<1> USE DEF Control
<1>1. CASE Create
  BY <1>1, CreateSheltered
<1>2. CASE FirstRequests
  <2>1. CASE ReadRequested
    BY <2>1, RequestSheltered
  <2>2. CASE EndRequests(FirstPhase) /\ UNCHANGED box
    <3>1. main = "firstRequests" /\ Move /\ UNCHANGED <<job, p, side, requests, fate>>
      BY <1>2, <2>2 DEF FirstRequests, EndRequests, ioVars, Move
    <3> QED BY <2>2, <3>1, SameBoxes, QuietSheltered
  <2> QED BY <1>2, <2>1, <2>2 DEF FirstRequests, ReadRequested
<1>3. CASE SwapAttenuation
  BY <1>3, SwapOutputSheltered DEF SwapAttenuation, Kinds, ioVars
<1>4. CASE SwapInput
  BY <1>4, SwapInputSheltered
<1>5. CASE RequestNext
  <2>1. CASE ReadRequested
    BY <2>1, RequestSheltered
  <2>2. CASE EndRequests(After("request"))
    BY <1>5, <2>2, RequestedAllSheltered DEF EndRequests, ioVars
  <2> QED BY <1>5, <2>1, <2>2 DEF RequestNext, ReadRequested
<1>6. CASE Convert \/ CorrectBeamPower \/ Filter
  BY <1>6, TransformSheltered
<1>7. CASE Synchronize
  BY <1>7, SynchronizeSheltered
<1>8. CASE Barrier
  BY <1>8, BarrierSheltered
<1>9. CASE SwapFiltered
  BY <1>9, SwapOutputSheltered DEF SwapFiltered, Kinds, ioVars
<1>10. CASE SetReference \/ Check \/ WaitForCompletion \/ CountRequests
  <2>1. UNCHANGED <<job, p, side, box, requests, fate>> /\ main # "request"
    BY <1>10 DEF SetReference, Check, WaitForCompletion, CountRequests, MainThrows,
       mainVars, ioVars
  <2>2. main \notin {"swapAttenuation", "swapInput", "swapFiltered", "next"}
    BY <1>10 DEF SetReference, Check, WaitForCompletion, CountRequests
  <2>3. Move
    BY <2>2, MainMoves DEF SwapAttenuation, SwapInput, SwapFiltered, NextGroup
  <2> QED BY <2>1, <2>3, SameBoxes, QuietSheltered
<1>11. CASE WriteAttenuation
  <2>1. CASE WriteRequested("attenuation")
    BY <2>1, RequestSheltered
  <2>2. CASE EndRequests(After("writeAttenuation")) /\ UNCHANGED box
    <3>1. main # "request" /\ Move /\ UNCHANGED <<job, p, side, requests, fate>>
      BY <1>11, <2>2, PhaseOrder DEF WriteAttenuation, EndRequests, ioVars, Move
    <3> QED BY <2>2, <3>1, SameBoxes, QuietSheltered
  <2> QED BY <1>11, <2>1, <2>2 DEF WriteAttenuation, WriteRequested
<1>12. CASE WriteFiltered
  <2>1. CASE WriteRequested("filtered")
    BY <2>1, RequestSheltered
  <2>2. CASE EndRequests(After("writeFiltered")) /\ UNCHANGED box
    <3>1. main # "request" /\ Move /\ UNCHANGED <<job, p, side, requests, fate>>
      BY <1>12, <2>2, PhaseOrder DEF WriteFiltered, EndRequests, ioVars, Move
    <3> QED BY <2>2, <3>1, SameBoxes, QuietSheltered
  <2> QED BY <1>12, <2>1, <2>2 DEF WriteFiltered, WriteRequested
<1>13. CASE ApplyProjections
  BY <1>13, ApplySheltered
<1>14. CASE NextGroup
  BY <1>14, NextGroupSheltered
<1>15. CASE WriteVolume
  BY <1>15, WriteVolumeSheltered
<1>16. CASE BarrierVolume
  BY <1>16, BarrierVolumeSheltered
<1>17. CASE Leave
  <2>1. main \in {"return", "unwind"} /\ main' \in {"returned", "threw"} /\ UNCHANGED box
    BY <1>17 DEF Leave
  <2>2. \A t \in Threads : 1 .. Len(box'[t]) = {}
    BY <2>1, IdleIsEmpty DEF Filling, Applying
  <2>3. Guarded'
    BY <2>2 DEF Guarded
  <2>4. Covered'
    BY <2>1 DEF Covered, Held, Told
  <2> QED BY <2>3, <2>4 DEF Sheltered
<1> QED BY <1>1, <1>2, <1>3, <1>4, <1>5, <1>6, <1>7, <1>8, <1>9, <1>10, <1>11, <1>12,
           <1>13, <1>14, <1>15, <1>16, <1>17 DEF Main

(* What a worker has waited for is not pending any more.                   *)
LEMMA WorkerSheltered ==
  ASSUME Control, Control', Requested, Sheltered, NEW t \in Threads, Worker(t)
  PROVE  Sheltered'
<1> USE DEF Control
<1>1. /\ box[t] # <<>>
      /\ UNCHANGED <<job, p, pp, side, requests, fate, closed>>
  BY WorkerStep DEF mainVars
<1>2. CASE main' = "crashed" /\ UNCHANGED box /\ Head(box[t]).op \in {"apply", "writeVolume"}
  <2>1. main # "request"
    <3>1. Head(box[t]).op \in {"apply", "writeVolume"} /\ 1 \in 1 .. Len(box[t]) /\ Head(box[t]) = box[t][1]
      BY <1>1, <1>2, Taking
    <3>2. Fits(t, 1, box[t][1])
      BY <3>1 DEF Boxes
    <3> QED BY <3>1, <3>2 DEF Fits, Applying
  <2> QED BY <1>1, <1>2, <2>1, SameBoxes, QuietSheltered DEF Move, Ending
<1>3. CASE /\ main' = main
           /\ box' = [box EXCEPT ![t] = Tail(box[t])]
           /\ \/ Head(box[t]).op = "await" => IO!Failed \/ Head(box[t]).from # {}
              \/ \E i \in Head(box[t]).awaits : Head(box[t]).awaits = {i} /\ fate[loan[i]] # "pending"
  <2>1. /\ Len(box[t]) \in Nat
        /\ Len(box'[t]) = Len(box[t]) - 1
        /\ \A j \in 1 .. Len(box'[t]) : box'[t][j] = box[t][j + 1] /\ j + 1 \in 1 .. Len(box[t])
        /\ \A u \in Threads \ {t} : box'[u] = box[u]
    BY <1>1, <1>3, PopStep
  <2>2. Fits(t, 1, box[t][1]) /\ Head(box[t]) = box[t][1] /\ box[t][1] \in Messages
    BY <1>1, Taking, ElementOfSeq DEF Boxes, Types
  <2>3. ASSUME ~IO!Failed, NEW k \in 1 .. Len(requests), fate[k] = "pending",
               NEW n \in 0 .. Len(box[t]), Awaited(t, n, requests[k].image)
        PROVE  n # 0 /\ Awaited(t, n - 1, requests[k].image)'
    <3> DEFINE i == requests[k].image
    <3>1. PICK l \in 1 .. n : i \in box[t][l].awaits
      BY <2>3 DEF Awaited
    <3>2. l # 1
      <4>1. ASSUME l = 1 PROVE FALSE
        <5>1. i \in box[t][1].awaits
          BY <3>1, <4>1
        <5>2. box[t][1].op = "await" /\ box[t][1].from = {}
          BY <2>2, <5>1 DEF Fits, Messages, Ops, Transforms
        <5>3. fate[loan[i]] # "pending"
          BY <1>3, <2>2, <2>3, <5>1, <5>2
        <5> QED BY <2>3, <5>3 DEF Requested
      <4> QED BY <4>1
    <3>3. l - 1 \in 1 .. n - 1 /\ box'[t][l - 1] = box[t][l]
      BY <2>1, <2>3, <3>1, <3>2
    <3> QED BY <1>1, <2>3, <3>1, <3>3 DEF Awaited
  <2>4. ASSUME ~IO!Failed, NEW u \in Threads, NEW j \in 1 .. Len(box'[u]),
               NEW k \in 1 .. Len(requests), Clash(box'[u][j], k)
        PROVE  Awaited(u, j - 1, requests[k].image)'
    <3>1. CASE u # t
      <4>1. box'[u] = box[u]
        BY <2>1, <3>1
      <4> QED BY <1>1, <2>4, <4>1 DEF Sheltered, Guarded, Awaited
    <3>2. CASE u = t
      <4>1. box'[t][j] = box[t][j + 1] /\ j + 1 \in 1 .. Len(box[t])
        BY <2>1, <2>4, <3>2
      <4>2. Awaited(t, j, requests[k].image)
        BY <2>4, <3>2, <4>1 DEF Sheltered, Guarded
      <4>3. fate[k] = "pending" /\ j \in 0 .. Len(box[t])
        BY <2>1, <2>4, <4>1 DEF Clash
      <4> QED BY <2>3, <2>4, <3>2, <4>2, <4>3
    <3> QED BY <3>1, <3>2
  <2>5. Guarded'
    BY <1>1, <2>4 DEF Guarded, Clash, IO!Failed
  <2>6. ASSUME ~IO!Failed, NEW kind \in Kinds, NEW u \in Threads, u < ProjectionsThisStep, Held(kind),
               NEW k \in 1 .. Len(requests), fate[k] = "pending", requests[k].image = Active(kind, u)
        PROVE  Awaited(u, Len(box[u]), requests[k].image)'
    <3>1. Awaited(u, Len(box[u]), requests[k].image)
      BY <2>6 DEF Sheltered, Covered
    <3>2. CASE u # t
      <4>1. box'[u] = box[u]
        BY <2>1, <3>2
      <4> QED BY <1>1, <3>1, <4>1 DEF Awaited
    <3>3. CASE u = t
      <4>1. PICK n \in Nat : n = Len(box[t])
        BY <2>1
      <4>2. n \in 0 .. Len(box[t]) /\ Awaited(t, n, requests[k].image)
        BY <3>1, <3>3, <4>1
      <4>3. Awaited(t, n - 1, requests[k].image)'
        BY <2>3, <2>6, <4>2
      <4> QED BY <2>1, <3>3, <4>1, <4>3 DEF Awaited
    <3> QED BY <3>2, <3>3
  <2>7. Covered'
    <3>1. \A kind : Held(kind)' => Held(kind)
      BY <1>1, <1>3, SameSizes DEF Held, Told, Writing
    <3> QED BY <1>1, <2>6, <3>1, SameSizes DEF Covered, IO!Failed, Active
  <2> QED BY <2>5, <2>7 DEF Sheltered
<1>4. \A i \in Head(box[t]).awaits : Head(box[t]).op = "await" => Head(box[t]).awaits = {i}
  BY <1>1, Taking DEF Boxes, Fits
<1> QED BY <1>1, <1>2, <1>3, <1>4, WorkerStep

(* So does the I/O thread: it makes requests, and what they clash with,    *)
(* only fewer.                                                             *)
LEMMA SettleSheltered ==
  ASSUME Control, Control', Requested, Sheltered, Settle
  PROVE  Sheltered'
<1> USE DEF Control
<1>1. UNCHANGED <<job, main, p, side, box, requests>>
  BY SettleStep DEF mainVars
<1>2. PICK k \in 1 .. Len(fate), f \in {"done", "failed", "dropped"} : fate[k] = "pending" /\ fate' = [fate EXCEPT ![k] = f]
  BY SettleStep
<1>3. fate \in Seq(IO!Fates) /\ f \in IO!Fates
  BY DEF Types, IO!Fates
<1>4. Len(fate') = Len(fate) /\ \A j \in 1 .. Len(fate) : fate'[j] = IF j = k THEN f ELSE fate[j]
  BY <1>2, <1>3, ExceptSeq
<1>5. IO!Failed => IO!Failed'
  BY <1>2, <1>4 DEF IO!Failed
<1>6. \A j \in 1 .. Len(requests) : fate'[j] = "pending" => fate[j] = "pending"
  BY <1>4 DEF Requested
<1>7. Guarded'
  BY <1>1, <1>5, <1>6 DEF Sheltered, Guarded, Clash, Awaited
<1>8. \A kind : Held(kind)' => Held(kind)
  BY <1>1, SameSizes DEF Held, Told, Writing
<1>9. Covered'
  BY <1>1, <1>5, <1>6, <1>8, SameSizes DEF Sheltered, Covered, Awaited, Active
<1> QED BY <1>7, <1>9 DEF Sheltered

(* The workers are always kept apart from the I/O.                         *)
LEMMA NextSheltered ==
  ASSUME Control, Control', Requested, Fresh, Sheltered, [Next]_vars
  PROVE  Sheltered'
<1>1. CASE UNCHANGED vars
  <2>1. UNCHANGED <<job, main, p, side, box, requests, fate>>
    BY <1>1 DEF vars
  <2> QED BY <2>1, SameBoxes, QuietSheltered DEF Move
<1> QED BY <1>1, MainSheltered, WorkerSheltered, SettleSheltered DEF Next, Ended

-----------------------------------------------------------------------------

(* The images of a kind, of side s, of the first n slots are on loan.      *)
Lent(kind, s, n) == \A t \in Threads : t < n => loan[<<kind, t, s>>] # 0

(* Reads on loan: what has been requested of the next group, and, until    *)
(* the workers are told to wait for it, this group.                        *)
InputsLent ==
  /\ main = "firstRequests" => Lent(job.source, Other(side[job.source]), pp)
  /\ main \in {"swapAttenuation", "swapInput"}
       => Lent(job.source, Other(side[job.source]), ProjectionsThisStep)
  /\ main = "request" =>
       /\ Lent(job.source, Other(side[job.source]), pp)
       /\ Lent(job.source, side[job.source], ProjectionsThisStep)
  /\ main \in HasRequested => Lent(job.source, Other(side[job.source]), ProjectionsNextStep)

(* Main is in the loop that requests the writes of this kind.              *)
Requesting(kind) == main = (IF kind = "attenuation" THEN "writeAttenuation" ELSE "writeFiltered")

(* Writes on loan: the last group's from the second group on, the one      *)
(* before's until the buffers are swapped, and what has been requested of  *)
(* this group.                                                             *)
OutputsLent ==
  main \in Turn =>
    \A kind \in Kinds : Output(kind) =>
      IF Swapped(kind)
      THEN /\ p > 0 => Lent(kind, Other(side[kind]), ProjectionsPerStep)
           /\ Writing(kind) => Lent(kind, side[kind], IF Requesting(kind) THEN pp ELSE ProjectionsThisStep)
      ELSE /\ p > 0 => Lent(kind, side[kind], ProjectionsPerStep)
           /\ p > ProjectionsPerStep => Lent(kind, Other(side[kind]), ProjectionsPerStep)

(* No buffer is given back by main.                                        *)
LEMMA MainLends ==
  ASSUME Control, Main
  PROVE  \A i \in Images : loan[i] # 0 => loan'[i] # 0
<1> USE DEF Control
<1>1. ASSUME NEW op \in {"read", "write"}, NEW j \in Images, Request(op, j)
      PROVE  \A i \in Images : loan[i] # 0 => loan'[i] # 0
  <2>1. loan' = [loan EXCEPT ![j] = Len(fate) + 1]
    BY <1>1, RequestStep
  <2>2. Len(fate) \in Nat
    BY LenProperties DEF Types
  <2> QED BY <2>1, <2>2 DEF Types
<1>2. CASE ReadRequested
  BY <1>1, <1>2, RequestedImages DEF ReadRequested
<1>3. ASSUME NEW kind \in {"attenuation", "filtered"}, WriteRequested(kind)
      PROVE  \A i \in Images : loan[i] # 0 => loan'[i] # 0
  BY <1>1, <1>3, RequestedImages DEF WriteRequested
<1>4. CASE Leave
  BY <1>4 DEF Leave, IO!Close
<1> QED BY <1>2, <1>3, <1>4, MainIO

(* The images of both sides exist.                                         *)
LEMMA LoadingImages ==
  ASSUME Types, NEW t \in Threads, NEW kind \in Kinds
  PROVE  <<kind, t, side[kind]>> \in Images /\ <<kind, t, Other(side[kind])>> \in Images
  BY DEF Types, Images, Other, Sides

(* Moves that request no reads.                                            *)
LEMMA InputsLoan ==
  ASSUME Control, InputsLent, Move, UNCHANGED <<job, p, side>>,
         main \notin {"create", "firstRequests", "request"},
         \A i \in Images : loan[i] # 0 => loan'[i] # 0
  PROVE  InputsLent'
<1>1. job.source \in Kinds
  BY JobFacts DEF Control
<1>2. \A t \in Threads : <<job.source, t, side[job.source]>> \in Images
                        /\ <<job.source, t, Other(side[job.source])>> \in Images
  BY <1>1, LoadingImages DEF Control
<1>3. CASE main' = main
  BY <1>2, <1>3, SameSizes DEF InputsLent, Lent, Other
<1>4. CASE main' # main
  <2>1. main' \in HasRequested => main \in HasRequested
    BY <1>4 DEF Move, Ending
  <2>2. main' \notin {"firstRequests", "swapAttenuation", "swapInput", "request"}
    BY <1>4 DEF Move, Ending, FromConvert, FromSynchronize0, FromCorrect, FromSwap,
       FromFilter, FromCheck, FromWrite, FromApply
  <2> QED BY <1>2, <2>1, <2>2, SameSizes DEF InputsLent, Lent, Other
<1> QED BY <1>3, <1>4

(* A read request.                                                         *)
LEMMA InputsRequest ==
  ASSUME Control, InputsLent, ReadRequested
  PROVE  InputsLent'
<1> USE DEF Control
<1>1. pp \in Threads /\ Loading(job.source, pp) \in Images /\ Request("read", Loading(job.source, pp))
      /\ main \in {"firstRequests", "request"}
  BY RequestedImages DEF ReadRequested
<1>2. /\ UNCHANGED <<job, main, p, side>> /\ pp' = pp + 1
      /\ loan' = [loan EXCEPT ![Loading(job.source, pp)] = Len(fate) + 1]
  BY <1>1, RequestStep
<1>3. loan'[<<job.source, pp, Other(side[job.source])>>] # 0
      /\ \A i \in Images : loan[i] # 0 => loan'[i] # 0
  <2>1. Len(fate) \in Nat
    BY LenProperties DEF Types
  <2> QED BY <1>1, <1>2, <2>1 DEF Types, Loading
<1>4. job.source \in Kinds
  BY JobFacts
<1>5. \A t \in Threads : <<job.source, t, side[job.source]>> \in Images
                        /\ <<job.source, t, Other(side[job.source])>> \in Images
  BY <1>4, LoadingImages
<1>6. Lent(job.source, Other(side[job.source]), pp)
  BY <1>1 DEF InputsLent
<1>7. \A t \in Threads : t < pp + 1 => t < pp \/ t = pp
  BY <1>1 DEF Threads
<1>8. \A t \in Threads : t < pp + 1 => loan'[<<job.source, t, Other(side[job.source])>>] # 0
  BY <1>3, <1>5, <1>6, <1>7 DEF Lent
<1>9. main = "request" => \A t \in Threads : t < ProjectionsThisStep => loan'[<<job.source, t, side[job.source]>>] # 0
  BY <1>3, <1>5 DEF InputsLent, Lent
<1> QED BY <1>1, <1>2, <1>8, <1>9, SameSizes DEF InputsLent, Lent, Other

(* Main keeps account of the reads on loan.                                *)
LEMMA InputsMain ==
  ASSUME Control, InputsLent, Main
  PROVE  InputsLent'
<1> USE DEF Control
<1>0. job.source \in Kinds /\ \A t \in Threads : ~(t < 0)
  BY JobFacts DEF Threads
<1>1. CASE Create
  <2>1. main' = "firstRequests" /\ pp' = 0
    BY <1>1 DEF Create, mainVars, Scheduled
  <2> QED BY <1>0, <2>1 DEF InputsLent, Lent
<1>2. CASE FirstRequests /\ ~ReadRequested
  <2>1. /\ main = "firstRequests" /\ main' \in {"swapAttenuation", "swapInput"}
        /\ pp = ProjectionsPerStep /\ ProjectionsPerStep = ProjectionsThisStep
        /\ UNCHANGED <<job, p, side, loan>>
    BY <1>2, Sizes DEF FirstRequests, EndRequests, FirstPhase, ReadRequested, ioVars,
       Scheduled
  <2> QED BY <2>1, SameSizes DEF InputsLent, Lent, Other
<1>3. CASE RequestNext /\ ~ReadRequested
  <2>1. /\ main = "request" /\ main' = FromConvert
        /\ pp >= ProjectionsNextStep
        /\ UNCHANGED <<job, p, side, loan>>
    BY <1>3, PhaseOrder DEF RequestNext, EndRequests, ReadRequested, ioVars
  <2>2. main' \in {"convert", "synchronize0", "correct", "swapFiltered", "filter", "synchronize"}
    BY <2>1 DEF FromConvert, FromSynchronize0, FromCorrect, FromSwap, FromFilter
  <2>3. \A t \in Threads : t < ProjectionsNextStep => t < pp
    BY <2>1, Sizes DEF Threads, Types
  <2> QED BY <2>1, <2>2, <2>3, SameSizes DEF InputsLent, Lent, Other
<1>4. CASE ReadRequested
  BY <1>4, InputsRequest
<1>5. CASE SwapAttenuation
  <2>1. /\ main = "swapAttenuation" /\ main' = "swapInput"
        /\ side' = [side EXCEPT !["attenuation"] = Other(side["attenuation"])]
        /\ UNCHANGED <<job, p, loan>> /\ job.source # "attenuation"
    BY <1>5, PhaseOrder, JobFacts DEF SwapAttenuation, SwapOutput, Swap, ioVars,
       Scheduled
  <2>2. side'[job.source] = side[job.source]
    BY <1>0, <2>1 DEF Types
  <2> QED BY <2>1, <2>2, SameSizes DEF InputsLent, Lent, Other
<1>6. CASE SwapFiltered
  <2>1. /\ main = "swapFiltered" /\ main' \in {"filter", "synchronize"}
        /\ side' = [side EXCEPT !["filtered"] = Other(side["filtered"])]
        /\ UNCHANGED <<job, p, loan>> /\ job.source # "filtered"
    BY <1>6, PhaseOrder, JobFacts DEF SwapFiltered, SwapOutput, Swap, ioVars,
       Scheduled, FromFilter
  <2>2. side'[job.source] = side[job.source]
    BY <1>0, <2>1 DEF Types
  <2> QED BY <2>1, <2>2, SameSizes DEF InputsLent, Lent, Other
<1>7. CASE SwapInput
  <2>1. /\ main = "swapInput" /\ main' = "request" /\ pp' = 0
        /\ side' = [side EXCEPT ![job.source] = Other(side[job.source])]
        /\ UNCHANGED <<job, p, loan>>
    BY <1>7 DEF SwapInput, Swap, ioVars, Scheduled
  <2>2. side'[job.source] = Other(side[job.source])
    BY <1>0, <2>1 DEF Types
  <2> QED BY <1>0, <2>1, <2>2, SameSizes DEF InputsLent, Lent
<1>8. CASE NextGroup
  <2>1. /\ main = "next" /\ p' = p + ProjectionsPerStep
        /\ main' \in {"swapAttenuation", "swapInput", "complete"}
        /\ UNCHANGED <<job, side, loan>>
    BY <1>8 DEF NextGroup, ioVars, FirstPhase
  <2>2. ProjectionsThisStep' = ProjectionsNextStep
    BY <2>1, Sizes, SameSizes DEF ProjectionsThisStep, ProjectionsNextStep, Lesser,
       Types
  <2> QED BY <2>1, <2>2 DEF InputsLent, Lent, Other
<1>9. CASE ~Create /\ ~FirstRequests /\ ~RequestNext /\ ~SwapAttenuation /\ ~SwapFiltered
           /\ ~SwapInput /\ ~NextGroup
  <2>1. main \notin {"create", "firstRequests", "request"}
    BY <1>9 DEF Main, Convert, Synchronize, Barrier, SetReference, CorrectBeamPower,
       Filter, Check,
       WriteAttenuation, WriteFiltered, ApplyProjections, WaitForCompletion, CountRequests,
       WriteVolume, BarrierVolume, Leave
  <2> QED BY <1>9, <2>1, MainMoves, MainLends, InputsLoan
<1> QED BY <1>1, <1>2, <1>3, <1>4, <1>5, <1>6, <1>7, <1>8, <1>9

(* A worker gives back only what it was sent to wait for.                  *)
LEMMA WorkerReleases ==
  ASSUME Control, NEW t \in Threads, Worker(t)
  PROVE  /\ UNCHANGED <<job, p, pp, side, requests, fate>>
         /\ main' \in {main, "crashed"}
         /\ \/ UNCHANGED loan
            \/ \E kind \in Kinds :
                 /\ main \in Filling /\ Told(kind)
                 /\ box[t][1].awaits = {Active(kind, t)}
                 /\ loan' = [loan EXCEPT ![Active(kind, t)] = 0]
                 /\ box' = [box EXCEPT ![t] = Tail(box[t])]
<1>1. /\ box[t] # <<>>
      /\ UNCHANGED <<job, p, pp, side, requests, fate>>
      /\ main' \in {main, "crashed"}
  BY WorkerStep DEF mainVars
<1>2. ASSUME NEW i \in Head(box[t]).awaits
      PROVE  \E kind \in Kinds : /\ main \in Filling /\ Told(kind) /\ i = Active(kind, t)
                                 /\ box[t][1].awaits = {Active(kind, t)}
  <2>1. Fits(t, 1, box[t][1]) /\ Head(box[t]) = box[t][1] /\ box[t][1] \in Messages
    BY <1>1, Taking, ElementOfSeq DEF Control, Boxes, Types
  <2>2. box[t][1].op = "await"
    BY <1>2, <2>1 DEF Fits, Messages, Ops, Transforms
  <2> QED BY <1>2, <2>1, <2>2 DEF Fits
<1> QED BY <1>1, <1>2, WorkerStep

(* The reads on loan are always as main has left them.                     *)
LEMMA NextInputs ==
  ASSUME Control, InputsLent, [Next]_vars
  PROVE  InputsLent'
<1> USE DEF Control
<1>1. ASSUME UNCHANGED <<job, main, p, pp, side, loan>>
      PROVE  InputsLent'
  BY <1>1, SameSizes DEF InputsLent, Lent, Other
<1>2. ASSUME NEW t \in Threads, Worker(t)
      PROVE  InputsLent'
  <2>1. UNCHANGED <<job, p, pp, side>> /\ main' \in {main, "crashed"}
    BY <1>2, WorkerReleases
  <2>2. CASE UNCHANGED loan
    BY <2>1, <2>2, SameSizes DEF InputsLent, Lent, Other
  <2>3. ASSUME NEW kind \in Kinds, main \in Filling, Told(kind),
               loan' = [loan EXCEPT ![Active(kind, t)] = 0]
        PROVE  InputsLent'
    <3>1. job.source \in Kinds
      BY JobFacts
    <3>2. \A u \in Threads : <<job.source, u, side[job.source]>> \in Images
                           /\ <<job.source, u, Other(side[job.source])>> \in Images
      BY <3>1, LoadingImages
    <3>3. \A u \in Threads : <<job.source, u, Other(side[job.source])>> # Active(kind, t)
      BY <3>1, OtherSide DEF Active
    <3>4. main = "request" => \A u \in Threads : <<job.source, u, side[job.source]>> # Active(kind, t)
      BY <2>3 DEF Told, Active
    <3>5. \A u \in Threads : loan[<<job.source, u, Other(side[job.source])>>] # 0
               => loan'[<<job.source, u, Other(side[job.source])>>] # 0
      BY <2>3, <3>2, <3>3 DEF Types
    <3>6. main = "request" => \A u \in Threads : loan[<<job.source, u, side[job.source]>>] # 0
               => loan'[<<job.source, u, side[job.source]>>] # 0
      BY <2>3, <3>2, <3>4 DEF Types
    <3> QED BY <2>1, <3>5, <3>6, SameSizes DEF InputsLent, Lent, Other
  <2> QED BY <1>2, <2>2, <2>3, WorkerReleases
<1>3. CASE Settle
  BY <1>1, <1>3, SettleStep DEF mainVars
<1>4. CASE UNCHANGED vars
  BY <1>1, <1>4 DEF vars
<1> QED BY <1>2, <1>3, <1>4, InputsMain DEF Next, Ended

-----------------------------------------------------------------------------

(* The images exist, and have two sides.                                   *)
LEMMA LentTypes ==
  ASSUME Types, NEW kind \in Kinds
  PROVE  \A t \in Threads, s \in Sides : <<kind, t, s>> \in Images
  BY DEF Images

(* What is on loan stays on loan while buffers are only lent.              *)
LEMMA KeepsLent ==
  ASSUME Types, NEW kind \in Kinds, NEW s \in Sides, NEW n \in Int, NEW m \in Int, m <= n,
         \A i \in Images : loan[i] # 0 => loan'[i] # 0,
         Lent(kind, s, n)
  PROVE  \A t \in Threads : t < m => loan'[<<kind, t, s>>] # 0
  BY LentTypes DEF Lent, Threads

LEMMA SidesOf ==
  ASSUME Types, NEW kind \in Kinds
  PROVE  side[kind] \in Sides /\ Other(side[kind]) \in Sides
  BY DEF Types, Sides, Other

(* The writing of an output begins with its loop of requests.              *)
LEMMA WritingBegins ==
  ASSUME Control, Move, UNCHANGED <<job, p, side>>, main' \in Turn, NEW kind, Output(kind),
         Writing(kind)', ~Writing(kind)
  PROVE  Requesting(kind)'
<1>1. kind \in {"attenuation", "filtered"} /\ kind # job.source
      /\ (kind = "attenuation" => job.attenuationWriter)
      /\ (kind = "filtered" => job.filteredWriter)
  BY JobFacts DEF Output, Control
<1>2. main' \notin Ending /\ main' # main
  BY DEF Ending, Writing
<1> QED BY <1>1, <1>2 DEF Move, Writing, Requesting, FirstPhase, FromConvert,
      FromSynchronize0, FromCorrect, FromSwap, FromFilter, FromCheck, FromWrite, FromApply

(* Moves that request no writes.                                           *)
LEMMA OutputsMove ==
  ASSUME Control, OutputsLent, Move, UNCHANGED <<job, p, side>>,
         main' = main => pp' = pp \/ main \notin {"writeAttenuation", "writeFiltered"},
         main' # main /\ main' \in {"writeAttenuation", "writeFiltered"} => pp' = 0,
         main' # main /\ main' \in Turn /\ main \in {"writeAttenuation", "writeFiltered"}
           => pp >= ProjectionsThisStep,
         \A i \in Images : loan[i] # 0 => loan'[i] # 0
  PROVE  OutputsLent'
<1> USE DEF Control
<1> SUFFICES ASSUME main' \in Turn, NEW kind \in Kinds, Output(kind)
             PROVE  IF Swapped(kind)'
                    THEN /\ p > 0 => Lent(kind, Other(side[kind]), ProjectionsPerStep)'
                         /\ Writing(kind)' =>
                              Lent(kind, side[kind], IF Requesting(kind) THEN pp ELSE ProjectionsThisStep)'
                    ELSE /\ p > 0 => Lent(kind, side[kind], ProjectionsPerStep)'
                         /\ p > ProjectionsPerStep => Lent(kind, Other(side[kind]), ProjectionsPerStep)'
  BY SameSizes DEF OutputsLent, Other
<1>1. main \in Turn \cup {"create", "firstRequests"} /\ (Swapped(kind)' <=> Swapped(kind))
      /\ (Writing(kind) => Writing(kind)')
  BY Progress DEF Early
<1>2. side[kind] \in Sides /\ Other(side[kind]) \in Sides /\ ProjectionsPerStep \in Int
      /\ ProjectionsThisStep \in Int
  BY SidesOf, Sizes
<1>3. \A s \in Sides : Lent(kind, s, ProjectionsPerStep) => Lent(kind, s, ProjectionsPerStep)'
  BY <1>2, KeepsLent, SameSizes DEF Lent
<1>4. CASE main \in {"create", "firstRequests"}
  <2>1. p = 0 /\ ~Writing(kind)'
    BY <1>4 DEF Scheduled, Move, Writing, Ending, FirstPhase
  <2> QED BY <1>2, <2>1, Sizes
<1>5. CASE main \in Turn
  <2>1. ASSUME Writing(kind)', Swapped(kind)'
        PROVE  Lent(kind, side[kind], IF Requesting(kind) THEN pp ELSE ProjectionsThisStep)'
    <3>1. CASE ~Writing(kind)
      <4>1. Requesting(kind)' /\ main' # main
        BY <1>1, <2>1, <3>1, WritingBegins DEF Writing
      <4>2. pp' = 0 /\ \A t \in Threads : ~(t < 0)
        BY <4>1 DEF Requesting, Threads
      <4> QED BY <4>1, <4>2 DEF Lent
    <3>2. CASE Writing(kind)
      <4>1. Lent(kind, side[kind], IF Requesting(kind) THEN pp ELSE ProjectionsThisStep)
        BY <1>1, <1>5, <2>1, <3>2 DEF OutputsLent
      <4>2. pp \in Int
        BY DEF Types
      <4>3. CASE main' = main
        <5>1. Requesting(kind)' = Requesting(kind) /\ (Requesting(kind) => pp' = pp)
          BY <4>3 DEF Requesting
        <5> QED BY <1>2, <4>1, <4>2, <5>1, KeepsLent, SameSizes DEF Lent
      <4>4. CASE main' # main
        <5>1. CASE Requesting(kind)'
          <6>1. pp' = 0 /\ \A t \in Threads : ~(t < 0)
            BY <4>4, <5>1 DEF Requesting, Threads
          <6> QED BY <5>1, <6>1 DEF Lent
        <5>2. CASE ~Requesting(kind)'
          <6>1. Requesting(kind) => pp >= ProjectionsThisStep
            BY <4>4 DEF Requesting
          <6>2. \A t \in Threads : t < ProjectionsThisStep => loan'[<<kind, t, side[kind]>>] # 0
            BY <1>2, <4>1, <4>2, <6>1, KeepsLent
          <6> QED BY <5>2, <6>2, SameSizes DEF Lent
        <5> QED BY <5>1, <5>2
      <4> QED BY <4>3, <4>4
    <3> QED BY <3>1, <3>2
  <2> QED BY <1>1, <1>2, <1>3, <1>5, <2>1, SameSizes DEF OutputsLent
<1> QED BY <1>1, <1>4, <1>5

(* A write request.                                                        *)
LEMMA OutputsRequest ==
  ASSUME Control, OutputsLent, NEW k \in {"attenuation", "filtered"}, WriteRequested(k)
  PROVE  OutputsLent'
<1> USE DEF Control
<1>1. Output(k) /\ pp \in Threads /\ Active(k, pp) \in Images
      /\ pp < ProjectionsThisStep /\ Request("write", Active(k, pp)) /\ Requesting(k)
  BY RequestedImages DEF WriteRequested, Requesting
<1>2. /\ UNCHANGED <<job, main, p, side>> /\ pp' = pp + 1
      /\ loan' = [loan EXCEPT ![Active(k, pp)] = Len(fate) + 1]
  BY <1>1, RequestStep
<1>3. Len(fate) \in Nat
  BY LenProperties DEF Types
<1>4. loan'[<<k, pp, side[k]>>] # 0 /\ \A i \in Images : loan[i] # 0 => loan'[i] # 0
  BY <1>1, <1>2, <1>3 DEF Types, Active
<1>5. pp \in Int /\ ProjectionsPerStep \in Int /\ ProjectionsThisStep \in Int
  BY Sizes DEF Types
<1> SUFFICES ASSUME main \in Turn, NEW kind \in Kinds, Output(kind)
             PROVE  IF Swapped(kind)
                    THEN /\ p > 0 => Lent(kind, Other(side[kind]), ProjectionsPerStep)'
                         /\ Writing(kind) =>
                              Lent(kind, side[kind], IF Requesting(kind) THEN pp ELSE ProjectionsThisStep)'
                    ELSE /\ p > 0 => Lent(kind, side[kind], ProjectionsPerStep)'
                         /\ p > ProjectionsPerStep => Lent(kind, Other(side[kind]), ProjectionsPerStep)'
  BY <1>2, SameSizes DEF OutputsLent, Other, Swapped, Writing
<1>6. side[kind] \in Sides /\ Other(side[kind]) \in Sides
  BY SidesOf
<1>7. \A s \in Sides : Lent(kind, s, ProjectionsPerStep) => Lent(kind, s, ProjectionsPerStep)'
  BY <1>2, <1>4, <1>5, KeepsLent, SameSizes DEF Lent
<1>8. ASSUME Writing(kind), Swapped(kind)
      PROVE  Lent(kind, side[kind], IF Requesting(kind) THEN pp ELSE ProjectionsThisStep)'
  <2>1. Lent(kind, side[kind], IF Requesting(kind) THEN pp ELSE ProjectionsThisStep)
    BY <1>8 DEF OutputsLent
  <2>2. CASE Requesting(kind)
    <3>1. kind = k
      BY <1>1, <2>2 DEF Requesting, Output
    <3>2. \A t \in Threads : t < pp => loan'[<<kind, t, side[kind]>>] # 0
      BY <1>4, <1>5, <1>6, <2>1, <2>2, KeepsLent
    <3>3. \A t \in Threads : t < pp + 1 => t < pp \/ t = pp
      BY <1>1 DEF Threads
    <3> QED BY <1>2, <1>4, <2>2, <3>1, <3>2, <3>3 DEF Lent, Requesting
  <2>3. CASE ~Requesting(kind)
    <3>1. \A t \in Threads : t < ProjectionsThisStep => loan'[<<kind, t, side[kind]>>] # 0
      BY <1>4, <1>5, <1>6, <2>1, <2>3, KeepsLent
    <3> QED BY <1>2, <2>3, <3>1, SameSizes DEF Lent, Requesting
  <2> QED BY <2>2, <2>3
<1> QED BY <1>2, <1>5, <1>6, <1>7, <1>8, SameSizes DEF OutputsLent, Lent, Other

(* With the buffers, their loans change sides.                             *)
LEMMA OutputsSwap ==
  ASSUME Control, OutputsLent, NEW k \in Kinds,
         \/ k = "attenuation" /\ main = "swapAttenuation" /\ main' = "swapInput"
         \/ k = "filtered" /\ main = "swapFiltered" /\ main' \in {"filter", "synchronize"}
         \/ k = job.source /\ main = "swapInput" /\ main' = "request",
         side' = [side EXCEPT ![k] = Other(side[k])],
         UNCHANGED <<job, p, loan>>
  PROVE  OutputsLent'
<1> USE DEF Control
<1> SUFFICES ASSUME NEW kind \in Kinds, Output(kind)
             PROVE  IF Swapped(kind)'
                    THEN /\ p > 0 => Lent(kind, Other(side'[kind]), ProjectionsPerStep)
                         /\ ~Writing(kind)'
                    ELSE /\ p > 0 => Lent(kind, side'[kind], ProjectionsPerStep)
                         /\ p > ProjectionsPerStep => Lent(kind, Other(side'[kind]), ProjectionsPerStep)
  BY SameSizes DEF OutputsLent, Lent, Other
<1>1. kind # job.source /\ kind \in {"attenuation", "filtered"}
  BY JobFacts DEF Output
<1>2. main \in Turn /\ ~Writing(kind) /\ ~Writing(kind)'
  BY DEF Writing
<1>3. IF kind = k THEN ~Swapped(kind) /\ Swapped(kind)' ELSE Swapped(kind)' <=> Swapped(kind)
  BY <1>1 DEF Swapped
<1>4. IF kind = k THEN side'[kind] = Other(side[kind]) /\ Other(side'[kind]) = side[kind]
      ELSE side'[kind] = side[kind]
  BY OtherSide DEF Types
<1> QED BY <1>2, <1>3, <1>4 DEF OutputsLent

(* In the next group the writes of this one are the last group's.          *)
LEMMA OutputsNext ==
  ASSUME Control, OutputsLent, NextGroup
  PROVE  OutputsLent'
<1> USE DEF Control
<1>1. /\ main = "next" /\ p' = p + ProjectionsPerStep
      /\ main' = IF p' < NumberOfProjections THEN FirstPhase ELSE "complete"
      /\ UNCHANGED <<job, side, loan>>
  BY DEF NextGroup, ioVars
<1> SUFFICES ASSUME main' \in Turn, NEW kind \in Kinds, Output(kind)
             PROVE  /\ ~Swapped(kind)'
                    /\ Lent(kind, side[kind], ProjectionsPerStep)
                    /\ p' > ProjectionsPerStep => Lent(kind, Other(side[kind]), ProjectionsPerStep)
  BY <1>1, SameSizes DEF OutputsLent, Lent, Other
<1>2. kind # job.source /\ kind \in {"attenuation", "filtered"}
  BY JobFacts DEF Output
<1>3. Swapped(kind) /\ Writing(kind) /\ ~Requesting(kind)
  BY <1>1, <1>2 DEF Swapped, Writing, Requesting
<1>4. ~Swapped(kind)'
  BY <1>1, <1>2 DEF Swapped, FirstPhase, Output
<1>5. p' < NumberOfProjections
  BY <1>1
<1>6. ProjectionsThisStep = ProjectionsPerStep /\ (p' > ProjectionsPerStep => p > 0)
  BY <1>1, <1>5, Sizes DEF Types, ProjectionsThisStep, Lesser
<1> QED BY <1>1, <1>3, <1>4, <1>6 DEF OutputsLent

(* Main keeps account of the writes on loan.                               *)
LEMMA OutputsMain ==
  ASSUME Control, OutputsLent, Main
  PROVE  OutputsLent'
<1> USE DEF Control
<1>1. CASE SwapAttenuation
  BY <1>1, PhaseOrder, OutputsSwap DEF SwapAttenuation, SwapOutput, Swap, ioVars, Kinds
<1>2. CASE SwapFiltered
  BY <1>2, PhaseOrder, OutputsSwap DEF SwapFiltered, SwapOutput, Swap, ioVars, Kinds,
     FromFilter
<1>3. CASE SwapInput
  BY <1>3, JobFacts, OutputsSwap DEF SwapInput, Swap, ioVars
<1>4. CASE NextGroup
  BY <1>4, OutputsNext
<1>5. ASSUME NEW kind \in {"attenuation", "filtered"}, WriteRequested(kind)
      PROVE  OutputsLent'
  BY <1>5, OutputsRequest
<1>6. CASE /\ ~SwapAttenuation /\ ~SwapFiltered /\ ~SwapInput /\ ~NextGroup
           /\ \A kind \in {"attenuation", "filtered"} : ~WriteRequested(kind)
  <2>1. Move /\ UNCHANGED <<job, p, side>>
    BY <1>6, MainMoves
  <2>2. \A i \in Images : loan[i] # 0 => loan'[i] # 0
    BY MainLends
  <2>3. CASE FirstRequests \/ RequestNext
    <3>1. main \in {"firstRequests", "request"}
      BY <2>3 DEF FirstRequests, RequestNext
    <3>2. main' # main => main' \notin {"writeAttenuation", "writeFiltered"}
      BY <2>1, <3>1 DEF Move, Ending, FirstPhase, FromConvert, FromSynchronize0,
         FromCorrect, FromSwap, FromFilter
    <3> QED BY <2>1, <2>2, <3>1, <3>2, OutputsMove
  <2>4. CASE WriteAttenuation
    <3>1. main = "writeAttenuation" /\ pp = ProjectionsThisStep /\ pp' = 0
          /\ main' \in {"writeFiltered", "apply", "next"}
      BY <1>6, <2>4, PhaseOrder DEF WriteAttenuation, WriteRequested, EndRequests,
         FromWrite, FromApply
    <3>2. pp >= ProjectionsThisStep
      BY <3>1, Sizes
    <3> QED BY <2>1, <2>2, <3>1, <3>2, OutputsMove
  <2>5. CASE WriteFiltered
    <3>1. main = "writeFiltered" /\ pp = ProjectionsThisStep /\ pp' = 0
          /\ main' \in {"apply", "next"}
      BY <1>6, <2>5, PhaseOrder DEF WriteFiltered, WriteRequested, EndRequests,
         FromApply
    <3>2. pp >= ProjectionsThisStep
      BY <3>1, Sizes
    <3> QED BY <2>1, <2>2, <3>1, <3>2, OutputsMove
  <2>6. CASE Check \/ SetReference \/ Convert \/ Synchronize \/ Barrier \/ CorrectBeamPower \/ Filter
             \/ Create \/ ApplyProjections \/ WaitForCompletion \/ CountRequests \/ WriteVolume \/ Leave
    <3>1. pp' = pp /\ main \notin {"writeAttenuation", "writeFiltered"}
      BY <2>6 DEF Check, SetReference, Convert, Synchronize, Barrier, CorrectBeamPower,
         Filter,
         Create, ApplyProjections, WaitForCompletion, CountRequests, WriteVolume, Leave, MainThrows, mainVars
    <3>2. main' # main /\ main' \in {"writeAttenuation", "writeFiltered"} => pp = 0
      <4>1. main' # main /\ main' \in {"writeAttenuation", "writeFiltered"} => main = "check" \/ main = "writeAttenuation"
        BY <2>1, <2>6 DEF Move, Ending, FirstPhase, FromConvert, FromSynchronize0,
           FromCorrect,
           FromSwap, FromFilter, Check, SetReference, Convert, Synchronize, Barrier, CorrectBeamPower,
           Filter, Create, ApplyProjections, WaitForCompletion, CountRequests, WriteVolume, Leave
      <4> QED BY <3>1, <4>1 DEF Scheduled
    <3> QED BY <2>1, <2>2, <3>1, <3>2, OutputsMove
  <2>7. CASE BarrierVolume
    <3>1. main \notin Turn /\ main' \notin Turn
      BY <2>7 DEF BarrierVolume
    <3> QED BY <3>1 DEF OutputsLent
  <2> QED BY <1>6, <2>3, <2>4, <2>5, <2>6, <2>7 DEF Main
<1> QED BY <1>1, <1>2, <1>3, <1>4, <1>5, <1>6

(* The writes on loan are always as main has left them.                    *)
LEMMA NextOutputs ==
  ASSUME Control, OutputsLent, [Next]_vars
  PROVE  OutputsLent'
<1> USE DEF Control
<1>1. ASSUME UNCHANGED <<job, main, p, pp, side, loan>>
      PROVE  OutputsLent'
  BY <1>1, SameSizes DEF OutputsLent, Lent, Other, Swapped, Writing, Requesting
<1>2. ASSUME NEW t \in Threads, Worker(t)
      PROVE  OutputsLent'
  <2>1. UNCHANGED <<job, p, pp, side>> /\ main' \in {main, "crashed"}
    BY <1>2, WorkerReleases
  <2>2. CASE main' # main
    BY <2>1, <2>2 DEF OutputsLent
  <2>3. CASE main' = main /\ UNCHANGED loan
    BY <1>1, <2>1, <2>3
  <2>4. ASSUME main' = main, NEW k \in Kinds, main \in Filling, Told(k),
               loan' = [loan EXCEPT ![Active(k, t)] = 0]
        PROVE  OutputsLent'
    <3> SUFFICES ASSUME NEW kind \in Kinds, Output(kind)
                 PROVE  IF Swapped(kind)
                        THEN /\ p > 0 => Lent(kind, Other(side[kind]), ProjectionsPerStep)'
                             /\ ~Writing(kind)
                        ELSE /\ p > 0 => Lent(kind, side[kind], ProjectionsPerStep)'
                             /\ p > ProjectionsPerStep => Lent(kind, Other(side[kind]), ProjectionsPerStep)'
      BY <2>1, <2>4, SameSizes DEF OutputsLent, Other, Swapped, Writing
    <3>1. main \in Turn /\ ~Writing(kind)
      BY <2>4 DEF Filling, Writing
    <3>2. kind # job.source /\ kind \in {"attenuation", "filtered"}
      BY JobFacts DEF Output
    <3>3. ~Swapped(kind) => k # kind
      BY <2>4, <3>2 DEF Swapped, Told
    <3>4. \A u \in Threads, s \in Sides : s # side[kind] \/ k # kind =>
            loan'[<<kind, u, s>>] = loan[<<kind, u, s>>]
      <4>1. \A u \in Threads, s \in Sides : <<kind, u, s>> \in Images
        BY LentTypes
      <4>2. \A u \in Threads, s \in Sides : s # side[kind] \/ k # kind => <<kind, u, s>> # Active(k, t)
        BY DEF Active
      <4> QED BY <2>4, <4>1, <4>2 DEF Types
    <3>5. side[kind] \in Sides /\ Other(side[kind]) \in Sides /\ Other(side[kind]) # side[kind]
      BY SidesOf, OtherSide
    <3> QED BY <2>1, <3>1, <3>3, <3>4, <3>5, SameSizes DEF OutputsLent, Lent
  <2> QED BY <1>2, <2>1, <2>2, <2>3, <2>4, WorkerReleases
<1>3. CASE Settle
  BY <1>1, <1>3, SettleStep DEF mainVars
<1>4. CASE UNCHANGED vars
  BY <1>1, <1>4 DEF vars
<1> QED BY <1>2, <1>3, <1>4, OutputsMain DEF Next, Ended

-----------------------------------------------------------------------------

(* A worker that is to wait for an image waits for a loan, and for the     *)
(* same loan only once.                                                    *)
Matched ==
  \A t \in Threads : \A j \in 1 .. Len(box[t]) :
    /\ \A i \in box[t][j].awaits : loan[i] # 0
    /\ \A l \in 1 .. j - 1 : box[t][l].awaits \cap box[t][j].awaits = {}

(* The messages in the boxes have their types.                             *)
LEMMA AwaitTypes ==
  ASSUME Types, NEW t \in Threads, NEW j \in 1 .. Len(box[t])
  PROVE  box[t][j] \in Messages /\ box[t][j].awaits \subseteq Images
<1>1. box[t] \in Seq(Messages)
  BY DEF Types
<1>2. box[t][j] \in Messages
  BY <1>1, ElementOfSeq
<1> QED BY <1>2 DEF Messages

(* A worker waits only while the group is being filtered.                  *)
LEMMA AwaitsFit ==
  ASSUME Control, NEW t \in Threads, NEW j \in 1 .. Len(box[t])
  PROVE  \/ box[t][j].awaits = {}
         \/ /\ main \in Filling
            /\ \E kind \in Kinds : box[t][j].awaits = {Active(kind, t)} /\ Told(kind)
<1>1. Fits(t, j, box[t][j]) /\ box[t][j] \in Messages
  BY AwaitTypes DEF Control, Boxes
<1> QED BY <1>1 DEF Fits, Messages, Ops, Transforms

(* Elsewhere there is nothing to match.                                    *)
LEMMA NobodyWaits ==
  ASSUME Control, main \notin Filling
  PROVE  Matched
<1>1. \A t \in Threads : \A j \in 1 .. Len(box[t]) : box[t][j].awaits = {}
  BY AwaitsFit
<1> QED BY <1>1 DEF Matched

LEMMA NobodyWaitsNext ==
  (Control /\ main \notin Filling)' => Matched'
<1>1. Control /\ main \notin Filling => Matched
  BY NobodyWaits
<1> QED BY <1>1, PTL

(* When everything new in the boxes waits for a loan of its own,           *)
(* everything does.                                                        *)
LEMMA MatchedSends ==
  ASSUME Types, Types', Matched,
         \A i \in Images : loan[i] # 0 => loan'[i] # 0,
         \A t \in Threads : Keeps(t),
         \A t \in Threads : \A j \in Len(box[t]) + 1 .. Len(box'[t]) :
           \/ box'[t][j].awaits = {}
           \/ /\ j = Len(box[t]) + 1
              /\ \A i \in box'[t][j].awaits :
                   loan'[i] # 0 /\ \A l \in 1 .. Len(box[t]) : i \notin box[t][l].awaits
  PROVE  Matched'
<1> SUFFICES ASSUME NEW t \in Threads, NEW j \in 1 .. Len(box'[t]), NEW i \in box'[t][j].awaits
             PROVE  /\ loan'[i] # 0
                    /\ \A l \in 1 .. j - 1 : i \notin box'[t][l].awaits
  BY DEF Matched
<1>1. Len(box[t]) \in Nat /\ Len(box'[t]) \in Nat /\ Len(box[t]) <= Len(box'[t])
      /\ \A l \in 1 .. Len(box[t]) : box'[t][l] = box[t][l]
  BY LenProperties DEF Types, Keeps
<1>2. CASE j \in 1 .. Len(box[t])
  <2>1. box'[t][j] = box[t][j] /\ i \in Images
    BY <1>1, <1>2, AwaitTypes
  <2>2. \A l \in 1 .. j - 1 : box'[t][l] = box[t][l] /\ i \notin box[t][l].awaits
    BY <1>1, <1>2, <2>1 DEF Matched
  <2> QED BY <1>2, <2>1, <2>2 DEF Matched
<1>3. CASE j \notin 1 .. Len(box[t])
  <2>1. j \in Len(box[t]) + 1 .. Len(box'[t]) /\ box'[t][j].awaits # {}
    BY <1>1, <1>3
  <2>2. /\ j = Len(box[t]) + 1
        /\ loan'[i] # 0 /\ \A l \in 1 .. Len(box[t]) : i \notin box[t][l].awaits
    BY <2>1
  <2> QED BY <1>1, <2>2
<1> QED BY <1>2, <1>3

(* The group's images are lent, and nobody was told to wait for them yet.  *)
LEMMA MatchedAwaits ==
  ASSUME Control, Types', Matched, NEW kind \in Kinds, AwaitsSent(kind), ~Told(kind),
         UNCHANGED loan,
         \A t \in Threads : t < ProjectionsThisStep => loan[Active(kind, t)'] # 0
  PROVE  Matched'
<1> USE DEF Control
<1>1. \A t \in Threads : Keeps(t)
  BY AwaitsKeep
<1>2. ASSUME NEW t \in Threads, NEW j \in Len(box[t]) + 1 .. Len(box'[t])
      PROVE  /\ j = Len(box[t]) + 1
             /\ \A i \in box'[t][j].awaits :
                   loan'[i] # 0 /\ \A l \in 1 .. Len(box[t]) : i \notin box[t][l].awaits
  <2>1. Len(box[t]) \in Nat
    BY LenProperties DEF Types
  <2>2. t < ProjectionsThisStep
    <3>1. box'[t] # box[t]
      BY <1>2, <2>1
    <3> QED BY <3>1 DEF AwaitsSent
  <2>3. j = Len(box[t]) + 1 /\ box'[t][j] = Await(Active(kind, t))'
    BY <1>2, <2>1, <2>2 DEF AwaitsSent
  <2>4. box'[t][j].awaits = {Active(kind, t)'}
    BY <2>3 DEF Await, Message
  <2>5. ASSUME NEW l \in 1 .. Len(box[t]), Active(kind, t)' \in box[t][l].awaits
        PROVE  FALSE
    <3>1. PICK k \in Kinds : box[t][l].awaits = {Active(k, t)} /\ Told(k)
      BY <2>5, AwaitsFit
    <3> QED BY <2>5, <3>1 DEF Active
  <2> QED BY <2>2, <2>3, <2>4, <2>5
<1> QED BY <1>1, <1>2, MatchedSends

(* The waits sent with a swap of outputs are for the writes of two groups  *)
(* ago.                                                                    *)
LEMMA MatchedSwapOutput ==
  ASSUME Control, Control', OutputsLent, Matched, NEW kind \in Kinds, SwapOutput(kind),
         \/ kind = "attenuation" /\ main = "swapAttenuation"
         \/ kind = "filtered" /\ main = "swapFiltered",
         UNCHANGED <<job, p, loan>>
  PROVE  Matched'
<1> USE DEF Control
<1>1. Output(kind) /\ ~Told(kind) /\ ~Swapped(kind) /\ main \in Turn
  BY JobFacts DEF Output, Told, Swapped, Scheduled
<1>2. CASE box' = box
  <2>1. \A t \in Threads : Keeps(t) /\ Len(box[t]) + 1 .. Len(box'[t]) = {}
    BY <1>2, SameBoxes
  <2> QED BY <2>1, MatchedSends
<1>3. CASE p > ProjectionsPerStep /\ AwaitsSent(kind)
  <2>1. Lent(kind, Other(side[kind]), ProjectionsPerStep)
    BY <1>1, <1>3 DEF OutputsLent
  <2>2. side'[kind] = Other(side[kind])
    BY SwapStep DEF Types
  <2>3. \A t \in Threads : t < ProjectionsThisStep => t < ProjectionsPerStep
    BY <1>1, Sizes DEF Scheduled, Threads
  <2>4. \A t \in Threads : t < ProjectionsThisStep => loan[Active(kind, t)'] # 0
    BY <2>1, <2>2, <2>3 DEF Lent, Active
  <2> QED BY <1>1, <1>3, <2>4, MatchedAwaits
<1> QED BY <1>2, <1>3, SwapStep

(* The other messages wait for nothing.                                    *)
LEMMA MatchedTransforms ==
  ASSUME Control, Control', Matched, Convert \/ CorrectBeamPower \/ Filter
  PROVE  Matched'
<1> USE DEF Control
<1>1. \E kinds : TransformsSent(kinds)
  BY ConvertStep, CorrectStep, FilterStep
<1>2. \A t \in Threads : Keeps(t) /\ \A j \in Len(box[t]) + 1 .. Len(box'[t]) : box'[t][j].awaits = {}
  BY <1>1 DEF TransformsSent
<1>3. UNCHANGED loan
  BY DEF Convert, CorrectBeamPower, Filter, ioVars
<1> QED BY <1>2, <1>3, MatchedSends

LEMMA MatchedSynchronize ==
  ASSUME Control, Control', Matched, Synchronize
  PROVE  Matched'
<1> USE DEF Control
<1>1. BarriersSent /\ UNCHANGED loan
  BY SynchronizeStep DEF Synchronize, ioVars
<1>2. \A t \in Threads : Len(box[t]) \in Nat /\ Keeps(t)
  BY <1>1, LenProperties DEF BarriersSent, Types, Keeps
<1>3. ASSUME NEW t \in Threads, NEW j \in Len(box[t]) + 1 .. Len(box'[t])
      PROVE  box'[t][j].awaits = {}
  <2>1. box'[t][j] = Plain("barrier")
    BY <1>1, <1>2, <1>3 DEF BarriersSent
  <2> QED BY <2>1 DEF Plain, Message
<1> QED BY <1>1, <1>2, <1>3, MatchedSends

(* Main sends matching waits.                                              *)
LEMMA MatchedMain ==
  ASSUME Control, Control', InputsLent, OutputsLent, Matched, Main
  PROVE  Matched'
<1> USE DEF Control
<1>1. CASE main' \notin Filling
  BY <1>1, NobodyWaitsNext DEF Filling
<1>2. CASE SwapAttenuation
  BY <1>2, MatchedSwapOutput DEF SwapAttenuation, ioVars, Kinds
<1>3. CASE SwapFiltered
  BY <1>3, MatchedSwapOutput DEF SwapFiltered, ioVars, Kinds
<1>4. CASE Convert \/ CorrectBeamPower \/ Filter
  BY <1>4, MatchedTransforms
<1>5. CASE Synchronize
  BY <1>5, MatchedSynchronize
<1>6. CASE RequestNext /\ ~ReadRequested
  <2>1. main = "request" /\ UNCHANGED <<job, side, loan>>
        /\ Send(ProjectionsThisStep, LAMBDA k : Await(Active(job.source, k)))
    BY <1>6 DEF RequestNext, ReadRequested, EndRequests, ioVars
  <2>2. AwaitsSent(job.source) /\ job.source \in Kinds /\ ~Told(job.source)
    BY <2>1, RequestedAllStep, JobFacts DEF Told
  <2>3. \A t \in Threads : t < ProjectionsThisStep => loan[Active(job.source, t)'] # 0
    BY <2>1 DEF InputsLent, Lent, Active
  <2> QED BY <2>1, <2>2, <2>3, MatchedAwaits
<1>7. CASE UNCHANGED box
  <2>1. \A t \in Threads : Keeps(t) /\ Len(box[t]) + 1 .. Len(box'[t]) = {}
    BY <1>7, SameBoxes
  <2> QED BY <2>1, MainLends, MatchedSends
<1>8. CASE Create \/ Barrier \/ ApplyProjections \/ WriteVolume \/ BarrierVolume
  <2>1. main' \notin Filling
    BY <1>8, PhaseOrder DEF Create, Barrier, ApplyProjections, WriteVolume,
       BarrierVolume, Filling, Scheduled
  <2> QED BY <1>1, <2>1
<1>9. CASE FirstRequests \/ ReadRequested \/ SwapInput \/ SetReference \/ Check \/ WriteAttenuation
           \/ WriteFiltered \/ NextGroup \/ WaitForCompletion \/ CountRequests \/ Leave
  <2>1. UNCHANGED box
    BY <1>9 DEF FirstRequests, ReadRequested, SwapInput, SetReference, Check,
       WriteAttenuation,
       WriteFiltered, NextGroup, WaitForCompletion, CountRequests, Leave, Request, EndRequests, MainThrows
  <2> QED BY <1>7, <2>1
<1> QED BY <1>2, <1>3, <1>4, <1>5, <1>6, <1>8, <1>9 DEF Main

(* A worker that gives an image back leaves no other wait for it.          *)
LEMMA MatchedWorker ==
  ASSUME Control, Matched, NEW t \in Threads, Worker(t)
  PROVE  Matched'
<1> USE DEF Control
<1>1. box[t] # <<>>
  BY WorkerStep
<1>2. CASE UNCHANGED <<box, loan>>
  BY <1>2 DEF Matched
<1>3. CASE box' = [box EXCEPT ![t] = Tail(box[t])]
  <2>1. /\ Len(box[t]) \in Nat /\ Len(box'[t]) = Len(box[t]) - 1
        /\ \A j \in 1 .. Len(box'[t]) : box'[t][j] = box[t][j + 1] /\ j + 1 \in 1 .. Len(box[t])
        /\ \A u \in Threads \ {t} : box'[u] = box[u]
    BY <1>1, <1>3, PopStep
  <2>2. Len(box[t]) \in Nat \ {0}
    BY <1>1, Taking
  <2>3. ASSUME NEW u \in Threads, NEW j \in 1 .. Len(box'[u])
        PROVE  \E n \in 1 .. Len(box[u]) :
                 /\ box'[u][j] = box[u][n]
                 /\ u = t => n # 1
                 /\ \A l \in 1 .. j - 1 : \E m \in 1 .. n - 1 : box'[u][l] = box[u][m]
    <3>1. CASE u # t
      <4>1. box'[u] = box[u] /\ Len(box[u]) \in Nat
        BY <2>1, <3>1, LenProperties DEF Types
      <4>2. \A l \in 1 .. j - 1 : \E m \in 1 .. j - 1 : box'[u][l] = box[u][m]
        BY <4>1
      <4> QED BY <2>3, <3>1, <4>1, <4>2
    <3>2. CASE u = t
      <4>1. ASSUME NEW l \in 1 .. j - 1
            PROVE  \E m \in 1 .. j : box'[t][l] = box[t][m]
        <5>1. l \in 1 .. Len(box'[t]) /\ l + 1 \in 1 .. j
          BY <2>1, <2>3, <3>2, <4>1
        <5> QED BY <2>1, <5>1
      <4>2. j + 1 \in 1 .. Len(box[t]) /\ j + 1 # 1 /\ (j + 1) - 1 = j /\ box'[t][j] = box[t][j + 1]
        BY <2>1, <2>3, <3>2
      <4> QED BY <3>2, <4>1, <4>2
    <3> QED BY <3>1, <3>2
  <2>4. ASSUME NEW u \in Threads, NEW n \in 1 .. Len(box[u]), u = t => n # 1, NEW i \in box[u][n].awaits
        PROVE  loan'[i] # 0
    <3>1. loan[i] # 0 /\ i \in Images
      BY <2>4, AwaitTypes DEF Matched
    <3>2. CASE UNCHANGED loan
      BY <3>1, <3>2
    <3>3. ASSUME NEW k \in Kinds, box[t][1].awaits = {Active(k, t)}, loan' = [loan EXCEPT ![Active(k, t)] = 0]
          PROVE  loan'[i] # 0
      <4>1. i # Active(k, t)
        <5>1. CASE u = t
          <6>1. 1 \in 1 .. n - 1
            BY <2>2, <2>4, <5>1
          <6>2. box[t][1].awaits \cap box[t][n].awaits = {}
            BY <2>4, <5>1, <6>1 DEF Matched
          <6> QED BY <2>4, <3>3, <5>1, <6>2
        <5>2. CASE u # t
          BY <2>4, <5>2, AwaitsFit DEF Active
        <5> QED BY <5>1, <5>2
      <4> QED BY <3>1, <3>3, <4>1 DEF Types
    <3> QED BY <3>2, <3>3, WorkerReleases
  <2>5. ASSUME NEW u \in Threads, NEW j \in 1 .. Len(box'[u])
        PROVE  /\ \A i \in box'[u][j].awaits : loan'[i] # 0
               /\ \A l \in 1 .. j - 1 : box'[u][l].awaits \cap box'[u][j].awaits = {}
    <3>1. PICK n \in 1 .. Len(box[u]) :
                 /\ box'[u][j] = box[u][n]
                 /\ u = t => n # 1
                 /\ \A l \in 1 .. j - 1 : \E m \in 1 .. n - 1 : box'[u][l] = box[u][m]
      BY <2>3, <2>5
    <3>2. \A m \in 1 .. n - 1 : box[u][m].awaits \cap box[u][n].awaits = {}
      BY DEF Matched
    <3>3. \A i \in box'[u][j].awaits : loan'[i] # 0
      BY <2>4, <3>1
    <3>4. \A l \in 1 .. j - 1 : box'[u][l].awaits \cap box'[u][j].awaits = {}
      <4> TAKE l \in 1 .. j - 1
      <4>1. PICK m \in 1 .. n - 1 : box'[u][l] = box[u][m]
        BY <3>1
      <4> QED BY <3>1, <3>2, <4>1
    <3> QED BY <3>3, <3>4
  <2> QED BY <2>5 DEF Matched
<1> QED BY <1>2, <1>3, WorkerStep

(* Waits are always matched.                                               *)
LEMMA NextMatched ==
  ASSUME Control, Control', InputsLent, OutputsLent, Matched, [Next]_vars
  PROVE  Matched'
<1>1. ASSUME UNCHANGED <<box, loan>>
      PROVE  Matched'
  BY <1>1 DEF Matched
<1>2. CASE Settle
  BY <1>1, <1>2, SettleStep DEF Control
<1>3. CASE UNCHANGED vars
  BY <1>1, <1>3 DEF vars
<1> QED BY <1>2, <1>3, MatchedMain, MatchedWorker DEF Next, Ended

-----------------------------------------------------------------------------

(* The inductive invariant of the main thread, the workers and the I/O     *)
(* processor together.                                                     *)
InOrder == Control /\ Requested /\ Fresh /\ Sheltered /\ InputsLent /\ OutputsLent /\ Matched

(* It holds at the start.                                                  *)
LEMMA InitInOrder ==
  ASSUME Init
  PROVE  InOrder
<1>1. Control
  BY InitControl
<1>2. /\ main = "create" /\ requests = <<>> /\ fate = <<>>
      /\ \A t \in Threads : box[t] = <<>>
  BY DEF Init, IO!Init
<1>3. Len(requests) = 0 /\ Len(fate) = 0 /\ 1 .. Len(requests) = {}
  BY <1>2
<1>4. \A t \in Threads : 1 .. Len(box[t]) = {}
  BY <1>2
<1>5. Requested /\ Fresh
  BY <1>3 DEF Requested, Fresh, NoRequest
<1>6. Sheltered
  BY <1>3, <1>4 DEF Sheltered, Guarded, Covered
<1>7. InputsLent /\ OutputsLent
  BY <1>2 DEF InputsLent, OutputsLent
<1>8. Matched
  BY <1>4 DEF Matched
<1> QED BY <1>1, <1>5, <1>6, <1>7, <1>8 DEF InOrder

(* The order of the engine is never lost: control, requests, shelter,      *)
(* loans and waits, for every number of threads and projections, every job *)
(* and every failure.                                                      *)
THEOREM AlwaysInOrder == Spec => []InOrder
<1>1. InOrder /\ [Next]_vars => InOrder'
  BY NextControl, NextRequested, NextFresh, NextSheltered, NextInputs, NextOutputs,
     NextMatched
     DEF InOrder
<1> QED BY <1>1, InitInOrder, PTL DEF Spec

(* What it says of the contracts.                                          *)
LEMMA ImpliesContracts ==
  ASSUME InOrder
  PROVE  ContractsAreKept
<1>1. WaitsAreMatched
  BY DEF InOrder, Matched, WaitsAreMatched
<1>2. closed => main \in {"returned", "threw"}
  BY DEF InOrder, Control, Scheduled
<1>3. NothingOutlives
  BY <1>2, IdleIsEmpty DEF InOrder, NothingOutlives, Filling, Applying
<1> QED BY <1>1, <1>3 DEF ContractsAreKept

(* The engine keeps the contracts of AsynchronousIOProcessor: a worker     *)
(* waits only for requests that were issued and not yet released, and      *)
(* nobody has anything left to do with the processor and the buffers when  *)
(* they are destroyed.                                                     *)
THEOREM EngineKeepsContracts == Spec => []ContractsAreKept
BY AlwaysInOrder, ImpliesContracts, PTL

(* What it says of the images in use.                                      *)
LEMMA ImpliesNoClobber ==
  ASSUME InOrder
  PROVE  NoClobber
<1> USE DEF InOrder, Control
<1> SUFFICES ASSUME NEW a \in Uses, NEW b \in Uses, a.actor # b.actor,
                    NEW i \in a.writes, i \in b.reads \cup b.writes
             PROVE  FALSE
  BY DEF NoClobber
<1> DEFINE WorkersUse(t) ==
             [actor |-> <<"worker", t>>, reads |-> Head(box[t]).from, writes |-> Head(box[t]).to]
           ProcessorsUse(k) ==
             [actor |-> <<"io">>,
              reads  |-> IF requests[k].op = "write" THEN {requests[k].image} ELSE {},
              writes |-> IF requests[k].op = "read" THEN {requests[k].image} ELSE {}]
           MainsUse == [actor |-> <<"main">>, reads |-> {Active("attenuation", 0)}, writes |-> {}]
           ByWorker(u) == \E t \in Threads : box[t] # <<>> /\ u = WorkersUse(t)
           ByProcessor(u) == \E k \in 1 .. Len(fate) :
                               fate[k] = "pending" /\ ~IO!Failed /\ u = ProcessorsUse(k)
           ByMain(u) == main = "reference" /\ u = MainsUse
<1>1. \A u \in Uses : ByWorker(u) \/ ByProcessor(u) \/ ByMain(u)
  BY DEF Uses
<1>2. ASSUME NEW t \in Threads, box[t] # <<>>
      PROVE  /\ 1 \in 1 .. Len(box[t]) /\ Head(box[t]) = box[t][1] /\ Fits(t, 1, box[t][1])
             /\ box[t][1] \in Messages
  BY <1>2, Taking, AwaitTypes DEF Boxes
<1>3. ASSUME NEW t \in Threads, box[t] # <<>>, Head(box[t]).to # {}
      PROVE  Head(box[t]).op \in Transforms
  BY <1>2, <1>3 DEF Fits, Messages, Ops, Transforms
<1>4. ASSUME NEW t \in Threads, box[t] # <<>>, NEW j \in Head(box[t]).to
      PROVE  \E kind \in Kinds : j = Active(kind, t)
  BY <1>2, <1>3, <1>4 DEF Fits
<1>5. ASSUME NEW t \in Threads, box[t] # <<>>, NEW k \in 1 .. Len(fate), fate[k] = "pending", ~IO!Failed
      PROVE  ~Clash(Head(box[t]), k)
  <2>1. k \in 1 .. Len(requests) /\ 1 \in 1 .. Len(box[t]) /\ Head(box[t]) = box[t][1]
    BY <1>2, <1>5 DEF Requested
  <2>2. ~Awaited(t, 1 - 1, requests[k].image)
    BY DEF Awaited
  <2> QED BY <1>5, <2>1, <2>2 DEF Sheltered, Guarded
<1>6. CASE ByWorker(a) /\ ByWorker(b)
  <2>1. PICK t \in Threads : box[t] # <<>> /\ a = WorkersUse(t)
    BY <1>6
  <2>2. PICK u \in Threads : box[u] # <<>> /\ b = WorkersUse(u)
    BY <1>6
  <2>3. t # u /\ i \in Head(box[t]).to /\ i \in Head(box[u]).from \cup Head(box[u]).to
    BY <2>1, <2>2
  <2>4. PICK kind \in Kinds : i = Active(kind, t)
    BY <1>4, <2>1, <2>3
  <2>5. main \in Filling
    BY <1>2, <1>3, <2>1, <2>3 DEF Fits
  <2>6. Head(box[u]).op \in Transforms
    BY <1>2, <2>2, <2>3, <2>5 DEF Fits, Messages, Ops, Transforms, Filling, Applying
  <2>7. \E k \in Kinds : i = Active(k, u)
    BY <1>2, <2>2, <2>3, <2>6 DEF Fits
  <2> QED BY <2>3, <2>4, <2>7 DEF Active
<1>7. CASE ByWorker(a) /\ ByProcessor(b)
  BY <1>5, <1>7 DEF Clash
<1>8. CASE ByProcessor(a) /\ ByWorker(b)
  BY <1>5, <1>8 DEF Clash
<1>9. CASE ByWorker(a) /\ ByMain(b)
  BY <1>9, IdleIsEmpty DEF Filling, Applying
<1>10. CASE ByProcessor(a) /\ ByMain(b)
  <2>1. PICK k \in 1 .. Len(fate) : a = ProcessorsUse(k)
    BY <1>10
  <2>2. requests[k].op = "read" /\ i = requests[k].image /\ k \in 1 .. Len(requests)
    BY <2>1 DEF Requested
  <2>3. i[1] = "raw"
    BY <1>10, <2>2, JobFacts DEF Requested, Scheduled
  <2>4. i = Active("attenuation", 0)
    BY <1>10
  <2> QED BY <2>3, <2>4 DEF Active
<1>11. ~ByMain(a)
  OBVIOUS
<1>12. ~(ByProcessor(a) /\ ByProcessor(b)) /\ ~(ByMain(a) /\ ByMain(b))
  OBVIOUS
<1> QED BY <1>1, <1>6, <1>7, <1>8, <1>9, <1>10, <1>11, <1>12

(* While one of the workers, the I/O thread and the main thread may be     *)
(* writing an image no other uses it, for every number of threads and      *)
(* projections and every job.                                              *)
THEOREM EngineNeverClobbers == Spec => []NoClobber
BY AlwaysInOrder, ImpliesNoClobber, PTL
=============================================================================
