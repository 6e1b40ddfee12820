-------------------------- MODULE ProjectionFilterer --------------------------
(* The filterers that the workers create, use and delete, each on its own   *)
(* thread: source/filtering and bonelab/fftw_mt.cpp. They share the planner *)
(* of FFTW, which only one thread may enter at a time, and the one object   *)
(* that generates the smoothing filter. A ramp filter is not a function but *)
(* the state it is in; of a row only the columns are kept.                  *)
EXTENDS Filters, Integers, Sequences

CONSTANTS
  Workers,
  NoWorker,    \* nobody
  Widths       \* of a projection, in pixels

ASSUME FiltererAssumption ==
  /\ NoWorker \notin Workers
  /\ Widths \subseteq Nat \ {0}

VARIABLES
  setup,     \* what the launcher has chosen: module, smoothing, width
  calls,      \* of each worker: the steps left of the call it is in
  filterer,      \* "new", "initializing", "ready", "failed", "abandoned", "deleted"
  inside,    \* is the worker inside the planner?
  mutex,     \* who holds fftw_mt::m_Mutex
  plans,     \* the plans that exist, with their owners
  length,    \* m_Length of the smoothing filter
  ramp,      \* the state of m_RampFilter
  row        \* m_Buffer or m_Scratch: a column, or one of the values below

filtererVars ==
  <<setup, calls, filterer, inside, mutex, plans, length, ramp, row>>

Setups ==
  [module : {"convolution", "fftw", "vdsp"}, smoothing : BOOLEAN, width : Widths]

Zero == -1     \* padding
Old == -2      \* left over from the row before
Unset == -3    \* never written

(* m_FFTLength, at least twice the width.                                   *)
FFTLength == FilterLength(setup.module, setup.width)

Smoothing == IF setup.smoothing THEN <<"set length", "transfer">> ELSE <<>>

(* Fault: the plan of the ramp filter's own transform is forgotten.         *)
KeepsRampPlan ==
  <<"allocate", "plan forward", "plan backward", "allocate", "make ramp",
    "plan ramp", "transform">> \o Smoothing \o <<"store">>

(* What Initialize does.                                                    *)
FFTWSteps ==
  <<"allocate", "plan forward", "plan backward", "allocate", "make ramp",
    "plan ramp", "transform", "destroy ramp">> \o Smoothing \o <<"store">>

VDSPSteps ==
  <<"allocate", "make ramp", "transform">> \o Smoothing \o <<"store">>

ConvolutionSteps == <<"refuse smoothing", "allocate", "make ramp", "store">>

InitializeSteps ==
  CASE setup.module = "fftw" -> FFTWSteps
    [] setup.module = "vdsp" -> VDSPSteps
    [] OTHER -> ConvolutionSteps

DestroySteps ==
  IF setup.module = "fftw"
    THEN <<"destroy forward", "destroy backward", "free">>
    ELSE <<"free">>

(* The calls of fftw_mt, all of which lock the mutex but execute.           *)
Creates == [s \in {"plan forward", "plan backward", "plan ramp"} |->
              CASE s = "plan forward" -> "forward"
                [] s = "plan backward" -> "backward"
                [] OTHER -> "ramp"]

Destroys == [s \in {"destroy forward", "destroy backward", "destroy ramp"} |->
               CASE s = "destroy forward" -> "forward"
                 [] s = "destroy backward" -> "backward"
                 [] OTHER -> "ramp"]

PlannerCalls == DOMAIN Creates \cup DOMAIN Destroys

(* Fault: destroy_plan forgets the lock.                                    *)
LocksToPlanOnly(s) == s \in DOMAIN Creates

LocksPlanner(s) == s \in PlannerCalls

At(w, s) == calls[w] # <<>> /\ Head(calls[w]) = s

Continue(w) == calls' = [calls EXCEPT ![w] = Tail(@)]

FiltererInit ==
  /\ setup \in Setups
  /\ calls = [w \in Workers |-> <<>>]
  /\ filterer = [w \in Workers |-> "new"]
  /\ inside = [w \in Workers |-> FALSE]
  /\ mutex = NoWorker
  /\ plans = {}
  /\ length = 0
  /\ ramp = [w \in Workers |-> "none"]
  /\ row = [w \in Workers |-> <<>>]

(* A worker takes the message that makes it a filterer.                     *)
Initialize(w) ==
  /\ filterer[w] = "new"
  /\ filterer' = [filterer EXCEPT ![w] = "initializing"]
  /\ calls' = [calls EXCEPT ![w] = InitializeSteps]
  /\ UNCHANGED <<setup, inside, mutex, plans, length, ramp, row>>

(* An exception in Initialize: the message never stores the filterer in the *)
(* worker, so that nobody deletes it.                                       *)
Abandon(w, why) ==
  /\ calls' = [calls EXCEPT ![w] = <<>>]
  /\ filterer' = [filterer EXCEPT ![w] = why]

RefuseSmoothing(w) ==
  /\ At(w, "refuse smoothing")
  /\ IF setup.smoothing
       THEN Abandon(w, "failed")
       ELSE Continue(w) /\ UNCHANGED filterer
  /\ UNCHANGED <<setup, inside, mutex, plans, length, ramp, row>>

(* The buffer, and later the ramp filter, are allocated; there may be no    *)
(* memory.                                                                  *)
Allocate(w) ==
  /\ At(w, "allocate")
  /\ \/ /\ Continue(w)
        /\ row' = [row EXCEPT ![w] =
             IF @ = <<>> THEN [k \in 0..FFTLength-1 |-> Unset] ELSE @]
        /\ UNCHANGED filterer
     \/ Abandon(w, "abandoned") /\ UNCHANGED row
  /\ UNCHANGED <<setup, inside, mutex, plans, length, ramp>>

(* ... lock_guard, and the call to FFTW ...                                 *)
EnterPlanner(w) ==
  /\ \E s \in PlannerCalls :
       /\ At(w, s)
       /\ IF LocksPlanner(s)
            THEN mutex = NoWorker /\ mutex' = w
            ELSE UNCHANGED mutex
  /\ ~inside[w]
  /\ inside' = [inside EXCEPT ![w] = TRUE]
  /\ UNCHANGED <<setup, calls, filterer, plans, length, ramp, row>>

(* Fault: the ramp filter is planned for with FFTW_MEASURE, like the rest.  *)
AlwaysMeasures(s) == s \in DOMAIN Creates

(* Planning with FFTW_MEASURE overwrites the array it plans for, with       *)
(* FFTW_ESTIMATE it does not.                                               *)
Overwrites(s) == s \in {"plan forward", "plan backward"}

(* ... returns. The planner leaves its trace in the array planned for.      *)
LeavePlanner(w) ==
  /\ inside[w]
  /\ LET s == Head(calls[w]) IN
       /\ plans' = IF s \in DOMAIN Creates
                     THEN plans \cup {<<w, Creates[s]>>}
                     ELSE plans \ {<<w, Destroys[s]>>}
       /\ ramp' = IF s = "plan ramp" /\ Overwrites(s)
                    THEN [ramp EXCEPT ![w] = "garbage"] ELSE ramp
       /\ row' = IF s # "plan ramp" /\ Overwrites(s)
                   THEN [row EXCEPT ![w] = [k \in DOMAIN @ |-> Old]] ELSE row
  /\ inside' = [inside EXCEPT ![w] = FALSE]
  /\ mutex' = IF mutex = w THEN NoWorker ELSE mutex
  /\ Continue(w)
  /\ UNCHANGED <<setup, filterer, length>>

Becomes(w, from, to) ==
  ramp' = [ramp EXCEPT ![w] = IF @ = from THEN to ELSE "garbage"]

(* RampFilterRealSpace generates the kernel in real space ...               *)
MakeRamp(w) ==
  /\ At(w, "make ramp")
  /\ Becomes(w, "none", "kernel")
  /\ Continue(w)
  /\ UNCHANGED <<setup, filterer, inside, mutex, plans, length, row>>

(* ... which is transformed: fftw_mt::execute takes no lock.                *)
TransformRamp(w) ==
  /\ At(w, "transform")
  /\ Becomes(w, "kernel", "spectrum")
  /\ Continue(w)
  /\ UNCHANGED <<setup, filterer, inside, mutex, plans, length, row>>

(* All workers tell the same object how long a transfer function to make.   *)
SetLength(w) ==
  /\ At(w, "set length")
  /\ length' = FFTLength
  /\ Continue(w)
  /\ UNCHANGED <<setup, filterer, inside, mutex, plans, ramp, row>>

(* ConstructTransferFunction asserts that the array is as long as that.     *)
ConstructTransferFunction(w) ==
  /\ At(w, "transfer")
  /\ IF length = FFTLength
       THEN Becomes(w, "spectrum", "smoothed") /\ Continue(w) /\ UNCHANGED filterer
       ELSE Abandon(w, "failed") /\ UNCHANGED ramp
  /\ UNCHANGED <<setup, inside, mutex, plans, length, row>>

(* The filterer is stored in the worker.                                    *)
FinishInitialize(w) ==
  /\ At(w, "store")
  /\ filterer' = [filterer EXCEPT ![w] = "ready"]
  /\ Continue(w)
  /\ UNCHANGED <<setup, inside, mutex, plans, length, ramp, row>>

(* How a row is put in the buffer before it is transformed. FFTW: the row,  *)
(* and zeros up to the end. vDSP: the row goes to the two halves of the     *)
(* buffer in turns, and each half is filled up with zeros; for an odd width *)
(* the last column is not copied, and the last number not quite zeroed.     *)
(* Cell k stands for real part k/2, or imaginary part (k-1)/2.              *)
PaddedRow(w) ==
  LET n == setup.width
      pairs == n \div 2
  IN  [k \in 0..FFTLength-1 |->
         IF setup.module = "fftw"
           THEN IF k < n THEN k ELSE Zero
           ELSE IF k \div 2 < pairs THEN k
                ELSE IF k \div 2 < pairs + (FFTLength - n) \div 2 THEN Zero
                ELSE row[w][k]]

(* FilterProjection, up to the transforms. The convolution has no buffer.   *)
LoadRow(w) ==
  /\ filterer[w] = "ready" /\ calls[w] = <<>>
  /\ setup.module # "convolution"
  /\ row' = [row EXCEPT ![w] = PaddedRow(w)]
  /\ calls' = [calls EXCEPT ![w] = <<"filter">>]
  /\ UNCHANGED <<setup, filterer, inside, mutex, plans, length, ramp>>

(* Forward, multiply, back: the whole buffer is overwritten.                *)
FilterRow(w) ==
  /\ At(w, "filter")
  /\ row' = [row EXCEPT ![w] = [k \in DOMAIN @ |-> Old]]
  /\ Continue(w)
  /\ UNCHANGED <<setup, filterer, inside, mutex, plans, length, ramp>>

(* The worker is deleted, on its own thread, and with it the filterer.      *)
Destroy(w) ==
  /\ filterer[w] = "ready" /\ calls[w] = <<>>
  /\ calls' = [calls EXCEPT ![w] = DestroySteps]
  /\ filterer' = [filterer EXCEPT ![w] = "deleted"]
  /\ UNCHANGED <<setup, inside, mutex, plans, length, ramp, row>>

Free(w) ==
  /\ At(w, "free")
  /\ row' = [row EXCEPT ![w] = <<>>]
  /\ ramp' = [ramp EXCEPT ![w] = "none"]
  /\ Continue(w)
  /\ UNCHANGED <<setup, filterer, inside, mutex, plans, length>>

FiltererNext ==
  \E w \in Workers :
    \/ Initialize(w) \/ RefuseSmoothing(w) \/ Allocate(w)
    \/ EnterPlanner(w) \/ LeavePlanner(w)
    \/ MakeRamp(w) \/ TransformRamp(w)
    \/ SetLength(w) \/ ConstructTransferFunction(w) \/ FinishInitialize(w)
    \/ LoadRow(w) \/ FilterRow(w)
    \/ Destroy(w) \/ Free(w)

FiltererSpec == FiltererInit /\ [][FiltererNext]_filtererVars

-----------------------------------------------------------------------------
(* Only one thread is inside the planner: FFTW's functions are not          *)
(* thread-safe, except execute, and workers create and delete filterers     *)
(* whenever their messages come (bonelab/fftw_mt.hpp).                      *)
PlannerExcludes ==
  \A v, w \in Workers : inside[v] /\ inside[w] => v = w

(* A filterer in use has the ramp filter it was set up for, whatever the    *)
(* others do to the planner and to the smoothing filter in the meantime;    *)
(* only a lack of memory keeps a worker from getting one, but for the       *)
(* convolution, which cannot smooth. What it transforms is the row, padded  *)
(* with at least as many zeros; with vDSP that takes an even width.         *)
FilteringIsRight ==
  \A w \in Workers :
    /\ filterer[w] = "ready" =>
         ramp[w] = CASE setup.module = "convolution" -> "kernel"
                     [] setup.module # "convolution" /\ setup.smoothing -> "smoothed"
                     [] OTHER -> "spectrum"
    /\ filterer[w] = "failed" => setup.module = "convolution" /\ setup.smoothing
    /\ At(w, "filter") /\ (setup.module = "vdsp" => setup.width % 2 = 0) =>
         /\ Cardinality({k \in DOMAIN row[w] : row[w][k] = Zero}) >= setup.width
         /\ \A k \in DOMAIN row[w] :
              row[w][k] = IF k < setup.width THEN k ELSE Zero

(* The plans of a deleted filterer are all destroyed, each of them once.    *)
(* Those of a filterer whose Initialize threw stay behind.                  *)
PlansComeBack ==
  \A w \in Workers :
    /\ filterer[w] = "deleted" /\ calls[w] = <<>> =>
         \A p \in {"forward", "backward", "ramp"} : <<w, p>> \notin plans
    /\ inside[w] /\ Head(calls[w]) \in DOMAIN Destroys =>
         <<w, Destroys[Head(calls[w])]>> \in plans

=============================================================================
