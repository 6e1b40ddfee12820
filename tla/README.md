# Verification of athabasca_recon

Athabasca Recon reconstructs a volume from the parallel-beam projections of a
CT scan. This directory holds TLA+ models of the program, the TLC
configurations that check them, and proofs that TLAPS checks. `PROJECT.json`
is the index: components, runs, mutants, the source lines of every definition,
findings, hazards, theorems.

Paths below are relative to the repository. "MT engine" and "ST engine" are
the multi-threaded and the single-threaded reconstruction runners.

## 1. The system

`source/athabasca_recon.cpp` reads the configuration and calls the
**launcher** (`source/ReconstructionLauncher.txx`). The launcher makes a
reader, correctors, writers and one of two **engines**
(`source/engines/`), divides the volume into as many chunks as its memory
requires, and calls `Execute` once for each chunk: a *pass* over all
projections that makes some of the slices.

The ST engine is one loop: read a projection, make an attenuation image of it,
correct bad pixels and beam power, write it, filter it, write that,
back-project it. The MT engine does the same in groups of as many projections
as it has workers. Its parts are the following.

* The main thread runs the loop. It does no arithmetic, only sends messages to
  the workers, requests I/O, and waits at barriers.
* Each worker is a **thread runner** (`bonelab/ThreadRunner.cpp`) with a
  **message queue** (`bonelab/MessageQueue.cpp`). It has one projection of each
  group, and one piece of the volume, to which it applies *every* projection.
* The **asynchronous I/O processor** (`source/io/AsynchronousIOProcessor.txx`)
  has a thread of its own. It reads the next group and writes the last one
  while the workers compute.
* **Double buffers** (`bonelab/DoubleBuffer.hpp`) separate the two, and
  **barrier messages** (`bonelab/SynchronizeMessage.cpp`) the phases of a group.

| Component | State | Operations | What makes it correct |
|---|---|---|---|
| I/O processor | queue, completed buffers, `m_Stopped`, `m_Exception` | `RequestIOOperation`, `WaitForBufferRelease`, `WaitForCompletion`, destructor, the I/O loop | order; a buffer comes back only when it is free; no lost completion; no hole after a failure; calls return |
| Thread runner, message queue | queue, `m_Stopped`, `m_Exception`, the pointer to the queue | `SetMessage`, `CheckException`, `Stop`, the worker's loop | order; no lost wake-up; first exception kept; shutdown ends |
| MT engine | phase, sides of the buffers, messages, buffers, volume pieces, files | the main loop, the messages to the workers | buffers are not clobbered; outputs right; failures known; it ends |
| ST engine | one image of each kind, volume, files | the steps of a projection | outputs right; every failure thrown |
| Launcher | pass, reader, writers, division of the volume | set-up, passes | all passes see the same data; outputs complete and written once |
| Readers, writers | stream position, read count; data file, slice count | `GetNextProjection`, `Rewind`; `WriteSlice`, `WriteStack`, header | stride; order |
| Subvolumer | start indices | the constructor | even pieces that tile the volume |
| Filterers | plans, ramp, padded row; the one planner and its mutex, the one smoothing filter | `Initialize`, `FilterProjection`, `Destroy`, those of `fftw_mt` | one thread in the planner; each filterer has the ramp it was set up for; no plan is lost |
| Arrays, images, double buffers, groups | base and buffer, dimensions, extents, sides | `construct`, `construct_reference`, `destruct`, copy, `swap`, destructors | each block of memory has one owner; what is constructed can be used |
| Back-projection, interpolation | none of its own | `ApplyProjection` | reads inside the projection only; every voxel gets one pixel's worth |
| Bad pixels | the correction table | `IdentifyBadPixels`, `ConstructCorrectionTable`, `CorrectBadPixels`, the walk | averages of the nearest four good pixels; gives up only when they are far |
| Calibration, beam power, linear fit | the averaged fields; the terms | `LoadCalibrationFields`, `ProcessProjection`, `LinearFit` | undoes the decay of the beam |
| MetaImage files | header, data file | writing in slices and stacks; reading as a whole or by projections | what is read is what was written; bad headers are refused |
| Configuration | the tree of sections and keys | `read_conf`, `merge`, `VerifyConfiguration`, report, what the launcher gets from it | a verified configuration is enough for the launcher; a report can be used as configuration |
| Tuples, FFT lengths | none | `operator>>`, `operator<<`, `flat_index`, `NextNumberWithFactors2And3` | well-formed text is read; places are distinct; lengths are least |

What is hard here: interleavings of main, workers and the I/O thread, several
of them through variables that are read without a mutex; buffers used again and
again, whose addresses identify requests; failures on any thread that must
reach the main thread; short last groups, and fewer projections than workers;
the same objects used in every pass; memory that two objects refer to; a
filter library of which most functions must not run on two threads; off-by-one
at the edges of projections, neighbourhoods and transforms; and texts of files
that are nearly right. `PROJECT.json` lists the hazards, each at
its line, with the properties that watch it.

## 2. The modules

```
 ReconstructionLauncher ---- StreamingRawProjectionsReader, Subvolumer
         | uses
 Reconstruction  <== implemented by ==  SingleThreadedReconstructionRunner
         ^                                       | ReconstructionJob (shared)
         ++== implemented by ==  MultiThreadedReconstructionRunner
                                   | uses              : uses, informally
                               OrderedIO            Mailbox
                                   ^ implemented by    ^ implemented by
                      AsynchronousIOProcessor      ThreadRunner

 Proofs: AsynchronousIOProofs, ThreadRunnerProofs, LauncherProofs (the launcher
         and its configuration) - used by FileProofs (files and tuples);
         MultiThreadedProofs - used by MultiThreadedDataProofs; FilteringProofs
         (filterers, filters and bad pixels), SingleThreadedProofs (the ST
         engine, memory of images, back-projection, beam power)

 Parts of the engines, composed for TLC by MCComponents:

 SingleThreadedReconstructionRunner     Containers     ProjectionFilterer
                                                             | Filters, FFTUtil
 Calls     - Tuples, Filters, BackProjection, BadPixels, Calibration
 FileCalls - Calls, Configuration - MetaImage
```

| Module | Models | State and actions |
|---|---|---|
| `OrderedIO` | what the I/O processor promises | the fate of each request, which buffer is lent; `Issue`, `Settle`, `Release`, `Close` |
| `AsynchronousIOProcessor` | `AsynchronousIOProcessor.txx` | the members of the class, and where each thread is. An action is a critical section, or an unlocked read or write of a shared member: e.g. `CheckBeforeLock` is the test of `m_Exception` before the mutex, `Park` the step from the test of the queue to `wait` |
| `Mailbox` | what a thread runner promises | accepted, executed, failed; `Accept`, `Execute`, `Close`, `Forget` |
| `ThreadRunner` | `ThreadRunner.cpp`, `MessageQueue.cpp` | as above: `TestPointer`, `Push`, `Notify` are the steps of `SetMessage`; `StopQueue`, `FreeQueue`, `ClearPointer`, `Cleanup` those of `Destroy` |
| `Reconstruction` | what an engine promises to the launcher | projections taken, what is in each file, failed, outcome |
| `ReconstructionJob` | what the launcher may set up | the jobs that `VerifyConfiguration` accepts |
| `MultiThreadedReconstructionRunner` | `MultiThreadedReconstructionRunner.txx`, `ReconstructionMessages.txx`, barriers, double buffers | `main` is where `ExecuteOnThreads` is; each of its blocks is an action; each message is an action of the worker; `Settle` is the I/O thread |
| `SingleThreadedReconstructionRunner` | `SingleThreadedReconstructionRunner.txx` | one action per step of the loop body; `Fail` is an exception anywhere |
| `StreamingRawProjectionsReader` | the reader of that name | `position`, `readCount` |
| `Subvolumer` | `Subvolumer.txx` | no state; the start indices it may compute |
| `ReconstructionLauncher` | `ReconstructionLauncher.txx` | the passes; each engine action is joined with the reader's or writer's |
| `ProjectionFilterer` | the three filterers, `fftw_mt` and the smoothing filter they share | each worker's call stack of library calls; a call to the planner is entering and leaving it |
| `Containers` | `Array.hpp`, `Image.hpp`, `DoubleBuffer.hpp`, `ObjectGroup.hpp` | blocks of memory, and the members of each object that decide who owns them |
| `Filters`, `FFTUtil` | ramp kernel, tapered window, lengths | functions |
| `BackProjection` | `ParallelBackProjector_cpu.txx`, `PixelInterpolator.hpp`, `RayTracer.hpp` | `WeightsOf`: which pixel counts how much for which voxel |
| `BadPixels` | `NeighborhoodWalker.txx`, `BadPixelCorrector.txx` | functions: the steps of the walk, the table, the correction in place |
| `Calibration` | `CTCalibration.txx`, the beam power correctors, `AttenuationCalculator.txx`, `LinearFit.cpp` | functions |
| `MetaImage` | readers and writers of `.mhd` files, byte order | functions from lines to headers and back, from bytes to values |
| `Configuration` | `conf_parser.hpp`, `ReconConfiguration.cpp`, what `Launch` and `main` do with the result | functions on trees; an outcome says where a function refuses |
| `Tuples` | `Tuple.hpp`, `flat_index` of `Array.hpp` | functions |
| `Calls`, `FileCalls` | | one action for each call of these functions, with inputs from small sets, and the properties that relate result and input |
| `MC...` | | instances for TLC; `MCComponents` runs one `subject` at a time |

### Choices a reader should know

*Calls.* The computations without state are pure operators; an action of `Calls`
or `FileCalls` picks the input and stores it with the result, and the invariants
compare the result with a definition that is independent of the code: the walk
with distances, the ramp of a padded row with that of a row without end, the
parser with well-formedness of the text, the FFT length with all smaller
numbers.

*Numbers.* `Calibration` is exact to first order: intensities are integers and
the logarithm of a ratio is their difference. `BackProjection` has angles with
rational sine and cosine and computes weights, multiplied by the units, instead
of values. `Filters` has the kernel up to its common factor: an odd column's
weight is named by its distance, and the window's by its frequency.

*Text.* A line of a header or a configuration is a record of its key and value;
values are words or tuples of numbers; `NoNumber` is what does not parse. In
`Tuples` a text is a sequence of symbols and a number is one of them. In
`Configuration` a length is counted in halves, so that centres are integers.

*Memory.* `Containers` knows who owns a block, not what is in it.

*Data.* Pixels are not modelled. A buffer holds the number of a projection, or
0 for garbage; in the ST engine also the steps it went through. A volume (or a
piece of it) is the sequence of projections applied, with the number of the
angle they were applied at. This is enough to tell a right output from one made
of the wrong, stale or uncorrected data. Of beam power correction the models
keep that each projection depends on the first one.

*Mutexes.* A critical section that calls nothing and blocks on nothing is one
action. Those in which a thread locks a second mutex, or that it leaves to wait
on a condition, are split. Condition variables may wake spuriously.

*Undefined behaviour.* `m_Stopped` and `m_Exception` are read and written
without a mutex; as bool and pointer they have the old value or the new one in
any build. A call on the deleted message queue (see the findings) has no
effect, blocks, or ends the program.

*Contracts.* `AsynchronousIOProcessor` assumes what its header demands of its
clients: a buffer is not requested again before it was released, and nobody is
waiting when the processor is destroyed. The MT engine is checked to keep it:
`OrderedIO!Issue` is guarded by the buffer being free, and a run that cannot
go on is a deadlock, which TLC reports; `WaitsAreMatched` and
`NothingOutlives` are the other two halves.

*Grain of the MT engine.* A `for` loop that only sends messages is one action:
nobody else sends to these queues, so a worker that sees half of the loop's
messages can as well see all of them. Each `RequestIOOperation` is an action.
`Stop` and the join come after the last action of the engine; they are
`ThreadRunner`'s subject. The engine's boxes follow `Mailbox`'s
`Accept` and `Execute` but do not instantiate it, because a worker may execute
part of a message (`await`) only when the I/O processor lets it.

*Rounding.* `Subvolumer` computes `i * (dims/n)` in float. Where the exact
product is an integer and the quotient is not, the model allows the integer and
the one below. That is exact up to volumes far larger than can be stored
(`dims * n` below 2^22 or so).

## 3. Runs that pass

| Run | Bounds | Shows |
|---|---|---|
| `AsyncIO` | 2 waiters, 2 buffers, 3 requests | lent buffers stay lent, what `WaitForCompletion` may leave undone, `OrderedIO` implemented, calls return, the destructor returns unless it notifies at the wrong moment |
| `ThreadRunner` | control and 2 senders, 3 messages | nothing lost before `Stop`, `Mailbox` implemented, messages executed, shutdown ends |
| `EngineSafety` | 2 workers, 5 projections, every kind of job, 1 failure | buffers not clobbered, volume right, what is silent, contracts kept, `Reconstruction` implemented |
| `EngineFewProjections` | 3 workers, 2 projections, 1 failure | a worker that never has a projection: what is silent, who can crash, that the engine ends |
| `Launcher` | 6 projections, stride 2, 1/5/6 slices, 1 to 6 passes of 2 pieces, failures in any pass | the same data in every pass, every output once, in order, whole; even divisions that fit the memory, but for less than a slice |
| `Components` | ST engine: 3 projections, all jobs, failure anywhere; containers: 2 images and a double buffer in 3 blocks; filterers: 3 workers, widths 2 and 3, all modules; all calls | see below |

Each state of `Components` belongs to one `subject`, and each property speaks of one:

* the ST engine: `KeepsPromise`, at its strictest - every failure is thrown;
* containers: `EveryBlockHasOneOwner`, `ConstructedIsUsable`;
* filterers: `PlannerExcludes`, `FilteringIsRight`, `PlansComeBack`;
* text and lengths: `TuplesAreUnderstood` (all texts of up to 5 of 7 symbols; arrays of up to 3 dimensions of up to 4), `FiltersAreRight` (lengths for 1 to 300, rows of 1 to 20, windows of 2 to 24);
* geometry: `ReadsNearbyPixels`, `WeightsAreUniform` (three methods, five angles, volumes and projections in and off the centre, of even and odd size);
* corrections: `BadPixelsAreReplaced` (every set of bad pixels of a 1x5, 2x4 and 3x3 image, and some of 3x4), `DecayIsUndone` (decays, 1 to 3 bright fields before and after, strides 1 to 3, four correctors);
* files: `ImagesAreRead` (four types, both byte orders on both sides, in slices and stacks), `HeadersAreUnderstood` (a header with up to two lines removed or inserted), `ConfFilesAreRead` (all files of up to 5 of 7 kinds of lines);
* the program: `ReportCanBePasted`, `VerifiedIsEnough`, `GeometryFollowsHeader` (five inputs, four outputs, any two further settings out of those that are known, unknown, missing, of a wrong type or of a wrong value; six headers).

*Why the bounds are enough.* In the I/O processor a buffer must be used twice
for a stale entry to matter, beside another one in flight: two buffers and three
requests give every such history. Each worker has at most one message in
hand, and what is queued is behind it, so three messages from three threads show
the races of `SetMessage` with itself and with `Stop`. The MT engine treats
the first group, the second, and those from the third on differently (the wait
for an output buffer starts with the third), and the last may be short: five
projections on two workers is the smallest instance with all of these. Both
jobs with bad pixels only and jobs with beam power only are left out of the MT
runs (`SomeJobs`): the two are independent messages. In the launcher, stride 2
of 6 leaves a rest, and 5 and 6 slices give uneven, rounded and single-slice
chunks, with empty pieces in them. Of three filterers one may be planning, one
waiting for the planner and one being deleted. A double buffer and two images
are what an assignment, a reference and a swap need. The parsers decide
by the next symbol or line, and by whether a section is open or a bracket
to be closed: five of them reach every combination twice.

*Deadlock* is checked in every run but `EngineFewProjections`, where it is
subsumed by `Terminates`, and `Components`, where a call is the last step.

Every property of a passing run has a mutant in `PROJECT.json`: a plausible
change of a definition ("Fault:" in the modules) under which TLC finds that
property violated. Properties that follow from others, or that are proved
for all instances (section 6), are not run again.

## 4. Fairness

Only threads that are inside a call are assumed to be scheduled. In
`AsynchronousIOProcessor` a step may wait for a mutex that others take and
release again and again; a thread that keeps trying gets it eventually, so each
thread's next step is strongly fair. In `ThreadRunner` and the engine no lock is
held between actions, a step once possible stays possible, and weak fairness is
enough. No call need ever be made, no failure or spurious wake-up need happen.
The environment is never assumed to be kind: no fairness is put on
`Stop`, `SetMessage` or the destructor being called.

## 5. Runs that fail: where the code differs from what it says

| Run | Claim | What the code does |
|---|---|---|
| `AsyncIODestructorHang` | `AsynchronousIOProcessor.hpp:134` the destructor stops all I/O abruptly | it sets `m_Stopped` and notifies without the mutex; both can fall between the I/O thread's test and its wait, and the join never returns |
| `AsyncIOLostWrite` | `AsynchronousIOProcessor.hpp:171-173` after `WaitForCompletion` writes have been carried out | it counts the queue only; the last request may be popped, and is dropped by the destructor |
| `ThreadRunnerStopRace` | `ThreadRunner.hpp:91` `Stop` is thread-safe | the worker that sees `m_Stopped` early deletes the queue while `Stop` is still using it |
| `EngineSilentApply` | `MultiThreadedReconstructionRunner.txx:540` exceptions in workers are re-thrown | only workers with a projection in this group are asked |
| `ByteOrder` | manual 1785-1788, the byte order is "not a problem, so long as [...] correctly indicated" | elements of one byte are garbage when the order is not the machine's: the loop that swaps bytes has nothing to do, and the result is returned unset |
| `LauncherStride` | manual 1474-1479, every n-th projection is used | unless the stride divides the number of intervals, projections are back-projected at wrong angles, and the last one may be left out |

Where these limit what can be promised, the passing runs say exactly how far:
`DestructorReturnsUnlessParking`, `OnlyLastAtRisk`, `SilentFailures` and
`ShutdownEnds` are the strongest forms we found to hold. `SilentFailures` shows
three more cases in which the MT engine returns normally: a write of the last two groups
fails after its buffer was last waited for and after `WaitForCompletion`
looked; the volume cannot be written; a worker without projections cannot set up
its part of the volume, which then is missing from the file. Also,
`WaitForBufferRelease` looks for exceptions before it locks, and can return a
buffer whose read failed; the engine then throws later, at `check`, through
another wait, or at the end.

Differences without a run of their own, most of which a model or a property
states as it is in the code:

* *Memory.* With `MaximumVolumeMemory` a chunk may need more than the maximum, by
  less than a slice (`DivisionsAreEven` says so). `Array::construct` counts the
  array as constructed before it allocates; the MT engine can then crash
  (`SilentFailures`). `ObjectGroup(n)` leaks if a `new` throws midway, and so
  do a filterer's plans when `Initialize` throws. `DoubleBuffer`'s
  constructors from references, and `construct_reference`, call overloads that
  do not exist, and cannot be instantiated.
* *Geometry.* The manual (1430-1434) gives the angle increment with `ProjectionAt180`
  as 180/(N+1), the code has 180/(N-1), which is right. `MetaImageReader::GetData`
  into a constructed image sets its place but not the extents computed from it.
  When the axis of rotation is outside the projection the radius of what is seen
  comes out positive all the same.
* *Corrections.* In narrow images or near corners the walk gives up though good
  pixels remain, contrary to `NeighborhoodWalker.hpp:34`. The calibration is
  exact only if the scan's last projection is one of those read. The constant
  term that `BeforeAndAfterBrightField` estimates is always overridden, as
  verification has put the configuration's there
  (`ReconstructionLauncher.txx:159-168`). `EdgeWidth` is not compared with the
  number of columns. `LinearFit` asserts more than one projection when all is done.
* *Filters.* With vDSP and an odd width the last column is neither filtered nor
  padded. The tapered window is zero at the Nyquist frequency even if both
  frequencies are beyond it. `RealSpaceConvolution` with the default
  smoothing is accepted by the configuration and thrown out by the engine.
* *Files.* A blank line in a header is never consumed, and reading does not end. An
  unterminated last line is dropped. A header without byte order makes
  `StreamingMetaImageProjectionsReader.txx:29` dereference an empty optional,
  one without `Offset` leaves the origin as it was. `ReadProjectionsInfo` takes
  the second and third size without looking how many there are. Reals are
  written with six digits. The name of the data file must not contain `=`.
* *Configuration.* `ProjectionStride`, `ScalingFactor`, `DarkFieldBadThreshold` and
  `ProjectionAt180` are not verified, and are ignored when they cannot be read.
  Some wrong values of `PixelInterpolation`, `FilteringModule` and
  memory are refused by the launcher only (`VerifiedIsEnough` names them).
  `ReportConfiguration` writes to standard output whatever stream it is given.
  `Tuple.hpp:398` requires commas, the parser does not.

## 6. What is proved

| Module | Theorem | Statement |
|---|---|---|
| `AsynchronousIOProofs` | `TypeCorrect` | `Spec => []TypeOK` |
| | `BuffersExcluded` | `Spec => []BufferExclusion` |
| | `FilesHaveNoHoles` | `Spec => []NoHoles` |
| | `CompletionsAreNotified` | `Spec => []NoLostCompletion` |
| | `OnlyTheLastIsAtRisk` | `Spec => []OnlyLastAtRisk` |
| | `ProcessorKeepsPromise` | `Spec => KeepsPromise` (implements `OrderedIO`) |
| `ThreadRunnerProofs` | `TypeCorrect` | `Spec => []TypeOK` |
| | `MessagesInOrder` | `Spec => []ExecutedInOrder` |
| | `WorkerIsWoken` | `Spec => []NoLostWakeUp` |
| | `MessagesArrive` | `Spec => []NothingLostWhileRunning` |
| | `FirstExceptionIsKept` | `Spec => []FirstExceptionStays` |
| | `RunnerKeepsPromise` | `Spec => KeepsPromise` (implements `Mailbox`) |
| `LauncherProofs` | `PassesReadTheSame` | `Spec => []EveryPassReadsTheSame` |
| | `ProjectionsWrittenOnce` | `Spec => []ProjectionsAreWrittenOnce` |
| | `VolumeIsDividedEvenly` | `Spec => []DivisionsAreEven` |
| | `OutputsAreRight` | `Spec => []OutputIsRight` |
| | `TypeCorrect` | `Spec => []TypeOK` |
| | `AnyVerifiedIsEnough` | `ConfigurationsSpec => []VerifiedIsEnough` |
| `FileProofs` | `AnyConfFileIsRead` | `FilesSpec => []ConfFilesAreRead` |
| | `AnyHeaderIsUnderstood` | `HeadersSpec => []HeadersAreUnderstood` |
| | `AnyImageIsRead` | `PicturesSpec => []ImagesAreRead` |
| | `AnyGeometryFollowsHeader` | `GeometriesSpec => []GeometryFollowsHeader` |
| | `AnyTupleIsUnderstood` | `TuplesSpec => []TuplesAreUnderstood` |
| `MultiThreadedProofs` | `AlwaysControl` | `Spec => []Control`, the control part of the invariant |
| | `AlwaysInOrder` | `Spec => []InOrder`, the whole invariant |
| | `EngineNeverClobbers` | `Spec => []NoClobber` |
| | `EngineKeepsContracts` | `Spec => []ContractsAreKept` |
| `MultiThreadedDataProofs` | `EngineTypes` | `Spec => []TypeOK` |
| | `AlwaysDataInOrder` | `Spec => []DataInOrder`, what is in the buffers |
| | `EngineVolumeIsRight` | `Spec => []VolumeIsRight` |
| | `EngineReportsFailures` | `Spec => []SilentFailures` |
| | `EngineKeepsPromise` | `Spec => KeepsPromise` (implements `Reconstruction`) |
| | `AlwaysPromiseInOrder` | `Spec => []PromiseInOrder`, what both rest on |
| `FilteringProofs` | `PlannerIsExclusive` | `FiltererSpec => []PlannerExcludes` |
| | `FilterersAsPlanned` | `FiltererSpec => [](Typed /\ AllAsPlanned)`, what the next two rest on |
| | `AllPlansComeBack` | `FiltererSpec => []PlansComeBack` |
| | `FiltererIsRight` | `FiltererSpec => []FilteringIsRight`, for widths up to 32768 |
| | `AnyFilterIsRight` | `FilterCallsSpec => []FiltersAreRight` |
| | `WalkGoesOutward` | walks come to every place once, the nearest first |
| | `AnyBadPixelIsReplaced` | `BadPixelsSpec => []BadPixelsAreReplaced` |
| `SingleThreadedProofs` | `SingleThreadedTypeCorrect` | `Spec => []TypeOK` |
| | `AlwaysInTurn` | `Spec => []InTurn`, what the next one rests on |
| | `SingleThreadedKeepsPromise` | `Spec => KeepsPromise` (implements `Reconstruction`, failing whenever something failed) |
| | `MemoryHasOneOwner` | `ContainersSpec => []EveryBlockHasOneOwner` |
| | `WhatIsMadeIsUsable` | `ContainersSpec => []ConstructedIsUsable` |
| | `AnyPixelReadIsNearby` | `BackProjectionSpec => []ReadsNearbyPixels` |
| | `AnyVoxelHasItsWeight` | `TurnedSpec => []WeightsAreUniform` |
| | `AnyDecayIsUndone` | `BeamSpec => []DecayIsUndone` |

They hold for all values of the constants that satisfy the named assumptions of
the modules: any number of waiters, senders, buffers, requests and messages; any
positive number of projections in the file and any positive stride; any sizes of
volume, slices and memory and any number of threads; any number of workers of the
MT engine, any number of projections, any of the launcher's jobs and any number of
failures; for the ST engine any number of projections, any job and an exception
at any step; any set of workers, widths, images, double buffers and blocks. The bounds
on requests and messages are constants too, so the theorems hold for every bound.
`FilesHaveNoHoles`, `CompletionsAreNotified`, `MessagesInOrder`, `WorkerIsWoken`
and `FirstExceptionIsKept` are about invariants that no run checks, since the
refinements and the liveness properties of the same modules imply them; so is the
launcher's `TypeCorrect`.

The inputs of `Calls` and `FileCalls` are not constants but the small sets of its actions, so the
proofs about it have specifications of their own, of the same operators and
properties:

* in `FilterCallsSpec` a row of any width up to 32768 is filtered by any of the
  modules, a window of any length and any frequencies is made, and the length
  for any number up to 65536 chosen. The limit on widths comes from the model,
  where `Exponents` has the powers of two up to 2^16; projections have a few
  thousand columns;
* in `BackProjectionSpec` a projection is applied with any method, any axes (a
  positive number of pixels with a positive spacing) and any angle, whatever its
  sine and cosine;
* in `TurnedSpec` sine and cosine are those of an angle: their squares add up to
  the square of the unit. Without that a voxel may be turned out of sight;
* in `BadPixelsSpec` any image is corrected, of any size, with any dark and bright
  fields and any thresholds, so with any bad pixels, all of them too;
* in `BeamSpec` any scan is corrected: any number of projections, of bright fields
  before and after and any stride, a beam that decays by any even amount and
  stays on until the last projection (`AnyScan`), and any pixels bad but not all;
* in `ConfigurationsSpec` the program is run with any options and any file: lines
  of any keys and values, with sections in any order, empty or given twice, with
  any header of the projections, as well one that cannot be read, and whichever
  filters the program was built with;
* in `GeometriesSpec` it is run so with a header whose place can be told in pixels of
  the file or the header (`Placed`): the code's numbers are real and the model's whole;
* in `FilesSpec` any such file is read, written and read again. A line that opens a
  section says no more than its name (`PlainSections`), as the parser has nowhere to
  find a value in it;
* in `HeadersSpec` any MetaImage header is read: any number of lines with any keys and
  values, blank or not understood, the last one complete or not. The fields with numbers
  have lists of numbers and of words in place of numbers (`IsHeader`);
* in `PicturesSpec` any image of three dimensions, all positive, and any type is written
  in any slices and stacks that make it up (`ArePortions`), on a machine of either byte
  order for one of either. Its spacing and origin are such as are printed without
  loss (`Places`): of others, the header has the first digits;
* in `TuplesSpec` any text of the symbols is read as a tuple of any size but 0, such a
  tuple is written, and the indices of an array with any extents but 0, in any number
  of dimensions, are flattened.

`PlacesAreAny`, `BadSetsAreAny`, `ScansAreAny`, `ReadsAreAny`, `HeadersAreAny`,
`PicturesAreAny` and `TuplesAreAny` prove that the geometries, bad pixels, scans,
configuration files, headers, images and tuples TLC checks are among these, `RunsAreAny` that
runs of the program with finitely many settings are, and `RunsArePlaced` says so for
`GeometriesSpec`.

**The I/O processor.** `BufferExclusion` is not inductive: that a buffer in the
queue is lent to that very request rests on requests being numbered in queue
order and on `m_CompletedRequests` holding no buffer of an unfinished request.
The inductive invariant is
`IInv == TypeOK /\ Numbering /\ Holding /\ Carrying /\ Lending`:

* `Numbering`: the queue holds the most recent requests in order, the one in
  hand comes just before them;
* `Holding`: at which control points the I/O thread has a request in hand;
* `Carrying`: what was performed is an initial interval, cut off by the first failure;
* `Lending`: every unfinished request has its buffer; every completed buffer is
  lent to a finished request.

There is one lemma for each conjunct, with one step per action that can disturb
it; `InductiveInvariant` puts them together. `NoLostCompletion` has an
invariant of its own, relative to `IInv`: the mutex is free only when a waiter is
on one side of its test.

For the refinement, `FateFacts` reads the fate of each request off `IInv` (it is
settled up to `LastSettled`, performed before the first failure, dropped after
it), so that a step either moves `LastSettled` by one (`Settle`), adds a request
(`Issue`), takes an image that is settled (`Release`), ends the processor
(`Close`), or changes nothing. `Quiet` - no call is under way once the destructor
runs - comes from the clients' contract.

`OnlyTheLastIsAtRisk` needs one more conjunct, `Drained`: a `WaitForCompletion`
that has returned found the queue empty when it last tested it, and no request
has been added since, so that at most the request in the I/O thread's hand is
open.

**The thread runner.** The invariant ties the worker's control state to what is
left of the queue object (`Lifecycle`), each sender's control state to the
message it carries (`Letters`), and restates `ExecutedInOrder` by positions
(`Order`), which is easier to preserve than an equation between concatenations;
`OrderImpliesExecutedInOrder` leads back. The theorems cover the calls on a
deleted queue as well: such a call may return, block or crash, and still no
message is executed twice or out of order.

**The launcher.** `Reading` says where the reader stands: at the last projection
taken in this pass, or at the start. `Writing` says that projections are written
in the first pass only, and that output files hold no more than was taken.

`Divided` says that chunks and pieces are divisions made by `Subvolumer` of
what they should be. The rest of that argument is arithmetic of `\div` and
`%`, from `DivisionFacts`: a start is at most one slice before its exact place and
never when the shares are whole (`StartBounds`), so a piece has its rounded
share or one slice more (`SizeBounds`); and `n` passes of a share each have the
memory of the volume, so one slice more is all that a pass can exceed the maximum
by (`ChunkFits`).

`Progress`, relative to the invariants above, says how many slices the volume's
file has at any time while nothing has failed: the start of the next piece
in the chunk, `NextPiece`, after the start of the chunk. `NextStart` is why this
goes on: a piece ends where the next one starts, the last at the end of the
chunk, whatever rounding has done and even if it has no slices. `TypeCorrect`
holds with failures too, and needs the same two facts: no slice is written that
is not in the volume.

**The configuration.** `VerifyConfiguration` is a chain of some thirty steps, each of
which may refuse, require a value or put a default. `Did` is what each of them
may do: in its own section it only adds to what is there, and leaves the others alone
(`Grows`; the one value that is replaced, an old name for a correction, is excepted
by name). So what one step has found or put is found by all that come later
(`FoundThen`), and each section has a lemma that says what is found after it
(`ProjectionsFound`, `VolumeFound`, `ReconstructionFound`, `SoftwareFound`), in the
terms of the words the user chose. `AllFoundFinds` compares that with what the
launcher gets, place by place. All of it is about trees, as lists of any entries;
that the parser and the merge with the header make such trees, whatever the
lines are, are inductions on folds (`ReadConfIsTree`, `MergeStays`), which rest on
`FoldExists`: a fold over the places of a list is a function on the sets of its
places, built from the smallest set on (`SmallestSubset`).

That the right files are *read* is about what has been read after each line, a
function whose existence is `ReadsIs`. After line n, while all has gone well, `Says`
relates the tree to the lines: a section is open if the line is in one, the names
that are taken are those the lines up to n give there and outside of sections,
where a section without keys does not count. So the next line fits (`Fits`) if and only if
the file is still sound with it (`FitsIs`), and with it the tree still is what the file
says (`SaysNext`); once a line does not fit, the file is never sound again (`UnsoundNext`). What was read is `Made` of keys first and sections after, no name
twice, only the open one empty, and at the end it is `Whole`
(`ReadsTheSound`). A `Whole` tree can be written (`WholeIsWritten`): keys after a section
would be read into it, and two equal names could not be read. `After(t, p, i)` is
where the reader is once it has the first i of its entries, and each entry's lines
lead from there to the next (`KeyIsRead`, `SectionIsRead`), so that all together lead to the
tree (`WholeIsRead`). In carrying this out we found that the branches of `ReadLine`
overlapped as it first stood: after a throw, any line had two. TLC takes the
first, which was meant; it is now the only one.

That the *geometry* is the header's is about the merge of its section into the
file's tree. What is lost and what is kept by a merge is told with `Added`: what the
file says stays, what the header says is there if the file has not said it
(`MergedIsAdded`, an induction on the header's entries). A key that no line gives is
not in the tree (`ConfHasNot`; `Spares`: no step of the parser puts it there), and
verification keeps what is in the section `Projections` (`VerificationKeeps`, from the
same lemmas as above). What remains is arithmetic: the origin is divided by one
pixel size and multiplied with another, and these are the same (`GeometryIs`,
`ThereAndBack`). In carrying this out we found that the property as it first stood
overlooked files that give `OffsetV`; now such files are among those TLC checks.

**MetaImage files.** A *header* goes through `ParseMeta` (`ParsedIs`: whichever
line decides is the first that is bad, and what the header says of a key is the value of some
line) and `GetInformation` (`InformationIs`: what is accepted has as many numbers as
dimensions). `long_product` is a fold, followed from one dimension to the next
(`ProductIs`). As this had to hold for every header, two places of the model turned out to
look at the first word only where the code takes the whole value: `NDims` and
`ElementType`. And sizes may be negative: with an odd number of them as many elements as
they ask for cannot be allocated, and `GetData` throws, which the property now
says.

An *image* comes back by four steps. What is streamed is what the portions are,
one after another, and the slices are counted rightly, as after each portion there are
as many as there is data for (`StreamedIs`, an induction on the portions).
`FormatMetaInfo` writes ten lines with different keys, so each of them counts
(`EachLineCounts`), and the tuples, reversed twice, are what they were
(`ReverseIs`, `HeaderTells`). Swapping the bytes of an element of two, four or eight bytes is
reversing them (`SwapIs`), so that data in the memory order of one machine comes to be in
that of the other (`NativeIs`, `MemoryConverts`). And to convert a part of the data
is to take the part of what is converted (`ConvertsInParts`), of which the projections
put together are all (`PiecesMake`).

**Tuples.** `operator>>` goes from element to element, and the proof from the place
where one ends to the place where the next does (`ElementsEnd`, `PlacesExist`): after
`k` of them, exactly `k` numbers lie behind the stream, with never two commas between
two of them (`ReadsUpTo`, `ReadAllOf`). So whatever is accepted is well formed.
Conversely, if a text is well formed, the row of its numbers leads the stream from each
to the next (`RowIsRead`), and to the closing bracket or the end after the last.
What `operator<<` writes is one bracket, numbers in every other place and commas between
them (`WriteTupleIs`), which is well formed. An *index* is flattened by Horner's rule,
dimension by dimension (`Flats`): after each, it is below the number of places so far
(`FlatsAreBelow`); two indices with the same place agree in every dimension from the
last to the first, as each is a remainder (`FlatsTell`); and the remainders of any place
are an index that has it (`FlatsReach`).

**The single-threaded engine.** `Placed` says where the engine is: `p` projections
are done and the next one has passed some of its nine steps. Everything else is
a function of that place. `Through(i)` is the number of projections that have passed
step i, and `Behind(i)` that whatever comes before step i and is asked for has been
done. `InTurn` then says what the images have come to (`Pictured`), that the reference
is the first projection before its correction (`Referred`), that a file has
what has passed its step (`Stored`), and the volume each projection at its angle
(`Added`). There is a lemma for each step; the refinement reads `Take`, `Write` and
`WriteSubvolume` off it. No step can be left out or done twice without `Pictured`
saying so, which is why the theorem is about every job, not only about those
in which all steps are asked for. The model keeps the
number of the step passed last (`ComesNext`) rather than a filtered sequence of
the steps to do, as `SelectSeq` is a recursion over data.

**The multi-threaded engine.** That no two actors use a buffer at the same time
cannot be read off a state: it depends on what was sent, when, and on which side
of each double buffer. The invariant `InOrder` relates every message still in a
box and every request still open to the place where the main thread is:

* `Control`, by itself inductive: `Scheduled` says where main can be, in phases
  the job asks for and with a loop index that fits; `Boxes` that each message
  waiting in a box is one of those sent since the last barrier and not after the
  phase main is in, that it uses only buffers of its own slot and of the active
  side (an `apply`: the filtered buffer of its projection's slot), and that
  between the stages of a turn the boxes are empty;
* `Requested`: reads are of the job's input, writes of its outputs, and the image
  of a pending request is on loan to that very request;
* `Fresh`: an output's buffers that have not been used yet have no request, which
  is why the first two groups need not wait;
* `Sheltered`: a message in a box that would clash with a pending request has an
  `await` for that image somewhere before it (`Guarded`), and a pending request on
  a buffer that main may still tell the workers to use has an `await` in the box
  already (`Covered`);
* `InputsLent`, `OutputsLent`: which images are on loan at each place of the turn:
  inputs from their request to the wait in the next turn, outputs until the wait
  two groups later;
* `Matched`: each `await` in a box is for an image on loan, and no other `await` in
  that box is for the same.

`NoClobber` follows: a worker at the head of its box and the I/O thread are apart
by `Sheltered`; two workers are apart by `Boxes` alone, since transformations stay in
their slot and `apply` only reads, after a barrier that emptied all boxes.
`ContractsAreKept` is `Matched`, and `Control` at the end: main leaves with empty
boxes, also when it throws, since it throws only right after a barrier or when the
workers have nothing left to do. Nothing here assumes that all goes well: the
invariant holds in runs with any number of failures. TLC checked every conjunct before it was proved, on
instances with two threads and five projections, three threads and two or seven
projections, and one thread and three projections with two failures.
There is one lemma per action of main (`...Control`), one each for a worker
(`WorkerControl`) and the I/O thread (`SettleControl`), and so for each conjunct of
`InOrder`.

That the *volume* is right needs to know what is in each buffer. A worker that
converts projection 7 can do so only because the seventh read was issued for the
raw image of its slot, has been performed, went to the side that is now active, and
no later read went there. `DataInOrder` adds to `InOrder`:

* `ReadOrder`: how many reads main has issued (`Issued`) and which projection each
  input image is meant for (`Target`) are functions of the place main is at;
  the open reads are those not performed yet, in the order of their projections,
  one for each, and the next to be performed takes the next projection;
* `Shaped`: each message in a box transforms what its step of the turn
  should: a conversion's images are the raw and the attenuation image of the
  worker's slot, an `apply` is of projection `p + j` when it is the j-th sent;
* `Loaded`: an input image holds the projection it is meant for, or a read into it
  is open;
* `Flow`: an image that main treats as finished (`Ready`) holds, or will hold
  once what is in the box has been executed, the projection of its slot
  (`GroupRight`), and each transformation will find in its source what it should
  when its turn comes (`Fed`). Both speak of the future of a box by its prefixes
  (`Good(t, n, i)`: after the first n messages), so that executing the
  head, sending another, and completing a read are each one lemma;
* `ReferenceRight`: the beam power corrector has been given the first projection
  before it corrects;
* `Applied`: while nothing has failed, the projections in a worker's subvolume
  and the `apply` messages in its box make up the projections `1 .. Given` that main
  has come to; `Prefixed`: they are there in order, each at its angle;
  `Completed`: the volume is written after the last group.

`EngineTypes` needs `Control` and `ReadOrder` as well: that no index leaves its
range is not a fact about one action. It holds with any failures; what is
right in the buffers is claimed only while all is well.

Two things remain: what is *written*, and what the caller is *told*.
`OutputsInOrder` and `PromiseInOrder` add to `DataInOrder`:

* `WritesCounted`: how many writes to a file main has issued is a function of
  where it is; the k-th write to a file is of the k-th projection (`Place`), from its
  slot in its group;
* `LateReads`, `ReadsEnded`: every write but those of the last two groups has been
  waited for by the time a later one is issued from its buffer, and when main gets
  to the end of `WaitForCompletion` everything has been read, so that what can
  still fail is a late write;
* `SetupsFirst`, `LookedAt`, `Reasons`: which exceptions can stand on a worker
  that main has looked at, or will not look at again; that main throws only when
  something has failed, and crashes only for a worker without projections;
* `WriteOrder`, `Stored`: while no I/O has failed, a file has the projections up to
  some place, the writes of all the others are open, each once, and each has
  the projection it is to write in its image, which later groups must not reach;
* `LastPending`: after the end of `WaitForCompletion` only the last request
  can be open; `VolumesWritten`: main and the worker whose turn it is agree on the
  number of subvolumes in the file.

`ImpliesSilentFailures` reads the first theorem off these. For the second, a read
that succeeds is `Take`, a write that does is `Write`, a worker's is
`WriteSubvolume` (`VolumesWritten` has its number, `Prefixed` its content), any
failure is `Fail`, and main leaving is `Throw` or `Return`. `ReturnsComplete` is the
heart of it: each file lacks at most one projection, because all open writes are
the one last request, and not both files can, because that request is to one file.

In carrying this out we found `SilentFailures` too strong as it first stood: it said
that only a worker without memory for its volume *that failed in nothing else* makes
the engine crash; with two failures, a later exception hides the first one (TLC, 3
workers, 2 failures). It now says what the crash follows from, the null pointer.

**The filterers.** `HoldsMutex`: who is inside the planner is who holds the mutex.
The rest is about sequences of steps that depend on the module and on whether
there is a smoothing filter. `FFTWSteps` etc. write them out by numbers, so that a
worker's place is a number `k` and what is left of its call is `Rest(steps, k)`.
`AsPlanned` says what has been done at place k: which plans the worker has, what
state its ramp filter is in, whether it may be inside the planner. `StepsFit` says
that each step leaves what the next one takes, for every sequence there is; it is
decided by the setup alone, which never changes. So each action is one application
of `Advances` or `DestroyAdvances`, and `OnlyMoves` keeps the others where they are.
`SetLength` is where workers do meet: all set the shared length to the same, so
what one worker constructs fits, whoever was last. TLC checked `Typed /\ AllAsPlanned`
with two workers and widths 2 and 3 before it was proved.

**Lengths.** `NextNumberWithFactors2And3` is a recursive function, and the proof is an
induction: `LeastNatural`, from the well-foundedness of `<`, gives a least place at
which a claim about the function fails, and the place before it does not.
`TestedExists` says that there is such a function; `TestedFit` that the number
tested with `f` halvings left is `2^f` times the least power of 3 that suffices;
and so a number with factors 2 and 3 that is large enough is not below the one
tested with as many factors 2 (`LeastTestedIsLeast`). Rows are long enough as the
transform is at least twice as long (`TransformsAreLong`), so that no column meets
another round its ends (`NoneGoesRound`).

**Back-projection.** An interpolation divides the distance from the origin by
the spacing. `NearestIsNear` and `LinearIsWithin` are about quotient and rest; with
the tests of the extents (`NearestOnAxis`, `LinearOnAxis`) they bound the pixel by
the image and its distance from the ray by the spacing.

The *weights* of a voxel are sums over sets of pixels, and the community modules
define a sum by a function that takes any element first. That there is only one
such function (`AddsAlike`) and that there is one at all (`AddsExists`) are
inductions, by the smallest subset at which a claim fails (`SmallestSubset`).
From them follow `SumOfAny` (whichever element is taken first), `SumIsLinear` and
`SumOfEqual`, and with these that along one axis two neighbours share the
spacing (`LinearSharesSpacing`), hence along two (`BothShareSpacings`) the area.
What remains is that both neighbours are there: a turned point is no farther
from the axis than it was, by the inequality of Cauchy and Schwarz
(`TurnedIsWithin`), and so a voxel in the cylinder is within the chord of its
row (`RowHasChord`) and within the projection's interior, not only its extents
(`InteriorIsWithin`, `InterpolatesWhole`).

**Bad pixels.** The places that a walk comes to are computed by a recursion on the
steps taken. Its closed form is guessed, and shown to be a solution: step k is
the i-th on the square of radius r (`Turns`), of which there is one way
(`HasTurn`, `SameTurn`), and from each place `TakeStep` leads to the next
(`SpiralTurns`, `NextSpot`); that there is no other solution is an induction
(`TakenIs`). Each square is gone round once (`PlaceOnce`) and completely
(`PlaceReaches`), so a walk comes to every place once, and to the nearer ones
first. When it is given up at step g, every good pixel that it has not come to
is farther than those it has (`EntryIsGood`), and it was given up no earlier than
the squares that have as many places as the image were done (`TooFewGood`).
The correction in place is a recursion as well, with the closed form
`Corrected`: no average reads what another one wrote, as the table has good
pixels only. `ListIsBadList` is an induction on the pixels looked at: none is
listed twice.

**Beam power.** A stack of bright fields is a line in time, and its mean the
middle of the line (`SumOfLine`, `FieldIs`), as many intervals away from the
scan as `CTCalibration` says. With `FieldsAre` the estimate of
`BeforeAndAfterBrightField` is a quotient that comes out even (`EstimateIs`), and an
attenuation image is that of the sample plus a line in the number of
the projection (`AttenuatedIs`); as the beam stays on, no intensity is cut off at
zero (`BeamStaysOn`). `ShiftIs` has one case for each corrector: two are given the
line, one gets it from the total, since the sample's total is always the same,
one from the edges, where there is no sample. `FitsLine` is about `LinearFit`
alone: least squares find a line exactly, from any two points or more, as the
determinant of the normal equations is positive (`DeterminantIs`, from the sums of
the first numbers and squares).

**The containers.** `Owned` adds to the property: only what is alive and counts as
constructed has memory (`OwnersLive`), every block is somebody's (`NothingLeaks`),
no two objects have the same (`OwnersDiffer`), and the second side of a double
buffer lives only within the life of the first (`SidesLiveTogether`), so that the
destructor frees both or neither. To the owners an action does nothing
(`KeepsOwners`), gives an object a free block (`TakesBlock`), or frees what
objects own (`FreesBlocks`); assignment frees first and then takes.
`WellMade` is about the users of memory, referring ones too. Each array is
`Sound`: it is not constructed and refers to nothing, or its allocation threw, or
it has memory and the extents of its place, and owns what it uses or nothing.
The two sides of a double buffer, as far as it was built, own their memory and are
alike. An operation changes one object, or the two of a pair; the others stay
sound as long as they keep their memory, and nothing that somebody else refers
to is freed (`UsersKeepMemory`). TLC checked `Owned` and `WellMade` on the run's
instance first.

Not provable with the installed provers, and left to TLC: liveness under
fairness and `ENABLED`.

## 7. What is only model-checked

Liveness (`CallsReturn`, `DestructorReturnsUnlessParking`, `MessagesAreExecuted`,
`ShutdownEnds`, `Terminates`); and of `FileCalls`, `ReportCanBePasted`: it is about the parser and
every stage of the verification together, once for the file and once more for the
report. Of the safety of the launcher and what it is given, the I/O processor, both
engines, the thread runner, the containers, the filterers, back-projection and
both corrections nothing is left to TLC alone.

## 8. What is not modelled

* What the FFT and the Gaussian filter compute, and real arithmetic beyond what
  section 2 says: out of TLC's reach. The wrappers of the vDSP library only pass
  their arguments on.
* The arithmetic of tuples, and arrays made from a pointer: no control, no state.
* Progress output, wording of messages, names of files. The printed report of
  the configuration is modelled, as it can be read again.
* Bounded memory other than of arrays and filterers; the file system, but for
  reads and writes that fail.
* A throw while another exception is handled (`AthabascaException.hpp:26`): the
  models end at the first exception that leaves an object.
* The ImageJ plug-in, the data generator and the manual.

## 9. Plan

The order is by what matters most for the output, then by what is hardest to
test.

1. Done: the I/O processor and the thread runner with their proofs, both engines
   and the launcher with reader and Subvolumer, all of whose properties are proved,
   the components that the engines and the launcher are made of, and the proofs
   about the filterers, the filters, memory, back-projection, bad pixels, beam
   power, configurations, MetaImage files and tuples.
2. To prove next: that a report is verified as the configuration it is of.
3. To model, if the program grows there: reading a MetaImage into an image that is
   constructed, together with `Containers`; the filterers as messages of the MT
   engine rather than on workers of their own.
