---------------------------- MODULE LauncherProofs ----------------------------
(***************************************************************************)
(* ReconstructionLauncher, for every file, stride, volume, memory and      *)
(* number of threads: what the passes read and write; the divisions of the *)
(* volume, into the chunks of the passes and the pieces of the threads;    *)
(* and what is in the output files while nothing has failed: the pieces of *)
(* the chunks are the volume's slices in order, and nothing is missing at  *)
(* the end.  At the end, the configuration that it is given: whatever the  *)
(* file says, a verified one has all that the launcher takes for granted.  *)
(***************************************************************************)
EXTENDS ReconstructionLauncher, FileCalls, SequenceTheorems, FiniteSetTheorems,
        WellFoundedInduction, TLAPS

-----------------------------------------------------------------------------
(* Integer division                                                        *)

LEMMA DivisionFacts ==
  ASSUME NEW a \in Int, NEW n \in Nat \ {0}
  PROVE  /\ a \div n \in Int /\ a % n \in 0 .. n - 1
         /\ a = n * (a \div n) + (a % n)
<1>1. a \div n \in Int
  OBVIOUS
<1>2. a % n \in 0 .. n - 1
  OBVIOUS
<1>3. a = n * (a \div n) + (a % n)
  OBVIOUS
<1> QED
  BY <1>1, <1>2, <1>3

LEMMA Cancel ==
  ASSUME NEW n \in Nat \ {0}, NEW x \in Int, NEW y \in Int
  PROVE  /\ n * x < n * y => x < y
         /\ n * x <= n * y => x <= y
         /\ n * x = n * y => x = y
BY Z3

-----------------------------------------------------------------------------
(* Where a piece starts, and how large it is                               *)

(* A start is at most one slice before its share, whatever float makes of   *)
(* it; and exact when the shares are whole slices.                          *)
LEMMA StartBounds ==
  ASSUME NEW dims \in Nat, NEW n \in Nat \ {0}, NEW i \in Nat,
         NEW s \in StartZ(dims, n, i)
  PROVE  /\ s \in Int
         /\ i * dims - n <= n * s /\ n * s <= i * dims
         /\ dims % n = 0 => n * s = i * dims
<1>1. PICK a \in Int : a = i * dims
  OBVIOUS
<1>2. PICK x \in Int, t \in 0 .. n - 1 :
        x = a \div n /\ t = a % n /\ a = n * x + t
  BY DivisionFacts
<1>3. s = x \/ (s = x - 1 /\ dims % n # 0 /\ t = 0)
  BY <1>1, <1>2 DEF StartZ
<1>4. dims % n = 0 => t = 0
  <2> SUFFICES ASSUME dims % n = 0 PROVE t = 0
    OBVIOUS
  <2>0. dims \in Int
    OBVIOUS
  <2>1. PICK q \in Int : dims = n * q
    <3>1. dims \div n \in Int /\ dims = n * (dims \div n) + (dims % n)
      BY <2>0, DivisionFacts, Zenon
    <3>2. PICK q \in Int : q = dims \div n
      BY <3>1
    <3>3. dims = n * q + 0
      BY <3>1, <3>2
    <3> QED
      BY <3>3
  <2>2. PICK m \in Int : m = i * q - x
    OBVIOUS
  <2>3. i * dims = n * (i * q)
    BY <2>1
  <2>4. n * (i * q - x) = n * (i * q) - n * x
    OBVIOUS
  <2>5. t = n * m
    BY <1>1, <1>2, <2>2, <2>3, <2>4
  <2>6. n * 0 <= n * m /\ n * m < n * 1
    BY <2>5
  <2>7. 0 <= m /\ m < 1
    BY <2>6, Cancel
  <2> QED
    BY <2>5, <2>7
<1>5. n * (x - 1) = n * x - n
  OBVIOUS
<1>6. CASE s = x
  <2>1. a - n <= n * s /\ n * s <= a /\ (t = 0 => n * s = a)
    BY <1>2, <1>6
  <2> QED
    BY <1>1, <1>4, <1>6, <2>1
<1>7. CASE s = x - 1 /\ dims % n # 0 /\ t = 0
  <2>1. a - n <= n * s /\ n * s <= a
    BY <1>2, <1>5, <1>7
  <2> QED
    BY <1>1, <1>7, <2>1
<1> QED
  BY <1>3, <1>6, <1>7

(* Every piece has the rounded share of slices, or one more; and none more  *)
(* if the shares are whole slices.                                          *)
LEMMA SizeBounds ==
  ASSUME NEW dims \in Nat, NEW n \in Nat \ {0}, NEW starts \in Divisions(dims, n),
         NEW i \in 0 .. n - 1
  PROVE  LET q == dims \div n
             d == DimsZ(starts, dims, n, i)
         IN  /\ d \in Int /\ q <= d /\ d <= q + 1
             /\ dims % n = 0 => d = q
<1> DEFINE q == dims \div n
           r == dims % n
           s == starts[i]
           e == IF i < n - 1 THEN starts[i + 1] ELSE dims
<1>1. /\ q \in Int /\ r \in 0 .. n - 1 /\ dims = n * q + r
  <2>1. dims \in Int
    OBVIOUS
  <2> QED
    BY <2>1, DivisionFacts, Zenon
<1>2. \A k \in 0 .. n - 1 : starts[k] \in StartZ(dims, n, k)
  BY DEF Divisions
<1>3. /\ s \in Int /\ i * dims - n <= n * s /\ n * s <= i * dims
      /\ r = 0 => n * s = i * dims
  BY <1>2, StartBounds
<1>4. /\ e \in Int /\ (i + 1) * dims - n <= n * e /\ n * e <= (i + 1) * dims
      /\ r = 0 => n * e = (i + 1) * dims
  <2>1. CASE i < n - 1
    <3>1. i + 1 \in 0 .. n - 1 /\ e = starts[i + 1]
      BY <2>1
    <3> QED
      BY <1>2, <3>1, StartBounds
  <2>2. CASE ~(i < n - 1)
    <3>1. i + 1 = n /\ e = dims
      BY <2>2
    <3> QED
      BY <3>1
  <2> QED
    BY <2>1, <2>2
<1>5. (i + 1) * dims = i * dims + dims
  OBVIOUS
<1>6. DimsZ(starts, dims, n, i) = e - s
  BY DEF DimsZ
<1> HIDE DEF q, r, s, e
<1>7. PICK p \in Int : p = i * dims
  OBVIOUS
<1>8. PICK d \in Int : d = e - s
  BY <1>3, <1>4
<1>9. n * d = n * e - n * s
  BY <1>3, <1>4, <1>8
<1>10. /\ dims - n <= n * d /\ n * d <= dims + n
       /\ r = 0 => n * d = dims
  BY <1>3, <1>4, <1>5, <1>7, <1>9
<1>11. /\ n * (q + 2) = n * q + 2 * n
       /\ n * (q - 1) = n * q - n
  BY <1>1
<1>12. r = 0 => d = q
  BY <1>1, <1>10, Cancel
<1>13. d < q + 2
  <2>1. n * d < n * (q + 2)
    BY <1>1, <1>10, <1>11
  <2> QED
    BY <1>1, <2>1, Cancel
<1>14. r # 0 => q - 1 < d
  <2>1. r # 0 => n * (q - 1) < n * d
    BY <1>1, <1>10, <1>11
  <2> QED
    BY <1>1, <2>1, Cancel
<1>15. q <= d /\ d <= q + 1
  BY <1>1, <1>12, <1>13, <1>14
<1> QED
  BY <1>6, <1>8, <1>12, <1>15 DEF q, r

LEMMA DivisionsEven ==
  ASSUME NEW dims \in Nat, NEW n \in Nat \ {0}, NEW starts \in Divisions(dims, n)
  PROVE  Even(starts, dims, n)
<1>1. dims \div n \in Int /\ dims \div n >= 0
  BY Z3
<1>2. \A i \in 0 .. n - 1 :
        /\ DimsZ(starts, dims, n, i) \in Int
        /\ dims \div n <= DimsZ(starts, dims, n, i)
        /\ DimsZ(starts, dims, n, i) <= dims \div n + 1
  BY SizeBounds
<1> QED
  BY <1>1, <1>2 DEF Even

-----------------------------------------------------------------------------
(* The chunks                                                              *)

(* There is a pass, and no more passes than slices; and all passes but the  *)
(* last slice's rounding together have the memory of the volume.            *)
LEMMA PassesFacts ==
  ASSUME config \in Configs
  PROVE  /\ Passes \in Nat \ {0} /\ Passes <= config.slices
         /\ config.slices \in Nat \ {0} /\ config.memory \in Nat \ {0}
         /\ "volume" \in config.outputs =>
              \/ config.slices * SliceMemory <= Passes * config.memory
              \/ Passes = config.slices
<1>1. config.slices \in Nat \ {0} /\ config.memory \in Nat \ {0}
        /\ SliceMemory \in Nat \ {0}
  BY SlicesAssumption, MemoryAssumption DEF Configs
<1>2. PICK total \in Nat : total = config.slices * SliceMemory /\ total >= 1
  <2>1. config.slices * SliceMemory \in Nat /\ config.slices * SliceMemory >= 1
    BY <1>1
  <2> QED
    BY <2>1
<1>3. PICK M \in Nat \ {0}, S \in Nat \ {0} : M = config.memory /\ S = config.slices
  BY <1>1
<1>4. PICK n \in Int, r \in 0 .. M - 1 :
        n = (M + total - 1) \div M /\ M + total - 1 = M * n + r
  <2>1. M + total - 1 \in Int
    OBVIOUS
  <2> QED
    BY <2>1, DivisionFacts
<1>5. total <= M * n
  BY <1>4
<1>6. n >= 1
  <2>1. M * 0 < M * n /\ 0 \in Int
    BY <1>2, <1>5
  <2> QED
    BY <2>1, <1>4, Cancel
<1>7. Passes = IF "volume" \notin config.outputs THEN 1 ELSE IF n < S THEN n ELSE S
  BY <1>2, <1>3, <1>4 DEF Passes, NumberOfVolumeChunks
<1>8. M * n = n * M
  BY <1>4
<1> QED
  BY <1>1, <1>2, <1>3, <1>4, <1>5, <1>6, <1>7, <1>8

LEMMA ChunksEven ==
  ASSUME config \in Configs, chunks \in Divisions(config.slices, Passes)
  PROVE  /\ Even(chunks, config.slices, Passes)
         /\ DOMAIN chunks = 0 .. Passes - 1
         /\ \A i \in 0 .. Passes - 1 :
              /\ ChunkDims(i) \in Nat \ {0}
              /\ config.slices \div Passes <= ChunkDims(i)
              /\ ChunkDims(i) <= config.slices \div Passes + 1
              /\ config.slices % Passes = 0 =>
                   ChunkDims(i) = config.slices \div Passes
<1> DEFINE q == config.slices \div Passes
<1>1. /\ Passes \in Nat \ {0} /\ Passes <= config.slices /\ config.slices \in Nat
  BY PassesFacts
<1>2. /\ q \in Int /\ config.slices % Passes \in 0 .. Passes - 1
      /\ config.slices = Passes * q + (config.slices % Passes)
  <2>1. config.slices \in Int
    BY <1>1
  <2> QED
    BY <1>1, <2>1, DivisionFacts, Zenon
<1>3. q >= 1
  <2>1. Passes * 0 < Passes * q /\ 0 \in Int
    BY <1>1, <1>2
  <2> QED
    BY <1>1, <1>2, <2>1, Cancel
<1>4. \A i \in 0 .. Passes - 1 :
        /\ ChunkDims(i) \in Int /\ q <= ChunkDims(i) /\ ChunkDims(i) <= q + 1
        /\ config.slices % Passes = 0 => ChunkDims(i) = q
  BY <1>1, SizeBounds DEF ChunkDims
<1> HIDE DEF q
<1>5. \A i \in 0 .. Passes - 1 : ChunkDims(i) \in Nat \ {0}
  BY <1>2, <1>3, <1>4
<1> QED
  BY <1>1, <1>4, <1>5, DivisionsEven DEF q, Divisions

(* With one more slice than its share a chunk takes less than one slice's   *)
(* memory more.                                                             *)
LEMMA ChunkFits ==
  ASSUME config \in Configs, chunks \in Divisions(config.slices, Passes),
         "volume" \in config.outputs, NEW i \in 0 .. Passes - 1
  PROVE  ChunkDims(i) * SliceMemory < config.memory + SliceMemory
<1>1. PICK n \in Nat \ {0}, S \in Nat \ {0}, M \in Nat \ {0}, m \in Nat \ {0} :
        n = Passes /\ S = config.slices /\ M = config.memory /\ m = SliceMemory
  BY PassesFacts, MemoryAssumption
<1>2. PICK q \in Int, r \in 0 .. n - 1 :
        q = S \div n /\ r = S % n /\ S = n * q + r
  <2>1. S \in Int
    OBVIOUS
  <2> QED
    BY <2>1, DivisionFacts, Zenon
<1>3. PICK d \in Nat \ {0} :
        d = ChunkDims(i) /\ d <= q + 1 /\ (r = 0 => d = q)
  BY <1>1, <1>2, ChunksEven
<1>4. S * m <= n * M \/ n = S
  BY <1>1, PassesFacts
<1>5. CASE n = S
  <2>1. S % S = 0 /\ S \div S = 1
    <3>1. PICK x \in Int, y \in 0 .. S - 1 : x = S \div S /\ y = S % S /\ S = S * x + y
      BY DivisionFacts
    <3>2. S * 0 < S * x /\ S * x < S * 2
      BY <3>1
    <3>3. 0 < x /\ x < 2
      BY <3>1, <3>2, Cancel
    <3>4. x = 1
      BY <3>3
    <3> QED
      BY <3>1, <3>4
  <2>2. d = 1
    BY <1>2, <1>3, <1>5, <2>1
  <2>3. d * m < M + m
    BY <2>2
  <2> QED
    BY <1>1, <1>3, <2>3
<1>6. CASE S * m <= n * M
  <2>1. n * d <= S + (n - 1)
    <3>1. CASE r = 0
      BY <1>2, <1>3, <3>1
    <3>2. CASE r # 0
      <4>1. n * d <= n * (q + 1)
        BY <1>3
      <4>2. n * (q + 1) = n * q + n
        OBVIOUS
      <4> QED
        BY <1>2, <3>2, <4>1, <4>2
    <3> QED
      BY <3>1, <3>2
  <2>2. (n * d) * m <= (S + (n - 1)) * m
    BY <2>1
  <2>3. (S + (n - 1)) * m = S * m + n * m - m
    OBVIOUS
  <2>4. n * (d * m) = (n * d) * m /\ n * (M + m) = n * M + n * m
    OBVIOUS
  <2>5. n * (d * m) < n * (M + m)
    BY <1>6, <2>2, <2>3, <2>4
  <2>6. d * m < M + m
    BY <2>5, Cancel
  <2> QED
    BY <1>1, <1>3, <2>6
<1> QED
  BY <1>4, <1>5, <1>6

-----------------------------------------------------------------------------
(* The divisions in use are those that Setup and Execute made.             *)
Divided ==
  /\ config \in Configs
  /\ pass \in Nat
  /\ phase = "passes" => chunks \in Divisions(config.slices, Passes)
  /\ outcome = "running" =>
       /\ phase = "passes" /\ pass < Passes
       /\ pieces \in Divisions(ChunkDims(pass), Threads)

LEMMA DividedInit == Init => Divided
BY DEF Init, Divided

LEMMA DividedStep ==
  ASSUME Divided, [Next]_vars
  PROVE  Divided'
<1> USE DEF Divided, Passes, ChunkDims
<1>1. CASE Setup
  BY <1>1 DEF Setup, engineVars
<1>2. CASE FirstPass \/ LaterPass
  BY <1>2 DEF FirstPass, LaterPass, Execute
<1>3. CASE RewindFails
  BY <1>3 DEF RewindFails, engineVars
<1>4. CASE Take
  BY <1>4 DEF Take, Engine!Take
<1>5. CASE \E k \in Engine!Streams : Write(k)
  BY <1>5 DEF Write, Engine!Write
<1>6. CASE WriteSubvolume
  BY <1>6 DEF WriteSubvolume, Engine!WriteSubvolume
<1>7. CASE Fail
  BY <1>7 DEF Fail, Engine!Fail
<1>8. CASE EndPass
  BY <1>8 DEF EndPass, Engine!Return
<1>9. CASE Throw
  BY <1>9 DEF Throw, Engine!Throw
<1>10. CASE Ended \/ UNCHANGED vars
  BY <1>10 DEF Ended, vars, engineVars
<1> QED
  BY <1>1, <1>2, <1>3, <1>4, <1>5, <1>6, <1>7, <1>8, <1>9, <1>10 DEF Next

LEMMA DividedIsEnough == Divided => DivisionsAreEven
<1> SUFFICES ASSUME Divided, phase = "passes"
             PROVE  /\ "volume" \in config.outputs =>
                         \A i \in DOMAIN chunks :
                           ChunkDims(i) * SliceMemory < config.memory + SliceMemory
                    /\ Even(chunks, config.slices, Passes)
                    /\ \A i \in DOMAIN chunks : ChunkDims(i) > 0
                    /\ outcome = "running" => Even(pieces, ChunkDims(pass), Threads)
  BY DEF DivisionsAreEven
<1>1. config \in Configs /\ chunks \in Divisions(config.slices, Passes)
  BY DEF Divided
<1>2. /\ DOMAIN chunks = 0 .. Passes - 1 /\ Even(chunks, config.slices, Passes)
      /\ \A i \in 0 .. Passes - 1 : ChunkDims(i) \in Nat \ {0}
  BY <1>1, ChunksEven
<1>3. ASSUME "volume" \in config.outputs, NEW i \in DOMAIN chunks
      PROVE  ChunkDims(i) * SliceMemory < config.memory + SliceMemory
  BY <1>1, <1>2, <1>3, ChunkFits
<1>4. ASSUME outcome = "running"
      PROVE  Even(pieces, ChunkDims(pass), Threads)
  <2>1. pass \in 0 .. Passes - 1
    BY <1>1, <1>4, PassesFacts DEF Divided
  <2>2. ChunkDims(pass) \in Nat /\ pieces \in Divisions(ChunkDims(pass), Threads)
    BY <1>2, <1>4, <2>1 DEF Divided
  <2> QED
    BY <2>2, ThreadsAssumption, DivisionsEven
<1> QED
  BY <1>2, <1>3, <1>4

(* ReconstructionLauncher.txx:344-358, Subvolumer.txx: for every size of    *)
(* volume and every maximum of memory no pass is for nothing or takes a     *)
(* slice's memory more than allowed, and chunks and pieces are even,        *)
(* although the shares are rounded, in float, more than once.               *)
THEOREM VolumeIsDividedEvenly == Spec => []DivisionsAreEven
<1>1. Spec => []Divided
  BY DividedInit, DividedStep, PTL DEF Spec
<1> QED
  BY <1>1, DividedIsEnough, PTL

-----------------------------------------------------------------------------
(* The passes.                                                             *)

USE FileProjectionsAssumption, ProjectionStrideAssumption

(* The reader is where the projections taken in this pass have left it,    *)
(* and at the start of the file when no pass has begun.                    *)
Reading ==
  /\ pass \in Nat
  /\ got \in Seq(Int)
  /\ readCount = Len(got)
  /\ position = IF Len(got) = 0 THEN 0 ELSE Strided(Len(got))
  /\ pass = 0 /\ outcome = "returned" => Len(got) = 0
  /\ EveryPassReadsTheSame

(* Projections are written in the first pass only, each after it has been  *)
(* taken.                                                                  *)
Writing ==
  /\ taken = Len(got)
  /\ taken <= NumberOfProjections
  /\ DOMAIN data = Engine!Outputs
  /\ DOMAIN file = Engine!Streams
  /\ \A k \in Engine!Streams :
       /\ file[k] \in Seq(Int)
       /\ data[k] \in Seq(Int)
       /\ Len(file[k]) <= taken
       /\ pass = 0 => Len(data[k]) = Len(file[k])
  /\ pass # 0 /\ outcome = "running" => wanted \cap Engine!Streams = {}
  /\ ProjectionsAreWrittenOnce

IInv == Reading /\ Writing

-----------------------------------------------------------------------------
LEMMA PushFacts ==
  ASSUME NEW q \in Seq(Int), NEW m \in Int
  PROVE  /\ Len(q) \in Nat
         /\ DOMAIN q = 1 .. Len(q)
         /\ Append(q, m) \in Seq(Int)
         /\ Len(Append(q, m)) = Len(q) + 1
         /\ DOMAIN Append(q, m) = 1 .. Len(q) + 1
         /\ \A k \in 1 .. Len(q) : Append(q, m)[k] = q[k]
         /\ Append(q, m)[Len(q) + 1] = m
BY AppendProperties, LenProperties

LEMMA NothingFacts ==
  /\ <<>> \in Seq(Int)
  /\ Len(<<>>) = 0
  /\ DOMAIN <<>> = {}
BY EmptySeq

(* Each projection taken is the stride further on than the last.           *)
LEMMA StridedFacts ==
  /\ Strided(1) = 1
  /\ \A j \in Nat : /\ Strided(j) \in Int
                    /\ Strided(j + 1) = Strided(j) + ProjectionStride
<1>1. \A j \in Nat : (j + 1 - 1) * ProjectionStride
                       = (j - 1) * ProjectionStride + ProjectionStride
  OBVIOUS
<1> QED
  BY <1>1 DEF Strided

LEMMA NumberOfProjectionsType == NumberOfProjections \in Nat
BY DEF NumberOfProjections

-----------------------------------------------------------------------------
LEMMA ReadingStep ==
  ASSUME Reading, [Next]_vars
  PROVE  Reading'
<1> USE DEF Reading, EveryPassReadsTheSame, readerVars, engineVars
<1>1. CASE Setup \/ RewindFails
  BY <1>1 DEF Setup, RewindFails
<1>2. CASE FirstPass
  <2>1. /\ pass' = pass /\ got' = <<>> /\ UNCHANGED <<position, readCount>>
        /\ readCount = 0 /\ position = 0
    BY <1>2 DEF FirstPass, Execute
  <2> QED
    BY <2>1, NothingFacts
<1>3. CASE LaterPass
  <2>1. /\ pass' = pass /\ got' = <<>> /\ position' = 0 /\ readCount' = 0
        /\ pass # 0
    BY <1>3 DEF LaterPass, Execute, Reader!Rewind
  <2> QED
    BY <2>1, NothingFacts
<1>4. CASE Take
  <2>1. /\ got' = Append(got, Reader!NextNumber)
        /\ position' = Reader!NextNumber
        /\ readCount' = readCount + 1
        /\ pass' = pass /\ outcome' = outcome /\ outcome = "running"
    BY <1>4 DEF Take, Engine!Take, Reader!GetNextProjection
  <2>2. Len(got) \in Nat
    BY LenProperties
  <2>3. Reader!NextNumber = Strided(Len(got) + 1)
    <3>1. CASE Len(got) = 0
      BY <3>1, StridedFacts DEF Reader!NextNumber, Reader!Skipped
    <3>2. CASE Len(got) # 0
      <4>1. Reader!NextNumber = Strided(Len(got)) + (ProjectionStride - 1) + 1
        BY <2>2, <3>2 DEF Reader!NextNumber, Reader!Skipped
      <4>2. Strided(Len(got)) \in Int
        BY <2>2, StridedFacts
      <4> QED
        BY <2>2, <4>1, <4>2, StridedFacts
    <3> QED
      BY <3>1, <3>2
  <2>4. Reader!NextNumber \in Int
    BY <2>2, <2>3, StridedFacts
  <2>5. /\ got' \in Seq(Int)
        /\ Len(got') = Len(got) + 1
        /\ DOMAIN got' = 1 .. Len(got) + 1
        /\ DOMAIN got = 1 .. Len(got)
        /\ \A k \in 1 .. Len(got) : got'[k] = got[k]
        /\ got'[Len(got) + 1] = Strided(Len(got) + 1)
    BY <2>1, <2>3, <2>4, PushFacts
  <2>6. \A j \in DOMAIN got' : got'[j] = Strided(j)
    <3> TAKE j \in DOMAIN got'
    <3>1. j \in 1 .. Len(got) \/ j = Len(got) + 1
      BY <2>2, <2>5
    <3>2. CASE j \in 1 .. Len(got)
      BY <2>5, <3>2
    <3> QED
      BY <2>5, <3>1, <3>2
  <2> QED
    BY <2>1, <2>2, <2>3, <2>5, <2>6 DEF Strided
<1>5. CASE EndPass
  <2>1. UNCHANGED <<got, position, readCount>> /\ pass' = pass + 1
    BY <1>5 DEF EndPass
  <2> QED
    BY <2>1 DEF Strided
<1>6. CASE (\E k \in Engine!Streams : Write(k)) \/ WriteSubvolume \/ Fail
  <2>1. UNCHANGED <<got, position, readCount, pass, outcome>>
    BY <1>6 DEF Write, WriteSubvolume, Fail, Engine!Write,
                Engine!WriteSubvolume, Engine!Fail
  <2> QED
    BY <2>1 DEF Strided
<1>7. CASE Throw
  <2>1. UNCHANGED <<got, position, readCount, pass>> /\ outcome' = "threw"
    BY <1>7 DEF Throw, Engine!Throw
  <2> QED
    BY <2>1 DEF Strided
<1>8. CASE UNCHANGED vars
  BY <1>8 DEF vars, Strided
<1> QED
  BY <1>1, <1>2, <1>3, <1>4, <1>5, <1>6, <1>7, <1>8 DEF Next, Ended

LEMMA WritingStep ==
  ASSUME Reading, Writing, [Next]_vars
  PROVE  Writing'
<1> USE DEF Writing, ProjectionsAreWrittenOnce, readerVars, engineVars,
            Engine!Streams, Engine!Outputs
<1>t. /\ Len(got) \in Nat
      /\ NumberOfProjections \in Nat
      /\ DOMAIN got = 1 .. Len(got)
  BY NumberOfProjectionsType, LenProperties DEF Reading
<1>1. CASE Setup \/ RewindFails
  BY <1>1 DEF Setup, RewindFails
<1>2. CASE FirstPass
  <2>1. /\ pass' = pass /\ pass = 0 /\ got' = <<>> /\ data' = data
        /\ taken' = 0
        /\ file' = [k \in Engine!Streams |-> <<>>]
    BY <1>2 DEF FirstPass, Execute
  <2>2. \A k \in Engine!Streams : Len(data[k]) = 0
    <3>1. Len(got) = 0
      BY <1>2 DEF FirstPass, Execute, Reading
    <3>2. ASSUME NEW k \in Engine!Streams
          PROVE  Len(data[k]) = 0
      <4>1. Len(file[k]) \in Nat /\ Len(file[k]) <= 0
        BY <3>1, LenProperties
      <4> QED
        BY <2>1, <4>1
    <3> QED
      BY <3>2
  <2> QED
    BY <1>t, <2>1, <2>2, NothingFacts DEF Strided
<1>3. CASE LaterPass
  <2>1. /\ pass' = pass /\ pass # 0 /\ got' = <<>> /\ data' = data
        /\ taken' = 0
        /\ file' = [k \in Engine!Streams |-> <<>>]
        /\ wanted' \subseteq {"volume"}
    BY <1>3 DEF LaterPass, Execute
  <2> QED
    BY <1>t, <2>1, NothingFacts DEF Strided
<1>4. CASE Take
  <2>1. /\ got' = Append(got, Reader!NextNumber)
        /\ taken' = taken + 1
        /\ taken < NumberOfProjections
        /\ UNCHANGED <<pass, outcome, data, file, wanted>>
    BY <1>4 DEF Take, Engine!Take
  <2>2. Len(got') = Len(got) + 1
    <3>1. got' \in Seq(Int) /\ got \in Seq(Int)
      BY ReadingStep DEF Reading
    <3> QED
      BY <2>1, <3>1
  <2>3. \A k \in Engine!Streams : Len(file[k]) \in Nat
    BY LenProperties
  <2>4. /\ taken' = Len(got')
        /\ taken' <= NumberOfProjections
        /\ \A k \in Engine!Streams : Len(file'[k]) <= taken'
    BY <1>t, <2>1, <2>2, <2>3
  <2> QED
    BY <2>1, <2>4 DEF Strided
<1>5. ASSUME NEW k \in Engine!Streams, Write(k)
      PROVE  Writing'
  <2> DEFINE n == Len(file[k]) + 1
  <2>1. /\ file' = [file EXCEPT ![k] = Append(file[k], n)]
        /\ data' = [data EXCEPT ![k] = Append(data[k], got[Len(file'[k])])]
        /\ Len(file[k]) < taken
        /\ k \in wanted
        /\ outcome = "running"
        /\ UNCHANGED <<pass, outcome, taken, wanted, got>>
    BY <1>5 DEF Write, Engine!Write
  <2>2. pass = 0
    BY <2>1
  <2>3. Len(file[k]) \in Nat /\ Len(data[k]) = Len(file[k])
    BY <2>2, LenProperties
  <2>4. file'[k] = Append(file[k], n) /\ n \in Int
    BY <2>1, <2>3
  <2>5. /\ file'[k] \in Seq(Int)
        /\ Len(file'[k]) = n
    BY <2>4, PushFacts
  <2>6. n \in DOMAIN got /\ got[n] = Strided(n) /\ got[n] \in Int
    <3>1. n \in 1 .. Len(got)
      BY <1>t, <2>1, <2>3
    <3>2. got[n] = Strided(n)
      BY <1>t, <3>1 DEF Reading, EveryPassReadsTheSame
    <3> QED
      BY <1>t, <3>1, <3>2, StridedFacts
  <2>7. data'[k] = Append(data[k], Strided(n))
    BY <2>1, <2>5, <2>6
  <2>8. /\ data'[k] \in Seq(Int)
        /\ Len(data'[k]) = Len(data[k]) + 1
        /\ DOMAIN data[k] = 1 .. Len(data[k])
        /\ DOMAIN data'[k] = 1 .. Len(data[k]) + 1
        /\ \A j \in 1 .. Len(data[k]) : data'[k][j] = data[k][j]
        /\ data'[k][Len(data[k]) + 1] = Strided(n)
    BY <2>6, <2>7, PushFacts
  <2>9. \A j \in DOMAIN data'[k] : data'[k][j] = Strided(j)
    <3> TAKE j \in DOMAIN data'[k]
    <3>1. j \in 1 .. Len(data[k]) \/ j = n
      BY <2>3, <2>8
    <3>2. CASE j \in 1 .. Len(data[k])
      BY <2>8, <3>2
    <3>3. CASE j = n
      BY <2>3, <2>8, <3>3
    <3> QED
      BY <3>1, <3>2, <3>3
  <2>10. n <= taken /\ n <= NumberOfProjections /\ Len(data'[k]) = n
    BY <1>t, <2>1, <2>3, <2>8
  <2>11. \A v \in Engine!Streams : v # k =>
           file'[v] = file[v] /\ data'[v] = data[v]
    BY <2>1
  <2>12. DOMAIN data' = DOMAIN data /\ DOMAIN file' = DOMAIN file
    BY <2>1
  <2>13. \A v \in Engine!Streams :
           /\ file'[v] \in Seq(Int)
           /\ data'[v] \in Seq(Int)
           /\ Len(file'[v]) <= taken'
           /\ Len(data'[v]) = Len(file'[v])
    BY <2>1, <2>2, <2>5, <2>8, <2>10, <2>11
  <2>14. \A v \in Engine!Streams :
           /\ Len(data'[v]) <= NumberOfProjections
           /\ \A j \in DOMAIN data'[v] : data'[v][j] = Strided(j)
    BY <2>9, <2>10, <2>11
  <2> QED
    BY <2>1, <2>2, <2>12, <2>13, <2>14 DEF Strided
<1>6. CASE WriteSubvolume
  <2>1. /\ UNCHANGED <<got, taken, file, pass, wanted, outcome>>
        /\ DOMAIN data' = DOMAIN data
        /\ \A k \in Engine!Streams : data'[k] = data[k]
    BY <1>6 DEF WriteSubvolume, Engine!WriteSubvolume
  <2> QED
    BY <2>1 DEF Strided
<1>7. CASE Fail \/ Throw
  <2>1. /\ UNCHANGED <<got, taken, file, pass, wanted, data>>
        /\ outcome' = "running" => outcome = "running"
    BY <1>7 DEF Fail, Throw, Engine!Fail, Engine!Throw
  <2> QED
    BY <2>1 DEF Strided
<1>8. CASE EndPass
  <2>1. /\ UNCHANGED <<got, taken, file, wanted, data>>
        /\ pass' = pass + 1 /\ outcome' = "returned"
    BY <1>8 DEF EndPass, Engine!Return
  <2>2. pass' # 0
    BY <2>1 DEF Reading
  <2> QED
    BY <2>1, <2>2 DEF Strided
<1>9. CASE UNCHANGED vars
  BY <1>9 DEF vars, Strided
<1> QED
  BY <1>1, <1>2, <1>3, <1>4, <1>5, <1>6, <1>7, <1>8, <1>9
     DEF Next, Ended

-----------------------------------------------------------------------------
(* The invariant of all passes.                                            *)
THEOREM InductiveInvariant == Spec => []IInv
<1>1. Init => IInv
  <2> SUFFICES ASSUME Init PROVE IInv
    OBVIOUS
  <2>1. /\ pass = 0 /\ got = <<>> /\ taken = 0 /\ position = 0
        /\ readCount = 0 /\ wanted = {}
        /\ file = [k \in Engine!Streams |-> <<>>]
        /\ data = [k \in Engine!Outputs |-> <<>>]
    BY DEF Init, Reader!Init
  <2>2. Reading
    BY <2>1, NothingFacts DEF Reading, EveryPassReadsTheSame
  <2>3. Writing
    BY <2>1, NothingFacts, NumberOfProjectionsType
       DEF Writing, ProjectionsAreWrittenOnce, Engine!Streams, Engine!Outputs
  <2> QED
    BY <2>2, <2>3 DEF IInv
<1>2. IInv /\ [Next]_vars => IInv'
  BY ReadingStep, WritingStep DEF IInv
<1>3. QED
  BY <1>1, <1>2, PTL DEF Spec

(* Every pass takes the first projection of the file and from then on one  *)
(* in ProjectionStride, whatever the passes before it have left behind.    *)
THEOREM PassesReadTheSame == Spec => []EveryPassReadsTheSame
<1>1. IInv => EveryPassReadsTheSame
  BY DEF IInv, Reading
<1>2. QED
  BY <1>1, InductiveInvariant, PTL

(* No projection is in an output file twice, out of order or after a gap,  *)
(* however many passes there are.                                          *)
THEOREM ProjectionsWrittenOnce == Spec => []ProjectionsAreWrittenOnce
<1>1. IInv => ProjectionsAreWrittenOnce
  BY DEF IInv, Writing
<1>2. QED
  BY <1>1, InductiveInvariant, PTL

-----------------------------------------------------------------------------
(* The output files.                                                       *)

Slice == [z : Int, whole : BOOLEAN]

InOrder(q) ==
  /\ q \in Seq(Slice)
  /\ \A j \in DOMAIN q : q[j] = [z |-> j - 1, whole |-> TRUE]

(* The first slice of the next piece.                                      *)
NextPiece ==
  IF Len(volumeFile) < Threads THEN pieces[Len(volumeFile)] ELSE ChunkDims(pass)

(* The number of slices in the file.                                       *)
Due ==
  IF "volume" \notin config.outputs \/ phase = "setup" THEN 0
  ELSE IF phase = "returned" THEN config.slices
  ELSE chunks[pass] + (IF outcome = "running" THEN NextPiece ELSE 0)

Progress ==
  ~everFailed =>
    /\ failed = FALSE
    /\ outcome \in {"running", "returned"}
    /\ phase \in {"setup", "passes", "returned"}
    /\ phase = "setup" => pass = 0 /\ outcome = "returned"
    /\ phase = "passes" => pass < Passes
    /\ phase = "returned" => pass # 0 /\ outcome = "returned"
    /\ outcome = "running" =>
         /\ wanted \cap {"volume"} = config.outputs \cap {"volume"}
         /\ pass = 0 => wanted = config.outputs
         /\ volumeFile \in Seq(BOOLEAN)
         /\ Len(volumeFile) <= Threads
    /\ pass # 0 =>
         \A k \in Engine!Streams \cap config.outputs :
           Len(data[k]) >= NumberOfProjections - AtRisk
    /\ InOrder(data["volume"])
    /\ Len(data["volume"]) = Due

-----------------------------------------------------------------------------
(* Pieces follow each other                                                *)

LEMMA FirstStart ==
  ASSUME NEW dims \in Nat, NEW n \in Nat \ {0}, NEW starts \in Divisions(dims, n)
  PROVE  starts[0] = 0
<1>1. 0 \in 0 .. n - 1
  OBVIOUS
<1>2. starts[0] \in StartZ(dims, n, 0)
  BY <1>1 DEF Divisions
<1>3. StartZ(dims, n, 0) = {(0 * dims) \div n}
  BY DEF StartZ
<1>4. 0 * dims = 0
  OBVIOUS
<1>5. 0 \div n = 0
  <2>1. PICK x \in Int, y \in 0 .. n - 1 : x = 0 \div n /\ 0 = n * x + y
    <3>1. 0 \in Int
      OBVIOUS
    <3> QED
      BY <3>1, DivisionFacts
  <2>2. n * x <= n * 0 /\ n * (0 - 1) < n * x
    BY <2>1
  <2>3. x <= 0 /\ 0 - 1 < x
    BY <2>1, <2>2, Cancel
  <2> QED
    BY <2>1, <2>3
<1> QED
  BY <1>2, <1>3, <1>4, <1>5

LEMMA NextStart ==
  ASSUME NEW dims \in Nat, NEW n \in Nat \ {0}, NEW starts \in Divisions(dims, n),
         NEW i \in 0 .. n - 1
  PROVE  /\ starts[i] \in Int
         /\ DimsZ(starts, dims, n, i) \in Nat
         /\ starts[i] + DimsZ(starts, dims, n, i)
              = IF i + 1 < n THEN starts[i + 1] ELSE dims
<1>1. starts \in [0 .. n - 1 -> 0 .. dims]
  BY DEF Divisions
<1>2. starts[i] \in Int /\ (i + 1 < n => starts[i + 1] \in Int)
  BY <1>1
<1>3. i < n - 1 <=> i + 1 < n
  OBVIOUS
<1>4. DimsZ(starts, dims, n, i) >= 0
  BY DivisionsEven DEF Even
<1>5. DimsZ(starts, dims, n, i)
        = (IF i + 1 < n THEN starts[i + 1] ELSE dims) - starts[i]
  BY <1>3 DEF DimsZ
<1> QED
  BY <1>2, <1>4, <1>5

(* Writing the next slices to a file that is in order leaves it so.        *)
LEMMA Extended ==
  ASSUME NEW q, InOrder(q), NEW n \in Nat
  PROVE  LET p == [j \in 1 .. n |-> [z |-> Len(q) + j - 1, whole |-> TRUE]]
         IN  InOrder(q \o p) /\ Len(q \o p) = Len(q) + n
<1> DEFINE p == [j \in 1 .. n |-> [z |-> Len(q) + j - 1, whole |-> TRUE]]
<1>1. /\ q \in Seq(Slice) /\ Len(q) \in Nat /\ DOMAIN q = 1 .. Len(q)
  BY LenProperties DEF InOrder
<1>2. p \in [1 .. n -> Slice]
  BY <1>1 DEF Slice
<1>3. p \in Seq(Slice)
  BY <1>2, SeqDef
<1>4. Len(p) = n
  <2>1. DOMAIN p = 1 .. n /\ DOMAIN p = 1 .. Len(p) /\ Len(p) \in Nat
    BY <1>2, <1>3, LenProperties
  <2> QED
    BY <2>1
<1> HIDE DEF p
<1>5. /\ q \o p \in Seq(Slice)
      /\ Len(q \o p) = Len(q) + n
      /\ \A j \in 1 .. Len(q) + n :
           (q \o p)[j] = IF j <= Len(q) THEN q[j] ELSE p[j - Len(q)]
  BY <1>1, <1>3, <1>4, ConcatProperties
<1>6. DOMAIN (q \o p) = 1 .. Len(q) + n
  BY <1>5, LenProperties
<1>7. ASSUME NEW j \in 1 .. Len(q) + n
      PROVE  (q \o p)[j] = [z |-> j - 1, whole |-> TRUE]
  <2>1. CASE j <= Len(q)
    <3>1. j \in DOMAIN q
      BY <1>1, <2>1
    <3> QED
      BY <1>5, <2>1, <3>1 DEF InOrder
  <2>2. CASE ~(j <= Len(q))
    <3>1. j - Len(q) \in 1 .. n /\ Len(q) + (j - Len(q)) - 1 = j - 1
      BY <1>1, <2>2
    <3>2. p[j - Len(q)] = [z |-> j - 1, whole |-> TRUE]
      BY <3>1 DEF p
    <3> QED
      BY <1>5, <2>2, <3>2
  <2> QED
    BY <2>1, <2>2
<1> QED
  BY <1>5, <1>6, <1>7 DEF InOrder, p

-----------------------------------------------------------------------------
(* Every step keeps Progress                                               *)

(* While the engine is at work, and a volume is wanted, a piece not yet     *)
(* written starts where the file ends.                                      *)
LEMMA PieceFacts ==
  ASSUME Divided, outcome = "running"
  PROVE  /\ phase = "passes" /\ pass \in 0 .. Passes - 1
         /\ ChunkDims(pass) \in Nat
         /\ pieces[0] = 0
         /\ chunks[pass] \in Int
         /\ chunks[pass] + ChunkDims(pass)
              = IF pass + 1 < Passes THEN chunks[pass + 1] ELSE config.slices
         /\ \A t \in 0 .. Threads - 1 :
              LET size == DimsZ(pieces, ChunkDims(pass), Threads, t)
              IN  /\ pieces[t] \in Int
                  /\ size \in Nat
                  /\ pieces[t] + size
                       = IF t + 1 < Threads THEN pieces[t + 1] ELSE ChunkDims(pass)
<1>1. /\ config \in Configs /\ chunks \in Divisions(config.slices, Passes)
      /\ phase = "passes" /\ pass \in Nat /\ pass < Passes
      /\ pieces \in Divisions(ChunkDims(pass), Threads)
  BY DEF Divided
<1>2. Passes \in Nat \ {0} /\ config.slices \in Nat
  BY <1>1, PassesFacts
<1>3. pass \in 0 .. Passes - 1
  BY <1>1, <1>2
<1>4. ChunkDims(pass) \in Nat
  BY <1>1, <1>3, ChunksEven
<1>5. pieces[0] = 0
  BY <1>1, <1>4, FirstStart, ThreadsAssumption
<1>6. /\ chunks[pass] \in Int
      /\ chunks[pass] + ChunkDims(pass)
           = IF pass + 1 < Passes THEN chunks[pass + 1] ELSE config.slices
  BY <1>1, <1>2, <1>3, NextStart DEF ChunkDims
<1>7. \A t \in 0 .. Threads - 1 :
        LET size == DimsZ(pieces, ChunkDims(pass), Threads, t)
        IN  /\ pieces[t] \in Int
            /\ size \in Nat
            /\ pieces[t] + size
                 = IF t + 1 < Threads THEN pieces[t + 1] ELSE ChunkDims(pass)
  BY <1>1, <1>4, NextStart, ThreadsAssumption
<1> QED
  BY <1>1, <1>3, <1>4, <1>5, <1>6, <1>7

LEMMA ProgressInit == Init => Progress
<1> SUFFICES ASSUME Init PROVE Progress
  OBVIOUS
<1>1. InOrder(<<>>) /\ Len(<<>>) = 0
  BY EmptySeq DEF InOrder
<1>2. data["volume"] = <<>> /\ phase = "setup" /\ pass = 0 /\ failed = FALSE
        /\ outcome = "returned"
  BY DEF Init, Engine!Outputs
<1> QED
  BY <1>1, <1>2 DEF Progress, Due

LEMMA ProgressStep ==
  ASSUME IInv, Divided, Progress, [Next]_vars
  PROVE  Progress'
<1> SUFFICES ASSUME ~everFailed' PROVE Progress'
  BY DEF Progress
<1>e. ~everFailed
  <2>1. CASE Setup \/ RewindFails \/ Fail
    BY <2>1 DEF Setup, RewindFails, Fail
  <2>2. CASE FirstPass \/ LaterPass \/ Take \/ \E k \in Engine!Streams : Write(k)
    BY <2>2 DEF FirstPass, LaterPass, Execute, Take, Write
  <2>3. CASE WriteSubvolume \/ EndPass \/ Throw \/ Ended \/ UNCHANGED vars
    BY <2>3 DEF WriteSubvolume, EndPass, Throw, Ended, vars
  <2> QED
    BY <2>1, <2>2, <2>3 DEF Next
<1> USE <1>e
<1>1. CASE Setup
  <2>1. /\ phase = "setup" /\ phase' = "passes"
        /\ chunks' \in Divisions(config.slices, Passes)
        /\ UNCHANGED <<config, pass, engineVars, data>>
    BY <1>1 DEF Setup
  <2>2. pass = 0 /\ outcome = "returned" /\ Len(data["volume"]) = 0
    BY <2>1 DEF Progress, Due
  <2>3. Passes \in Nat \ {0} /\ config.slices \in Nat
    BY PassesFacts DEF Divided
  <2>4. chunks'[0] = 0 /\ 0 < Passes
    BY <2>1, <2>3, FirstStart
  <2>5. Passes' = Passes
    BY <2>1 DEF Passes
  <2>6. Due' = 0
    BY <2>1, <2>2, <2>4 DEF Due, engineVars
  <2> QED
    BY <2>1, <2>2, <2>4, <2>5, <2>6 DEF Progress, engineVars
<1>2. CASE FirstPass \/ LaterPass
  <2>1. /\ outcome = "returned" /\ outcome' = "running"
        /\ phase = "passes" /\ phase' = "passes"
        /\ failed' = FALSE /\ volumeFile' = <<>>
        /\ UNCHANGED <<config, pass, chunks, data>>
    BY <1>2 DEF FirstPass, LaterPass, Execute
  <2>2. /\ wanted' \cap {"volume"} = config.outputs \cap {"volume"}
        /\ pass = 0 => wanted' = config.outputs
    BY <1>2 DEF FirstPass, LaterPass, Execute
  <2>3. /\ volumeFile' \in Seq(BOOLEAN) /\ Len(volumeFile') = 0 /\ 0 <= Threads
        /\ 0 < Threads
    BY <2>1, EmptySeq, ThreadsAssumption
  <2>4. pieces'[0] = 0 /\ chunks[pass] \in Int
    <3>1. /\ config \in Configs /\ chunks \in Divisions(config.slices, Passes)
          /\ pass \in 0 .. Passes - 1
          /\ pieces' \in Divisions(ChunkDims(pass), Threads)
      BY <1>2, <2>1, PassesFacts
         DEF Divided, FirstPass, LaterPass, Execute
    <3>2. ChunkDims(pass) \in Nat
      BY <3>1, ChunksEven
    <3>3. pieces'[0] = 0
      BY <3>1, <3>2, FirstStart, ThreadsAssumption
    <3>4. chunks[pass] \in Int
      BY <3>1, PassesFacts, NextStart
    <3> QED
      BY <3>3, <3>4
  <2>5. Due' = Due
    BY <2>1, <2>3, <2>4 DEF Due, NextPiece
  <2>6. Passes' = Passes
    BY <2>1 DEF Passes
  <2> QED
    BY <2>1, <2>2, <2>3, <2>5, <2>6 DEF Progress
<1>3. CASE Take
  <2>1. /\ outcome = "running"
        /\ UNCHANGED <<config, phase, pass, chunks, pieces, data, wanted,
                       volumeFile, failed, outcome>>
    BY <1>3 DEF Take, Engine!Take
  <2> QED
    BY <2>1 DEF Progress, Due, NextPiece, Passes, ChunkDims
<1>4. ASSUME NEW k \in Engine!Streams, Write(k)
      PROVE  Progress'
  <2>1. /\ outcome = "running" /\ k \in wanted
        /\ data' = [data EXCEPT ![k] = Append(@, got[Len(file'[k])])]
        /\ UNCHANGED <<config, phase, pass, chunks, pieces, wanted,
                       volumeFile, failed, outcome>>
    BY <1>4 DEF Write, Engine!Write
  <2>2. pass = 0
    BY <2>1 DEF IInv, Writing
  <2>3. data'["volume"] = data["volume"]
    BY <2>1 DEF Engine!Streams
  <2> QED
    BY <2>1, <2>2, <2>3 DEF Progress, Due, NextPiece, Passes, ChunkDims
<1>5. CASE WriteSubvolume
  <2> DEFINE t    == Len(volumeFile)
             size == DimsZ(pieces, ChunkDims(pass), Threads, t)
             q    == data["volume"]
  <2>1. /\ outcome = "running" /\ "volume" \in wanted /\ t < Threads
        /\ \E whole \in {TRUE, ~failed} : volumeFile' = Append(volumeFile, whole)
        /\ data' = [data EXCEPT !["volume"] =
                      @ \o [j \in 1 .. size |->
                              [z |-> chunks[pass] + pieces[t] + j - 1,
                               whole |-> volumeFile'[t + 1]]]]
        /\ UNCHANGED <<config, phase, pass, chunks, pieces, wanted, failed, outcome>>
    BY <1>5 DEF WriteSubvolume, Engine!WriteSubvolume
  <2>2. volumeFile' = Append(volumeFile, TRUE) /\ volumeFile \in Seq(BOOLEAN)
    BY <2>1 DEF Progress
  <2>3. /\ t \in Nat /\ volumeFile'[t + 1] = TRUE
        /\ volumeFile' \in Seq(BOOLEAN) /\ Len(volumeFile') = t + 1
    BY <2>2, AppendProperties, LenProperties
  <2>4. /\ t \in 0 .. Threads - 1 /\ t + 1 <= Threads
    BY <2>1, <2>3, ThreadsAssumption
  <2>5. "volume" \in config.outputs /\ phase = "passes"
    BY <2>1, PieceFacts DEF Progress
  <2>6. Len(q) = chunks[pass] + pieces[t] /\ InOrder(q)
    BY <2>1, <2>5 DEF Progress, Due, NextPiece
  <2>7. /\ size \in Nat /\ pieces[t] \in Int /\ chunks[pass] \in Int
        /\ pieces[t] + size = IF t + 1 < Threads THEN pieces[t + 1] ELSE ChunkDims(pass)
    BY <2>1, <2>4, PieceFacts
  <2> DEFINE p == [j \in 1 .. size |-> [z |-> Len(q) + j - 1, whole |-> TRUE]]
  <2>8. InOrder(q \o p) /\ Len(q \o p) = Len(q) + size
    <3> HIDE DEF size, q
    <3> QED
      BY <2>6, <2>7, Extended
  <2>9. data'["volume"] = q \o p
    <3>1. "volume" \in DOMAIN data
      BY DEF IInv, Writing, Engine!Outputs
    <3> HIDE DEF size, t
    <3> QED
      BY <2>1, <2>3, <2>6, <3>1
  <2>10. \A k \in Engine!Streams : data'[k] = data[k]
    BY <2>1 DEF Engine!Streams
  <2>11. Due' = chunks[pass] + (pieces[t] + size)
    <3>1. NextPiece' = pieces[t] + size
      <4> HIDE DEF size, t
      <4>1. ChunkDims(pass)' = ChunkDims(pass)
        BY <2>1 DEF ChunkDims, Passes
      <4> QED
        BY <2>1, <2>3, <2>7, <4>1 DEF NextPiece
    <3> HIDE DEF size, t
    <3> QED
      BY <2>1, <2>5, <3>1 DEF Due
  <2>12. Len(data'["volume"]) = Due'
    <3> HIDE DEF size, t, q, p
    <3> QED
      BY <2>6, <2>7, <2>8, <2>9, <2>11
  <2>13. Passes' = Passes
    BY <2>1 DEF Passes
  <2> HIDE DEF size, t, q, p
  <2> QED
    BY <2>1, <2>3, <2>4, <2>8, <2>9, <2>10, <2>12, <2>13 DEF Progress
<1>6. CASE Fail \/ RewindFails
  BY <1>6 DEF Fail, RewindFails
<1>7. CASE EndPass
  <2>1. /\ outcome = "running" /\ outcome' = "returned" /\ Engine!Complete
        /\ pass' = pass + 1
        /\ phase' = IF pass' = Passes THEN "returned" ELSE "passes"
        /\ UNCHANGED <<config, chunks, data, failed>>
    BY <1>7 DEF EndPass, Engine!Return, Progress
  <2>2. /\ phase = "passes" /\ pass \in 0 .. Passes - 1 /\ Passes \in Nat
        /\ chunks[pass] + ChunkDims(pass)
             = IF pass + 1 < Passes THEN chunks[pass + 1] ELSE config.slices
    BY <2>1, PieceFacts, PassesFacts DEF Divided
  <2>3. Passes' = Passes
    BY <2>1 DEF Passes
  <2>4. pass' # 0 /\ (phase' = "passes" => pass' < Passes')
    BY <2>1, <2>2, <2>3
  <2>5. Len(data["volume"]) = Due'
    <3>1. CASE "volume" \notin config.outputs
      BY <2>1, <3>1 DEF Progress, Due
    <3>2. CASE "volume" \in config.outputs
      <4>1. Len(volumeFile) = Threads
        BY <2>1, <3>2 DEF Progress, Engine!Complete
      <4>2. Due = chunks[pass] + ChunkDims(pass)
        BY <2>1, <2>2, <3>2, <4>1, ThreadsAssumption DEF Due, NextPiece
      <4>3. Due' = chunks[pass] + ChunkDims(pass)
        <5>1. CASE pass + 1 < Passes
          <6>1. phase' = "passes"
            BY <2>1, <2>2, <5>1
          <6>2. chunks[pass + 1] \in Int
            <7>1. chunks \in [0 .. Passes - 1 -> 0 .. config.slices]
              BY <2>2 DEF Divided, Divisions
            <7>2. pass + 1 \in 0 .. Passes - 1 /\ config.slices \in Nat
              BY <2>2, <5>1, PassesFacts DEF Divided
            <7> QED
              BY <7>1, <7>2
          <6> QED
            BY <2>1, <2>2, <3>2, <5>1, <6>1, <6>2 DEF Due
        <5>2. CASE ~(pass + 1 < Passes)
          <6>1. phase' = "returned"
            BY <2>1, <2>2, <5>2
          <6> QED
            BY <2>1, <2>2, <3>2, <5>2, <6>1 DEF Due
        <5> QED
          BY <5>1, <5>2
      <4> QED
        BY <4>2, <4>3 DEF Progress
    <3> QED
      BY <3>1, <3>2
  <2>6. ASSUME NEW k \in Engine!Streams \cap config.outputs
        PROVE  Len(data[k]) >= NumberOfProjections - AtRisk
    <3>1. CASE pass # 0
      BY <3>1 DEF Progress
    <3>2. CASE pass = 0
      <4>1. k \in wanted /\ Len(data[k]) = Len(file[k])
        BY <2>1, <3>2 DEF Progress, IInv, Writing
      <4>2. \A v \in Engine!Streams :
              Engine!Lacking(v) \in Nat
        <5> TAKE v \in Engine!Streams
        <5>1. Len(file[v]) \in Nat /\ Len(file[v]) <= NumberOfProjections
                /\ NumberOfProjections \in Nat
          <6>1. Len(file[v]) \in Nat
            BY LenProperties DEF IInv, Writing
          <6>2. Len(file[v]) <= taken /\ taken <= NumberOfProjections
            BY DEF IInv, Writing
          <6>3. taken = NumberOfProjections
            BY <2>1 DEF Engine!Complete
          <6> QED
            BY <6>1, <6>2, <6>3, NumberOfProjectionsType
        <5> QED
          BY <5>1 DEF Engine!Lacking
      <4>3. Engine!Lacking("attenuation") + Engine!Lacking("filtered") <= AtRisk
        BY <2>1 DEF Engine!Complete
      <4>4. Engine!Lacking(k) <= AtRisk
        BY <4>2, <4>3, AtRiskAssumption DEF Engine!Streams
      <4>5. Engine!Lacking(k) = NumberOfProjections - Len(data[k])
        BY <4>1 DEF Engine!Lacking
      <4>6. Len(data[k]) \in Nat /\ NumberOfProjections \in Nat
        BY LenProperties, NumberOfProjectionsType DEF IInv, Writing
      <4> QED
        BY <4>4, <4>5, <4>6, AtRiskAssumption
    <3> QED
      BY <3>1, <3>2
  <2> QED
    BY <2>1, <2>3, <2>4, <2>5, <2>6 DEF Progress
<1>8. CASE Throw
  BY <1>8 DEF Throw, Engine!Throw, Progress
<1>9. CASE Ended \/ UNCHANGED vars
  <2>1. UNCHANGED vars
    BY <1>9 DEF Ended
  <2> QED
    BY <2>1 DEF vars, engineVars, Progress, Due, NextPiece, Passes, ChunkDims
<1> QED
  BY <1>1, <1>2, <1>3, <1>4, <1>5, <1>6, <1>7, <1>8, <1>9 DEF Next

LEMMA ProgressIsEnough == Progress => OutputIsRight
<1> SUFFICES ASSUME Progress, ~everFailed
             PROVE  /\ \A j \in DOMAIN data["volume"] :
                         data["volume"][j] = [z |-> j - 1, whole |-> TRUE]
                    /\ phase = "returned" =>
                         /\ "volume" \in config.outputs =>
                              Len(data["volume"]) = config.slices
                         /\ \A k \in Engine!Streams \cap config.outputs :
                              Len(data[k]) >= NumberOfProjections - AtRisk
  BY DEF OutputIsRight
<1>1. InOrder(data["volume"]) /\ Len(data["volume"]) = Due
  BY DEF Progress
<1>2. phase = "returned" => pass # 0
  BY DEF Progress
<1> QED
  BY <1>1, <1>2 DEF InOrder, Due, Progress

(* ReconstructionLauncher.txx, Subvolumer.txx: as long as nothing fails the *)
(* volume's file is made of its slices in order, each whole, over whatever  *)
(* number of passes and of pieces that may have no slices; when Launch      *)
(* returns none is missing, nor a projection but those the engine may lose. *)
THEOREM OutputsAreRight == Spec => []OutputIsRight
<1>1. Init => Progress
  BY ProgressInit
<1>2. IInv /\ Divided /\ Progress /\ [Next]_vars => Progress'
  BY ProgressStep
<1>3. Spec => []Divided
  BY DividedInit, DividedStep, PTL DEF Spec
<1>4. Spec => []Progress
  BY <1>1, <1>2, <1>3, InductiveInvariant, PTL DEF Spec
<1> QED
  BY <1>4, ProgressIsEnough, PTL

-----------------------------------------------------------------------------
(* Types                                                                   *)

LEMMA TypeInit == Init => TypeOK
<1> SUFFICES ASSUME Init PROVE TypeOK
  OBVIOUS
<1>1. config.slices \in Nat \ {0} /\ config \in Configs
  BY SlicesAssumption DEF Init, Configs
<1>2. \A S : <<>> \in Seq(S)
  BY EmptySeq
<1>3. /\ DOMAIN chunks = {0} /\ chunks[0] = 0
      /\ DOMAIN pieces = {0} /\ pieces[0] = 0
  BY DEF Init
<1>4. 0 \in 0 .. config.slices - 1 /\ 0 \in 0 .. Threads - 1
        /\ 0 \in 0 .. config.slices /\ 0 \in 0 .. FileProjections
        /\ 0 \in 0 .. NumberOfProjections
  BY <1>1, ThreadsAssumption, NumberOfProjectionsType,
     FileProjectionsAssumption
<1> QED
  BY <1>1, <1>2, <1>3, <1>4
     DEF Init, Reader!Init, TypeOK, Engine!Outputs, Engine!Streams

LEMMA TypeStep ==
  ASSUME TypeOK, IInv, Divided, [Next]_vars
  PROVE  TypeOK'
<1>a. IInv' /\ Divided'
  BY ReadingStep, WritingStep, DividedStep DEF IInv
<1>b. /\ config.slices \in Nat \ {0} /\ Passes \in Nat \ {0}
      /\ Passes <= config.slices /\ NumberOfProjections \in Nat
  BY PassesFacts, NumberOfProjectionsType DEF Divided
<1>c. /\ taken' \in 0 .. NumberOfProjections
      /\ readCount' \in 0 .. NumberOfProjections
  <2>1. got' \in Seq(Int) /\ readCount' = Len(got') /\ taken' = Len(got')
          /\ taken' <= NumberOfProjections
    BY <1>a DEF IInv, Reading, Writing
  <2>2. Len(got') \in Nat
    BY <2>1, LenProperties
  <2> QED
    BY <1>b, <2>1, <2>2
<1>d. \A S : <<>> \in Seq(S)
  BY EmptySeq
<1>1. CASE Setup
  <2>1. /\ chunks' \in Divisions(config.slices, Passes) \/ chunks' = chunks
        /\ phase' \in {"passes", "threw"} /\ everFailed' \in BOOLEAN
        /\ UNCHANGED <<config, pass, pieces, readerVars, engineVars, data, got>>
    BY <1>1 DEF Setup, TypeOK
  <2>2. /\ DOMAIN chunks' \subseteq 0 .. config.slices - 1
        /\ \A i \in DOMAIN chunks' : chunks'[i] \in 0 .. config.slices
    <3>1. CASE chunks' = chunks
      BY <3>1 DEF TypeOK
    <3>2. CASE chunks' \in Divisions(config.slices, Passes)
      <4>1. chunks' \in [0 .. Passes - 1 -> 0 .. config.slices]
        BY <3>2 DEF Divisions
      <4> QED
        BY <1>b, <4>1
    <3> QED
      BY <2>1, <3>1, <3>2
  <2> QED
    BY <2>1, <2>2 DEF TypeOK, readerVars, engineVars
<1>2. CASE FirstPass \/ LaterPass
  <2>1. /\ wanted' \subseteq Engine!Outputs
        /\ pieces' \in Divisions(ChunkDims(pass), Threads)
        /\ file' = [k \in Engine!Streams |-> <<>>]
        /\ volumeFile' = <<>> /\ failed' = FALSE /\ outcome' = "running"
        /\ got' = <<>>
        /\ position' \in {0, position}
        /\ UNCHANGED <<config, phase, pass, chunks, data, everFailed>>
    BY <1>2 DEF FirstPass, LaterPass, Execute, Reader!Rewind, readerVars,
                Configs, TypeOK
  <2>2. /\ DOMAIN pieces' \subseteq 0 .. Threads - 1
        /\ \A t \in DOMAIN pieces' : pieces'[t] \in 0 .. config.slices
    <3>1. /\ chunks \in Divisions(config.slices, Passes) /\ pass \in 0 .. Passes - 1
      BY <1>2, <1>b DEF FirstPass, LaterPass, Execute, Divided
    <3>2. ChunkDims(pass) \in Nat /\ ChunkDims(pass) <= config.slices
      <4>1. chunks \in [0 .. Passes - 1 -> 0 .. config.slices]
        BY <3>1 DEF Divisions
      <4>2. /\ DimsZ(chunks, config.slices, Passes, pass) \in Nat
            /\ chunks[pass] + DimsZ(chunks, config.slices, Passes, pass)
                 = IF pass + 1 < Passes THEN chunks[pass + 1] ELSE config.slices
        BY <1>b, <3>1, NextStart
      <4>3. chunks[pass] \in 0 .. config.slices
              /\ (pass + 1 < Passes => chunks[pass + 1] \in 0 .. config.slices)
        BY <3>1, <4>1, <1>b
      <4> QED
        BY <1>b, <4>2, <4>3 DEF ChunkDims
    <3>3. pieces' \in [0 .. Threads - 1 -> 0 .. ChunkDims(pass)]
      BY <2>1 DEF Divisions
    <3> QED
      BY <1>b, <3>2, <3>3
  <2>3. position' \in 0 .. FileProjections
    BY <2>1, FileProjectionsAssumption DEF TypeOK
  <2> QED
    BY <1>c, <1>d, <2>1, <2>2, <2>3 DEF TypeOK
<1>3. CASE Take
  <2>1. /\ got' = Append(got, Reader!NextNumber)
        /\ position' = Reader!NextNumber
        /\ Reader!NextNumber <= FileProjections
        /\ UNCHANGED <<config, phase, pass, chunks, pieces, data, everFailed,
                       wanted, file, volumeFile, failed, outcome>>
    BY <1>3 DEF Take, Engine!Take, Reader!GetNextProjection
  <2>2. Reader!NextNumber \in Int /\ Reader!NextNumber >= 1
    BY ProjectionStrideAssumption DEF TypeOK, Reader!NextNumber, Reader!Skipped
  <2>3. Reader!NextNumber \in 1 .. FileProjections
    BY <2>1, <2>2
  <2>4. got' \in Seq(1 .. FileProjections)
    BY <2>1, <2>3, AppendProperties DEF TypeOK
  <2>5. position' \in 0 .. FileProjections
    BY <2>1, <2>3
  <2> QED
    BY <1>c, <2>1, <2>4, <2>5 DEF TypeOK
<1>4. ASSUME NEW k \in Engine!Streams, Write(k)
      PROVE  TypeOK'
  <2> DEFINE n == Len(file[k]) + 1
  <2>1. /\ file' = [file EXCEPT ![k] = Append(file[k], n)]
        /\ data' = [data EXCEPT ![k] = Append(data[k], got[Len(file'[k])])]
        /\ Len(file[k]) < taken
        /\ UNCHANGED <<config, phase, pass, chunks, pieces, readerVars, got,
                       everFailed, wanted, taken, volumeFile, failed, outcome>>
    BY <1>4 DEF Write, Engine!Write
  <2>2. /\ file[k] \in Seq(1 .. NumberOfProjections)
        /\ data[k] \in Seq(1 .. FileProjections)
        /\ Len(file[k]) \in Nat
    BY LenProperties DEF TypeOK
  <2>3. /\ n \in 1 .. NumberOfProjections /\ n \in 1 .. Len(got)
        /\ got \in Seq(1 .. FileProjections) /\ Len(got) \in Nat
    <3>1. taken = Len(got) /\ taken \in 0 .. NumberOfProjections
            /\ got \in Seq(1 .. FileProjections)
      BY DEF IInv, Writing, TypeOK
    <3>2. Len(got) \in Nat
      BY <3>1, LenProperties
    <3> QED
      BY <1>b, <2>1, <2>2, <3>1, <3>2
  <2> HIDE DEF n
  <2>4. file'[k] = Append(file[k], n)
    BY <2>1 DEF TypeOK
  <2>5. /\ file'[k] \in Seq(1 .. NumberOfProjections)
        /\ Len(file'[k]) = Len(file[k]) + 1
    BY <2>2, <2>3, <2>4, AppendProperties, SMTT(30)
  <2>6. got[Len(file'[k])] \in 1 .. FileProjections
    BY <2>3, <2>5, ElementOfSeq DEF n
  <2>7. data'[k] = Append(data[k], got[Len(file'[k])])
    BY <2>1 DEF IInv, Writing, Engine!Outputs
  <2>8. data'[k] \in Seq(1 .. FileProjections)
    BY <2>2, <2>6, <2>7, AppendProperties
  <2>9. /\ \A v \in Engine!Streams : data'[v] \in Seq(1 .. FileProjections)
        /\ data'["volume"] = data["volume"]
    BY <2>1, <2>8 DEF TypeOK, Engine!Streams
  <2>10. file' \in [Engine!Streams -> Seq(1 .. NumberOfProjections)]
    BY <2>1, <2>4, <2>5 DEF TypeOK
  <2> QED
    BY <2>1, <2>9, <2>10 DEF TypeOK, readerVars
<1>5. CASE WriteSubvolume
  <2> DEFINE t     == Len(volumeFile)
             first == chunks[pass] + pieces[t]
             size  == DimsZ(pieces, ChunkDims(pass), Threads, t)
             p     == [j \in 1 .. size |->
                         [z |-> first + j - 1, whole |-> volumeFile'[t + 1]]]
             S     == [z : 0 .. config.slices - 1, whole : BOOLEAN]
  <2>1. /\ outcome = "running" /\ t < Threads
        /\ \E whole \in BOOLEAN : volumeFile' = Append(volumeFile, whole)
        /\ data' = [data EXCEPT !["volume"] = @ \o p]
        /\ UNCHANGED <<config, phase, pass, chunks, pieces, readerVars, got,
                       everFailed, wanted, taken, file, failed, outcome>>
    BY <1>5 DEF WriteSubvolume, Engine!WriteSubvolume, TypeOK
  <2>2. /\ t \in 0 .. Threads - 1
        /\ volumeFile' \in Seq(BOOLEAN) /\ volumeFile'[t + 1] \in BOOLEAN
    <3>1. volumeFile \in Seq(BOOLEAN) /\ t \in Nat
      BY LenProperties DEF TypeOK
    <3> QED
      BY <2>1, <3>1, ThreadsAssumption, AppendProperties
  <2>3. /\ size \in Nat /\ first \in Nat /\ first + size <= config.slices
    <3>1. /\ config \in Configs /\ chunks \in Divisions(config.slices, Passes)
          /\ pieces \in Divisions(ChunkDims(pass), Threads)
          /\ pass \in 0 .. Passes - 1 /\ ChunkDims(pass) \in Nat
      BY <2>1, PieceFacts DEF Divided
    <3>2. /\ chunks \in [0 .. Passes - 1 -> 0 .. config.slices]
          /\ pieces \in [0 .. Threads - 1 -> 0 .. ChunkDims(pass)]
      BY <3>1 DEF Divisions
    <3>3. /\ chunks[pass] \in 0 .. config.slices
          /\ pass + 1 < Passes => chunks[pass + 1] \in 0 .. config.slices
          /\ pieces[t] \in 0 .. ChunkDims(pass)
          /\ t + 1 < Threads => pieces[t + 1] \in 0 .. ChunkDims(pass)
      <4>1. pass + 1 < Passes => pass + 1 \in 0 .. Passes - 1
        BY <1>b, <3>1
      <4>2. t + 1 < Threads => t + 1 \in 0 .. Threads - 1
        BY <2>2, ThreadsAssumption
      <4> HIDE DEF t
      <4> QED
        BY <2>2, <3>1, <3>2, <4>1, <4>2
    <3>4. chunks[pass] + ChunkDims(pass)
            = IF pass + 1 < Passes THEN chunks[pass + 1] ELSE config.slices
      BY <2>1, PieceFacts
    <3>5. /\ size \in Nat
          /\ pieces[t] + size
               = IF t + 1 < Threads THEN pieces[t + 1] ELSE ChunkDims(pass)
      BY <2>1, <2>2, PieceFacts
    <3>6. chunks[pass] + ChunkDims(pass) <= config.slices
      BY <1>b, <3>1, <3>3, <3>4
    <3>7. pieces[t] + size <= ChunkDims(pass)
      <4> HIDE DEF size, t
      <4> QED
        BY <3>1, <3>3, <3>5
    <3> HIDE DEF size, t
    <3> QED
      BY <1>b, <3>1, <3>3, <3>5, <3>6, <3>7
  <2> HIDE DEF t, first, size
  <2>4. p \in [1 .. size -> S]
    <3> SUFFICES ASSUME NEW j \in 1 .. size
                 PROVE  [z |-> first + j - 1, whole |-> volumeFile'[t + 1]] \in S
      OBVIOUS
    <3>1. first + j - 1 \in 0 .. config.slices - 1
      BY <1>b, <2>3
    <3> QED
      BY <2>2, <3>1
  <2>5. p \in Seq(S)
    <3> HIDE DEF p, S
    <3> QED
      BY <2>3, <2>4, SeqDef
  <2> HIDE DEF p
  <2>6. data["volume"] \in Seq(S)
    BY DEF TypeOK
  <2>7. data["volume"] \o p \in Seq(S)
    <3> HIDE DEF S
    <3> QED
      BY <2>5, <2>6, ConcatProperties
  <2>8. /\ data'["volume"] \in Seq(S)
        /\ \A k \in Engine!Streams : data'[k] = data[k]
    BY <2>1, <2>7 DEF IInv, Writing, Engine!Outputs, Engine!Streams
  <2> QED
    BY <2>1, <2>2, <2>8 DEF TypeOK, readerVars
<1>6. CASE RewindFails
  BY <1>6 DEF RewindFails, TypeOK, readerVars, engineVars
<1>7. CASE Fail \/ Throw
  <2>1. /\ failed' \in BOOLEAN /\ outcome' \in {"running", "threw"}
        /\ phase' \in {phase, "threw"} /\ everFailed' \in BOOLEAN
        /\ UNCHANGED <<config, pass, chunks, pieces, readerVars, data, got,
                       wanted, taken, file, volumeFile>>
    BY <1>7 DEF Fail, Throw, Engine!Fail, Engine!Throw, TypeOK
  <2> QED
    BY <2>1 DEF TypeOK, readerVars
<1>8. CASE EndPass
  <2>1. /\ outcome' = "returned" /\ outcome = "running"
        /\ pass' = pass + 1
        /\ phase' \in {"returned", "passes"}
        /\ UNCHANGED <<config, chunks, pieces, readerVars, data, got, everFailed,
                       wanted, taken, file, volumeFile, failed>>
    BY <1>8 DEF EndPass, Engine!Return
  <2>2. pass \in Nat /\ pass < Passes
    BY <2>1 DEF Divided
  <2>3. pass' \in 0 .. config.slices
    BY <1>b, <2>1, <2>2
  <2> QED
    BY <2>1, <2>3 DEF TypeOK, readerVars
<1>9. CASE Ended \/ UNCHANGED vars
  <2>1. UNCHANGED vars
    BY <1>9 DEF Ended
  <2> QED
    BY <2>1 DEF vars, engineVars, readerVars, TypeOK
<1> QED
  BY <1>1, <1>2, <1>3, <1>4, <1>5, <1>6, <1>7, <1>8, <1>9 DEF Next

(* The launcher's variables have their types; so no pass reads beyond the   *)
(* end of the file or writes a slice that is not in the volume.             *)
THEOREM TypeCorrect == Spec => []TypeOK
<1>1. Spec => []Divided
  BY DividedInit, DividedStep, PTL DEF Spec
<1> QED
  BY <1>1, TypeInit, TypeStep, InductiveInvariant, PTL DEF Spec

-----------------------------------------------------------------------------
(* Lists and trees                                                         *)

(* A list, of whatever it is a list.                                        *)
IsList(e) == e \in Seq({e[i] : i \in DOMAIN e})

LEMMA ListOf ==
  ASSUME NEW S, NEW e \in Seq(S)
  PROVE  IsList(e) /\ Len(e) \in Nat /\ DOMAIN e = 1 .. Len(e)
<1>1. Len(e) \in Nat /\ DOMAIN e = 1 .. Len(e) /\ e = [i \in 1 .. Len(e) |-> e[i]]
  BY LenProperties
<1>2. e \in [1 .. Len(e) -> {e[i] : i \in DOMAIN e}]
  BY <1>1
<1> QED
  BY <1>1, <1>2, SeqDef DEF IsList

LEMMA ListIs ==
  ASSUME NEW e, IsList(e)
  PROVE  /\ Len(e) \in Nat /\ DOMAIN e = 1 .. Len(e)
         /\ \A S : (\A i \in DOMAIN e : e[i] \in S) => e \in Seq(S)
<1>1. Len(e) \in Nat /\ DOMAIN e = 1 .. Len(e) /\ e = [i \in 1 .. Len(e) |-> e[i]]
  BY LenProperties DEF IsList
<1>2. ASSUME NEW S, \A i \in DOMAIN e : e[i] \in S PROVE e \in Seq(S)
  <2>1. e \in [1 .. Len(e) -> S]
    BY <1>1, <1>2
  <2> QED
    BY <1>1, <2>1, SeqDef
<1> QED
  BY <1>1, <1>2

LEMMA IndexIs ==
  ASSUME NEW e, NEW k \in Keys(e)
  PROVE  IndexOf(e, k) \in DOMAIN e /\ e[IndexOf(e, k)].key = k
BY DEF Keys, IndexOf

(* Where a key is depends on the keys alone.                                *)
LEMMA SameIndex ==
  ASSUME NEW e, NEW f, NEW k,
         \A i : (i \in DOMAIN e /\ e[i].key = k) <=> (i \in DOMAIN f /\ f[i].key = k)
  PROVE  IndexOf(e, k) = IndexOf(f, k)
BY Zenon DEF IndexOf

(* The entry with a key.                                                    *)
EntryOf(e, k) == e[IndexOf(e, k)]

(* What u is, with the entry x put into e: its key has it, and no other has *)
(* changed.                                                                 *)
Upserted(e, x, u) ==
  /\ IsList(u)
  /\ Keys(u) = Keys(e) \cup {x.key}
  /\ EntryOf(u, x.key) = x
  /\ \A k \in Keys(e) \ {x.key} : EntryOf(u, k) = EntryOf(e, k)
  /\ \A i \in DOMAIN u : u[i] = x \/ \E j \in DOMAIN e : u[i] = e[j]

LEMMA UpsertIs ==
  ASSUME NEW e, IsList(e), NEW x
  PROVE  Upserted(e, x, Upsert(e, x))
<1> DEFINE u == Upsert(e, x)
<1>0. u = Upsert(e, x)
  OBVIOUS
<1> HIDE DEF u
<1> SUFFICES Upserted(e, x, u)
  BY <1>0
<1> DEFINE at == IndexOf(e, x.key)
           S == {e[i] : i \in DOMAIN e} \cup {x}
<1>1. Len(e) \in Nat /\ DOMAIN e = 1 .. Len(e) /\ e \in Seq(S)
  BY ListIs
<1>2. CASE x.key \in Keys(e)
  <2>1. at \in DOMAIN e /\ e[at].key = x.key
    BY <1>2, IndexIs
  <2> HIDE DEF at
  <2>2. u = [e EXCEPT ![at] = x]
    BY <1>0, <1>2 DEF Upsert, at
  <2>3. u \in Seq(S) /\ DOMAIN u = DOMAIN e
    BY <1>1, <2>1, <2>2, ExceptSeq
  <2>4. /\ u[at] = x
        /\ \A i \in DOMAIN e : i # at => u[i] = e[i]
    BY <2>1, <2>2
  <2>5. \A i \in DOMAIN e : u[i].key = e[i].key
    BY <2>1, <2>4
  <2>6. \A k : IndexOf(u, k) = IndexOf(e, k)
    <3> TAKE k
    <3>1. \A i : (i \in DOMAIN u /\ u[i].key = k) <=> (i \in DOMAIN e /\ e[i].key = k)
      BY <2>3, <2>5
    <3> QED
      BY <3>1, SameIndex
  <2>7. Keys(u) = Keys(e)
    BY <2>3, <2>5 DEF Keys
  <2>8. u[IndexOf(u, x.key)] = x
    BY <2>4, <2>6 DEF at
  <2>9. ASSUME NEW k \in Keys(e) \ {x.key} PROVE u[IndexOf(u, k)] = e[IndexOf(e, k)]
    <3>1. IndexOf(e, k) \in DOMAIN e /\ e[IndexOf(e, k)].key = k
      BY <2>9, IndexIs
    <3>2. IndexOf(e, k) # at
      BY <2>1, <2>9, <3>1
    <3> QED
      BY <2>4, <2>6, <3>1, <3>2
  <2>10. IsList(u)
    BY <2>3, ListOf
  <2> QED
    BY <1>2, <2>3, <2>4, <2>7, <2>8, <2>9, <2>10 DEF Upserted, EntryOf
<1>3. CASE x.key \notin Keys(e)
  <2>1. u = Append(e, x)
    BY <1>0, <1>3 DEF Upsert
  <2>2. /\ u \in Seq(S) /\ Len(u) = Len(e) + 1 /\ DOMAIN u = 1 .. Len(e) + 1
        /\ u[Len(e) + 1] = x
        /\ \A i \in DOMAIN e : u[i] = e[i]
    <3>1. x \in S /\ e \in Seq(S)
      BY <1>1
    <3> HIDE DEF S
    <3>2. /\ u \in Seq(S) /\ Len(u) = Len(e) + 1
          /\ \A i \in 1 .. Len(e) : u[i] = e[i]
          /\ u[Len(e) + 1] = x
      BY <2>1, <3>1, AppendProperties
    <3>3. DOMAIN u = 1 .. Len(u)
      BY <3>2, LenProperties
    <3> QED
      BY <1>1, <3>2, <3>3
  <2>3. \A i \in DOMAIN u : i \in DOMAIN e \/ i = Len(e) + 1
    BY <1>1, <2>2
  <2>4. \A i \in DOMAIN e : i \in DOMAIN u /\ e[i].key # x.key
    BY <1>1, <1>3, <2>2 DEF Keys
  <2>5. Len(e) + 1 \in DOMAIN u /\ Len(e) + 1 \notin DOMAIN e
    BY <1>1, <2>2
  <2> DEFINE n == Len(e) + 1
  <2> HIDE DEF n
  <2>6. Keys(u) = Keys(e) \cup {x.key}
    BY <2>2, <2>3, <2>4, <2>5 DEF Keys, n
  <2>7. u[IndexOf(u, x.key)] = x
    <3>1. IndexOf(u, x.key) \in DOMAIN u /\ u[IndexOf(u, x.key)].key = x.key
      BY <2>6, IndexIs
    <3> QED
      BY <2>2, <2>3, <2>4, <3>1
  <2>8. ASSUME NEW k \in Keys(e) \ {x.key} PROVE u[IndexOf(u, k)] = e[IndexOf(e, k)]
    <3>1. \A i : (i \in DOMAIN u /\ u[i].key = k) <=> (i \in DOMAIN e /\ e[i].key = k)
      BY <2>2, <2>3, <2>4, <2>5, <2>8
    <3>2. IndexOf(u, k) = IndexOf(e, k)
      BY <3>1, SameIndex
    <3> QED
      BY <2>2, <2>8, <3>2, IndexIs
  <2>9. IsList(u)
    BY <2>2, ListOf
  <2> QED
    BY <2>2, <2>3, <2>6, <2>7, <2>8, <2>9 DEF Upserted, EntryOf
<1> QED
  BY <1>2, <1>3

(* A tree: sections are lists, and so are their children.                   *)
IsTree(t) == IsList(t) /\ \A i \in DOMAIN t : IsList(t[i].children)

LEMMA EmptyList == IsList(<<>>) /\ Keys(<<>>) = {}
<1>1. <<>> \in Seq({}) /\ DOMAIN <<>> = {}
  BY EmptySeq
<1>2. IsList(<<>>)
  BY <1>1, ListOf
<1>3. Keys(<<>>) = {}
  BY <1>1 DEF Keys
<1> QED
  BY <1>2, <1>3

LEMMA ChildrenAreList ==
  ASSUME NEW t, IsTree(t), NEW s
  PROVE  IsList(Children(t, s))
<1>1. CASE s \in Keys(t)
  BY <1>1, IndexIs DEF IsTree, Children
<1>2. CASE s \notin Keys(t)
  BY <1>2, EmptyList DEF Children
<1> QED
  BY <1>1, <1>2

(* Put changes one section, and in it one key.                              *)
WithPut(t, s, k, v, u) ==
  /\ IsTree(u)
  /\ \A r : r # s => Children(u, r) = Children(t, r)
  /\ Has(u, <<s, k>>) /\ Get(u, <<s, k>>) = v
  /\ \A l : l # k => Has(u, <<s, l>>) = Has(t, <<s, l>>)
  /\ \A l : l # k /\ Has(t, <<s, l>>) => Get(u, <<s, l>>) = Get(t, <<s, l>>)

LEMMA PutIs ==
  ASSUME NEW t, IsTree(t), NEW s, NEW k, NEW v
  PROVE  WithPut(t, s, k, v, Put(t, <<s, k>>, v))
<1> DEFINE u == Put(t, <<s, k>>, v)
<1>0. u = Put(t, <<s, k>>, v)
  OBVIOUS
<1> HIDE DEF u
<1> SUFFICES WithPut(t, s, k, v, u)
  BY <1>0
<1> DEFINE leaf == [key |-> k, value |-> v]
           old == Children(t, s)
           new == Upsert(old, leaf)
           val == IF s \in Keys(t) THEN ValueOf(t, s) ELSE Word("")
           x == [key |-> s, value |-> val, children |-> new]
<1>1. u = Upsert(t, x)
  BY Zenon, <1>0 DEF Put
<1>2. x.key = s /\ x.children = new /\ leaf.key = k /\ leaf.value = v
  OBVIOUS
<1>3. IsList(old) /\ IsList(t) /\ new = Upsert(old, leaf)
  BY ChildrenAreList DEF IsTree
<1> HIDE DEF leaf, old, new, val, x
<1>4. /\ IsList(new)
      /\ Keys(new) = Keys(old) \cup {k}
      /\ EntryOf(new, k) = leaf
      /\ \A l : l \in Keys(old) /\ l # k => EntryOf(new, l) = EntryOf(old, l)
  <2>1. Upserted(old, leaf, new)
    BY <1>3, UpsertIs
  <2> QED
    BY <1>2, <2>1 DEF Upserted
<1>5. /\ IsList(u)
      /\ Keys(u) = Keys(t) \cup {s}
      /\ EntryOf(u, s) = x
      /\ \A r : r \in Keys(t) /\ r # s => EntryOf(u, r) = EntryOf(t, r)
      /\ \A i \in DOMAIN u : u[i] = x \/ \E j \in DOMAIN t : u[i] = t[j]
  <2>1. Upserted(t, x, u)
    BY <1>1, <1>3, UpsertIs
  <2> QED
    BY <1>2, <2>1 DEF Upserted
<1>6. IsTree(u)
  BY <1>2, <1>4, <1>5 DEF IsTree
<1>7. ASSUME NEW r, r # s PROVE Children(u, r) = Children(t, r)
  BY <1>5, <1>7 DEF Children, EntryOf
<1>8. Children(u, s) = new
  BY <1>2, <1>5 DEF Children, EntryOf
<1>9. \A l : Has(u, <<s, l>>) = (l \in Keys(new)) /\ Has(t, <<s, l>>) = (l \in Keys(old))
  BY <1>8 DEF Has, old
<1>10. \A l : /\ Get(u, <<s, l>>) = EntryOf(new, l).value
              /\ Get(t, <<s, l>>) = EntryOf(old, l).value
  BY <1>8 DEF Get, ValueOf, EntryOf, old
<1>11. Has(u, <<s, k>>) /\ Get(u, <<s, k>>) = v
  BY <1>2, <1>4, <1>9, <1>10
<1>12. \A l : l # k => Has(u, <<s, l>>) = Has(t, <<s, l>>)
  BY <1>4, <1>9
<1>13. \A l : l # k /\ Has(t, <<s, l>>) => Get(u, <<s, l>>) = Get(t, <<s, l>>)
  <2> HIDE DEF old
  <2> QED
    BY <1>4, <1>9, <1>10
<1> QED
  BY <1>6, <1>7, <1>11, <1>12, <1>13 DEF WithPut

(* From t to u, no section but s has changed, and in it, apart from the keys*)
(* in but, what was there is still there.                                   *)
Grows(t, u, s, but) ==
  /\ IsTree(u)
  /\ \A r : r # s => Children(u, r) = Children(t, r)
  /\ \A k : k \notin but /\ Has(t, <<s, k>>)
              => Has(u, <<s, k>>) /\ Get(u, <<s, k>>) = Get(t, <<s, k>>)

LEMMA GrowsNot ==
  ASSUME NEW t, IsTree(t), NEW s, NEW but
  PROVE  Grows(t, t, s, but)
BY DEF Grows

LEMMA GrowsOn ==
  ASSUME NEW t, NEW u, NEW v, NEW s, NEW but, Grows(t, u, s, but), Grows(u, v, s, but)
  PROVE  Grows(t, v, s, but)
BY DEF Grows

LEMMA GrowsMore ==
  ASSUME NEW t, NEW u, NEW s, NEW but, Grows(t, u, s, {})
  PROVE  Grows(t, u, s, but)
BY DEF Grows

LEMMA ElsewhereIs ==
  ASSUME NEW t, NEW u, NEW s, NEW but, Grows(t, u, s, but), NEW r, r # s, NEW k
  PROVE  Has(u, <<r, k>>) = Has(t, <<r, k>>) /\ Get(u, <<r, k>>) = Get(t, <<r, k>>)
BY DEF Grows, Has, Get

(* In the tree, there is a value of so many numbers.                        *)
Found(t, s, k, n) == Has(t, <<s, k>>) /\ ReadsAs(Get(t, <<s, k>>), n)

LEMMA StillFound ==
  ASSUME NEW t, NEW u, NEW s, NEW but, Grows(t, u, s, but),
         NEW r, NEW k, r # s \/ k \notin but, NEW n, Found(t, r, k, n)
  PROVE  Found(u, r, k, n)
<1>1. CASE r = s
  BY <1>1 DEF Grows, Found
<1>2. CASE r # s
  BY <1>2, ElsewhereIs DEF Found
<1> QED
  BY <1>1, <1>2

-----------------------------------------------------------------------------
(* A configuration in the making                                           *)
IsConf(c) == c = [outcome |-> c.outcome, tree |-> c.tree] /\ IsTree(c.tree)

(* What a step may do in a section.                                         *)
Did(c, d, s, but) ==
  /\ IsConf(d)
  /\ d.outcome = "ok" => c.outcome = "ok" /\ Grows(c.tree, d.tree, s, but)

LEMMA DidOn ==
  ASSUME NEW c, NEW d, NEW e, NEW s, NEW but, Did(c, d, s, but), Did(d, e, s, but)
  PROVE  Did(c, e, s, but)
BY GrowsOn DEF Did

LEMMA DidMore ==
  ASSUME NEW c, NEW d, NEW s, NEW but, Did(c, d, s, {})
  PROVE  Did(c, d, s, but)
BY GrowsMore DEF Did

LEMMA DidNothing ==
  ASSUME NEW c, IsConf(c), NEW s, NEW but
  PROVE  Did(c, c, s, but)
BY GrowsNot DEF Did, IsConf

LEMMA Died ==
  ASSUME NEW c, IsConf(c), NEW s, NEW but
  PROVE  Did(c, Dies(c), s, but) /\ Dies(c).outcome # "ok"
<1>1. Dies(c) = [outcome |-> "dies", tree |-> c.tree]
  BY DEF Dies, IsConf
<1>2. Dies(c).outcome = "dies" /\ Dies(c).tree = c.tree
  BY <1>1
<1>3. IsConf(Dies(c))
  BY <1>1 DEF IsConf
<1> QED
  BY <1>2, <1>3 DEF Did

(* A refusal, if wrong is so.                                               *)
Refused(c, d, wrong) == d.outcome = "ok" => c.outcome = "ok" /\ d = c /\ ~wrong

LEMMA RefuseIs ==
  ASSUME NEW c, IsConf(c), NEW wrong \in BOOLEAN, NEW s, NEW but
  PROVE  /\ Did(c, Refuse(c, wrong), s, but)
         /\ Refused(c, Refuse(c, wrong), wrong)
<1>1. CASE c.outcome = "ok" /\ wrong
  <2>1. Refuse(c, wrong) = Dies(c)
    BY <1>1 DEF Refuse
  <2> QED
    BY <2>1, Died DEF Refused
<1>2. CASE ~(c.outcome = "ok" /\ wrong)
  <2>1. Refuse(c, wrong) = c
    BY <1>2 DEF Refuse
  <2> QED
    BY <1>2, <2>1, DidNothing DEF Refused
<1> QED
  BY <1>1, <1>2

LEMMA KnownKeysIs ==
  ASSUME NEW c, IsConf(c), NEW section, NEW s, NEW but
  PROVE  /\ Did(c, KnownKeys(c, section), s, but)
         /\ Refused(c, KnownKeys(c, section), FALSE)
<1> DEFINE wrong == ~(Keys(Children(c.tree, section)) \subseteq ValidKeys[section])
<1>1. wrong \in BOOLEAN
  BY Zenon
<1>2. KnownKeys(c, section) = Refuse(c, wrong)
  BY DEF KnownKeys
<1> HIDE DEF wrong
<1> QED
  BY <1>1, <1>2, RefuseIs DEF Refused

(* Required: found, and the configuration as it was.                        *)
LEMMA RequireIs ==
  ASSUME NEW c, IsConf(c), NEW s, NEW k, NEW n, NEW but
  PROVE  LET d == Require(c, <<s, k>>, n) IN
         /\ Did(c, d, s, but)
         /\ d.outcome = "ok" => d = c /\ Found(d.tree, s, k, n)
<1> DEFINE wrong == ~(Has(c.tree, <<s, k>>) /\ ReadsAs(Get(c.tree, <<s, k>>), n))
           d == Require(c, <<s, k>>, n)
<1>1. d = Refuse(c, wrong) /\ wrong \in BOOLEAN
  BY DEF Require
<1>2. ~wrong => Found(c.tree, s, k, n)
  BY DEF Found
<1> HIDE DEF wrong, d
<1>3. Did(c, d, s, but) /\ Refused(c, d, wrong)
  BY <1>1, RefuseIs
<1>4. d.outcome = "ok" => d = c /\ Found(d.tree, s, k, n)
  BY <1>2, <1>3 DEF Refused
<1> QED
  BY <1>3, <1>4 DEF d

(* Optional: found, the user's or the default.                              *)
LEMMA OptionalIs ==
  ASSUME NEW c, IsConf(c), NEW s, NEW k, NEW default
  PROVE  LET d == Optional(c, <<s, k>>, default) IN
         /\ Did(c, d, s, {})
         /\ d.outcome = "ok" => Found(d.tree, s, k, Len(default.numbers))
<1> DEFINE d == Optional(c, <<s, k>>, default)
           v == Get(c.tree, <<s, k>>)
<1>1. CASE c.outcome # "ok"
  <2>1. d = c
    BY <1>1 DEF Optional
  <2> QED
    BY <1>1, <2>1, DidNothing
<1>2. CASE c.outcome = "ok" /\ Has(c.tree, <<s, k>>)
  <2> DEFINE wrong == ~ReadsAs(v, Len(default.numbers))
  <2>1. d = Refuse(c, wrong) /\ wrong \in BOOLEAN
    BY <1>2 DEF Optional
  <2> HIDE DEF wrong, d
  <2>2. Did(c, d, s, {}) /\ Refused(c, d, wrong)
    BY <2>1, RefuseIs
  <2>3. d.outcome = "ok" => Found(d.tree, s, k, Len(default.numbers))
    BY <1>2, <2>2 DEF Refused, Found, wrong
  <2> QED
    BY <2>2, <2>3 DEF d
<1>3. CASE c.outcome = "ok" /\ ~Has(c.tree, <<s, k>>)
  <2> DEFINE u == Put(c.tree, <<s, k>>, default)
  <2>1. d = [c EXCEPT !.tree = u]
    BY <1>3 DEF Optional
  <2>2. WithPut(c.tree, s, k, default, u)
    BY PutIs DEF IsConf
  <2> HIDE DEF u, d
  <2>3. d = [outcome |-> "ok", tree |-> u]
    BY <1>3, <2>1 DEF IsConf
  <2>4. d.outcome = "ok" /\ d.tree = u
    BY <2>3
  <2>5. IsConf(d)
    BY <2>2, <2>3, <2>4 DEF IsConf, WithPut
  <2>6. Grows(c.tree, u, s, {})
    BY <1>3, <2>2 DEF Grows, WithPut
  <2>7. Found(u, s, k, Len(default.numbers))
    BY <2>2 DEF WithPut, Found, ReadsAs
  <2>8. Did(c, d, s, {}) /\ (d.outcome = "ok" => Found(d.tree, s, k, Len(default.numbers)))
    BY <1>3, <2>4, <2>5, <2>6, <2>7 DEF Did
  <2> QED
    BY <2>8 DEF d
<1> QED
  BY <1>1, <1>2, <1>3

(* A word that is one of the choices.                                       *)
Chosen(t, s, k, choices) ==
  Has(t, <<s, k>>) /\ Get(t, <<s, k>>) \in {Word(w) : w \in choices}

LEMMA ChoiceIs ==
  ASSUME NEW c, IsConf(c), NEW s, NEW k, NEW default, NEW choices
  PROVE  LET d == Choice(c, <<s, k>>, default, choices) IN
         /\ Did(c, d, s, {})
         /\ d.outcome = "ok" => Chosen(d.tree, s, k, choices)
<1> DEFINE d == Choice(c, <<s, k>>, default, choices)
           b == Optional(c, <<s, k>>, Word(default))
           wrong == b.outcome = "ok" /\ Get(b.tree, <<s, k>>) \notin {Word(w) : w \in choices}
<1>1. d = Refuse(b, wrong) /\ wrong \in BOOLEAN
  BY DEF Choice, OneOf
<1>2. Did(c, b, s, {}) /\ (b.outcome = "ok" => Has(b.tree, <<s, k>>))
  BY OptionalIs DEF Found
<1>3. b.outcome = "ok" /\ ~wrong => Get(b.tree, <<s, k>>) \in {Word(w) : w \in choices}
  OBVIOUS
<1> HIDE DEF d, b, wrong
<1>4. IsConf(b)
  BY <1>2 DEF Did
<1>5. Did(b, d, s, {}) /\ Refused(b, d, wrong)
  BY <1>1, <1>4, RefuseIs
<1>6. Did(c, d, s, {})
  BY <1>2, <1>5, DidOn
<1>7. d.outcome = "ok" => Chosen(d.tree, s, k, choices)
  BY <1>2, <1>3, <1>5 DEF Refused, Chosen
<1> QED
  BY <1>6, <1>7 DEF d

LEMMA OneNumber ==
  ASSUME NEW x
  PROVE  Len(Numbers(<<x>>).numbers) = 1
BY DEF Numbers

LEMMA ThreeNumbers ==
  ASSUME NEW x, NEW y, NEW z
  PROVE  Len(Numbers(<<x, y, z>>).numbers) = 3
BY DEF Numbers

LEMMA AWord ==
  ASSUME NEW w
  PROVE  Len(Word(w).numbers) = 0
BY DEF Word

(* The optional value of one number, of three, or of a word.                *)
LEMMA OptionalNumberIs ==
  ASSUME NEW c, IsConf(c), NEW s, NEW k, NEW x
  PROVE  LET d == Optional(c, <<s, k>>, Numbers(<<x>>)) IN
         /\ Did(c, d, s, {})
         /\ d.outcome = "ok" => Found(d.tree, s, k, 1)
BY OptionalIs, OneNumber

LEMMA OptionalNumbersAre ==
  ASSUME NEW c, IsConf(c), NEW s, NEW k, NEW x, NEW y, NEW z
  PROVE  LET d == Optional(c, <<s, k>>, Numbers(<<x, y, z>>)) IN
         /\ Did(c, d, s, {})
         /\ d.outcome = "ok" => Found(d.tree, s, k, 3)
BY OptionalIs, ThreeNumbers

LEMMA OptionalWordIs ==
  ASSUME NEW c, IsConf(c), NEW s, NEW k, NEW w
  PROVE  LET d == Optional(c, <<s, k>>, Word(w)) IN
         /\ Did(c, d, s, {})
         /\ d.outcome = "ok" => Found(d.tree, s, k, 0)
BY OptionalIs, AWord

LEMMA FoundThen ==
  ASSUME NEW c, NEW d, NEW s, NEW but, Did(c, d, s, but), d.outcome = "ok",
         NEW r, NEW k, r # s \/ k \notin but, NEW n, Found(c.tree, r, k, n)
  PROVE  Found(d.tree, r, k, n)
BY StillFound DEF Did

LEMMA ChosenThen ==
  ASSUME NEW c, NEW d, NEW s, NEW but, Did(c, d, s, but), d.outcome = "ok",
         NEW r, NEW k, r # s \/ k \notin but, NEW choices, Chosen(c.tree, r, k, choices)
  PROVE  Chosen(d.tree, r, k, choices)
<1>1. CASE r = s
  BY <1>1 DEF Grows, Did, Chosen
<1>2. CASE r # s
  BY <1>2, ElsewhereIs DEF Chosen, Did
<1> QED
  BY <1>1, <1>2

-----------------------------------------------------------------------------
(* The sections                                                            *)

LEMMA CentredIs ==
  ASSUME NEW c, IsConf(c)
  PROVE  LET d == Centred(c) IN
         /\ Did(c, d, "Projections", {})
         /\ d.outcome = "ok" => /\ Found(d.tree, "Projections", "CenterPixelU", 1)
                                /\ Found(d.tree, "Projections", "OffsetV", 1)
<1> DEFINE d == Centred(c)
           n(i) == Get(c.tree, <<"Projections", "Dimensions">>).numbers[i]
           size(i) == Get(c.tree, <<"Projections", "PixelSize">>).numbers[i]
           x == n(1) - 1
           y == -((size(2) * (n(2) - 1)) \div 2)
           b == Optional(c, <<"Projections", "CenterPixelU">>, Numbers(<<x>>))
           e == Optional(b, <<"Projections", "OffsetV">>, Numbers(<<y>>))
<1>1. d = IF c.outcome # "ok" THEN c ELSE e
  BY DEF Centred
<1> HIDE DEF x, y, n, size
<1>2. Did(c, b, "Projections", {})
  BY OptionalNumberIs
<1>3. b.outcome = "ok" => Found(b.tree, "Projections", "CenterPixelU", 1)
  BY OptionalNumberIs
<1> HIDE DEF b
<1>4. IsConf(b)
  BY <1>2 DEF Did
<1>5. Did(b, e, "Projections", {}) /\ (e.outcome = "ok" => Found(e.tree, "Projections", "OffsetV", 1))
  BY <1>4, OptionalNumberIs
<1> HIDE DEF e, d
<1>6. e.outcome = "ok" => b.outcome = "ok"
  BY <1>5 DEF Did
<1>7. e.outcome = "ok" => Found(e.tree, "Projections", "CenterPixelU", 1)
  BY <1>3, <1>5, <1>6, FoundThen
<1>8. Did(c, e, "Projections", {})
  BY <1>2, <1>5, DidOn
<1>9. CASE c.outcome # "ok"
  <2>1. d = c /\ d.outcome # "ok"
    BY <1>1, <1>9
  <2> QED
    BY <2>1, DidNothing DEF d
<1>10. CASE c.outcome = "ok"
  <2>1. d = e
    BY <1>1, <1>10
  <2> QED
    BY <2>1, <1>5, <1>7, <1>8 DEF d
<1> QED
  BY <1>9, <1>10

-----------------------------------------------------------------------------
(* What is found of the projections and of the volume                      *)

(* What is found of the projections.                                        *)
ProjectionsFound(t) ==
  LET found(k, n) == Found(t, "Projections", k, n) IN
  /\ found("Dimensions", 2) /\ found("PixelSize", 2)
  /\ found("NumberOfProjections", 1) /\ found("DataType", 0)
  /\ found("CenterPixelU", 1) /\ found("OffsetV", 1)

LEMMA ProjectionsStillFound ==
  ASSUME NEW c, NEW d, NEW s, NEW but, Did(c, d, s, but), d.outcome = "ok",
         s # "Projections" \/ but = {}, ProjectionsFound(c.tree)
  PROVE  ProjectionsFound(d.tree)
<1>1. \A k, n : Found(c.tree, "Projections", k, n) => Found(d.tree, "Projections", k, n)
  BY FoundThen
<1> QED
  BY <1>1 DEF ProjectionsFound

LEMMA VerifyProjectionsIs ==
  ASSUME NEW c, IsConf(c)
  PROVE  LET d == VerifyProjections(c) IN
         /\ Did(c, d, "Projections", {})
         /\ d.outcome = "ok" => ProjectionsFound(d.tree)
<1> DEFINE P == "Projections"
           c1 == Require(c, <<P, "Dimensions">>, 2)
           c2 == Require(c1, <<P, "NumberOfProjections">>, 1)
           c3 == Require(c2, <<P, "DataType">>, 0)
           c4 == Require(c3, <<P, "PixelSize">>, 2)
           unknown == Get(c4.tree, <<P, "DataType">>).word \notin Types
           c5 == Refuse(c4, unknown)
           c6 == Centred(c5)
           c7 == Choice(c6, <<P, "ReverseRotation">>, "False", {"True", "False"})
           c8 == Optional(c7, <<P, "ProjectionAt180">>, Word("True"))
           c9 == KnownKeys(c8, P)
<1>1. VerifyProjections(c) = c9
  BY Zenon DEF VerifyProjections, KnownType
<1>2. unknown \in BOOLEAN
  OBVIOUS
<1>3. Did(c, c1, P, {}) /\ (c1.outcome = "ok" => c1 = c /\ Found(c1.tree, P, "Dimensions", 2))
  BY RequireIs
<1> HIDE DEF c1
<1>4. /\ Did(c1, c2, P, {})
      /\ c2.outcome = "ok" => c2 = c1 /\ Found(c2.tree, P, "NumberOfProjections", 1)
  BY <1>3, RequireIs DEF Did
<1> HIDE DEF c2
<1>5. Did(c2, c3, P, {}) /\ (c3.outcome = "ok" => c3 = c2 /\ Found(c3.tree, P, "DataType", 0))
  BY <1>4, RequireIs DEF Did
<1> HIDE DEF c3
<1>6. Did(c3, c4, P, {}) /\ (c4.outcome = "ok" => c4 = c3 /\ Found(c4.tree, P, "PixelSize", 2))
  BY <1>5, RequireIs DEF Did
<1> HIDE DEF c4, unknown
<1>7. Did(c4, c5, P, {}) /\ (c5.outcome = "ok" => c5 = c4)
  BY <1>2, <1>6, RefuseIs DEF Did, Refused
<1> HIDE DEF c5
<1>8. /\ Did(c5, c6, P, {})
      /\ c6.outcome = "ok" => /\ Found(c6.tree, P, "CenterPixelU", 1)
                              /\ Found(c6.tree, P, "OffsetV", 1)
  BY <1>7, CentredIs DEF Did
<1> HIDE DEF c6
<1>9. Did(c6, c7, P, {})
  BY <1>8, ChoiceIs DEF Did
<1> HIDE DEF c7
<1>10. Did(c7, c8, P, {})
  BY <1>9, OptionalWordIs DEF Did
<1> HIDE DEF c8
<1>11. Did(c8, c9, P, {})
  BY <1>10, KnownKeysIs DEF Did
<1> HIDE DEF c9
<1>12. Did(c6, c9, P, {}) /\ Did(c5, c9, P, {}) /\ Did(c, c5, P, {})
  BY <1>3, <1>4, <1>5, <1>6, <1>7, <1>8, <1>9, <1>10, <1>11, DidOn
<1>13. Did(c, c9, P, {})
  BY <1>12, DidOn
<1>14. ASSUME c9.outcome = "ok" PROVE ProjectionsFound(c9.tree)
  <2>1. c6.outcome = "ok" /\ c5.outcome = "ok"
    BY <1>12, <1>14 DEF Did
  <2>2. c4.outcome = "ok" /\ c3.outcome = "ok" /\ c2.outcome = "ok" /\ c1.outcome = "ok"
    BY <2>1, <1>4, <1>5, <1>6, <1>7 DEF Did
  <2>3. /\ Found(c5.tree, P, "Dimensions", 2) /\ Found(c5.tree, P, "NumberOfProjections", 1)
        /\ Found(c5.tree, P, "DataType", 0) /\ Found(c5.tree, P, "PixelSize", 2)
    BY <1>3, <1>4, <1>5, <1>6, <1>7, <2>1, <2>2
  <2>4. \A k, n : Found(c5.tree, P, k, n) => Found(c9.tree, P, k, n)
    BY <1>12, <1>14, FoundThen
  <2>5. \A k, n : Found(c6.tree, P, k, n) => Found(c9.tree, P, k, n)
    BY <1>12, <1>14, FoundThen
  <2> QED
    BY <1>8, <2>1, <2>3, <2>4, <2>5 DEF ProjectionsFound
<1> QED
  BY <1>1, <1>13, <1>14

(* What is found of the volume, if there is to be one.                      *)
VolumeFound(t) ==
  Has(t, <<"Output", "VolumeFile">>) =>
    /\ Found(t, "Volume", "VoxelSize", 3)
    /\ Found(t, "Volume", "Dimensions", 3)
    /\ Found(t, "Volume", "Origin", 3)

LEMMA SizedIs ==
  ASSUME NEW c, IsConf(c)
  PROVE  LET d == Sized(c) IN
         /\ Did(c, d, "Volume", {})
         /\ d.outcome = "ok" => Found(d.tree, "Volume", "VoxelSize", 3)
<1> DEFINE pixel(i) == Get(c.tree, <<"Projections", "PixelSize">>).numbers[i]
           x == pixel(2)
           a == Require(c, <<"Volume", "VoxelSize">>, 3)
           b == Optional(c, <<"Volume", "VoxelSize">>, Numbers(<<x, x, x>>))
<1>1. Sized(c) = a \/ Sized(c) = b
  BY Zenon DEF Sized
<1> HIDE DEF x
<1>2. Did(c, a, "Volume", {}) /\ (a.outcome = "ok" => Found(a.tree, "Volume", "VoxelSize", 3))
  BY RequireIs
<1>3. Did(c, b, "Volume", {}) /\ (b.outcome = "ok" => Found(b.tree, "Volume", "VoxelSize", 3))
  BY OptionalNumbersAre
<1> QED
  BY <1>1, <1>2, <1>3

LEMMA FilledIs ==
  ASSUME NEW c, IsConf(c)
  PROVE  LET d == Filled(c) IN
         /\ Did(c, d, "Volume", {})
         /\ d.outcome = "ok" => Found(d.tree, "Volume", "Dimensions", 3)
<1> DEFINE of(k, d)  == Get(c.tree, <<"Projections", k>>).numbers[d]
           axis(d)   == IF d = 3 THEN 2 ELSE 1
           extent(d) == of("Dimensions", axis(d)) * of("PixelSize", axis(d))
           voxel(d)  == Get(c.tree, <<"Volume", "VoxelSize">>).numbers[d]
           x == [d \in 1 .. 3 |-> (2 * extent(d) + voxel(d)) \div (2 * voxel(d))]
           b == Optional(c, <<"Volume", "Dimensions">>, Numbers(x))
<1>1. Filled(c) = IF c.outcome # "ok" THEN c ELSE b
  BY Zenon DEF Filled
<1>2. Len(x) = 3
  OBVIOUS
<1> HIDE DEF x
<1>3. Len(Numbers(x).numbers) = 3
  BY <1>2 DEF Numbers
<1>4. Did(c, b, "Volume", {}) /\ (b.outcome = "ok" => Found(b.tree, "Volume", "Dimensions", 3))
  BY <1>3, OptionalIs
<1> HIDE DEF b
<1> QED
  BY <1>1, <1>4, DidNothing

LEMMA OnAxisIs ==
  ASSUME NEW c, IsConf(c)
  PROVE  LET d == OnAxis(c) IN
         /\ Did(c, d, "Volume", {})
         /\ d.outcome = "ok" => Found(d.tree, "Volume", "Origin", 3)
<1> DEFINE of(k, d) == Get(c.tree, <<"Volume", k>>).numbers[d]
           x == [d \in 1 .. 3 |-> -(((of("Dimensions", d) - 1) * of("VoxelSize", d)) \div 2)]
           b == Optional(c, <<"Volume", "Origin">>, Numbers(x))
<1>1. OnAxis(c) = IF c.outcome # "ok" THEN c ELSE b
  BY Zenon DEF OnAxis
<1>2. Len(x) = 3
  OBVIOUS
<1> HIDE DEF x
<1>3. Len(Numbers(x).numbers) = 3
  BY <1>2 DEF Numbers
<1>4. Did(c, b, "Volume", {}) /\ (b.outcome = "ok" => Found(b.tree, "Volume", "Origin", 3))
  BY <1>3, OptionalIs
<1> HIDE DEF b
<1> QED
  BY <1>1, <1>4, DidNothing

LEMMA VerifyVolumeIs ==
  ASSUME NEW c, IsConf(c)
  PROVE  LET d == VerifyVolume(c) IN
         /\ Did(c, d, "Volume", {})
         /\ d.outcome = "ok" => VolumeFound(d.tree)
<1> DEFINE V == "Volume"
           asked == Has(c.tree, <<"Output", "VolumeFile">>)
           c1 == Sized(c)
           c2 == Filled(c1)
           c3 == OnAxis(c2)
           d  == VerifyVolume(c)
<1>1. d = IF asked THEN KnownKeys(c3, V) ELSE KnownKeys(c, V)
  BY Zenon DEF VerifyVolume
<1>2. Did(c, c1, V, {}) /\ (c1.outcome = "ok" => Found(c1.tree, V, "VoxelSize", 3))
  BY SizedIs
<1> HIDE DEF c1
<1>3. Did(c1, c2, V, {}) /\ (c2.outcome = "ok" => Found(c2.tree, V, "Dimensions", 3))
  BY <1>2, FilledIs DEF Did
<1> HIDE DEF c2
<1>4. Did(c2, c3, V, {}) /\ (c3.outcome = "ok" => Found(c3.tree, V, "Origin", 3))
  BY <1>3, OnAxisIs DEF Did
<1> HIDE DEF c3, d
<1>5. ASSUME d.outcome = "ok", Did(c, d, V, {})
      PROVE  Has(d.tree, <<"Output", "VolumeFile">>) = asked
  <2>1. Grows(c.tree, d.tree, V, {})
    BY <1>5 DEF Did
  <2> QED
    BY <2>1, ElsewhereIs
<1> HIDE DEF asked
<1>6. CASE asked
  <2>1. Did(c3, d, V, {}) /\ Refused(c3, d, FALSE)
    BY <1>1, <1>4, <1>6, KnownKeysIs DEF Did
  <2>2. Did(c, c2, V, {}) /\ Did(c2, d, V, {}) /\ Did(c1, d, V, {})
    BY <1>2, <1>3, <1>4, <2>1, DidOn
  <2>3. Did(c, d, V, {})
    BY <2>2, DidOn
  <2>4. ASSUME d.outcome = "ok" PROVE VolumeFound(d.tree)
    <3>1. c3.outcome = "ok" /\ c2.outcome = "ok" /\ c1.outcome = "ok"
      BY <2>1, <2>2, <2>4 DEF Did
    <3>2. Found(d.tree, V, "VoxelSize", 3)
      BY <1>2, <2>2, <2>4, <3>1, FoundThen
    <3>3. Found(d.tree, V, "Dimensions", 3)
      BY <1>3, <2>2, <2>4, <3>1, FoundThen
    <3>4. Found(d.tree, V, "Origin", 3)
      BY <1>4, <2>1, <2>4, <3>1, FoundThen
    <3> QED
      BY <3>2, <3>3, <3>4 DEF VolumeFound
  <2> QED
    BY <2>3, <2>4 DEF d
<1>7. CASE ~asked
  <2>1. Did(c, d, V, {})
    BY <1>1, <1>7, KnownKeysIs
  <2>2. d.outcome = "ok" => ~Has(d.tree, <<"Output", "VolumeFile">>)
    BY <1>5, <1>7, <2>1
  <2> QED
    BY <2>1, <2>2 DEF d, VolumeFound
<1> QED
  BY <1>6, <1>7

-----------------------------------------------------------------------------
(* The corrections and filters                                             *)

LEMMA WordsDiffer ==
  ASSUME NEW w, NEW v, w # v
  PROVE  Word(w) # Word(v)
<1>1. Word(w).word = w /\ Word(v).word = v
  BY DEF Word
<1> QED
  BY <1>1

BadPixelsFound(t) ==
  /\ Has(t, <<"Reconstruction", "BadPixelCorrection">>)
  /\ Get(t, <<"Reconstruction", "BadPixelCorrection">>) = Word("Averaging")
       => Found(t, "Reconstruction", "FlatFieldBadThreshold", 1)

LEMMA VerifyBadPixelCorrectionIs ==
  ASSUME NEW c, IsConf(c)
  PROVE  LET d == VerifyBadPixelCorrection(c) IN
         /\ Did(c, d, "Reconstruction", {})
         /\ d.outcome = "ok" => BadPixelsFound(d.tree)
<1> DEFINE R == "Reconstruction"
           K == "BadPixelCorrection"
           b == Choice(c, <<R, K>>, "Averaging", {"Averaging", "None"})
           e == Optional(b, <<R, "FlatFieldBadThreshold">>, Numbers(<<20>>))
           d == VerifyBadPixelCorrection(c)
<1>1. d = IF b.outcome # "ok" \/ Get(b.tree, <<R, K>>) = Word("None") THEN b ELSE e
  BY Zenon DEF VerifyBadPixelCorrection, Threshold
<1>2. Did(c, b, R, {}) /\ (b.outcome = "ok" => Chosen(b.tree, R, K, {"Averaging", "None"}))
  BY ChoiceIs
<1> HIDE DEF b
<1>3. Did(b, e, R, {}) /\ (e.outcome = "ok" => Found(e.tree, R, "FlatFieldBadThreshold", 1))
  BY <1>2, OptionalNumberIs DEF Did
<1> HIDE DEF e, d
<1>4. Did(c, d, R, {})
  BY <1>1, <1>2, <1>3, DidOn
<1>5. ASSUME d.outcome = "ok" PROVE BadPixelsFound(d.tree)
  <2>1. CASE Get(b.tree, <<R, K>>) = Word("None")
    <3>1. d = b
      BY <1>1, <2>1
    <3>2. Word("None") # Word("Averaging")
      BY WordsDiffer
    <3> QED
      BY <1>2, <1>5, <2>1, <3>1, <3>2 DEF BadPixelsFound, Chosen
  <2>2. CASE Get(b.tree, <<R, K>>) # Word("None")
    <3>1. b.outcome = "ok" /\ d = e
      BY <1>1, <1>3, <1>5, <2>2 DEF Did
    <3>2. Chosen(e.tree, R, K, {"Averaging", "None"})
      BY <1>2, <1>3, <1>5, <3>1, ChosenThen
    <3> QED
      BY <1>3, <1>5, <3>1, <3>2 DEF BadPixelsFound, Chosen
  <2> QED
    BY <2>1, <2>2
<1> QED
  BY <1>4, <1>5 DEF d

LEMMA RenamedIs ==
  ASSUME NEW c, IsConf(c)
  PROVE  LET d == Renamed(c) IN
         /\ Did(c, d, "Reconstruction", {"BeamPowerCorrection"})
         /\ c.outcome = "ok" /\ Has(c.tree, <<"Reconstruction", "BeamPowerCorrection">>)
              => Has(d.tree, <<"Reconstruction", "BeamPowerCorrection">>)
<1> DEFINE R == "Reconstruction"
           K == "BeamPowerCorrection"
           v == Word("NullProjectionEdge")
           u == Put(c.tree, <<R, K>>, v)
           old == c.outcome = "ok" /\ Get(c.tree, <<R, K>>) = Word("ZeroProjectionEdgeAttenuation")
           d == Renamed(c)
<1>1. d = IF old THEN [c EXCEPT !.tree = u] ELSE c
  BY Zenon DEF Renamed
<1> HIDE DEF v, d
<1>2. CASE ~old
  <2>1. d = c
    BY <1>1, <1>2
  <2> QED
    BY <2>1, DidNothing DEF d
<1>3. CASE old
  <2>1. WithPut(c.tree, R, K, v, u)
    BY PutIs DEF IsConf
  <2> HIDE DEF u
  <2>2. d = [outcome |-> "ok", tree |-> u]
    BY <1>1, <1>3 DEF IsConf
  <2>3. d.outcome = "ok" /\ d.tree = u
    BY <2>2
  <2>4. IsConf(d)
    BY <2>1, <2>2, <2>3 DEF IsConf, WithPut
  <2>5. Grows(c.tree, u, R, {K}) /\ Has(u, <<R, K>>)
    BY <2>1 DEF Grows, WithPut
  <2>6. Did(c, d, R, {K}) /\ Has(d.tree, <<R, K>>)
    BY <1>3, <2>3, <2>4, <2>5 DEF Did
  <2> QED
    BY <2>6 DEF d
<1> QED
  BY <1>2, <1>3

(* What is found for the correction of the beam.                            *)
BeamFound(t) ==
  LET B == Get(t, <<"Reconstruction", "BeamPowerCorrection">>)
      found(k) == Found(t, "Reconstruction", k, 1)
  IN  /\ Has(t, <<"Reconstruction", "BeamPowerCorrection">>)
      /\ B \in {Word("Manual"), Word("BeforeAndAfterBrightField"), Word("ConstantTotalAttenuation")}
           => found("BeamPowerDecayConstantTerm")
      /\ B = Word("Manual") => found("BeamPowerDecayLinearTerm")
      /\ B = Word("NullProjectionEdge") => found("ProjectionBackgroundEdgeWidth")

LEMMA BeamPowerTermsAre ==
  ASSUME NEW c, IsConf(c),
         c.outcome = "ok" => Has(c.tree, <<"Reconstruction", "BeamPowerCorrection">>)
  PROVE  LET d == BeamPowerTerms(c) IN
         /\ Did(c, d, "Reconstruction", {})
         /\ d.outcome = "ok" => BeamFound(d.tree)
<1> DEFINE R == "Reconstruction"
           B == Get(c.tree, <<R, "BeamPowerCorrection">>)
           zero == Optional(c, <<R, "BeamPowerDecayConstantTerm">>, Numbers(<<0>>))
           edge == Optional(c, <<R, "ProjectionBackgroundEdgeWidth">>, Numbers(<<20>>))
           manual == Require(zero, <<R, "BeamPowerDecayLinearTerm">>, 1)
           bare == ~Has(c.tree, <<"Input", "PostScanBrightFieldFile">>)
           fields == Refuse(zero, bare)
           clash == Has(c.tree, <<R, "BeamPowerDecayConstantTerm">>)
           null == Refuse(edge, clash)
           d == BeamPowerTerms(c)
<1>1. d = IF c.outcome # "ok" \/ B = Word("None") THEN c
          ELSE IF B = Word("Manual") THEN manual
          ELSE IF B = Word("BeforeAndAfterBrightField") THEN fields
          ELSE IF B = Word("NullProjectionEdge") THEN null
          ELSE IF B = Word("ConstantTotalAttenuation") THEN zero
          ELSE Dies(c)
  BY Zenon DEF BeamPowerTerms
<1>2. bare \in BOOLEAN /\ clash \in BOOLEAN
  BY DEF Has
<1>3. Did(c, zero, R, {}) /\ (zero.outcome = "ok" => Found(zero.tree, R, "BeamPowerDecayConstantTerm", 1))
  BY OptionalNumberIs
<1>4. Did(c, edge, R, {}) /\ (edge.outcome = "ok" => Found(edge.tree, R, "ProjectionBackgroundEdgeWidth", 1))
  BY OptionalNumberIs
<1> HIDE DEF zero, edge, bare, clash
<1>5. Did(zero, manual, R, {})
      /\ (manual.outcome = "ok" => manual = zero /\ Found(manual.tree, R, "BeamPowerDecayLinearTerm", 1))
  BY <1>3, RequireIs DEF Did
<1>6. Did(zero, fields, R, {}) /\ (fields.outcome = "ok" => fields = zero)
  BY <1>2, <1>3, RefuseIs DEF Did, Refused
<1>7. Did(edge, null, R, {}) /\ (null.outcome = "ok" => null = edge)
  BY <1>2, <1>4, RefuseIs DEF Did, Refused
<1>8. Did(c, c, R, {}) /\ Did(c, Dies(c), R, {}) /\ Dies(c).outcome # "ok"
  BY Died, DidNothing
<1> HIDE DEF manual, fields, null, d
<1>9. Did(c, manual, R, {}) /\ Did(c, fields, R, {}) /\ Did(c, null, R, {})
  BY <1>3, <1>4, <1>5, <1>6, <1>7, DidOn
<1>10. Did(c, d, R, {})
  BY <1>1, <1>3, <1>8, <1>9
<1>11. ASSUME d.outcome = "ok" PROVE BeamFound(d.tree)
  <2>1. c.outcome = "ok" /\ Grows(c.tree, d.tree, R, {})
    BY <1>10, <1>11 DEF Did
  <2>2. /\ Has(d.tree, <<R, "BeamPowerCorrection">>)
        /\ Get(d.tree, <<R, "BeamPowerCorrection">>) = B
    BY <2>1 DEF Grows
  <2> HIDE DEF B
  <2>3. /\ Word("None") # Word("Manual") /\ Word("None") # Word("BeforeAndAfterBrightField")
        /\ Word("None") # Word("ConstantTotalAttenuation") /\ Word("None") # Word("NullProjectionEdge")
        /\ Word("Manual") # Word("BeforeAndAfterBrightField")
        /\ Word("Manual") # Word("ConstantTotalAttenuation") /\ Word("Manual") # Word("NullProjectionEdge")
        /\ Word("BeforeAndAfterBrightField") # Word("ConstantTotalAttenuation")
        /\ Word("BeforeAndAfterBrightField") # Word("NullProjectionEdge")
        /\ Word("ConstantTotalAttenuation") # Word("NullProjectionEdge")
    BY WordsDiffer
  <2>4. CASE B = Word("None")
    BY <2>2, <2>3, <2>4 DEF BeamFound
  <2>5. CASE B = Word("Manual")
    <3>1. d = manual
      BY <1>1, <2>1, <2>3, <2>5
    <3> QED
      BY <1>3, <1>5, <1>11, <2>2, <2>3, <2>5, <3>1 DEF BeamFound
  <2>6. CASE B = Word("BeforeAndAfterBrightField")
    <3>1. d = fields
      BY <1>1, <2>1, <2>3, <2>6
    <3> QED
      BY <1>3, <1>6, <1>11, <2>2, <2>3, <2>6, <3>1 DEF BeamFound
  <2>7. CASE B = Word("NullProjectionEdge")
    <3>1. d = null
      BY <1>1, <2>1, <2>3, <2>7
    <3> QED
      BY <1>4, <1>7, <1>11, <2>2, <2>3, <2>7, <3>1 DEF BeamFound
  <2>8. CASE B = Word("ConstantTotalAttenuation")
    <3>1. d = zero
      BY <1>1, <2>1, <2>3, <2>8
    <3> QED
      BY <1>3, <1>11, <2>2, <2>3, <2>8, <3>1 DEF BeamFound
  <2>9. B \in {Word("None"), Word("Manual"), Word("BeforeAndAfterBrightField"),
               Word("NullProjectionEdge"), Word("ConstantTotalAttenuation")}
    BY <1>1, <1>8, <1>11, <2>1
  <2> QED
    BY <2>4, <2>5, <2>6, <2>7, <2>8, <2>9
<1> QED
  BY <1>10, <1>11 DEF d

LEMMA VerifyBeamPowerCorrectionIs ==
  ASSUME NEW c, IsConf(c)
  PROVE  LET d == VerifyBeamPowerCorrection(c) IN
         /\ Did(c, d, "Reconstruction", {"BeamPowerCorrection"})
         /\ d.outcome = "ok" => BeamFound(d.tree)
<1> DEFINE R == "Reconstruction"
           but == {"BeamPowerCorrection"}
           a == Optional(c, <<R, "BeamPowerCorrection">>, Word("None"))
           b == Renamed(a)
           d == BeamPowerTerms(b)
<1>1. VerifyBeamPowerCorrection(c) = d
  BY Zenon DEF VerifyBeamPowerCorrection
<1>2. Did(c, a, R, {}) /\ (a.outcome = "ok" => Has(a.tree, <<R, "BeamPowerCorrection">>))
  BY OptionalWordIs DEF Found
<1> HIDE DEF a
<1>3. /\ Did(a, b, R, but)
      /\ a.outcome = "ok" => Has(b.tree, <<R, "BeamPowerCorrection">>)
  BY <1>2, RenamedIs DEF Did
<1> HIDE DEF b
<1>4. b.outcome = "ok" => Has(b.tree, <<R, "BeamPowerCorrection">>)
  BY <1>3 DEF Did
<1>5. Did(b, d, R, {}) /\ (d.outcome = "ok" => BeamFound(d.tree))
  BY <1>3, <1>4, BeamPowerTermsAre DEF Did
<1> HIDE DEF d, but
<1>6. Did(c, a, R, but) /\ Did(b, d, R, but)
  BY <1>2, <1>5, DidMore
<1>7. Did(c, d, R, but)
  BY <1>3, <1>6, DidOn
<1> QED
  BY <1>1, <1>5, <1>7 DEF but

(* What is found for the filter.                                            *)
Smoothings == {"None", "Gaussian", "TaperedCosineWindow"}

SmoothingFound(t) ==
  /\ Chosen(t, "Reconstruction", "SmoothingFilter", Smoothings)
  /\ Get(t, <<"Reconstruction", "SmoothingFilter">>) = Word("Gaussian")
       => Found(t, "Reconstruction", "SmoothingFilterRadius", 1)
  /\ Get(t, <<"Reconstruction", "SmoothingFilter">>) = Word("TaperedCosineWindow")
       => Found(t, "Reconstruction", "SmoothingFilterFrequencies", 2)

LEMMA VerifySmoothingIs ==
  ASSUME NEW c, IsConf(c)
  PROVE  LET d == VerifySmoothing(c) IN
         /\ Did(c, d, "Reconstruction", {})
         /\ d.outcome = "ok" => SmoothingFound(d.tree)
<1> DEFINE R == "Reconstruction"
           K == "SmoothingFilter"
           b == Choice(c, <<R, K>>, "Gaussian", Smoothings)
           S == Get(b.tree, <<R, K>>)
           radius == Optional(b, <<R, "SmoothingFilterRadius">>, Numbers(<<1>>))
           clash1 == Has(b.tree, <<R, "SmoothingFilterFrequencies">>)
           gauss == Refuse(radius, clash1)
           window == Require(b, <<R, "SmoothingFilterFrequencies">>, 2)
           clash2 == Has(b.tree, <<R, "SmoothingFilterRadius">>)
           taper == Refuse(window, clash2)
           d == VerifySmoothing(c)
<1>1. d = IF b.outcome # "ok" \/ S = Word("None") THEN b
          ELSE IF S = Word("Gaussian") THEN gauss ELSE taper
  BY Zenon DEF VerifySmoothing, SmoothingTerms, Smoothings
<1>2. clash1 \in BOOLEAN /\ clash2 \in BOOLEAN
  BY DEF Has
<1>3. Did(c, b, R, {}) /\ (b.outcome = "ok" => Chosen(b.tree, R, K, Smoothings))
  BY ChoiceIs
<1> HIDE DEF b, clash1, clash2
<1>4. Did(b, radius, R, {}) /\ (radius.outcome = "ok" => Found(radius.tree, R, "SmoothingFilterRadius", 1))
  BY <1>3, OptionalNumberIs DEF Did
<1>5. Did(b, window, R, {}) /\ (window.outcome = "ok" => Found(window.tree, R, "SmoothingFilterFrequencies", 2))
  BY <1>3, RequireIs DEF Did
<1> HIDE DEF radius, window
<1>6. Did(radius, gauss, R, {}) /\ (gauss.outcome = "ok" => gauss = radius)
  BY <1>2, <1>4, RefuseIs DEF Did, Refused
<1>7. Did(window, taper, R, {}) /\ (taper.outcome = "ok" => taper = window)
  BY <1>2, <1>5, RefuseIs DEF Did, Refused
<1> HIDE DEF gauss, taper, d
<1>8. Did(b, gauss, R, {}) /\ Did(b, taper, R, {}) /\ Did(b, b, R, {})
  BY <1>3, <1>4, <1>5, <1>6, <1>7, DidOn, DidNothing DEF Did
<1>9. Did(b, d, R, {})
  BY <1>1, <1>8
<1>10. Did(c, d, R, {})
  BY <1>3, <1>9, DidOn
<1>11. ASSUME d.outcome = "ok" PROVE SmoothingFound(d.tree)
  <2>1. b.outcome = "ok" /\ Grows(b.tree, d.tree, R, {})
    BY <1>9, <1>11 DEF Did
  <2>2. Chosen(d.tree, R, K, Smoothings)
    BY <1>3, <1>9, <1>11, <2>1, ChosenThen
  <2>3. Get(d.tree, <<R, K>>) = S
    BY <1>3, <2>1 DEF Grows, Chosen
  <2>4. S \in {Word("None"), Word("Gaussian"), Word("TaperedCosineWindow")}
    BY <1>3, <2>1 DEF Chosen, Smoothings
  <2> HIDE DEF S
  <2>5. /\ Word("None") # Word("Gaussian") /\ Word("None") # Word("TaperedCosineWindow")
        /\ Word("Gaussian") # Word("TaperedCosineWindow")
    BY WordsDiffer
  <2>6. CASE S = Word("None")
    BY <2>2, <2>3, <2>5, <2>6 DEF SmoothingFound
  <2>7. CASE S = Word("Gaussian")
    <3>1. d = gauss
      BY <1>1, <2>1, <2>5, <2>7
    <3> QED
      BY <1>4, <1>6, <1>11, <2>2, <2>3, <2>5, <2>7, <3>1 DEF SmoothingFound
  <2>8. CASE S = Word("TaperedCosineWindow")
    <3>1. d = taper
      BY <1>1, <2>1, <2>5, <2>8
    <3> QED
      BY <1>5, <1>7, <1>11, <2>2, <2>3, <2>5, <2>8, <3>1 DEF SmoothingFound
  <2> QED
    BY <2>4, <2>6, <2>7, <2>8
<1> QED
  BY <1>10, <1>11 DEF d

LEMMA ValueThen ==
  ASSUME NEW c, NEW d, NEW s, NEW but, Did(c, d, s, but), d.outcome = "ok",
         NEW r, NEW k, r # s \/ k \notin but, Has(c.tree, <<r, k>>)
  PROVE  Has(d.tree, <<r, k>>) /\ Get(d.tree, <<r, k>>) = Get(c.tree, <<r, k>>)
<1>1. CASE r = s
  BY <1>1 DEF Grows, Did
<1>2. CASE r # s
  BY <1>2, ElsewhereIs DEF Did
<1> QED
  BY <1>1, <1>2

LEMMA BadPixelsStillFound ==
  ASSUME NEW c, NEW d, NEW s, NEW but, Did(c, d, s, but), d.outcome = "ok",
         but \subseteq {"BeamPowerCorrection"}, BadPixelsFound(c.tree)
  PROVE  BadPixelsFound(d.tree)
<1> DEFINE R == "Reconstruction"
<1>1. "BadPixelCorrection" \notin but /\ "FlatFieldBadThreshold" \notin but
  OBVIOUS
<1>2. /\ Has(d.tree, <<R, "BadPixelCorrection">>)
      /\ Get(d.tree, <<R, "BadPixelCorrection">>) = Get(c.tree, <<R, "BadPixelCorrection">>)
  BY <1>1, ValueThen DEF BadPixelsFound
<1>3. Found(c.tree, R, "FlatFieldBadThreshold", 1) => Found(d.tree, R, "FlatFieldBadThreshold", 1)
  BY <1>1, FoundThen
<1> QED
  BY <1>2, <1>3 DEF BadPixelsFound

LEMMA BeamStillFound ==
  ASSUME NEW c, NEW d, NEW s, Did(c, d, s, {}), d.outcome = "ok", BeamFound(c.tree)
  PROVE  BeamFound(d.tree)
<1> DEFINE R == "Reconstruction"
<1>1. /\ Has(d.tree, <<R, "BeamPowerCorrection">>)
      /\ Get(d.tree, <<R, "BeamPowerCorrection">>) = Get(c.tree, <<R, "BeamPowerCorrection">>)
  BY ValueThen DEF BeamFound
<1>2. \A k : Found(c.tree, R, k, 1) => Found(d.tree, R, k, 1)
  BY FoundThen
<1> QED
  BY <1>1, <1>2 DEF BeamFound

LEMMA SmoothingStillFound ==
  ASSUME NEW c, NEW d, NEW s, Did(c, d, s, {}), d.outcome = "ok", SmoothingFound(c.tree)
  PROVE  SmoothingFound(d.tree)
<1> DEFINE R == "Reconstruction"
<1>1. Get(d.tree, <<R, "SmoothingFilter">>) = Get(c.tree, <<R, "SmoothingFilter">>)
  BY ValueThen DEF SmoothingFound, Chosen
<1>2. Chosen(d.tree, R, "SmoothingFilter", Smoothings)
  BY ChosenThen DEF SmoothingFound
<1>3. \A k, n : Found(c.tree, R, k, n) => Found(d.tree, R, k, n)
  BY FoundThen
<1> QED
  BY <1>1, <1>2, <1>3 DEF SmoothingFound

Interpolations == {"Bilinear", "NearestNeighbor", "BilinearWithFallback"}

(* What is found for the reconstruction.                                    *)
ReconstructionFound(t) ==
  /\ Has(t, <<"Input", "RawProjectionsFile">>) => BadPixelsFound(t) /\ BeamFound(t)
  /\ SmoothingFound(t)
  /\ Has(t, <<"Output", "VolumeFile">>)
       => Chosen(t, "Reconstruction", "PixelInterpolation", Interpolations)

LEMMA ReconstructionStillFound ==
  ASSUME NEW c, NEW d, NEW s, Did(c, d, s, {}), d.outcome = "ok",
         s \notin {"Input", "Output"}, ReconstructionFound(c.tree)
  PROVE  ReconstructionFound(d.tree)
<1>1. Grows(c.tree, d.tree, s, {})
  BY DEF Did
<1>2. /\ Has(d.tree, <<"Input", "RawProjectionsFile">>) = Has(c.tree, <<"Input", "RawProjectionsFile">>)
      /\ Has(d.tree, <<"Output", "VolumeFile">>) = Has(c.tree, <<"Output", "VolumeFile">>)
  BY <1>1, ElsewhereIs
<1>3. BadPixelsFound(c.tree) => BadPixelsFound(d.tree)
  BY BadPixelsStillFound
<1>4. BeamFound(c.tree) => BeamFound(d.tree)
  BY BeamStillFound
<1>5. SmoothingFound(c.tree) => SmoothingFound(d.tree)
  BY SmoothingStillFound
<1>6. Chosen(c.tree, "Reconstruction", "PixelInterpolation", Interpolations)
        => Chosen(d.tree, "Reconstruction", "PixelInterpolation", Interpolations)
  BY ChosenThen
<1> QED
  BY <1>2, <1>3, <1>4, <1>5, <1>6 DEF ReconstructionFound

LEMMA VerifyReconstructionIs ==
  ASSUME NEW c, IsConf(c)
  PROVE  LET d == VerifyReconstruction(c) IN
         /\ Did(c, d, "Reconstruction", {"BeamPowerCorrection"})
         /\ d.outcome = "ok" => ReconstructionFound(d.tree)
<1> DEFINE R == "Reconstruction"
           but == {"BeamPowerCorrection"}
           raw(t) == Has(t, <<"Input", "RawProjectionsFile">>)
           volume(t) == Has(t, <<"Output", "VolumeFile">>)
           b == VerifyBadPixelCorrection(c)
           e == IF raw(c.tree) THEN VerifyBeamPowerCorrection(b) ELSE c
           f == Choice(e, <<R, "PixelInterpolation">>, "BilinearWithFallback", Interpolations)
           g == IF volume(e.tree) THEN f ELSE e
           h == VerifySmoothing(g)
           d == KnownKeys(h, R)
<1>1. VerifyReconstruction(c) = d
  BY Zenon DEF VerifyReconstruction, Interpolated, Interpolations
<1>2. Did(c, b, R, {}) /\ (b.outcome = "ok" => BadPixelsFound(b.tree))
  BY VerifyBadPixelCorrectionIs
<1> HIDE DEF b
<1>3. Did(c, e, R, but) /\ (e.outcome = "ok" /\ raw(c.tree) => BadPixelsFound(e.tree) /\ BeamFound(e.tree))
  <2>1. CASE ~raw(c.tree)
    <3>1. e = c
      BY <2>1
    <3> QED
      BY <2>1, <3>1, DidNothing
  <2>2. CASE raw(c.tree)
    <3>1. e = VerifyBeamPowerCorrection(b)
      BY <2>2
    <3> HIDE DEF e
    <3>2. Did(b, e, R, but) /\ (e.outcome = "ok" => BeamFound(e.tree))
      BY <1>2, <3>1, VerifyBeamPowerCorrectionIs DEF Did
    <3>3. e.outcome = "ok" => b.outcome = "ok"
      BY <3>2 DEF Did
    <3>4. e.outcome = "ok" => BadPixelsFound(e.tree)
      BY <1>2, <3>2, <3>3, BadPixelsStillFound
    <3>5. Did(c, b, R, but)
      BY <1>2, DidMore
    <3>6. Did(c, e, R, but)
      BY <3>2, <3>5, DidOn
    <3> QED
      BY <3>2, <3>4, <3>6
  <2> QED
    BY <2>1, <2>2
<1> HIDE DEF e
<1>4. Did(e, f, R, {}) /\ (f.outcome = "ok" => Chosen(f.tree, R, "PixelInterpolation", Interpolations))
  BY <1>3, ChoiceIs DEF Did
<1> HIDE DEF f
<1>5. Did(e, e, R, {})
  BY <1>3, DidNothing DEF Did
<1>6. /\ Did(e, g, R, {})
      /\ g.outcome = "ok" /\ volume(e.tree) => Chosen(g.tree, R, "PixelInterpolation", Interpolations)
  BY <1>4, <1>5
<1> HIDE DEF g
<1>7. Did(g, h, R, {}) /\ (h.outcome = "ok" => SmoothingFound(h.tree))
  BY <1>6, VerifySmoothingIs DEF Did
<1> HIDE DEF h
<1>8. Did(h, d, R, {}) /\ Refused(h, d, FALSE)
  BY <1>7, KnownKeysIs DEF Did
<1> HIDE DEF d
<1>9. Did(g, d, R, {})
  BY <1>7, <1>8, DidOn
<1>10. Did(e, d, R, {})
  BY <1>6, <1>9, DidOn
<1>11. Did(c, d, R, but)
  <2>1. Did(e, d, R, but)
    BY <1>10, DidMore
  <2> QED
    BY <1>3, <2>1, DidOn
<1>12. ASSUME d.outcome = "ok" PROVE ReconstructionFound(d.tree)
  <2>1. e.outcome = "ok" /\ g.outcome = "ok" /\ h.outcome = "ok"
    BY <1>8, <1>9, <1>10, <1>12 DEF Did
  <2>2. raw(d.tree) = raw(c.tree)
    <3>1. Grows(c.tree, d.tree, R, but)
      BY <1>11, <1>12 DEF Did
    <3> QED
      BY <3>1, ElsewhereIs
  <2>3. volume(d.tree) = volume(e.tree)
    <3>1. Grows(e.tree, d.tree, R, {})
      BY <1>10, <1>12 DEF Did
    <3> QED
      BY <3>1, ElsewhereIs
  <2> HIDE DEF raw, volume
  <2>4. raw(d.tree) => BadPixelsFound(d.tree)
    BY <1>3, <1>10, <1>12, <2>1, <2>2, BadPixelsStillFound
  <2>5. raw(d.tree) => BeamFound(d.tree)
    BY <1>3, <1>10, <1>12, <2>1, <2>2, BeamStillFound
  <2>6. SmoothingFound(d.tree)
    BY <1>7, <1>8, <1>12, <2>1, SmoothingStillFound
  <2>7. volume(d.tree) => Chosen(d.tree, R, "PixelInterpolation", Interpolations)
    BY <1>6, <1>9, <1>12, <2>1, <2>3, ChosenThen
  <2> QED
    BY <2>4, <2>5, <2>6, <2>7 DEF ReconstructionFound, raw, volume
<1> QED
  BY <1>1, <1>11, <1>12 DEF but

-----------------------------------------------------------------------------
(* The software                                                            *)

Engines == {"SingleThreaded", "MultiThreaded"}

(* A number of threads, or the word.                                        *)
ThreadsFound(t) ==
  /\ Has(t, <<"Software", "Threads">>)
  /\ \/ Get(t, <<"Software", "Threads">>) = Word("Automatic")
     \/ ReadsAs(Get(t, <<"Software", "Threads">>), 1)

SoftwareFound(t, libraries) ==
  /\ Chosen(t, "Software", "Engine", Engines)
  /\ Get(t, <<"Software", "Engine">>) = Word("MultiThreaded") => ThreadsFound(t)
  /\ Has(t, <<"Output", "VolumeFile">>) => Found(t, "Software", "MaximumVolumeMemory", 0)
  /\ ~Has(t, <<"Input", "FilteredProjectionsFile">>)
       => Chosen(t, "Software", "FilteringModule", libraries \cup {"RealSpaceConvolution"})

LEMMA WithThreadsIs ==
  ASSUME NEW c, IsConf(c), c.outcome = "ok" => Has(c.tree, <<"Software", "Engine">>)
  PROVE  LET d == WithThreads(c) IN
         /\ Did(c, d, "Software", {})
         /\ d.outcome = "ok" /\ Get(d.tree, <<"Software", "Engine">>) = Word("MultiThreaded")
              => ThreadsFound(d.tree)
<1> DEFINE S == "Software"
           E == Get(c.tree, <<S, "Engine">>)
           b == Optional(c, <<S, "Threads">>, Word("Automatic"))
           n == Get(b.tree, <<S, "Threads">>)
           few == n.numbers[1] < 1
           wrong == b.outcome = "ok" /\ n # Word("Automatic") /\ (~ReadsAs(n, 1) \/ few)
           e == Refuse(b, wrong)
           d == WithThreads(c)
<1>1. d = IF c.outcome # "ok" \/ E # Word("MultiThreaded") THEN c ELSE e
  BY Zenon DEF WithThreads, Threaded
<1>2. wrong \in BOOLEAN
  OBVIOUS
<1>3. Did(c, b, S, {}) /\ (b.outcome = "ok" => Has(b.tree, <<S, "Threads">>))
  BY OptionalWordIs DEF Found
<1> HIDE DEF b, few
<1>4. b.outcome = "ok" /\ ~wrong => ThreadsFound(b.tree)
  BY <1>3 DEF ThreadsFound
<1> HIDE DEF wrong
<1>5. Did(b, e, S, {}) /\ Refused(b, e, wrong)
  BY <1>2, <1>3, RefuseIs DEF Did
<1> HIDE DEF e, d
<1>6. Did(c, e, S, {}) /\ Did(c, c, S, {})
  BY <1>3, <1>5, DidOn, DidNothing
<1>7. Did(c, d, S, {})
  BY <1>1, <1>6
<1>8. ASSUME d.outcome = "ok", Get(d.tree, <<S, "Engine">>) = Word("MultiThreaded")
      PROVE  ThreadsFound(d.tree)
  <2>1. c.outcome = "ok"
    BY <1>7, <1>8 DEF Did
  <2>2. Get(d.tree, <<S, "Engine">>) = E
    BY <1>7, <1>8, <2>1, ValueThen
  <2>3. d = e
    BY <1>1, <1>8, <2>1, <2>2
  <2> QED
    BY <1>4, <1>5, <1>8, <2>3 DEF Refused
<1> QED
  BY <1>7, <1>8 DEF d

LEMMA ThreadsStillFound ==
  ASSUME NEW c, NEW d, NEW s, Did(c, d, s, {}), d.outcome = "ok", ThreadsFound(c.tree)
  PROVE  ThreadsFound(d.tree)
<1>1. /\ Has(d.tree, <<"Software", "Threads">>)
      /\ Get(d.tree, <<"Software", "Threads">>) = Get(c.tree, <<"Software", "Threads">>)
  BY ValueThen DEF ThreadsFound
<1> QED
  BY <1>1 DEF ThreadsFound

LEMMA VerifySoftwareIs ==
  ASSUME NEW c, IsConf(c), NEW libraries
  PROVE  LET d == VerifySoftware(c, libraries) IN
         /\ Did(c, d, "Software", {})
         /\ d.outcome = "ok" => SoftwareFound(d.tree, libraries)
<1> DEFINE S == "Software"
           modules == libraries \cup {"RealSpaceConvolution"}
           default == IF "vDSP" \in libraries THEN "vDSP"
                      ELSE IF "FFTW" \in libraries THEN "FFTW" ELSE "RealSpaceConvolution"
           volume(t) == Has(t, <<"Output", "VolumeFile">>)
           filtered(t) == Has(t, <<"Input", "FilteredProjectionsFile">>)
           c1 == Choice(c, <<S, "Engine">>, "MultiThreaded", Engines)
           c2 == WithThreads(c1)
           m  == Optional(c2, <<S, "MaximumVolumeMemory">>, Word("Automatic"))
           c3 == IF volume(c2.tree) THEN m ELSE c2
           f  == Choice(c3, <<S, "FilteringModule">>, default, modules)
           c4 == IF filtered(c3.tree) THEN c3 ELSE f
           d  == KnownKeys(c4, S)
<1>1. VerifySoftware(c, libraries) = d
  BY Zenon DEF VerifySoftware, WithMemory, WithFilters, Engines
<1> HIDE DEF default, modules
<1>2. Did(c, c1, S, {}) /\ (c1.outcome = "ok" => Chosen(c1.tree, S, "Engine", Engines))
  BY ChoiceIs
<1> HIDE DEF c1
<1>3. c1.outcome = "ok" => Has(c1.tree, <<S, "Engine">>)
  BY <1>2 DEF Chosen
<1>4. /\ Did(c1, c2, S, {})
      /\ c2.outcome = "ok" /\ Get(c2.tree, <<S, "Engine">>) = Word("MultiThreaded")
           => ThreadsFound(c2.tree)
  BY <1>2, <1>3, WithThreadsIs DEF Did
<1> HIDE DEF c2
<1>5. Did(c2, m, S, {}) /\ (m.outcome = "ok" => Found(m.tree, S, "MaximumVolumeMemory", 0))
  BY <1>4, OptionalWordIs DEF Did
<1>6. Did(c2, c2, S, {})
  BY <1>4, DidNothing DEF Did
<1> HIDE DEF m
<1>7. /\ Did(c2, c3, S, {})
      /\ c3.outcome = "ok" /\ volume(c2.tree) => Found(c3.tree, S, "MaximumVolumeMemory", 0)
  BY <1>5, <1>6
<1> HIDE DEF c3
<1>8. Did(c3, f, S, {}) /\ (f.outcome = "ok" => Chosen(f.tree, S, "FilteringModule", modules))
  BY <1>7, ChoiceIs DEF Did
<1>9. Did(c3, c3, S, {})
  BY <1>7, DidNothing DEF Did
<1> HIDE DEF f
<1>10. /\ Did(c3, c4, S, {})
       /\ c4.outcome = "ok" /\ ~filtered(c3.tree) => Chosen(c4.tree, S, "FilteringModule", modules)
  BY <1>8, <1>9
<1> HIDE DEF c4
<1>11. Did(c4, d, S, {})
  BY <1>10, KnownKeysIs DEF Did
<1> HIDE DEF d
<1>12. Did(c3, d, S, {})
  BY <1>10, <1>11, DidOn
<1>13. Did(c2, d, S, {})
  BY <1>7, <1>12, DidOn
<1>14. Did(c1, d, S, {})
  BY <1>4, <1>13, DidOn
<1>15. Did(c, d, S, {})
  BY <1>2, <1>14, DidOn
<1>16. ASSUME d.outcome = "ok" PROVE SoftwareFound(d.tree, libraries)
  <2>1. c1.outcome = "ok" /\ c2.outcome = "ok" /\ c3.outcome = "ok" /\ c4.outcome = "ok"
    BY <1>11, <1>12, <1>13, <1>14, <1>16 DEF Did
  <2>2. Chosen(d.tree, S, "Engine", Engines)
    BY <1>2, <1>14, <1>16, <2>1, ChosenThen
  <2>3. Get(d.tree, <<S, "Engine">>) = Get(c2.tree, <<S, "Engine">>)
    <3>1. Has(c2.tree, <<S, "Engine">>)
      BY <1>3, <1>4, <2>1, ValueThen
    <3> QED
      BY <1>13, <1>16, <3>1, ValueThen
  <2>4. Get(d.tree, <<S, "Engine">>) = Word("MultiThreaded") => ThreadsFound(d.tree)
    BY <1>4, <1>13, <1>16, <2>1, <2>3, ThreadsStillFound
  <2>5. volume(d.tree) = volume(c2.tree)
    <3>1. Grows(c2.tree, d.tree, S, {})
      BY <1>13, <1>16 DEF Did
    <3> QED
      BY <3>1, ElsewhereIs
  <2>6. filtered(d.tree) = filtered(c3.tree)
    <3>1. Grows(c3.tree, d.tree, S, {})
      BY <1>12, <1>16 DEF Did
    <3> QED
      BY <3>1, ElsewhereIs
  <2>7. volume(c2.tree) => Found(d.tree, S, "MaximumVolumeMemory", 0)
    BY <1>7, <1>12, <1>16, <2>1, FoundThen
  <2>8. ~filtered(c3.tree) => Chosen(d.tree, S, "FilteringModule", modules)
    BY <1>10, <1>11, <1>16, <2>1, ChosenThen
  <2> QED
    BY <2>2, <2>4, <2>5, <2>6, <2>7, <2>8 DEF SoftwareFound, modules
<1> QED
  BY <1>1, <1>15, <1>16

-----------------------------------------------------------------------------
(* The whole configuration                                                 *)

(* All that is found of a verified configuration.                           *)
AllFound(t, libraries) ==
  /\ ProjectionsFound(t) /\ VolumeFound(t)
  /\ ReconstructionFound(t) /\ SoftwareFound(t, libraries)

LEMMA VolumeStillFound ==
  ASSUME NEW c, NEW d, NEW s, NEW but, Did(c, d, s, but), d.outcome = "ok",
         s # "Output", s # "Volume", VolumeFound(c.tree)
  PROVE  VolumeFound(d.tree)
<1>1. Has(d.tree, <<"Output", "VolumeFile">>) = Has(c.tree, <<"Output", "VolumeFile">>)
  BY ElsewhereIs DEF Did
<1>2. \A k : Found(c.tree, "Volume", k, 3) => Found(d.tree, "Volume", k, 3)
  BY FoundThen
<1> QED
  BY <1>1, <1>2 DEF VolumeFound

LEMMA VerifyConfigurationIs ==
  ASSUME NEW c, IsConf(c), NEW libraries
  PROVE  LET d == VerifyConfiguration(c, libraries) IN
         /\ IsConf(d)
         /\ d.outcome = "ok" => c.outcome = "ok" /\ AllFound(d.tree, libraries)
<1> DEFINE inputs == Cardinality(Given(c.tree)) # 1
           c1 == Refuse(c, inputs)
           c2 == VerifyInput(c)
           clash == LET in(k)  == <<"Input", k \o "ProjectionsFile">>
                        out(k) == <<"Output", k \o "ProjectionsFile">>
                    IN  \/ HasBoth(c2, in("Attenuation"), out("Attenuation"))
                        \/ HasBoth(c2, in("Filtered"), out("Filtered"))
                        \/ HasBoth(c2, in("Filtered"), out("Attenuation"))
           c3 == Refuse(c2, clash)
           c4 == VerifyOutput(c2)
           c5 == VerifyProjections(c4)
           c6 == VerifyVolume(c5)
           c7 == VerifyReconstruction(c6)
           c8 == VerifySoftware(c7, libraries)
           strange == ~(Keys(c8.tree) \subseteq DOMAIN ValidKeys)
           d  == Refuse(c8, strange)
<1>1. VerifyConfiguration(c, libraries) = d
  BY Zenon DEF VerifyConfiguration, KnownSections
<1>2. c2 = KnownKeys(c1, "Input") /\ c4 = KnownKeys(c3, "Output")
  BY Zenon DEF VerifyInput, VerifyOutput
<1>3. inputs \in BOOLEAN /\ clash \in BOOLEAN
  BY Zenon
<1>4. strange \in BOOLEAN
  BY Zenon
<1> HIDE DEF inputs, clash, strange
<1>5. Did(c, c1, "Input", {})
  BY <1>3, RefuseIs
<1> HIDE DEF c1
<1>6. Did(c1, c2, "Input", {})
  BY <1>2, <1>5, KnownKeysIs DEF Did
<1> HIDE DEF c2
<1>7. Did(c2, c3, "Output", {})
  BY <1>3, <1>6, RefuseIs DEF Did
<1> HIDE DEF c3
<1>8. Did(c3, c4, "Output", {})
  BY <1>2, <1>7, KnownKeysIs DEF Did
<1> HIDE DEF c4
<1>9. Did(c4, c5, "Projections", {}) /\ (c5.outcome = "ok" => ProjectionsFound(c5.tree))
  BY <1>8, VerifyProjectionsIs DEF Did
<1> HIDE DEF c5
<1>10. Did(c5, c6, "Volume", {}) /\ (c6.outcome = "ok" => VolumeFound(c6.tree))
  BY <1>9, VerifyVolumeIs DEF Did
<1> HIDE DEF c6
<1>11. /\ Did(c6, c7, "Reconstruction", {"BeamPowerCorrection"})
       /\ c7.outcome = "ok" => ReconstructionFound(c7.tree)
  BY <1>10, VerifyReconstructionIs DEF Did
<1> HIDE DEF c7
<1>12. Did(c7, c8, "Software", {}) /\ (c8.outcome = "ok" => SoftwareFound(c8.tree, libraries))
  BY <1>11, VerifySoftwareIs DEF Did
<1> HIDE DEF c8
<1>13. Did(c8, d, "Software", {}) /\ Refused(c8, d, strange)
  BY <1>4, <1>12, RefuseIs DEF Did
<1> HIDE DEF d
<1>14. ASSUME d.outcome = "ok" PROVE c.outcome = "ok" /\ AllFound(d.tree, libraries)
  <2>1. /\ d = c8 /\ c8.outcome = "ok" /\ c7.outcome = "ok" /\ c6.outcome = "ok"
        /\ c5.outcome = "ok" /\ c4.outcome = "ok" /\ c3.outcome = "ok"
        /\ c2.outcome = "ok" /\ c1.outcome = "ok" /\ c.outcome = "ok"
    BY <1>5, <1>6, <1>7, <1>8, <1>9, <1>10, <1>11, <1>12, <1>13, <1>14 DEF Did, Refused
  <2>2. ProjectionsFound(c6.tree)
    BY <1>9, <1>10, <2>1, ProjectionsStillFound
  <2>3. ProjectionsFound(c7.tree)
    BY <1>11, <2>1, <2>2, ProjectionsStillFound
  <2>4. ProjectionsFound(c8.tree)
    BY <1>12, <2>1, <2>3, ProjectionsStillFound
  <2>5. VolumeFound(c7.tree)
    BY <1>10, <1>11, <2>1, VolumeStillFound
  <2>6. VolumeFound(c8.tree)
    BY <1>12, <2>1, <2>5, VolumeStillFound
  <2>7. ReconstructionFound(c8.tree)
    BY <1>11, <1>12, <2>1, ReconstructionStillFound
  <2> QED
    BY <1>12, <2>1, <2>4, <2>6, <2>7 DEF AllFound
<1> QED
  BY <1>1, <1>13, <1>14 DEF Did

LEMMA AllFoundFinds ==
  ASSUME NEW t, NEW libraries, AllFound(t, libraries)
  PROVE  Finds(t)
<1> DEFINE found(g) == Has(t, g[1]) /\ ReadsAs(Get(t, g[1]), g[2])
           is(p, k, w)  == Has(t, <<p, k>>) /\ Get(t, <<p, k>>) = Word(w)
           R          == "Reconstruction"
           raw        == Has(t, <<"Input", "RawProjectionsFile">>)
           places(p, ks, n) == {<<<<p, k>>, n>> : k \in ks}
<1>1. ASSUME NEW p, NEW k, NEW n, Found(t, p, k, n)
      PROVE  found(<<<<p, k>>, n>>)
  BY <1>1 DEF Found
<1> HIDE DEF found
<1>2. \A g \in places("Projections", {"Dimensions", "PixelSize"}, 2) : found(g)
  BY <1>1 DEF AllFound, ProjectionsFound
<1>3. \A g \in places("Projections", {"NumberOfProjections", "CenterPixelU", "OffsetV"}, 1) : found(g)
  BY <1>1 DEF AllFound, ProjectionsFound
<1>4. found(<<<<"Projections", "DataType">>, 0>>)
  BY <1>1 DEF AllFound, ProjectionsFound
<1>5. found(<<<<"Software", "Engine">>, 0>>)
  <2>1. Found(t, "Software", "Engine", 0)
    BY DEF AllFound, SoftwareFound, Chosen, Found, ReadsAs
  <2> QED
    BY <1>1, <2>1
<1>6. ASSUME Has(t, <<"Output", "VolumeFile">>)
      PROVE  /\ \A g \in places("Volume", {"Dimensions", "VoxelSize", "Origin"}, 3) : found(g)
             /\ found(<<<<"Software", "MaximumVolumeMemory">>, 0>>)
  BY <1>1, <1>6 DEF AllFound, VolumeFound, SoftwareFound
<1>7. ASSUME raw, is(R, "BadPixelCorrection", "Averaging")
      PROVE  found(<<<<R, "FlatFieldBadThreshold">>, 1>>)
  BY <1>1, <1>7 DEF AllFound, ReconstructionFound, BadPixelsFound
<1>8. ASSUME raw, \/ is(R, "BeamPowerCorrection", "Manual")
                  \/ is(R, "BeamPowerCorrection", "BeforeAndAfterBrightField")
                  \/ is(R, "BeamPowerCorrection", "ConstantTotalAttenuation")
      PROVE  found(<<<<R, "BeamPowerDecayConstantTerm">>, 1>>)
  BY <1>1, <1>8 DEF AllFound, ReconstructionFound, BeamFound
<1>9. ASSUME raw, is(R, "BeamPowerCorrection", "Manual")
      PROVE  found(<<<<R, "BeamPowerDecayLinearTerm">>, 1>>)
  BY <1>1, <1>9 DEF AllFound, ReconstructionFound, BeamFound
<1>10. ASSUME raw, is(R, "BeamPowerCorrection", "NullProjectionEdge")
       PROVE  found(<<<<R, "ProjectionBackgroundEdgeWidth">>, 1>>)
  BY <1>1, <1>10 DEF AllFound, ReconstructionFound, BeamFound
<1>11. ASSUME is(R, "SmoothingFilter", "Gaussian")
       PROVE  found(<<<<R, "SmoothingFilterRadius">>, 1>>)
  BY <1>1, <1>11 DEF AllFound, ReconstructionFound, SmoothingFound
<1>12. ASSUME is(R, "SmoothingFilter", "TaperedCosineWindow")
       PROVE  found(<<<<R, "SmoothingFilterFrequencies">>, 2>>)
  BY <1>1, <1>12 DEF AllFound, ReconstructionFound, SmoothingFound
<1>13. ASSUME is("Software", "Engine", "MultiThreaded")
       PROVE  found(<<<<"Software", "Threads">>,
                      IF is("Software", "Threads", "Automatic") THEN 0 ELSE 1>>)
  <2>1. ThreadsFound(t)
    BY <1>13 DEF AllFound, SoftwareFound
  <2>2. CASE is("Software", "Threads", "Automatic")
    <3>1. Found(t, "Software", "Threads", 0)
      BY <2>1 DEF ThreadsFound, Found, ReadsAs
    <3> QED
      BY <1>1, <2>2, <3>1
  <2>3. CASE ~is("Software", "Threads", "Automatic")
    <3>1. Found(t, "Software", "Threads", 1)
      BY <2>1, <2>3 DEF ThreadsFound, Found
    <3> QED
      BY <1>1, <2>3, <3>1
  <2> QED
    BY <2>2, <2>3
<1> DEFINE volume == Has(t, <<"Output", "VolumeFile">>)
           filters == ~Has(t, <<"Input", "FilteredProjectionsFile">>)
           g1 == places("Projections", {"Dimensions", "PixelSize"}, 2)
           g2 == places("Projections", {"NumberOfProjections", "CenterPixelU", "OffsetV"}, 1)
           g3 == {<<<<"Projections", "DataType">>, 0>>, <<<<"Software", "Engine">>, 0>>}
           g4 == IF volume
                 THEN places("Volume", {"Dimensions", "VoxelSize", "Origin"}, 3)
                        \cup {<<<<"Software", "MaximumVolumeMemory">>, 0>>}
                 ELSE {}
           g5 == IF raw /\ is(R, "BadPixelCorrection", "Averaging")
                 THEN {<<<<R, "FlatFieldBadThreshold">>, 1>>} ELSE {}
           g6 == IF raw /\ \/ is(R, "BeamPowerCorrection", "Manual")
                           \/ is(R, "BeamPowerCorrection", "BeforeAndAfterBrightField")
                           \/ is(R, "BeamPowerCorrection", "ConstantTotalAttenuation")
                 THEN {<<<<R, "BeamPowerDecayConstantTerm">>, 1>>} ELSE {}
           g7 == IF raw /\ is(R, "BeamPowerCorrection", "Manual")
                 THEN {<<<<R, "BeamPowerDecayLinearTerm">>, 1>>} ELSE {}
           g8 == IF raw /\ is(R, "BeamPowerCorrection", "NullProjectionEdge")
                 THEN {<<<<R, "ProjectionBackgroundEdgeWidth">>, 1>>} ELSE {}
           g9 == IF filters /\ is(R, "SmoothingFilter", "Gaussian")
                 THEN {<<<<R, "SmoothingFilterRadius">>, 1>>} ELSE {}
           g10 == IF filters /\ is(R, "SmoothingFilter", "TaperedCosineWindow")
                  THEN {<<<<R, "SmoothingFilterFrequencies">>, 2>>} ELSE {}
           g11 == IF is("Software", "Engine", "MultiThreaded")
                  THEN {<<<<"Software", "Threads">>,
                          IF is("Software", "Threads", "Automatic") THEN 0 ELSE 1>>}
                  ELSE {}
<1>14. LauncherGets(t) = g1 \cup g2 \cup g3 \cup g4 \cup g5 \cup g6 \cup g7 \cup g8
                           \cup g9 \cup g10 \cup g11
  BY DEF LauncherGets
<1> HIDE DEF is, raw, places, filters, volume
<1>15. \A g \in g3 : found(g)
  BY <1>4, <1>5
<1>16. \A g \in g4 : found(g)
  BY <1>6 DEF volume
<1>17. (\A g \in g5 : found(g)) /\ (\A g \in g6 : found(g)) /\ (\A g \in g7 : found(g))
  BY <1>7, <1>8, <1>9
<1>18. (\A g \in g8 : found(g)) /\ (\A g \in g9 : found(g)) /\ (\A g \in g10 : found(g))
  BY <1>10, <1>11, <1>12
<1>19. \A g \in g11 : found(g)
  BY <1>13
<1> HIDE DEF g1, g2, g3, g4, g5, g6, g7, g8, g9, g10, g11
<1>20. (\A g \in g1 : found(g)) /\ (\A g \in g2 : found(g))
  BY <1>2, <1>3 DEF g1, g2
<1>21. \A g \in LauncherGets(t) : found(g)
  BY <1>14, <1>15, <1>16, <1>17, <1>18, <1>19, <1>20
<1> QED
  BY <1>21 DEF Finds, found

(* The words are those that the launcher knows, but the filtering module's, *)
(* if the projections are filtered already, and the interpolation's, if no  *)
(* volume is made, which nobody has looked at.                              *)
LEMMA AllFoundUnderstands ==
  ASSUME NEW t, NEW libraries \in SUBSET {"vDSP", "FFTW"}, AllFound(t, libraries)
  PROVE  \/ LauncherUnderstands(t)
         \/ Has(t, <<"Input", "FilteredProjectionsFile">>)
         \/ ~Has(t, <<"Output", "VolumeFile">>)
<1> DEFINE modules == libraries \cup {"RealSpaceConvolution"}
           known == {"RealSpaceConvolution", "vDSP", "FFTW"}
<1> SUFFICES ASSUME ~Has(t, <<"Input", "FilteredProjectionsFile">>),
                    Has(t, <<"Output", "VolumeFile">>)
             PROVE  LauncherUnderstands(t)
  OBVIOUS
<1>1. Get(t, <<"Software", "Engine">>) \in {Word(w) : w \in Engines}
  BY DEF AllFound, SoftwareFound, Chosen
<1>2. Get(t, <<"Software", "FilteringModule">>) \in {Word(w) : w \in modules}
  BY DEF AllFound, SoftwareFound, Chosen
<1>3. Get(t, <<"Reconstruction", "PixelInterpolation">>) \in {Word(w) : w \in Interpolations}
  BY DEF AllFound, ReconstructionFound, Chosen
<1>4. Get(t, <<"Reconstruction", "SmoothingFilter">>) \in {Word(w) : w \in Smoothings}
  BY DEF AllFound, ReconstructionFound, SmoothingFound, Chosen
<1>5. modules \subseteq known
  OBVIOUS
<1>6. Get(t, <<"Software", "FilteringModule">>) \in {Word(w) : w \in known}
  <2> HIDE DEF modules, known
  <2> QED
    BY <1>2, <1>5
<1> HIDE DEF modules
<1> QED
  BY Zenon, <1>1, <1>3, <1>4, <1>6
     DEF LauncherUnderstands, Understands, Engines, Interpolations, Smoothings

-----------------------------------------------------------------------------
(* Folds: what FoldLeft comes to is found by going through the sets of     *)
(* places, the last of each first.                                          *)

LEMMA LeastNatural ==
  ASSUME NEW T \in SUBSET Nat, T # {}
  PROVE  \E x \in T : \A y \in T : x <= y
<1> DEFINE R == OpToRel(<, Nat)
<1>1. \A x \in Nat, y \in Nat : x < y => <<x, y>> \in R
  BY DEF OpToRel
<1>2. PICK x \in T : \A y \in T : <<y, x>> \notin R
  BY NatLessThanWellFounded, WFMin
<1> HIDE DEF R
<1>3. ASSUME NEW y \in T PROVE x <= y
  <2>1. x \in Nat /\ y \in Nat /\ ~(y < x)
    BY <1>1, <1>2
  <2> QED
    BY <2>1
<1> QED
  BY <1>3

LEMMA MaxIsIn ==
  ASSUME NEW n \in Nat, NEW s \in SUBSET (1 .. n), s # {}
  PROVE  Max(s) \in s
<1> DEFINE T == {n - x : x \in s}
<1>1. T \in SUBSET Nat /\ T # {}
  <2>1. \A x \in s : x \in 1 .. n
    OBVIOUS
  <2>2. \A x \in s : n - x \in Nat
    BY <2>1
  <2> QED
    BY <2>2
<1>2. PICK x \in s : \A y \in T : n - x <= y
  BY <1>1, LeastNatural
<1>3. \A y \in s : x >= y
  BY <1>2
<1> QED
  BY <1>3 DEF Max

(* Of any subsets of a finite set, one holds no other: induction on sets.   *)
LEMMA SmallestSubset ==
  ASSUME NEW S, IsFiniteSet(S), NEW C \in SUBSET SUBSET S, C # {}
  PROVE  \E s \in C : IsFiniteSet(s) /\ \A x \in s : s \ {x} \notin C
<1> DEFINE sizes == {Cardinality(s) : s \in C}
<1>1. \A s \in C : IsFiniteSet(s) /\ Cardinality(s) \in Nat
  BY FS_Subset, FS_CardinalityType
<1>2. sizes \in SUBSET Nat /\ sizes # {}
  BY <1>1
<1>3. PICK n \in sizes : \A m \in sizes : n <= m
  BY <1>2, LeastNatural
<1>4. PICK s \in C : Cardinality(s) = n
  BY <1>3
<1>5. ASSUME NEW x \in s, s \ {x} \in C PROVE FALSE
  <2>1. Cardinality(s \ {x}) = Cardinality(s) - 1
    BY <1>1, <1>4, FS_RemoveElement
  <2>2. Cardinality(s \ {x}) \in sizes
    BY <1>5
  <2>3. Cardinality(s) <= Cardinality(s \ {x})
    BY <1>3, <1>4, <2>2
  <2> HIDE DEF sizes
  <2> QED
    BY <1>1, <1>4, <2>1, <2>3
<1> QED
  BY <1>1, <1>4, <1>5

(* The function that a fold is defined by, for the steps g.                 *)
FoldsBy(f, g, base, S) ==
  f = [s \in SUBSET S |-> IF s = {} THEN base ELSE g[<<f[s \ {Max(s)}], Max(s)>>]]

Bounded(T) == \E n \in Nat : T \subseteq 1 .. n

LEMMA FoldsAlike ==
  ASSUME NEW S, NEW R, NEW T, T \subseteq S, T \subseteq R, Bounded(T),
         NEW g, NEW base,
         NEW f, FoldsBy(f, g, base, S), NEW h, FoldsBy(h, g, base, R)
  PROVE  f[T] = h[T]
<1> PICK n \in Nat : T \subseteq 1 .. n
  BY DEF Bounded
<1> DEFINE C == {s \in SUBSET T : f[s] # h[s]}
<1>1. SUFFICES ASSUME C # {} PROVE FALSE
  <2>1. T \in SUBSET T
    OBVIOUS
  <2> QED
    BY <2>1, <1>1
<1>2. PICK s \in C : \A x \in s : s \ {x} \notin C
  <2>1. C \in SUBSET SUBSET T
    OBVIOUS
  <2>2. IsFiniteSet(1 .. n) /\ T \subseteq 1 .. n
    BY FS_Interval
  <2>3. IsFiniteSet(T)
    BY <2>2, FS_Subset
  <2> HIDE DEF C
  <2> QED
    BY <1>1, <2>1, <2>3, SmallestSubset
<1>3. /\ s \in SUBSET S /\ s \in SUBSET R /\ s \in SUBSET T
  OBVIOUS
<1>4. CASE s = {}
  <2>1. f[s] = base /\ h[s] = base
    BY <1>3, <1>4 DEF FoldsBy
  <2> QED
    BY <2>1
<1>5. CASE s # {}
  <2> DEFINE r == s \ {Max(s)}
  <2>1. Max(s) \in s
    BY <1>3, <1>5, MaxIsIn
  <2>2. f[s] = g[<<f[r], Max(s)>>] /\ h[s] = g[<<h[r], Max(s)>>]
    BY <1>3, <1>5 DEF FoldsBy
  <2>3. f[r] = h[r]
    BY <1>2, <1>3, <2>1
  <2> QED
    BY <2>2, <2>3
<1> QED
  BY <1>4, <1>5

LEMMA FoldExists ==
  ASSUME NEW n \in Nat, NEW g, NEW base
  PROVE  \E f : FoldsBy(f, g, base, 1 .. n)
<1> DEFINE S == 1 .. n
           C == {s \in SUBSET S : ~(\E f : FoldsBy(f, g, base, s))}
<1>1. SUFFICES ASSUME C # {} PROVE FALSE
  <2>1. S \in SUBSET S
    OBVIOUS
  <2> QED
    BY <2>1, <1>1
<1>2. PICK s \in C : \A x \in s : s \ {x} \notin C
  <2>1. C \in SUBSET SUBSET S /\ IsFiniteSet(S)
    BY FS_Interval
  <2> HIDE DEF C, S
  <2> QED
    BY <1>1, <2>1, SmallestSubset
<1>0. s \in SUBSET S
  OBVIOUS
<1> DEFINE H(x) == CHOOSE f : FoldsBy(f, g, base, s \ {x})
           rest(t) == t \ {Max(t)}
           iter == [t \in SUBSET s |->
                      IF t = {} THEN base ELSE g[<<H(Max(t))[rest(t)], Max(t)>>]]
<1>3. ASSUME NEW x \in s PROVE FoldsBy(H(x), g, base, s \ {x})
  <2>1. \E f : FoldsBy(f, g, base, s \ {x})
    BY <1>2, <1>3
  <2> QED
    BY <2>1
<1> HIDE DEF H
<1>4. ASSUME NEW t \in SUBSET s, t # {}
      PROVE  iter[rest(t)] = H(Max(t))[rest(t)]
  <2> DEFINE r == rest(t)
  <2>1. Max(t) \in t /\ r \in SUBSET s /\ r \in SUBSET (s \ {Max(t)})
    BY <1>0, <1>4, MaxIsIn
  <2>2. FoldsBy(H(Max(t)), g, base, s \ {Max(t)})
    BY <1>3, <2>1
  <2>3. CASE r = {}
    <3>1. iter[r] = base
      BY <2>1, <2>3
    <3>2. H(Max(t))[r] = base
      BY <2>1, <2>2, <2>3 DEF FoldsBy
    <3> QED
      BY <3>1, <3>2
  <2>4. CASE r # {}
    <3>1. Max(r) \in r
      BY <1>0, <2>1, <2>4, MaxIsIn
    <3>2. iter[r] = g[<<H(Max(r))[rest(r)], Max(r)>>]
      BY <2>1, <2>4
    <3>3. H(Max(t))[r] = g[<<H(Max(t))[rest(r)], Max(r)>>]
      BY <2>1, <2>2, <2>4 DEF FoldsBy
    <3>4. H(Max(r))[rest(r)] = H(Max(t))[rest(r)]
      <4>1. FoldsBy(H(Max(r)), g, base, s \ {Max(r)})
        BY <1>3, <2>1, <3>1
      <4>2. /\ rest(r) \subseteq s \ {Max(r)} /\ rest(r) \subseteq s \ {Max(t)}
            /\ s \ {Max(r)} \in SUBSET (1 .. n) /\ s \ {Max(t)} \in SUBSET (1 .. n)
        BY <1>0, <2>1
      <4> DEFINE q == rest(r)
                 p == H(Max(r))
                 o == H(Max(t))
                 sr == s \ {Max(r)}
                 st == s \ {Max(t)}
      <4>3. /\ q \subseteq sr /\ q \subseteq st /\ sr \in SUBSET (1 .. n) /\ st \in SUBSET (1 .. n)
            /\ FoldsBy(p, g, base, sr) /\ FoldsBy(o, g, base, st)
        BY <2>2, <4>1, <4>2
      <4>5. Bounded(q)
        BY <4>3 DEF Bounded
      <4> HIDE DEF q, p, o, sr, st
      <4>6. q \subseteq sr /\ q \subseteq st /\ FoldsBy(p, g, base, sr) /\ FoldsBy(o, g, base, st)
        BY <4>3
      <4>4. p[q] = o[q]
        BY <4>6, <4>5, FoldsAlike
      <4> QED
        BY <4>4 DEF q, p, o
    <3> QED
      BY <3>2, <3>3, <3>4
  <2> QED
    BY <2>3, <2>4
<1>5. FoldsBy(iter, g, base, s)
  <2>1. \A t \in SUBSET s : iter[t] = IF t = {} THEN base ELSE g[<<iter[rest(t)], Max(t)>>]
    BY <1>4
  <2>2. iter = [t \in SUBSET s |-> IF t = {} THEN base ELSE g[<<iter[rest(t)], Max(t)>>]]
    <3>1. iter = [t \in SUBSET s |-> iter[t]]
      OBVIOUS
    <3> HIDE DEF iter
    <3> QED
      BY <2>1, <3>1
  <2> HIDE DEF iter
  <2> QED
    BY <2>2 DEF FoldsBy
<1> QED
  BY <1>2, <1>5

(* What a fold stays in.                                                    *)
LEMMA FoldStays ==
  ASSUME NEW n \in Nat, NEW X, NEW f, f[{}] \in X,
         \A s \in SUBSET (1 .. n) : s # {} /\ f[s \ {Max(s)}] \in X => f[s] \in X
  PROVE  \A s \in SUBSET (1 .. n) : f[s] \in X
<1> DEFINE S == 1 .. n
           C == {s \in SUBSET S : f[s] \notin X}
<1>1. SUFFICES ASSUME C # {} PROVE FALSE
  BY <1>1
<1>2. PICK s \in C : \A x \in s : s \ {x} \notin C
  <2>1. C \in SUBSET SUBSET S /\ IsFiniteSet(S)
    BY FS_Interval
  <2> HIDE DEF C, S
  <2> QED
    BY <1>1, <2>1, SmallestSubset
<1>3. s # {} /\ s \in SUBSET S /\ f[s] \notin X
  OBVIOUS
<1>4. Max(s) \in s
  BY <1>3, MaxIsIn
<1>5. f[s \ {Max(s)}] \in X
  BY <1>2, <1>3, <1>4
<1> QED
  BY <1>3, <1>5

(* A fold over steps that stay in a set, by the function g or not.          *)
LEMMA FoldInSet ==
  ASSUME NEW n \in Nat, NEW X, NEW base \in X, NEW g \in [X \X (1 .. n) -> X],
         NEW f, FoldsBy(f, g, base, 1 .. n)
  PROVE  \A s \in SUBSET (1 .. n) : f[s] \in X
<1>1. f[{}] = base
  BY DEF FoldsBy
<1>2. ASSUME NEW s \in SUBSET (1 .. n), s # {}, f[s \ {Max(s)}] \in X PROVE f[s] \in X
  <2>1. f[s] = g[<<f[s \ {Max(s)}], Max(s)>>]
    BY <1>2 DEF FoldsBy
  <2>2. Max(s) \in 1 .. n
    BY <1>2, MaxIsIn
  <2> QED
    BY <1>2, <2>1, <2>2
<1> QED
  BY <1>1, <1>2, FoldStays

-----------------------------------------------------------------------------
(* The file                                                                *)

(* Trees with keys in K and values in V.                                    *)
LeavesOf(K, V) == [key : K, value : V]
BranchesOf(K, V) == [key : K, value : V, children : Seq(LeavesOf(K, V))]
TreesOf(K, V) == Seq(BranchesOf(K, V))

LEMMA TreeOf ==
  ASSUME NEW K, NEW V, NEW t \in TreesOf(K, V)
  PROVE  IsTree(t)
<1> DEFINE E == BranchesOf(K, V)
<1>1. t \in Seq(E)
  BY DEF TreesOf
<1>2. \A x \in E : x.children \in Seq(LeavesOf(K, V))
  BY DEF BranchesOf
<1> HIDE DEF E
<1>3. IsList(t)
  BY <1>1, ListOf
<1>4. \A i \in DOMAIN t : t[i] \in E
  <2>1. DOMAIN t = 1 .. Len(t)
    BY <1>1, ListOf
  <2> QED
    BY <1>1, <2>1, ElementOfSeq
<1>5. \A i \in DOMAIN t : IsList(t[i].children)
  BY <1>2, <1>4, ListOf
<1> QED
  BY <1>3, <1>5 DEF IsTree

LineKinds == {"nothing", "key", "section", "wrong"}

(* What read_conf knows after some lines.                                   *)
PartsRead(K, V) ==
  {s \in [outcome : {"ok", "throws"}, tree : TreesOf(K, V), open : BOOLEAN] :
     s.open => s.tree # <<>>}

LEMMA ClosedIs ==
  ASSUME NEW K, NEW V, NEW s \in PartsRead(K, V)
  PROVE  Closed(s) \in TreesOf(K, V)
<1> DEFINE E == BranchesOf(K, V)
<1>1. s.tree \in Seq(E) /\ s.open \in BOOLEAN /\ (s.open => s.tree # <<>>)
  BY DEF PartsRead, TreesOf
<1> HIDE DEF E
<1>2. CASE ~s.open
  <2>1. Closed(s) = s.tree
    BY <1>2 DEF Closed
  <2> QED
    BY <1>1, <2>1 DEF TreesOf, E
<1>3. CASE s.open
  <2>1. Front(s.tree) \in Seq(E)
    <3>1. Len(s.tree) \in Nat /\ Len(s.tree) - 1 <= Len(s.tree)
      BY <1>1, LenProperties
    <3>2. \A i \in 1 .. Len(s.tree) - 1 : i \in 1 .. Len(s.tree)
      BY <3>1
    <3> QED
      BY <1>1, <3>1, <3>2, SubSeqProperties DEF Front
  <2>2. Closed(s) = Front(s.tree) \/ Closed(s) = s.tree
    BY <1>3 DEF Closed
  <2> QED
    BY <1>1, <2>1, <2>2 DEF TreesOf, E
<1> QED
  BY <1>2, <1>3

LEMMA ReadLineIs ==
  ASSUME NEW K, NEW V, NEW s \in PartsRead(K, V), NEW line,
         line.kind \in LineKinds, line.key \in K, line.value \in V
  PROVE  ReadLine(s, line) \in PartsRead(K, V)
<1> DEFINE E == BranchesOf(K, V)
           L == LeavesOf(K, V)
           thrown == [s EXCEPT !.outcome = "throws"]
           entry == [key |-> line.key, value |-> line.value, children |-> <<>>]
           leaf == [key |-> line.key, value |-> line.value]
           a == [s EXCEPT !.open = TRUE, !.tree = Append(Closed(s), entry)]
           b == [s EXCEPT !.tree[Len(s.tree)].children = Append(@, leaf)]
           c == [s EXCEPT !.tree = Append(@, entry)]
<1>1. /\ s \in [outcome : {"ok", "throws"}, tree : Seq(E), open : BOOLEAN]
      /\ s.open => s.tree # <<>>
      /\ Closed(s) \in Seq(E)
  BY ClosedIs DEF PartsRead, TreesOf
<1>2. leaf \in L
  BY DEF LeavesOf
<1>3. entry \in E
  <2>1. <<>> \in Seq(L)
    BY EmptySeq
  <2> QED
    BY <2>1 DEF BranchesOf
<1>4. thrown \in PartsRead(K, V)
  BY <1>1 DEF PartsRead, TreesOf
<1>5. a \in PartsRead(K, V)
  <2> DEFINE u == Append(Closed(s), entry)
  <2>1. u \in Seq(E) /\ u # <<>>
    <3> HIDE DEF E, entry
    <3>1. u \in Seq(E) /\ Len(u) = Len(Closed(s)) + 1 /\ Len(Closed(s)) \in Nat
      BY <1>1, <1>3, AppendProperties, LenProperties
    <3> HIDE DEF u
    <3> QED
      BY <3>1, EmptySeq
  <2>2. a = [s EXCEPT !.open = TRUE, !.tree = u]
    OBVIOUS
  <2> HIDE DEF u, a
  <2>3. a = [outcome |-> s.outcome, tree |-> u, open |-> TRUE]
    BY <1>1, <2>2
  <2> QED
    BY <1>1, <2>1, <2>3 DEF PartsRead, TreesOf
<1>6. CASE s.open
  <2> DEFINE n == Len(s.tree)
             y == s.tree[n]
             ch == Append(y.children, leaf)
             x == [y EXCEPT !.children = ch]
             u == [s.tree EXCEPT ![n] = x]
  <2>1. n \in Nat /\ n # 0 /\ n \in 1 .. n /\ s.tree \in Seq(E)
    <3> HIDE DEF E
    <3> QED
      BY <1>1, <1>6, LenProperties, EmptySeq
  <2>2. y \in E
    <3> HIDE DEF E
    <3> QED
      BY <2>1, ElementOfSeq
  <2>3. ch \in Seq(L)
    <3>1. y.children \in Seq(L)
      BY <2>2 DEF BranchesOf
    <3> HIDE DEF leaf, L, y
    <3> QED
      BY <1>2, <3>1, AppendProperties
  <2>4. x \in E
    <3>1. x = [y EXCEPT !.children = ch]
      OBVIOUS
    <3> HIDE DEF y, ch, x
    <3> QED
      BY <2>2, <2>3, <3>1 DEF BranchesOf
  <2>5. b = [s EXCEPT !.tree = u]
    BY <1>1
  <2> HIDE DEF x, b
  <2>6. u \in Seq(E) /\ u # <<>>
    <3>1. u \in Seq(E) /\ Len(u) = Len(s.tree)
      <4> HIDE DEF E
      <4> QED
        BY <2>1, <2>4, ExceptSeq
    <3> HIDE DEF E, u
    <3> QED
      BY <2>1, <3>1, EmptySeq
  <2> HIDE DEF u
  <2>7. b = [outcome |-> s.outcome, tree |-> u, open |-> s.open]
    BY <1>1, <2>5
  <2>8. b \in PartsRead(K, V)
    BY <1>1, <2>6, <2>7 DEF PartsRead, TreesOf
  <2>9. ReadLine(s, line) \in {s, thrown, a, b}
    BY <1>6 DEF ReadLine, LineKinds, b
  <2> QED
    BY <1>4, <1>5, <2>8, <2>9
<1>7. CASE ~s.open
  <2> DEFINE u == Append(s.tree, entry)
  <2>1. u \in Seq(E)
    <3> HIDE DEF E, entry
    <3> QED
      BY <1>1, <1>3, AppendProperties
  <2>2. c = [s EXCEPT !.tree = u]
    BY <1>1
  <2> HIDE DEF u, c
  <2>3. c = [outcome |-> s.outcome, tree |-> u, open |-> FALSE]
    BY <1>1, <1>7, <2>2
  <2>4. c \in PartsRead(K, V)
    BY <1>1, <2>1, <2>3 DEF PartsRead, TreesOf
  <2>5. ReadLine(s, line) \in {s, thrown, a, c}
    BY <1>7 DEF ReadLine, LineKinds, c
  <2> QED
    BY <1>4, <1>5, <2>4, <2>5
<1> QED
  BY <1>1, <1>6, <1>7

(* read_conf goes through the lines.                                        *)
Start == [outcome |-> "ok", tree |-> <<>>, open |-> FALSE]

ReadsBy(f, lines) ==
  f = [s \in SUBSET DOMAIN lines |->
         IF s = {} THEN Start ELSE ReadLine(f[s \ {Max(s)}], lines[Max(s)])]

LEMMA ReadConfIs ==
  ASSUME NEW lines
  PROVE  LET end == (CHOOSE f : ReadsBy(f, lines))[DOMAIN lines]
         IN  ReadConf(lines) = [outcome |-> end.outcome, tree |-> Closed(end)]
BY Zenon DEF ReadConf, FoldLeft, MapThenFoldSet, ReadsBy, Start

(* Lines, of whatever keys and values.                                      *)
AreLines(lines) ==
  IsList(lines) /\ \A i \in DOMAIN lines : lines[i].kind \in LineKinds

KeysIn(lines) == {lines[i].key : i \in DOMAIN lines}
ValuesIn(lines) == {lines[i].value : i \in DOMAIN lines}

LEMMA ReadConfIsTree ==
  ASSUME NEW lines, AreLines(lines)
  PROVE  /\ ReadConf(lines) = [outcome |-> ReadConf(lines).outcome,
                               tree |-> ReadConf(lines).tree]
         /\ ReadConf(lines).tree \in TreesOf(KeysIn(lines), ValuesIn(lines))
<1> DEFINE n == Len(lines)
           K == KeysIn(lines)
           V == ValuesIn(lines)
           X == PartsRead(K, V)
           g == [p \in X \X (1 .. n) |-> ReadLine(p[1], lines[p[2]])]
<1>1. n \in Nat /\ DOMAIN lines = 1 .. n
  BY ListIs DEF AreLines
<1>2. \A i \in 1 .. n : lines[i].kind \in LineKinds /\ lines[i].key \in K /\ lines[i].value \in V
  BY <1>1 DEF AreLines, KeysIn, ValuesIn
<1> HIDE DEF n, K, V
<1>3. Start \in X
  <2>1. <<>> \in Seq(BranchesOf(K, V))
    BY EmptySeq
  <2> QED
    BY <2>1 DEF Start, PartsRead, TreesOf
<1>4. \A x \in X, i \in 1 .. n : ReadLine(x, lines[i]) \in X
  BY <1>2, ReadLineIs
<1> HIDE DEF X
<1>5. g \in [X \X (1 .. n) -> X] /\ \A x \in X, i \in 1 .. n : g[<<x, i>>] = ReadLine(x, lines[i])
  BY <1>4
<1> HIDE DEF g
<1>6. PICK f : FoldsBy(f, g, Start, 1 .. n)
  BY <1>1, FoldExists
<1>7. \A s \in SUBSET (1 .. n) : f[s] \in X
  BY <1>1, <1>3, <1>5, <1>6, FoldInSet
<1>8. ReadsBy(f, lines)
  <2> DEFINE h == [s \in SUBSET (1 .. n) |->
                     IF s = {} THEN Start ELSE ReadLine(f[s \ {Max(s)}], lines[Max(s)])]
  <2>1. ASSUME NEW s \in SUBSET (1 .. n) PROVE f[s] = h[s]
    <3>1. CASE s = {}
      BY <1>6, <3>1 DEF FoldsBy
    <3>2. CASE s # {}
      <4>1. Max(s) \in 1 .. n /\ f[s \ {Max(s)}] \in X
        BY <1>1, <1>7, <3>2, MaxIsIn
      <4>2. f[s] = g[<<f[s \ {Max(s)}], Max(s)>>]
        BY <1>6, <3>2 DEF FoldsBy
      <4>3. f[s] = ReadLine(f[s \ {Max(s)}], lines[Max(s)])
        BY <1>5, <4>1, <4>2
      <4> QED
        BY <3>2, <4>3
    <3> QED
      BY <3>1, <3>2
  <2>2. f = [s \in SUBSET (1 .. n) |-> f[s]] /\ h = [s \in SUBSET (1 .. n) |-> h[s]]
    BY <1>6 DEF FoldsBy
  <2>3. f = h
    <3> HIDE DEF h
    <3> QED
      BY <2>1, <2>2
  <2> QED
    BY <1>1, <2>3 DEF ReadsBy
<1> DEFINE r == CHOOSE h : ReadsBy(h, lines)
           end == r[DOMAIN lines]
<1>9. ReadsBy(r, lines)
  BY <1>8
<1>10. ReadConf(lines) = [outcome |-> end.outcome, tree |-> Closed(end)]
  BY ReadConfIs
<1> HIDE DEF r
<1>11. r[{}] \in X
  BY <1>3, <1>9 DEF ReadsBy
<1>12. ASSUME NEW s \in SUBSET (1 .. n), s # {}, r[s \ {Max(s)}] \in X PROVE r[s] \in X
  <2>1. r[s] = ReadLine(r[s \ {Max(s)}], lines[Max(s)])
    BY <1>1, <1>9, <1>12 DEF ReadsBy
  <2>2. Max(s) \in 1 .. n
    BY <1>1, <1>12, MaxIsIn
  <2> QED
    BY <1>4, <1>12, <2>1, <2>2
<1>13. \A s \in SUBSET (1 .. n) : r[s] \in X
  BY <1>1, <1>11, <1>12, FoldStays
<1>14. end \in X
  BY <1>1, <1>13
<1> HIDE DEF end
<1>15. Closed(end) \in TreesOf(K, V)
  BY <1>14, ClosedIs DEF X
<1> QED
  BY <1>10, <1>15 DEF K, V

(* A key or a value in a section leaves the tree one of such keys and values*)
LEMMA UpsertStays ==
  ASSUME NEW E, NEW e \in Seq(E), NEW x \in E
  PROVE  Upsert(e, x) \in Seq(E)
<1>1. IsList(e) /\ DOMAIN e = 1 .. Len(e)
  BY ListOf
<1>2. Upserted(e, x, Upsert(e, x))
  BY <1>1, UpsertIs
<1> DEFINE u == Upsert(e, x)
<1> HIDE DEF u
<1>3. IsList(u) /\ \A i \in DOMAIN u : u[i] = x \/ \E j \in DOMAIN e : u[i] = e[j]
  BY <1>2 DEF Upserted, u
<1>4. \A j \in DOMAIN e : e[j] \in E
  BY <1>1, ElementOfSeq
<1>5. \A i \in DOMAIN u : u[i] \in E
  BY <1>3, <1>4
<1>6. u \in Seq(E)
  BY <1>3, <1>5, ListIs
<1> QED
  BY <1>6 DEF u

LEMMA PutStays ==
  ASSUME NEW K, NEW V, Word("") \in V, NEW t \in TreesOf(K, V),
         NEW s \in K, NEW k \in K, NEW v \in V
  PROVE  Put(t, <<s, k>>, v) \in TreesOf(K, V)
<1> DEFINE E == BranchesOf(K, V)
           L == LeavesOf(K, V)
           leaf == [key |-> k, value |-> v]
           old == Children(t, s)
           new == Upsert(old, leaf)
           val == IF s \in Keys(t) THEN ValueOf(t, s) ELSE Word("")
           x == [key |-> s, value |-> val, children |-> new]
<1>1. Put(t, <<s, k>>, v) = Upsert(t, x)
  BY Zenon DEF Put
<1>2. t \in Seq(E) /\ DOMAIN t = 1 .. Len(t)
  BY ListOf DEF TreesOf
<1>3. s \in Keys(t) => t[IndexOf(t, s)] \in E
  <2> HIDE DEF E
  <2> QED
    BY <1>2, IndexIs, ElementOfSeq
<1>4. old \in Seq(L)
  <2>1. CASE s \in Keys(t)
    BY <1>3, <2>1 DEF Children, BranchesOf
  <2>2. CASE s \notin Keys(t)
    BY <2>2, EmptySeq DEF Children
  <2> QED
    BY <2>1, <2>2
<1>5. val \in V
  BY <1>3 DEF ValueOf, BranchesOf
<1>6. leaf \in L
  BY DEF LeavesOf
<1>7. new \in Seq(L)
  <2> HIDE DEF L, leaf, old
  <2> QED
    BY <1>4, <1>6, UpsertStays
<1>8. x \in E
  <2> HIDE DEF val, new
  <2> QED
    BY <1>5, <1>7 DEF BranchesOf
<1>9. Upsert(t, x) \in Seq(E)
  <2> HIDE DEF E, x
  <2> QED
    BY <1>2, <1>8, UpsertStays
<1> QED
  BY <1>1, <1>9 DEF TreesOf

-----------------------------------------------------------------------------
(* The header of the projections                                           *)

(* merge goes through the sections, and in them through the entries.        *)
MergeEntry(t, key, e) ==
  IF Has(t, <<key, e.key>>) THEN t ELSE Put(t, <<key, e.key>>, e.value)

MergesBy(f, tree, section) ==
  f = [s \in SUBSET DOMAIN section.children |->
         IF s = {} THEN tree
         ELSE MergeEntry(f[s \ {Max(s)}], section.key, section.children[Max(s)])]

LEMMA MergeSectionIs ==
  ASSUME NEW tree, NEW section
  PROVE  MergeSection(tree, section)
           = (CHOOSE f : MergesBy(f, tree, section))[DOMAIN section.children]
BY Zenon DEF MergeSection, FoldLeft, MapThenFoldSet, MergesBy, MergeEntry

LEMMA MergeSectionStays ==
  ASSUME NEW K, NEW V, Word("") \in V, NEW tree \in TreesOf(K, V),
         NEW section, section.key \in K, section.children \in Seq(LeavesOf(K, V))
  PROVE  MergeSection(tree, section) \in TreesOf(K, V)
<1> DEFINE es == section.children
           n == Len(es)
           X == TreesOf(K, V)
           step(t, i) == MergeEntry(t, section.key, es[i])
           g == [p \in X \X (1 .. n) |-> step(p[1], p[2])]
<1>1. n \in Nat /\ DOMAIN es = 1 .. n
  BY ListOf
<1>2. \A i \in 1 .. n : es[i] \in LeavesOf(K, V)
  BY ElementOfSeq
<1>3. \A i \in 1 .. n : es[i].key \in K /\ es[i].value \in V
  BY <1>2 DEF LeavesOf
<1> HIDE DEF n, es
<1>4. \A x \in X, i \in 1 .. n : step(x, i) \in X
  BY <1>3, PutStays DEF MergeEntry
<1> HIDE DEF X, step
<1>5. g \in [X \X (1 .. n) -> X] /\ \A x \in X, i \in 1 .. n : g[<<x, i>>] = step(x, i)
  BY <1>4
<1>6. tree \in X
  BY DEF X
<1> HIDE DEF g
<1>7. PICK f : FoldsBy(f, g, tree, 1 .. n)
  BY <1>1, FoldExists
<1>8. \A s \in SUBSET (1 .. n) : f[s] \in X
  BY <1>1, <1>5, <1>6, <1>7, FoldInSet
<1> DEFINE by(h) == h = [s \in SUBSET (1 .. n) |-> IF s = {} THEN tree ELSE step(h[s \ {Max(s)}], Max(s))]
<1>9. \A h : MergesBy(h, tree, section) <=> by(h)
  BY <1>1 DEF MergesBy, step, es
<1>10. by(f)
  <2> DEFINE h == [s \in SUBSET (1 .. n) |->
                     IF s = {} THEN tree ELSE step(f[s \ {Max(s)}], Max(s))]
  <2>1. ASSUME NEW s \in SUBSET (1 .. n) PROVE f[s] = h[s]
    <3>1. CASE s = {}
      BY <1>7, <3>1 DEF FoldsBy
    <3>2. CASE s # {}
      <4>1. Max(s) \in 1 .. n /\ f[s \ {Max(s)}] \in X
        BY <1>1, <1>8, <3>2, MaxIsIn
      <4>2. f[s] = g[<<f[s \ {Max(s)}], Max(s)>>]
        BY <1>7, <3>2 DEF FoldsBy
      <4>3. f[s] = step(f[s \ {Max(s)}], Max(s))
        BY <1>5, <4>1, <4>2
      <4> QED
        BY <3>2, <4>3
    <3> QED
      BY <3>1, <3>2
  <2>2. f = [s \in SUBSET (1 .. n) |-> f[s]] /\ h = [s \in SUBSET (1 .. n) |-> h[s]]
    BY <1>7 DEF FoldsBy
  <2>3. f = h
    <3> HIDE DEF h
    <3> QED
      BY <2>1, <2>2
  <2> QED
    BY <2>3
<1> DEFINE r == CHOOSE h : MergesBy(h, tree, section)
<1>11. MergesBy(r, tree, section)
  <2>1. MergesBy(f, tree, section)
    BY <1>9, <1>10
  <2> QED
    BY <2>1
<1>12. MergeSection(tree, section) = r[DOMAIN es]
  BY MergeSectionIs DEF es
<1> HIDE DEF r
<1>13. by(r)
  BY <1>9, <1>11
<1>14. r[{}] \in X
  BY <1>6, <1>13
<1>15. ASSUME NEW s \in SUBSET (1 .. n), s # {}, r[s \ {Max(s)}] \in X PROVE r[s] \in X
  <2>1. r[s] = step(r[s \ {Max(s)}], Max(s))
    BY <1>13, <1>15
  <2>2. Max(s) \in 1 .. n
    BY <1>1, <1>15, MaxIsIn
  <2> QED
    BY <1>4, <1>15, <2>1, <2>2
<1> HIDE DEF by
<1>16. \A s \in SUBSET (1 .. n) : r[s] \in X
  BY <1>1, <1>14, <1>15, FoldStays
<1> QED
  BY <1>1, <1>12, <1>16 DEF X

SectionsBy(f, a, b) ==
  f = [s \in SUBSET DOMAIN b |->
         IF s = {} THEN a ELSE MergeSection(f[s \ {Max(s)}], b[Max(s)])]

LEMMA MergeIs ==
  ASSUME NEW a, NEW b
  PROVE  Merge(a, b) = (CHOOSE f : SectionsBy(f, a, b))[DOMAIN b]
BY Zenon DEF Merge, FoldLeft, MapThenFoldSet, SectionsBy

LEMMA MergeStays ==
  ASSUME NEW K, NEW V, Word("") \in V, NEW a \in TreesOf(K, V), NEW b \in TreesOf(K, V)
  PROVE  Merge(a, b) \in TreesOf(K, V)
<1> DEFINE n == Len(b)
           X == TreesOf(K, V)
           step(t, i) == MergeSection(t, b[i])
           g == [p \in X \X (1 .. n) |-> step(p[1], p[2])]
<1>1. n \in Nat /\ DOMAIN b = 1 .. n
  BY ListOf DEF TreesOf
<1>2. \A i \in 1 .. n : b[i] \in BranchesOf(K, V)
  BY ElementOfSeq DEF TreesOf
<1>3. \A i \in 1 .. n : b[i].key \in K /\ b[i].children \in Seq(LeavesOf(K, V))
  BY <1>2 DEF BranchesOf
<1> HIDE DEF n
<1>4. \A x \in X, i \in 1 .. n : step(x, i) \in X
  BY <1>3, MergeSectionStays
<1>6. a \in X
  BY DEF X
<1> HIDE DEF X, step
<1>5. g \in [X \X (1 .. n) -> X] /\ \A x \in X, i \in 1 .. n : g[<<x, i>>] = step(x, i)
  BY <1>4
<1> HIDE DEF g
<1>7. PICK f : FoldsBy(f, g, a, 1 .. n)
  BY <1>1, FoldExists
<1>8. \A s \in SUBSET (1 .. n) : f[s] \in X
  BY <1>1, <1>5, <1>6, <1>7, FoldInSet
<1> DEFINE by(h) == h = [s \in SUBSET (1 .. n) |-> IF s = {} THEN a ELSE step(h[s \ {Max(s)}], Max(s))]
<1>9. \A h : SectionsBy(h, a, b) <=> by(h)
  BY <1>1 DEF SectionsBy, step
<1>10. by(f)
  <2> DEFINE h == [s \in SUBSET (1 .. n) |->
                     IF s = {} THEN a ELSE step(f[s \ {Max(s)}], Max(s))]
  <2>1. ASSUME NEW s \in SUBSET (1 .. n) PROVE f[s] = h[s]
    <3>1. CASE s = {}
      BY <1>7, <3>1 DEF FoldsBy
    <3>2. CASE s # {}
      <4>1. Max(s) \in 1 .. n /\ f[s \ {Max(s)}] \in X
        BY <1>1, <1>8, <3>2, MaxIsIn
      <4>2. f[s] = g[<<f[s \ {Max(s)}], Max(s)>>]
        BY <1>7, <3>2 DEF FoldsBy
      <4>3. f[s] = step(f[s \ {Max(s)}], Max(s))
        BY <1>5, <4>1, <4>2
      <4> QED
        BY <3>2, <4>3
    <3> QED
      BY <3>1, <3>2
  <2>2. f = [s \in SUBSET (1 .. n) |-> f[s]] /\ h = [s \in SUBSET (1 .. n) |-> h[s]]
    BY <1>7 DEF FoldsBy
  <2>3. f = h
    <3> HIDE DEF h
    <3> QED
      BY <2>1, <2>2
  <2> QED
    BY <2>3
<1> DEFINE r == CHOOSE h : SectionsBy(h, a, b)
<1>11. SectionsBy(r, a, b)
  <2>1. SectionsBy(f, a, b)
    BY <1>9, <1>10
  <2> QED
    BY <2>1
<1>12. Merge(a, b) = r[DOMAIN b]
  BY MergeIs
<1> HIDE DEF r
<1>13. by(r)
  BY <1>9, <1>11
<1>14. r[{}] \in X
  BY <1>6, <1>13
<1>15. ASSUME NEW s \in SUBSET (1 .. n), s # {}, r[s \ {Max(s)}] \in X PROVE r[s] \in X
  <2>1. r[s] = step(r[s \ {Max(s)}], Max(s))
    BY <1>13, <1>15
  <2>2. Max(s) \in 1 .. n
    BY <1>1, <1>15, MaxIsIn
  <2> QED
    BY <1>4, <1>15, <2>1, <2>2
<1> HIDE DEF by
<1>16. \A s \in SUBSET (1 .. n) : r[s] \in X
  BY <1>1, <1>14, <1>15, FoldStays
<1> QED
  BY <1>1, <1>12, <1>16 DEF X

LEMMA SeqOfMore ==
  ASSUME NEW S, NEW T, S \subseteq T, NEW e \in Seq(S)
  PROVE  e \in Seq(T)
<1>1. Len(e) \in Nat /\ e \in [1 .. Len(e) -> S]
  BY LenProperties
<1>2. e \in [1 .. Len(e) -> T]
  BY <1>1
<1> QED
  BY <1>1, <1>2, SeqDef

LEMMA TreesOfMore ==
  ASSUME NEW K, NEW V, NEW KK, NEW VV, K \subseteq KK, V \subseteq VV,
         NEW t \in TreesOf(K, V)
  PROVE  t \in TreesOf(KK, VV)
<1>1. LeavesOf(K, V) \subseteq LeavesOf(KK, VV)
  BY DEF LeavesOf
<1>2. ASSUME NEW x \in BranchesOf(K, V) PROVE x \in BranchesOf(KK, VV)
  <2>1. /\ x = [key |-> x.key, value |-> x.value, children |-> x.children]
        /\ x.key \in K /\ x.value \in V /\ x.children \in Seq(LeavesOf(K, V))
    BY DEF BranchesOf
  <2>2. x.children \in Seq(LeavesOf(KK, VV))
    BY <1>1, <2>1, SeqOfMore
  <2> QED
    BY <2>1, <2>2 DEF BranchesOf
<1>3. BranchesOf(K, V) \subseteq BranchesOf(KK, VV)
  BY <1>2
<1> QED
  BY <1>3, SeqOfMore DEF TreesOf

LEMMA ListOfOne ==
  ASSUME NEW S, NEW x \in S
  PROVE  <<x>> \in Seq(S)
<1>1. <<x>> \in [1 .. 1 -> S]
  OBVIOUS
<1> QED
  BY <1>1, SeqDef

LEMMA ListOfFour ==
  ASSUME NEW S, NEW a \in S, NEW b \in S, NEW c \in S, NEW d \in S
  PROVE  <<a, b, c, d>> \in Seq(S)
<1>1. <<a, b, c, d>> \in [1 .. 4 -> S]
  OBVIOUS
<1> QED
  BY <1>1, SeqDef

(* A section of entries with these keys and values.                         *)
LEMMA SectionIs ==
  ASSUME NEW P, NEW found \in Seq(P), NEW K, NEW V, NEW key \in K, Word("") \in V,
         \A p \in P : p[1] \in K /\ p[2] \in V
  PROVE  <<[key |-> key, value |-> Word(""),
            children |-> [i \in DOMAIN found |->
                            [key |-> found[i][1], value |-> found[i][2]]]]>>
           \in TreesOf(K, V)
<1> DEFINE leaf(i) == [key |-> found[i][1], value |-> found[i][2]]
           children == [i \in DOMAIN found |-> leaf(i)]
           section == [key |-> key, value |-> Word(""), children |-> children]
           L == LeavesOf(K, V)
           E == BranchesOf(K, V)
<1>1. Len(found) \in Nat /\ DOMAIN found = 1 .. Len(found)
  BY LenProperties
<1>2. \A i \in DOMAIN found : found[i] \in P
  BY <1>1, ElementOfSeq
<1>3. \A i \in DOMAIN found : leaf(i) \in L
  BY <1>2 DEF LeavesOf
<1>4. children \in Seq(L)
  <2> HIDE DEF leaf, L
  <2>1. children \in [1 .. Len(found) -> L]
    BY <1>1, <1>3
  <2> QED
    BY <1>1, <2>1, SeqDef
<1>5. section \in E
  <2> HIDE DEF children
  <2> QED
    BY <1>4 DEF BranchesOf
<1>6. <<section>> \in Seq(E)
  <2> HIDE DEF E, section
  <2> QED
    BY <1>5, ListOfOne
<1> QED
  BY <1>6 DEF TreesOf

(* What the header adds leaves a configuration what it is.                  *)
LEMMA ReadProjectionsInfoIs ==
  ASSUME NEW c, c = [outcome |-> c.outcome, tree |-> c.tree], NEW header,
         NEW K, NEW V, c.tree \in TreesOf(K, V)
  PROVE  IsConf(ReadProjectionsInfo(c, header))
<1> DEFINE size == PixelSize(c.tree, header)
           always == <<<<"DataType", Word(header.type)>>,
                 <<"Dimensions", Numbers(<<header.dims[3], header.dims[2]>>)>>,
                 <<"NumberOfProjections", Numbers(<<header.dims[1]>>)>>,
                 <<"PixelSize", Numbers(size)>>>>
           given == IF header.origin = Absent THEN <<>>
                   ELSE <<<<"CenterPixelU",
                            Numbers(<<-((2 * header.origin[3]) \div size[1])>>)>>,
                          <<"OffsetV", Numbers(<<header.origin[2]>>)>>>>
           found == always \o given
           section == [key |-> "Projections", value |-> Word(""),
                  children |-> [i \in DOMAIN found |->
                    [key |-> found[i][1], value |-> found[i][2]]]]
           dies == Dies(c)
           fails == [c EXCEPT !.outcome = header.outcome]
           merged == [c EXCEPT !.tree = Merge(c.tree, <<section>>)]
           d == ReadProjectionsInfo(c, header)
           A == {always[i] : i \in 1 .. 4}
           G == {<<"CenterPixelU",
                   Numbers(<<-((2 * header.origin[3]) \div size[1])>>)>>,
                 <<"OffsetV", Numbers(<<header.origin[2]>>)>>}
           P == A \cup G
           KK == K \cup {"Projections"} \cup {p[1] : p \in P}
           VV == V \cup {Word("")} \cup {p[2] : p \in P}
<1>1. d = merged \/ d = fails \/ d = dies
  BY Zenon DEF ReadProjectionsInfo
<1>2. always \in Seq(P)
  <2> DEFINE one == <<"DataType", Word(header.type)>>
             two == <<"Dimensions", Numbers(<<header.dims[3], header.dims[2]>>)>>
             three == <<"NumberOfProjections", Numbers(<<header.dims[1]>>)>>
             four == <<"PixelSize", Numbers(size)>>
  <2>1. always = <<one, two, three, four>>
    OBVIOUS
  <2>2. one = always[1] /\ two = always[2] /\ three = always[3] /\ four = always[4]
    OBVIOUS
  <2> HIDE DEF always, one, two, three, four
  <2>3. one \in P /\ two \in P /\ three \in P /\ four \in P
    BY <2>2
  <2> HIDE DEF P
  <2> QED
    BY <2>1, <2>3, ListOfFour
<1>3. given \in Seq(P)
  <2>1. CASE header.origin = Absent
    BY <2>1, EmptySeq
  <2>2. CASE header.origin # Absent
    <3> DEFINE one == <<"CenterPixelU",
                   Numbers(<<-((2 * header.origin[3]) \div size[1])>>)>>
               two == <<"OffsetV", Numbers(<<header.origin[2]>>)>>
    <3>1. one \in P /\ two \in P
      OBVIOUS
    <3>2. given = <<one, two>>
      BY <2>2
    <3> HIDE DEF one, two, P
    <3> QED
      BY <3>1, <3>2
  <2> QED
    BY <2>1, <2>2
<1> HIDE DEF always, given, P
<1>4. found \in Seq(P)
  BY <1>2, <1>3, ConcatProperties
<1>5. <<section>> \in TreesOf(KK, VV)
  <2>1. \A p \in P : p[1] \in KK /\ p[2] \in VV
    OBVIOUS
  <2>2. "Projections" \in KK /\ Word("") \in VV
    OBVIOUS
  <2> HIDE DEF found, KK, VV
  <2> QED
    BY <1>4, <2>1, <2>2, SectionIs
<1>6. c.tree \in TreesOf(KK, VV)
  <2>1. K \subseteq KK /\ V \subseteq VV
    OBVIOUS
  <2> HIDE DEF KK, VV
  <2> QED
    BY <2>1, TreesOfMore
<1>7. Merge(c.tree, <<section>>) \in TreesOf(KK, VV)
  <2>1. Word("") \in VV
    OBVIOUS
  <2> HIDE DEF KK, VV, section
  <2> QED
    BY <1>5, <1>6, <2>1, MergeStays
<1> HIDE DEF KK, VV, section
<1>8. IsTree(c.tree) /\ IsTree(Merge(c.tree, <<section>>))
  BY <1>6, <1>7, TreeOf
<1>9. IsConf(dies)
  <2>1. dies = [outcome |-> "dies", tree |-> c.tree]
    BY DEF Dies
  <2> HIDE DEF dies
  <2> QED
    BY <1>8, <2>1 DEF IsConf
<1>10. IsConf(fails)
  <2>1. fails = [outcome |-> header.outcome, tree |-> c.tree]
    OBVIOUS
  <2> HIDE DEF fails
  <2> QED
    BY <1>8, <2>1 DEF IsConf
<1>11. IsConf(merged)
  <2> DEFINE u == Merge(c.tree, <<section>>)
  <2> HIDE DEF u
  <2>0. merged = [c EXCEPT !.tree = u]
    BY DEF u
  <2>1. merged = [outcome |-> c.outcome, tree |-> u]
    BY <2>0
  <2> HIDE DEF merged
  <2>2. IsTree(u)
    BY <1>8 DEF u
  <2> QED
    BY <2>1, <2>2 DEF IsConf
<1> HIDE DEF dies, fails, merged
<1> QED
  BY <1>1, <1>9, <1>10, <1>11

(* What is made of a file, whatever its lines, is verified or refused.      *)
LEMMA ConfigureIs ==
  ASSUME NEW lines, AreLines(lines), NEW header,
         NEW libraries, Configure(lines, header, libraries).outcome = "ok"
  PROVE  AllFound(Configure(lines, header, libraries).tree, libraries)
<1> DEFINE read == ReadConf(lines)
           c == ReadProjectionsInfo(read, header)
           d == VerifyConfiguration(c, libraries)
           throws == [outcome |-> "throws", tree |-> <<>>]
<1>1. Configure(lines, header, libraries)
        = IF read.outcome # "ok" THEN throws ELSE d
  BY Zenon DEF Configure
<1>2. throws.outcome # "ok"
  OBVIOUS
<1>3. read = [outcome |-> read.outcome, tree |-> read.tree]
      /\ read.tree \in TreesOf(KeysIn(lines), ValuesIn(lines))
  BY ReadConfIsTree
<1> HIDE DEF read
<1>4. IsConf(c)
  BY <1>3, ReadProjectionsInfoIs
<1> HIDE DEF c
<1>5. d.outcome = "ok" => AllFound(d.tree, libraries)
  BY <1>4, VerifyConfigurationIs
<1> HIDE DEF d, throws
<1> QED
  BY <1>1, <1>2, <1>5

-----------------------------------------------------------------------------
(* The program with any configuration file, header of its projections and  *)
(* libraries; the settings are what the file says, which the verification   *)
(* reads from its lines alone.                                              *)
RunsAny ==
  \E options, settings, lines, header, libraries :
    /\ AreLines(lines) /\ libraries \in SUBSET {"vDSP", "FFTW"}
    /\ \E verified \in {Configure(lines, header, libraries)} :
         Called([name |-> "program", options |-> options, settings |-> settings,
                 header |-> header, verified |-> verified],
                RunProgram(options, verified))

ConfigurationsSpec == CallsInit /\ [][RunsAny]_<<call, result>>

(* VerifyConfiguration: whatever is in the configuration file and in the    *)
(* header of the projections, and whichever filters the program was built   *)
(* with, all that the launcher takes for granted is in a configuration that *)
(* was verified.                                                            *)
THEOREM AnyVerifiedIsEnough == ConfigurationsSpec => []VerifiedIsEnough
<1>1. CallsInit => VerifiedIsEnough
  BY DEF CallsInit, NoCall, VerifiedIsEnough
<1>2. ASSUME VerifiedIsEnough, UNCHANGED <<call, result>>
      PROVE  VerifiedIsEnough'
  BY <1>2 DEF VerifiedIsEnough, Tree
<1>3. ASSUME RunsAny
      PROVE  VerifiedIsEnough'
  <2>1. PICK options, settings, lines, header, libraries :
          /\ AreLines(lines) /\ libraries \in SUBSET {"vDSP", "FFTW"}
          /\ call' = [name |-> "program", options |-> options, settings |-> settings,
                      header |-> header,
                      verified |-> Configure(lines, header, libraries)]
    BY Zenon, <1>3 DEF RunsAny, Called
  <2> DEFINE verified == Configure(lines, header, libraries)
             t == verified.tree
  <2>2. call'.verified = verified
    <3> HIDE DEF verified
    <3>1. call' = [name |-> "program", options |-> options, settings |-> settings,
                      header |-> header, verified |-> verified]
      BY <2>1 DEF verified
    <3> QED
      BY <3>1
  <2>3. ASSUME verified.outcome = "ok"
        PROVE  /\ Finds(t)
               /\ \/ LauncherAccepts(t)
                  \/ Has(t, <<"Input", "FilteredProjectionsFile">>)
                  \/ ~Has(t, <<"Output", "VolumeFile">>)
                  \/ ParseMemoryValue(Get(t, <<"Software", "MaximumVolumeMemory">>),
                                      SystemMemory).outcome # "ok"
    <3>1. AllFound(t, libraries)
      BY <2>1, <2>3, ConfigureIs
    <3> HIDE DEF t, verified
    <3>2. Finds(t)
      BY <3>1, AllFoundFinds
    <3>3. \/ LauncherUnderstands(t)
          \/ Has(t, <<"Input", "FilteredProjectionsFile">>)
          \/ ~Has(t, <<"Output", "VolumeFile">>)
      BY <2>1, <3>1, AllFoundUnderstands
    <3> QED
      BY Zenon, <3>2, <3>3 DEF LauncherAccepts
  <2> HIDE DEF verified
  <2>4. Tree' = verified.tree /\ call'.verified.outcome = verified.outcome
    BY <2>2 DEF Tree
  <2> QED
    BY Zenon, <2>3, <2>4 DEF VerifiedIsEnough
<1> QED
  BY <1>1, <1>2, <1>3, PTL DEF ConfigurationsSpec

(* A set in some order is a list of its elements.                           *)
LEMMA SetInOrder ==
  ASSUME NEW S, IsFiniteSet(S)
  PROVE  SetToSeq(S) \in Seq(S)
<1> DEFINE n == Cardinality(S)
<1>1. n \in Nat /\ ExistsBijection(1 .. n, S)
  BY FS_CardinalityType
<1>2. \E f \in [1 .. n -> S] : IsInjective(f)
  BY <1>1 DEF ExistsBijection, Bijection, Injection
<1>3. SetToSeq(S) \in [1 .. n -> S]
  BY <1>2 DEF SetToSeq
<1> QED
  BY <1>1, <1>3, SeqDef

LEMMA ListsOn ==
  ASSUME NEW S, NEW a \in Seq(S), NEW b \in Seq(S)
  PROVE  a \o b \in Seq(S)
BY ConcatProperties

(* The files that are checked are of lines: those of as many settings as    *)
(* there are.                                                               *)
LEMMA LinesOfAreLines ==
  ASSUME NEW settings, IsFiniteSet(settings),
         \A s \in settings : s.line.kind \in LineKinds
  PROVE  AreLines(LinesOf(settings))
<1> DEFINE of(section) == {t \in settings : t.section = section}
           set(section) == {s.line : s \in of(section)}
           lines(section) == SetToSeq(set(section))
           part(section)  == IF lines(section) = <<>> THEN <<>>
                             ELSE <<SectionLine(section)>> \o lines(section)
           names == {"Input", "Output", "Volume", "Projections", "Reconstruction",
                     "Software", "Magic"}
           X == {s.line : s \in settings} \cup {SectionLine(k) : k \in names}
           all == lines("") \o part("Input") \o part("Output") \o part("Volume")
                    \o part("Projections") \o part("Reconstruction") \o part("Software")
                    \o part("Magic")
<1>1. LinesOf(settings) = all
  BY Zenon DEF LinesOf
<1>2. ASSUME NEW k PROVE lines(k) \in Seq(X)
  <2> DEFINE line == [s \in of(k) |-> s.line]
  <2>1. IsFiniteSet(of(k))
    BY FS_Subset
  <2>2. line \in Surjection(of(k), set(k))
    BY DEF Surjection
  <2> HIDE DEF line
  <2>3. IsFiniteSet(set(k))
    BY <2>1, <2>2, FS_Surjection
  <2>4. set(k) \subseteq X
    OBVIOUS
  <2> HIDE DEF set, X
  <2>5. lines(k) \in Seq(set(k))
    BY <2>3, SetInOrder
  <2> QED
    BY <2>4, <2>5, SeqOfMore
<1>3. \A x \in X : x.kind \in LineKinds
  <2>1. \A k : SectionLine(k).kind = "section"
    BY DEF SectionLine
  <2> QED
    BY <2>1 DEF LineKinds
<1>4. \A k \in names : SectionLine(k) \in X
  OBVIOUS
<1> HIDE DEF X, lines
<1>5. ASSUME NEW k \in names PROVE part(k) \in Seq(X)
  <2>1. <<SectionLine(k)>> \in Seq(X)
    BY <1>4, ListOfOne
  <2>2. <<SectionLine(k)>> \o lines(k) \in Seq(X)
    BY <1>2, <2>1, ListsOn
  <2> QED
    BY <2>2, EmptySeq
<1> DEFINE l == lines("")
<1>6. /\ l \in Seq(X) /\ part("Input") \in Seq(X) /\ part("Output") \in Seq(X)
      /\ part("Volume") \in Seq(X) /\ part("Projections") \in Seq(X)
      /\ part("Reconstruction") \in Seq(X) /\ part("Software") \in Seq(X)
      /\ part("Magic") \in Seq(X)
  BY <1>2, <1>5
<1> HIDE DEF part, l
<1>7. all \in Seq(X)
  <2>1. l \o part("Input") \o part("Output") \o part("Volume") \in Seq(X)
    BY <1>6, ListsOn
  <2>2. l \o part("Input") \o part("Output") \o part("Volume")
          \o part("Projections") \o part("Reconstruction") \in Seq(X)
    BY <1>6, <2>1, ListsOn
  <2> QED
    BY <1>6, <2>2, ListsOn DEF l
<1> HIDE DEF all
<1>8. IsList(all) /\ \A i \in DOMAIN all : all[i] \in X
  <2>1. IsList(all) /\ DOMAIN all = 1 .. Len(all)
    BY <1>7, ListOf
  <2> QED
    BY <1>7, <2>1, ElementOfSeq
<1> QED
  BY <1>1, <1>3, <1>8 DEF AreLines

(* The runs of the program that are checked are among those of any files.   *)
LEMMA RunsAreAny ==
  ASSUME NEW options, NEW settings, NEW header, IsFiniteSet(settings),
         \A s \in settings : s.line.kind \in LineKinds,
         Runs(options, settings, header)
  PROVE  RunsAny
<1> DEFINE lines == LinesOf(settings)
<1>1. AreLines(lines)
  BY LinesOfAreLines
<1>2. Libraries \in SUBSET {"vDSP", "FFTW"}
  BY DEF Libraries
<1>3. \E verified \in {Configure(lines, header, Libraries)} :
         Called([name |-> "program", options |-> options, settings |-> settings,
                 header |-> header, verified |-> verified],
                RunProgram(options, verified))
  BY Zenon DEF Runs
<1> HIDE DEF lines
<1> QED
  BY Zenon, <1>1, <1>2, <1>3 DEF RunsAny

=============================================================================
