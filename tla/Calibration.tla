------------------------------- MODULE Calibration -------------------------------
(***************************************************************************)
(* From intensities to attenuations free of the beam's decay               *)
(* (source/CTCalibration.txx, source/projection_correction without the bad *)
(* pixels, source/util/LinearFit.cpp and the part of                       *)
(* source/ReconstructionLauncher.txx that sets up the corrector).          *)
(*                                                                         *)
(* An image is a function from pixels <<row, column>> to integers.  The    *)
(* intensities differ little, so an integer x stands for an intensity of   *)
(* 1 + x*epsilon, to the first order in epsilon: means are means, and the  *)
(* logarithm of a ratio is a difference.  The integers are chosen so that  *)
(* the divisions come out even.  Intervals are in halves of the time       *)
(* between two projections of the scan.                                    *)
(***************************************************************************)
EXTENDS Integers, FiniteSetsExt, SequencesExt

Missing == [ndims |-> 0, layers |-> <<>>]
Throws  == [throws |-> TRUE]

Sum(image, pixels) == MapThenSumSet(LAMBDA p : image[p], pixels)
Minus(a, b) == [p \in DOMAIN a |-> a[p] - b[p]]
Log(a, b) == a - b

-----------------------------------------------------------------------------
(* CTCalibration. A file is [ndims, layers], a sequence of images.          *)

ReadStackAndAverage(layers) ==
  [p \in DOMAIN layers[1] |->
     MapThenSumSet(LAMBDA k : layers[k][p], DOMAIN layers) \div Len(layers)]

ReadField(file) ==
  IF file.ndims = 2 THEN file.layers[1] ELSE ReadStackAndAverage(file.layers)

(* 1, or (N + 1)/2 for N fields.                                            *)
Interval(file) == IF file.ndims = 2 THEN 2 ELSE Len(file.layers) + 1

LoadCalibrationFields(dark, bright, post) ==
  LET given == {f \in {dark, bright, post} : f # Missing}
  IN  IF \/ Missing \in {dark, bright}
         \/ \E f \in given : f.ndims \notin {2, 3}
         \/ \E f \in given : DOMAIN f.layers[1] # DOMAIN dark.layers[1]
      THEN Throws
      ELSE LET field(f) == Minus(ReadField(f), ReadField(dark)) IN
           [dark    |-> ReadField(dark),
            flat    |-> field(bright),
            post    |-> IF post = Missing THEN Missing ELSE field(post),
            advance |-> Interval(bright),
            after   |-> IF post = Missing THEN 0 ELSE Interval(post)]

(* AttenuationCalculator::ProcessProjection. Whatever out has more is zero. *)
Attenuation(calibration, in, pixels) ==
  IF DOMAIN in # DOMAIN calibration.dark THEN Throws
  ELSE [p \in pixels |-> IF p \in DOMAIN in
          THEN Log(calibration.flat[p], Max({in[p] - calibration.dark[p], 0}))
          ELSE 0]

-----------------------------------------------------------------------------
(* The correctors, and the shift that each finds for projection i           *)

(* Fault: the intervals count like those between the projections read.      *)
IntervalsUnstrided(calibration, projections, stride, bad) ==
  LET good == DOMAIN calibration.flat \ bad
      decay == Log(Sum(calibration.flat, good), Sum(calibration.post, good))
                 \div Cardinality(good)
      intervals == 2 * (projections - 1) + calibration.advance + calibration.after
      linear == (2 * decay) \div intervals
  IN  [linear |-> linear, constant |-> (calibration.advance * linear) \div 2]

(* Initialize of the corrector by bright fields before and after the scan,  *)
(* in which the bad pixels are zero.                                        *)
BeforeAndAfter(calibration, projections, stride, bad) ==
  LET good == DOMAIN calibration.flat \ bad
      decay == Log(Sum(calibration.flat, good), Sum(calibration.post, good))
                 \div Cardinality(good)
      intervals == 2 * (projections - 1) * stride
                     + calibration.advance + calibration.after
      linear == (2 * stride * decay) \div intervals
  IN  [linear   |-> linear,
       constant |-> (calibration.advance * linear) \div (2 * stride)]

(* The launcher's set-up. The constant term of a verified configuration is  *)
(* always there, so it always replaces the one Initialize had found.        *)
Corrector(option, config, calibration, projections, stride, bad) ==
  [kind     |-> option,
   constant |-> config.constant,
   linear   |-> IF option = "Manual" THEN config.linear * stride
                ELSE IF option = "BeforeAndAfterBrightField"
                THEN BeforeAndAfter(calibration, projections, stride, bad).linear
                ELSE 0,
   edge     |-> config.edge]

(* The columns of both edges, which overlap in a narrow image.              *)
EdgeMean(image, width) ==
  LET rows    == {p[1] : p \in DOMAIN image}
      columns == 1 + Max({p[2] : p \in DOMAIN image})
      sum(js) == Sum(image, rows \X js)
  IN  (sum(0 .. width - 1) + sum(columns - width .. columns - 1))
        \div (2 * width * Cardinality(rows))

(* What ProcessProjection returns, and subtracts from the image.            *)
Correction(corrector, reference, i, image) ==
  CASE corrector.kind \in {"Manual", "BeforeAndAfterBrightField"} ->
         corrector.constant + i * corrector.linear
    [] corrector.kind = "ConstantTotalAttenuation" ->
         (Sum(image, DOMAIN image) - Sum(reference, DOMAIN reference))
           \div Cardinality(DOMAIN image) + corrector.constant
    [] corrector.kind = "NullProjectionEdge" -> EdgeMean(image, corrector.edge)

ShiftProjection(image, shift) == [p \in DOMAIN image |-> image[p] + shift]

ProcessProjection(corrector, reference, i, image) ==
  ShiftProjection(image, -Correction(corrector, reference, i, image))

-----------------------------------------------------------------------------
(* LinearFit, the least squares of y[i] at i - 1, from the normal equations *)

LinearFit(y) ==
  LET n   == Len(y)
      x   == [i \in 1..n |-> i - 1]
      product(u, v) == [i \in 1..n |-> u[i] * v[i]]
      sx  == Sum(x, 1..n)
      sxx == Sum(product(x, x), 1..n)
      sy  == Sum(y, 1..n)
      sxy == Sum(product(x, y), 1..n)
      det == n * sxx - sx * sx
  IN  IF n <= 1 THEN Throws
      ELSE [constant |-> (sxx * sy - sx * sxy) \div det,
            linear   |-> (n * sxy - sx * sy) \div det]
=============================================================================
