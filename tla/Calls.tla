---------------------------------- MODULE Calls ----------------------------------
(***************************************************************************)
(* The computations that keep no state: each action is one call, with all  *)
(* the inputs of a small set, and each property relates what is returned   *)
(* to what was asked.                                                      *)
(***************************************************************************)
EXTENDS Tuples, Filters, BackProjection, BadPixels, Calibration

VARIABLES call, result

NoCall == [name |-> "none"]

CallsInit == call = NoCall /\ result = <<>>

(* A call, and what it returns.                                             *)
Called(inputs, returned) == call' = inputs /\ result' = returned

Abs(x) == IF x < 0 THEN -x ELSE x

-----------------------------------------------------------------------------
(* Tuples and lengths                                                       *)

ReadsTuple ==
  \E text \in Texts(5), size \in 1 .. 2 :
    Called([name |-> "readTuple", text |-> text, size |-> size],
           Accepts(text, size))

WritesTuple ==
  \E size \in 1 .. 3 :
    Called([name |-> "writeTuple", size |-> size],
           WriteTuple([i \in 1 .. size |-> "n"]))

FlattensIndices ==
  \E dims \in UNION {[1 .. d -> 1 .. 4] : d \in 1 .. 3} :
    Called([name |-> "flatIndex", dims |-> dims],
           [index \in Indices(dims) |-> FlatIndex(dims, index)])

ChoosesLength ==
  \E n \in 1 .. 300 :
    Called([name |-> "fftLength", n |-> n], NextNumberWithFactors2And3(n))

(* A tuple is read if and only if it is well formed, whatever the blanks,   *)
(* brackets and commas; and what operator<< writes is read.  As indices,    *)
(* tuples fill the block of an array: each has a place of its own, and      *)
(* those that follow each other in the fastest dimension are neighbours.    *)
TuplesAreUnderstood ==
  /\ call.name = "readTuple" => result = WellFormed(call.text, call.size)
  /\ call.name = "writeTuple" => Accepts(result, call.size)
  /\ call.name = "flatIndex" =>
       LET last == Len(call.dims) IN
       /\ Range(result) = 0 .. LongProduct(call.dims) - 1
       /\ Cardinality(DOMAIN result) = LongProduct(call.dims)
       /\ \A index \in DOMAIN result :
            index[last] > 0 =>
              result[index] = result[[index EXCEPT ![last] = @ - 1]] + 1

(* A transform is long enough, has factors 2 and 3 only, and no shorter one *)
(* would do.                                                                *)
LengthsAreLeast ==
  call.name = "fftLength" =>
    /\ result >= call.n /\ Smooth(result)
    /\ \A k \in call.n .. result - 1 : ~Smooth(k)

-----------------------------------------------------------------------------
(* Filters                                                                  *)

FiltersRow ==
  \E module \in {"convolution", "fftw", "vdsp"}, width \in 1 .. 20 :
    Called([name |-> "filterRow", module |-> module, width |-> width],
           RowWeights(module, width))

MakesWindow ==
  \E length \in 2 .. 24, f1 \in 0 .. 7, f2 \in 1 .. 8 :
    /\ f1 < f2
    /\ Called([name |-> "window", length |-> length, f1 |-> f1, f2 |-> f2],
              TaperedCosineWindow(length, f1, f2, 8))

(* A row is convolved with the ramp filter of a row without end: no column  *)
(* meets another round the ends of the transform, whichever module it is    *)
(* and whatever the parity of its length.                                   *)
RowsAreConvolved ==
  call.name = "filterRow" =>
    \A p \in DOMAIN result :
      LET distance == Abs(p[1] - p[2])
      IN  result[p] = IF distance = 0 THEN Centre
                      ELSE IF distance % 2 = 1 THEN distance ELSE 0

(* The window is as its comment says, for negative frequencies as well:     *)
(* one up to f1, zero from f2 on, and in between that of its own frequency. *)
WindowIsTapered ==
  call.name = "window" =>
    \A k \in DOMAIN result :
      LET half == call.length \div 2
          f    == Min({k, call.length - k})
      IN  result[k] = IF 8 * f <= call.f1 * half THEN Centre
                      ELSE IF 8 * f >= call.f2 * half THEN 0 ELSE f

(* What a projection is filtered with: its length, its ramp and its window. *)
FiltersAreRight == LengthsAreLeast /\ RowsAreConvolved /\ WindowIsTapered

-----------------------------------------------------------------------------
(* Back-projection                                                          *)

Axis(n, origin, spacing) == [n |-> n, origin |-> origin, spacing |-> spacing]

Angles ==
  {[sin |-> 0, cos |-> 1, unit |-> 1],  [sin |-> 1, cos |-> 0, unit |-> 1],
   [sin |-> 3, cos |-> 4, unit |-> 5],  [sin |-> -4, cos |-> 3, unit |-> 5],
   [sin |-> 0, cos |-> -1, unit |-> 1]}

Volumes == {<<Axis(3, -2, 2), Axis(2, y, 2), Axis(n, x, spacing)>> :
              y \in {-3, -1, 0}, n \in {2, 4}, x \in {-5, -4, -2, 1},
              spacing \in {2, 3}}

Projections == {<<Axis(2, v, 2), Axis(n, u, 2)>> :
                  v \in {-2, -1}, n \in {2, 4}, u \in {-5, -3, -2, 0}}

BackProjects ==
  \E method \in Methods, volume \in Volumes, projection \in Projections,
     angle \in Angles :
    Called([name |-> "apply", method |-> method, volume |-> volume,
            projection |-> projection, angle |-> angle],
           WeightsOf(method, volume, projection, angle))

PlaceOf(voxel) == [d \in 1 .. 3 |-> Position(call.volume[d], voxel[d])]

(* No interpolation reads a pixel outside the projection, however close to  *)
(* the edge a ray passes; and a pixel that counts lies within a pixel of    *)
(* where the ray meets the projection, or half a pixel if it is the nearest.*)
ReadsNearbyPixels ==
  call.name = "apply" =>
    \A v \in DOMAIN result : \A p \in DOMAIN result[v] :
      LET u == Intersect(PlaceOf(v), call.angle)
          unit(a) == call.projection[a].spacing * call.angle.unit
          away(a) ==
            Abs(Position(call.projection[a], p[a]) * call.angle.unit - u[a])
      IN  \A a \in 1 .. 2 :
            /\ p[a] \in Pixels(call.projection[a])
            /\ result[v][p] > 0 =>
                 /\ away(a) < unit(a)
                 /\ call.method = "NearestNeighbor" => 2 * away(a) <= unit(a)

(* Every voxel strictly within the circle that is seen from all angles, and *)
(* strictly within the rows of the projection, receives exactly one         *)
(* pixel's worth from the projection, at any angle: none is left out by the *)
(* scan or weighted more than another.                                      *)
WeightsAreUniform ==
  call.name = "apply" =>
    LET rows    == call.projection[1]
        columns == call.projection[2]
        seen    == IF call.method = "Bilinear" THEN Interior(rows)
                   ELSE Exterior(rows)
        R       == Radius(columns)
        whole   == rows.spacing * columns.spacing * call.angle.unit * call.angle.unit
    IN  R > 0 =>
          \A v \in Pixels(call.volume[1]) \X Pixels(call.volume[2])
                     \X Pixels(call.volume[3]) :
            LET at == PlaceOf(v) IN
            /\ at[2] * at[2] + at[3] * at[3] < R * R
            /\ seen[1] < at[1] /\ at[1] < seen[2]
            => /\ v \in DOMAIN result
               /\ Total(result[v]) = whole
               /\ \A p \in DOMAIN result[v] : result[v][p] >= 0

-----------------------------------------------------------------------------
(* Bad pixels                                                               *)

BadSets ==
  (UNION {{[dims |-> d, set |-> s] : s \in SUBSET Locations(d)} :
            d \in {<<1, 5>>, <<2, 4>>, <<3, 3>>}})
    \cup {[dims |-> <<3, 4>>, set |-> s] :
            s \in kSubset(1, Locations(<<3, 4>>)) \cup kSubset(3, Locations(<<3, 4>>))}

CorrectsBadPixels ==
  \E b \in BadSets :
    LET fields == [p \in Locations(b.dims) |-> IF p \in b.set THEN 2 ELSE 0]
        bad    == IdentifyBadPixels(b.dims, fields,
                                    [p \in Locations(b.dims) |-> 5], 1, 3)
    IN  Called([name |-> "badPixels", dims |-> b.dims, bad |-> bad],
               CorrectionTable(b.dims, bad))

Distance(p, q) == Max({Abs(p[1] - q[1]), Abs(p[2] - q[2])})

GoodPixels == Locations(call.dims) \ Range(call.bad)

(* A bad pixel becomes the average of four different good ones, and none    *)
(* nearer is passed over; no average is made of another average, although   *)
(* the correction is made in place; good pixels are left alone.             *)
AveragesGoodPixels ==
  LET before == [p \in Locations(call.dims) |-> p]
      after  == ReplaceBadPixels(before, call.bad, result)
  IN  \A p \in Locations(call.dims) :
        IF p \in GoodPixels THEN after[p] = p
        ELSE LET used == Range(after[p][2]) IN
             /\ Cardinality(used) = 4 /\ used \subseteq GoodPixels
             /\ \A q \in GoodPixels \ used : \A r \in used :
                  Distance(p, q) >= Distance(p, r)

(* Fewer than four good pixels lie in those squares around a bad one that   *)
(* have as many places as the image, inside or out.                         *)
TooFewAround(p) ==
  Cardinality({q \in GoodPixels :
    (2 * Distance(p, q) + 1) * (2 * Distance(p, q) + 1)
      <= call.dims[1] * call.dims[2] + 1}) < 4

(* Bad pixels are averaged, or the walk is given up around one of them.     *)
BadPixelsAreReplaced ==
  call.name = "badPixels" =>
    IF result # <<>> \/ call.bad = <<>> THEN AveragesGoodPixels
    ELSE \E i \in DOMAIN call.bad : TooFewAround(call.bad[i])

-----------------------------------------------------------------------------
(* Calibration and beam power. A scan of which every stride-th projection   *)
(* is read, the last one too, while the beam's power decays evenly; dark    *)
(* current is added to all; bright fields are taken before and after it.    *)

Scans ==
  [decay : {0, 2, 4}, before : 1 .. 3, after : 1 .. 3, stride : 1 .. 3,
   reads : 2 .. 4, bad : {{}, {<<0, 1>>}}, dark : {0, 7}, single : BOOLEAN,
   option : {"Manual", "BeforeAndAfterBrightField",
             "ConstantTotalAttenuation", "NullProjectionEdge"}]

Columns == {0} \X (0 .. 3)
Power(s, t) == 1000 - s.decay * t
Sample(i) == [p \in Columns |-> IF p[2] \in {0, 3} THEN 0
                                ELSE IF (p[2] + i) % 2 = 1 THEN 4 ELSE 8]
Stack(s, times) ==
  [ndims  |-> IF Len(times) = 1 /\ s.single THEN 2 ELSE 3,
   layers |-> [k \in DOMAIN times |-> [p \in Columns |->
     s.dark + IF p \in s.bad THEN 3 * times[k] ELSE Power(s, times[k])]]]
Fields(s) ==
  LoadCalibrationFields(
    [ndims |-> 2, layers |-> <<[p \in Columns |-> s.dark]>>],
    Stack(s, [k \in 1 .. s.before |-> -k]),
    Stack(s, [k \in 1 .. s.after |-> (s.reads - 1) * s.stride + k]))
Attenuated(s, i) ==
  Attenuation(Fields(s),
    [p \in Columns |-> s.dark + Power(s, i * s.stride) - Sample(i)[p]], Columns)
Terms(s) ==
  [constant |-> (s.decay * (s.before + 1)) \div 2, linear |-> s.decay, edge |-> 1]

CorrectsBeam ==
  \E s \in Scans :
    LET corrector == Corrector(s.option, Terms(s), Fields(s), s.reads, s.stride, s.bad)
        reference == Attenuated(s, 0)
    IN  Called([name |-> "beam", scan |-> s],
          [k \in 1 .. s.reads |->
             [shift |-> Correction(corrector, reference, k - 1, Attenuated(s, k - 1)),
              image |-> ProcessProjection(corrector, reference, k - 1,
                                          Attenuated(s, k - 1))]])

(* Each kind of correction undoes the decay, with terms given or measured,  *)
(* for any stride and any number of bright fields: what is left is the      *)
(* sample's attenuation. (With a bad pixel in the fields, for the kinds     *)
(* that do not look at the projection.)  What BeforeAndAfterBrightField     *)
(* estimates, and the line that is fitted to the corrections, is what the   *)
(* user would have to give as the terms.                                    *)
DecayIsUndone ==
  call.name = "beam" =>
    LET s == call.scan
        terms == [constant |-> Terms(s).constant,
                  linear   |-> s.stride * Terms(s).linear]
    IN  /\ s.bad = {} \/ s.option \in {"Manual", "BeforeAndAfterBrightField"} =>
             \A k \in DOMAIN result : \A p \in Columns \ s.bad :
               result[k].image[p] = Sample(k - 1)[p]
        /\ BeforeAndAfter(Fields(s), s.reads, s.stride, s.bad) = terms
        /\ s.bad = {} =>
             LinearFit([k \in DOMAIN result |-> result[k].shift]) = terms
=============================================================================
