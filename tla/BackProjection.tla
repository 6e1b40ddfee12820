----------------------------- MODULE BackProjection -----------------------------
(***************************************************************************)
(* What one projection adds to the volume                                  *)
(* (source/back_projection: ParallelBackProjector_cpu.txx, RayTracer.hpp   *)
(* and PixelInterpolator.hpp).                                             *)
(*                                                                         *)
(* An axis of an image is [n |-> pixels, origin |-> first one's position,  *)
(* spacing |-> distance between them]. Positions are integers: all lengths *)
(* are in a unit that makes the half spacings and the products with the    *)
(* sine and cosine of the angle whole. What the processor rounds is exact  *)
(* here. The value of a pixel is left out: what an interpolation gives is  *)
(* the weights it gives to pixels, out of the product of the spacings.     *)
(***************************************************************************)
EXTENDS Integers, FiniteSetsExt, SequencesExt

Position(axis, i) == axis.origin + i * axis.spacing
Pixels(axis) == 0 .. axis.n - 1

(* calculate_extents: from the first pixel's centre to the last one's, and  *)
(* from the outer edge of the one to that of the other.                     *)
Interior(axis) == <<axis.origin, Position(axis, axis.n - 1)>>
Exterior(axis) == <<axis.origin - axis.spacing \div 2,
                    Position(axis, axis.n - 1) + axis.spacing \div 2>>

(* Fault: a point on the limit is within it.                                *)
StrictlyBeyond(u, extents) == u < extents[1] \/ u > extents[2]

Beyond(u, extents) == u <= extents[1] \/ u >= extents[2]

-----------------------------------------------------------------------------
(* Interpolation along one axis: a function from pixels to weights          *)

(* The truncated (u - origin)/spacing + 0.5 is never negative.              *)
Nearest(axis, u) ==
  [i \in {(2 * (u - axis.origin) + axis.spacing) \div (2 * axis.spacing)} |->
     axis.spacing]

(* Both pixels are read, even if one of the weights is zero.                *)
Linear(axis, u) ==
  LET low  == (u - axis.origin) \div axis.spacing
      rest == (u - axis.origin) % axis.spacing
  IN  [i \in {low, low + 1} |-> IF i = low THEN axis.spacing - rest ELSE rest]

(* The two axes of an image together.                                       *)
Both(w0, w1) ==
  [p \in (DOMAIN w0) \X (DOMAIN w1) |-> w0[p[1]] * w1[p[2]]]

(* The methods. No weights: the value is zero and no pixel is read.         *)
Interpolate(method, axes, u) ==
  LET nearest ==
        IF \E a \in 1..2 : Beyond(u[a], Exterior(axes[a])) THEN <<>>
        ELSE Both(Nearest(axes[1], u[1]), Nearest(axes[2], u[2]))
      bilinear ==
        IF \E a \in 1..2 : Beyond(u[a], Interior(axes[a])) THEN <<>>
        ELSE Both(Linear(axes[1], u[1]), Linear(axes[2], u[2]))
  IN  CASE method = "NearestNeighbor" -> nearest
        [] method = "Bilinear"        -> bilinear
        [] method = "BilinearWithFallback" ->
             IF bilinear = <<>> THEN nearest ELSE bilinear

Methods == {"NearestNeighbor", "Bilinear", "BilinearWithFallback"}

Total(weights) == MapThenSumSet(LAMBDA p : weights[p], DOMAIN weights)

-----------------------------------------------------------------------------
(* The geometry. An angle is [sin, cos, unit], both in units of 1/unit.     *)

Scaled(axis, by) == [axis EXCEPT !.origin = @ * by, !.spacing = @ * by]

(* Where the ray through a point <<z, y, x>> meets the projection, in the   *)
(* units of the projection scaled by the angle's.                           *)
Intersect(at, angle) ==
  <<at[1] * angle.unit, angle.cos * at[2] - angle.sin * at[3]>>

(* The radius of the circle that is seen from every angle.                  *)
Radius(columns) == Min({-Interior(columns)[1], Interior(columns)[2]})

(* Fault: the scan of a row starts after the voxel it should start with.    *)
RowWithoutFirst(x, chord2) ==
  LET left(k)  == Position(x, k) <= 0 /\ Position(x, k) * Position(x, k) >= chord2
      right(k) == Position(x, k) >= 0 /\ Position(x, k) * Position(x, k) >= chord2
      start == 1 + Max({0} \cup {k \in 0 .. x.n : left(k)})
      stop  == Min({x.n} \cup {k \in 0 .. x.n : right(k)})
  IN  start .. stop - 1

(* The voxels of a row that are scanned, chord2 being the square of half    *)
(* the chord: from max(0, floor((-chord - origin)/spacing)) to before       *)
(* min(Nx, ceil((chord - origin)/spacing)).                                 *)
Row(x, chord2) ==
  LET left(k)  == Position(x, k) <= 0 /\ Position(x, k) * Position(x, k) >= chord2
      right(k) == Position(x, k) >= 0 /\ Position(x, k) * Position(x, k) >= chord2
      start == Max({0} \cup {k \in 0 .. x.n : left(k)})
      stop  == Min({x.n} \cup {k \in 0 .. x.n : right(k)})
  IN  start .. stop - 1

(* The slices that the projection sees: those before are skipped, those     *)
(* after end the loop.                                                      *)
SlicesInView(z, rows) ==
  {i \in Pixels(z) : ~Beyond(Position(z, i), Exterior(rows))}

Chord2(y, j, columns) ==
  Radius(columns) * Radius(columns) - Position(y, j) * Position(y, j)

Scanned(volume, projection) ==
  LET columns == projection[2] IN
  {v \in SlicesInView(volume[1], projection[1]) \X Pixels(volume[2]) \X
           Pixels(volume[3]) :
     /\ Chord2(volume[2], v[2], columns) > 0
     /\ v[3] \in Row(volume[3], Chord2(volume[2], v[2], columns))}

(* ApplyProjection: the weights with which pixels are added to each voxel.  *)
(* The position along a row is added up instead of multiplied, which is the *)
(* same but for the rounding.                                               *)
WeightsOf(method, volume, projection, angle) ==
  LET axes == [a \in 1..2 |-> Scaled(projection[a], angle.unit)]
      at(v) == [a \in 1..3 |-> Position(volume[a], v[a])]
  IN  [v \in Scanned(volume, projection) |->
         Interpolate(method, axes, Intersect(at(v), angle))]
=============================================================================
