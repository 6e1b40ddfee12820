-------------------------------- MODULE BadPixels --------------------------------
(***************************************************************************)
(* Bad pixels and what replaces them (source/projection_correction:        *)
(* BadPixelCorrector.txx and NeighborhoodWalker.txx). Locations are pairs; *)
(* an image is a function from its locations to values.                    *)
(***************************************************************************)
EXTENDS Integers, FiniteSetsExt, SequencesExt

Locations(dims) == (0 .. dims[1] - 1) \X (0 .. dims[2] - 1)

-----------------------------------------------------------------------------
(* NeighborhoodWalker: the neighbours, then squares of growing size. A step *)
(* is where it leads to, from the starting point, and the radius then.      *)

FirstSteps == <<<<1, 0>>, <<0, 1>>, <<-1, 0>>, <<0, -1>>,
                <<1, 1>>, <<-1, 1>>, <<-1, -1>>, <<1, -1>>>>

(* On the square of radius r: up the right side, then left, down and right, *)
(* until the lower right corner leads out to the next square.               *)
Spiral(r, x, y) ==
  CASE x = r  /\ y = r              -> [at |-> <<x - 1, y>>, radius |-> r]
    [] x = r  /\ y = -r             -> [at |-> <<x + 1, y>>, radius |-> r + 1]
    [] x = r  /\ y \notin {r, -r}   -> [at |-> <<x, y + 1>>, radius |-> r]
    [] x = -r /\ y = -r             -> [at |-> <<x + 1, y>>, radius |-> r]
    [] x = -r /\ y # -r             -> [at |-> <<x, y - 1>>, radius |-> r]
    [] x \notin {r, -r} /\ y = r     -> [at |-> <<x - 1, y>>, radius |-> r]
    [] x \notin {r, -r} /\ y = -r    -> [at |-> <<x + 1, y>>, radius |-> r]

(* The step that follows those taken.                                       *)
TakeStep(taken) ==
  IF Len(taken) < 8 THEN [at |-> FirstSteps[Len(taken) + 1], radius |-> 1]
  ELSE LET last == Last(taken) IN Spiral(last.radius, last.at[1], last.at[2])

(* As many steps as there are up to the first square that lies outside the  *)
(* image wherever the walk starts.                                          *)
Enough(dims) ==
  LET side == 2 * Max({dims[1], dims[2]}) + 1 IN side * side - 1

(* The locations that each TakeStep leads to.                               *)
Walk(dims, start) ==
  LET taken[k \in 0 .. Enough(dims)] ==
        IF k = 0 THEN <<>> ELSE LET before == taken[k - 1]
                                IN  Append(before, TakeStep(before))
      steps == taken[Enough(dims)]
  IN  [k \in DOMAIN steps |-> <<start[1] + steps[k].at[1], start[2] + steps[k].at[2]>>]

(* The number of steps after which the next one outside is the last.        *)
Patience(dims) == dims[1] * dims[2]

(* The steps of a walk that lead to what GetNextLocation returns, one call  *)
(* after another. The call that is outside the image after as many steps as *)
(* there are pixels, inside or out, throws.                                 *)
Returned(dims, walk) ==
  LET outside == {k \in DOMAIN walk : walk[k] \notin Locations(dims)}
      givesUp == Min({k \in outside : k >= Patience(dims)})
  IN  {k \in DOMAIN walk : k < givesUp} \ outside

-----------------------------------------------------------------------------
(* BadPixelCorrector                                                        *)

(* The list goes through the image row by row.                              *)
IdentifyBadPixels(dims, dark, flat, darkLimit, flatLimit) ==
  LET at(k) == <<(k - 1) \div dims[2], (k - 1) % dims[2]>>
      found[k \in 0 .. dims[1] * dims[2]] ==
        IF k = 0 THEN <<>>
        ELSE IF dark[at(k)] > darkLimit \/ flat[at(k)] < flatLimit
             THEN Append(found[k - 1], at(k)) ELSE found[k - 1]
  IN  found[dims[1] * dims[2]]

(* The places that the first four of some steps of a walk lead to.          *)
FirstFour(walk, steps) ==
  LET a == Min(steps)
      b == Min(steps \ {a})
      c == Min(steps \ {a, b})
      d == Min(steps \ {a, b, c})
  IN  <<walk[a], walk[b], walk[c], walk[d]>>

(* The first four good neighbours of each; the empty table if there are     *)
(* fewer, for then the walker throws and so does this. Those are good that  *)
(* are not known to be bad.                                                 *)
Table(dims, bad, known) ==
  LET good == [i \in DOMAIN bad |->
                 LET walk == Walk(dims, bad[i])
                 IN  [walk |-> walk, steps |-> {k \in Returned(dims, walk) :
                                                  walk[k] \notin known[i]}]]
  IN  IF \A i \in DOMAIN bad : Cardinality(good[i].steps) >= 4
      THEN [i \in DOMAIN bad |-> FirstFour(good[i].walk, good[i].steps)]
      ELSE <<>>

(* Fault: a pixel is only known to be bad when the table has come to it.    *)
BadSoFar(dims, bad) ==
  Table(dims, bad, [i \in DOMAIN bad |-> Range(SubSeq(bad, 1, i))])

CorrectionTable(dims, bad) ==
  Table(dims, bad, [i \in DOMAIN bad |-> Range(bad)])

(* The bad pixels are replaced one after another, in the image itself: by   *)
(* the average of what is then at the places the table names.               *)
ReplaceBadPixels(image, bad, table) ==
  LET done[i \in 0 .. Len(bad)] ==
        IF i = 0 THEN image
        ELSE LET im == done[i - 1]
             IN  [im EXCEPT ![bad[i]] =
                    <<"average", [j \in DOMAIN table[i] |-> im[table[i][j]]]>>]
  IN  done[Len(bad)]

ZeroBadPixels(image, bad) ==
  [p \in DOMAIN image |-> IF p \in Range(bad) THEN 0 ELSE image[p]]
=============================================================================
