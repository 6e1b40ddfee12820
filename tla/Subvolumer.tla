------------------------------ MODULE Subvolumer ------------------------------
(***************************************************************************)
(* The division of a volume along z into n pieces                          *)
(* (source/util/Subvolumer.txx).  A division is the function of the        *)
(* pieces' first slices, m_SubvolumeStartZIndex.                           *)
(*                                                                         *)
(* The start of piece i is i times dims/n, computed in float and cut off.  *)
(* When dims/n is not an integer it is rounded, and a product that should  *)
(* be an integer may come out just below it.  Everything else is at least  *)
(* 1/n from an integer, and correct while dims * n is well below 2^24.     *)
(***************************************************************************)
EXTENDS Integers

(* Fault: every piece but the last is given the rounded-up share.          *)
RoundsUp(dims, n, i) ==
  LET share == (dims + n - 1) \div n
  IN  {IF i * share > dims THEN dims ELSE i * share}

StartZ(dims, n, i) ==
  LET exact == (i * dims) \div n
  IN  IF i > 0 /\ dims % n # 0 /\ (i * dims) % n = 0 THEN {exact - 1, exact}
      ELSE {exact}

Divisions(dims, n) ==
  {starts \in [0 .. n - 1 -> 0 .. dims] :
     \A i \in 0 .. n - 1 : starts[i] \in StartZ(dims, n, i)}

(* Fault: the last piece is taken for one like the others.                 *)
RoundsDown(starts, dims, n, i) == dims \div n

(* The z dimension of piece i: the last one has what is left.              *)
DimsZ(starts, dims, n, i) ==
  (IF i < n - 1 THEN starts[i + 1] ELSE dims) - starts[i]
=============================================================================
