------------------------------- MODULE FFTUtil -------------------------------
(* The lengths of Fourier transforms (bonelab/FFT_util.hpp).                *)
EXTENDS Naturals, FiniteSetsExt

Exponents == 0..16

(* The least p with 2^p >= n.                                               *)
NextPowerOfTwo(n) == Min({p \in Exponents : 2^p >= n})

(* From 2^f downwards, each halving that falls below n is made up for by a  *)
(* factor of 3; the smallest number met is taken.                           *)
NextNumberWithFactors2And3(n) ==
  LET top == NextPowerOfTwo(n)
      tested[f \in 0..top] ==
        IF f = top THEN 2^top
        ELSE LET half == tested[f + 1] \div 2
             IN  IF half < n THEN 3 * half ELSE half
  IN  Min({tested[f] : f \in 0..top})

(* What its comment promises.                                               *)
Smooth(k) ==
  \E a \in Exponents, b \in 0..11 : k % 2^a = 0 /\ k \div 2^a = 3^b
=============================================================================
