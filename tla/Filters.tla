--------------------------------- MODULE Filters ---------------------------------
(***************************************************************************)
(* The filters themselves and what the filterers do with them              *)
(* (source/filtering). A filter is a function from 0 .. length - 1, where  *)
(* what is past the middle stands for negative arguments. Its values are   *)
(* left out: a value is named by the distance from zero that it is         *)
(* computed for, and 0 is zero.                                            *)
(***************************************************************************)
EXTENDS Integers, FFTUtil

Centre == -1      \* the value at zero

(* The length of the filter of each module: twice the width or more. It is  *)
(* a power of 2 for vDSP, and need not be even for FFTW.                    *)
FilterLength(module, width) ==
  CASE module = "convolution" -> 2 * width
    [] module = "fftw" -> NextNumberWithFactors2And3(2 * width)
    [] module = "vdsp" -> 2^(NextPowerOfTwo(width) + 1)

-----------------------------------------------------------------------------
(* RampFilterRealSpace                                                      *)

(* Fault: the negative distances are left at zero.                          *)
OneSidedRamp(length) ==
  LET odd == {i \in 1 .. length \div 2 : i % 2 = 1}
  IN  [k \in 0 .. length - 1 |->
         IF k = 0 THEN Centre ELSE IF k \in odd THEN k ELSE 0]

(* The odd distances up to half the length, on both sides.                  *)
RampKernel(length) ==
  LET odd == {i \in 1 .. length \div 2 : i % 2 = 1}
  IN  [k \in 0 .. length - 1 |->
         IF k = 0 THEN Centre
         ELSE IF k \in odd THEN k
         ELSE IF length - k \in odd THEN length - k ELSE 0]

(* FilterProjection: the value with which column k goes into column j. With *)
(* FFTW and vDSP the transforms make it a circular convolution. With vDSP   *)
(* the last column of an odd width is left out.                             *)
RowWeights(module, width) ==
  LET length == FilterLength(module, width)
      kernel == RampKernel(length)
      columns == 0 .. (IF module = "vdsp" THEN 2 * (width \div 2) ELSE width) - 1
  IN  [p \in columns \X columns |->
         kernel[IF module # "convolution" THEN (p[1] - p[2]) % length
                ELSE IF p[1] >= p[2] THEN p[1] - p[2] ELSE p[2] - p[1]]]

-----------------------------------------------------------------------------
(* The transfer function of TaperedCosineWindowFilter. Frequencies are      *)
(* fractions of that of Nyquist: i out of half the length, f1 and f2 out of *)
(* unit. A value that is computed from the cosine is named by its i.        *)

(* Three loops, of which only the last one comes to half the length.        *)
TaperedCosineWindow(length, f1, f2, unit) ==
  LET half    == length \div 2
      flat    == {i \in 1 .. half - 1 : i * unit <= f1 * half}
      tapered == {i \in 1 .. half - 1 : i * unit < f2 * half} \ flat
      at(i)   == IF i = 0 \/ i \in flat THEN Centre ELSE IF i \in tapered THEN i ELSE 0
  IN  [k \in 0 .. length - 1 |-> at(IF k <= half THEN k ELSE length - k)]
=============================================================================
