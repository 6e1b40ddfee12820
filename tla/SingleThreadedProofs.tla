-------------------------- MODULE SingleThreadedProofs --------------------------
(* The engine of one thread, and what it computes with. For any number of   *)
(* projections, any jobs and any failures it implements Reconstruction at   *)
(* its strictest (SingleThreadedReconstructionRunner). Every block of       *)
(* memory has one owner, and whatever is constructed can be used, for any   *)
(* number of images and double buffers, any sizes and any places            *)
(* (Containers).  For any volume, projection and angle, back-projection     *)
(* reads no pixel outside the projection, and the weights with which it     *)
(* reads them add up to a pixel's area; for any scan, every corrector of    *)
(* the beam's power undoes its decay (Calls).  The last two rest on a       *)
(* theory of sums over finite sets.                                         *)
EXTENDS SingleThreadedReconstructionRunner, Containers, Calls, SequenceTheorems,
        FiniteSetTheorems, NaturalsInduction, TLAPS

-----------------------------------------------------------------------------
(* The single-threaded engine: the invariant                                *)

(* Where the engine is. Once it fails it does nothing more.                 *)
Placed ==
  /\ job \in Jobs
  /\ phase \in {"prepare", "projections", "writeVolume", "fit", "returned",
                "unwind", "threw"}
  /\ p \in 0 .. NumberOfProjections
  /\ passed \in 0 .. 9
  /\ phase = "prepare" => p = 0 /\ passed = 0
  /\ phase = "projections" => p < NumberOfProjections
  /\ phase \in {"writeVolume", "fit", "returned"} =>
       p = NumberOfProjections /\ passed = 0
  /\ p = NumberOfProjections => passed = 0

(* How many projections have passed the i-th step.                          *)
Through(i) == IF passed >= i THEN p + 1 ELSE p

(* The attenuation image of the n-th projection before and after the beam's *)
(* power is corrected, and whatever is made of it.                          *)
Uncorrected == <<"convert">> \o (IF job.badPixels THEN <<"badPixels">> ELSE <<>>)
Product(kind, n) == [number |-> n, done |-> Recipe(kind)]
Reference == [number |-> 1, done |-> Uncorrected]

(* What the images have come to.                                            *)
Converted == passed >= 2 /\ job.source = "raw"

Pictured ==
  /\ DOMAIN image = Kinds
  /\ passed >= 1 => image[job.source] = Fresh(p + 1)
  /\ Converted =>
       image["attenuation"] =
         [number |-> p + 1,
          done |-> IF job.beamPower /\ passed >= 5 THEN Recipe("attenuation")
                   ELSE IF job.badPixels /\ passed >= 3 THEN <<"convert", "badPixels">>
                   ELSE <<"convert">>]
  /\ Filters(job) /\ passed >= 7 => image["filtered"] = Product("filtered", p + 1)

Referred == job.beamPower /\ Through(4) > 0 => reference = Reference

(* What has been written and applied.                                       *)
Written(kind) ==
  IF kind = "attenuation" /\ job.attenuationWriter THEN Through(6)
  ELSE IF kind = "filtered" /\ job.filteredWriter THEN Through(8) ELSE 0

Stored == file = [kind \in Kinds |-> [n \in 1 .. Written(kind) |-> Product(kind, n)]]

NumberOfAngles == IF job.atBothLimits THEN NumberOfProjections - 1 ELSE NumberOfProjections

Applied ==
  IF ~job.volumeWriter THEN 0
  ELSE IF Through(9) > NumberOfAngles THEN NumberOfAngles ELSE Through(9)

Added == volume = [n \in 1 .. Applied |-> <<Product("filtered", n), n>>]

Finished ==
  /\ phase \in {"prepare", "projections", "writeVolume"} => volumeFile = <<>>
  /\ phase \in {"fit", "returned"} =>
       volumeFile = IF job.volumeWriter THEN <<volume>> ELSE <<>>

InTurn ==
  /\ Placed /\ nextRead = Through(1) + 1
  /\ Pictured /\ Referred /\ Stored /\ Added /\ Finished

LEMMA StepsAre ==
  /\ DOMAIN Steps = 1..9 /\ Len(Steps) = 9
  /\ Steps[1] = "read" /\ Steps[2] = "convert" /\ Steps[3] = "badPixels"
  /\ Steps[4] = "reference" /\ Steps[5] = "beamPower"
  /\ Steps[6] = "writeAttenuation" /\ Steps[7] = "filter"
  /\ Steps[8] = "writeFiltered" /\ Steps[9] = "apply"
BY DEF Steps

LEMMA StepsDiffer ==
  ASSUME NEW i \in 1..9, NEW j \in 1..9, Steps[i] = Steps[j]
  PROVE  i = j
BY StepsAre

(* Everything before the i-th step that is asked for has been done.         *)
Behind(i) ==
  /\ i > 1 => passed >= 1
  /\ i > 2 /\ job.source = "raw" => passed >= 2
  /\ i > 3 /\ job.badPixels => passed >= 3
  /\ i > 4 /\ job.beamPower /\ p = 0 => passed >= 4
  /\ i > 5 /\ job.beamPower => passed >= 5
  /\ i > 6 /\ job.attenuationWriter => passed >= 6
  /\ i > 7 /\ Filters(job) => passed >= 7
  /\ i > 8 /\ job.filteredWriter => passed >= 8
  /\ i > 9 /\ job.volumeWriter /\ ~(job.atBothLimits /\ p = NumberOfProjections - 1)
       => passed >= 9

LEMMA NoneAskedIsBehind ==
  ASSUME Placed, NEW i \in 1..10,
         \A n \in passed + 1 .. i - 1 : ~Asked(Steps[n], p)
  PROVE  Behind(i)
<1>1. passed \in 0..9
  BY DEF Placed
<1>2. ASSUME NEW n \in 1..9, n < i, Asked(Steps[n], p) PROVE passed >= n
  BY <1>1, <1>2
<1>3. /\ Asked(Steps[1], p)
      /\ job.source = "raw" => Asked(Steps[2], p)
      /\ job.badPixels => Asked(Steps[3], p)
      /\ job.beamPower /\ p = 0 => Asked(Steps[4], p)
      /\ job.beamPower => Asked(Steps[5], p)
      /\ job.attenuationWriter => Asked(Steps[6], p)
      /\ Filters(job) => Asked(Steps[7], p)
      /\ job.filteredWriter => Asked(Steps[8], p)
      /\ job.volumeWriter /\ ~(job.atBothLimits /\ p = NumberOfProjections - 1)
           => Asked(Steps[9], p)
  BY StepsAre DEF Asked
<1>4. i > 1 => passed >= 1
  BY <1>2, <1>3
<1>5. i > 2 /\ job.source = "raw" => passed >= 2
  BY <1>2, <1>3
<1>6. i > 3 /\ job.badPixels => passed >= 3
  BY <1>2, <1>3
<1>7. i > 4 /\ job.beamPower /\ p = 0 => passed >= 4
  BY <1>2, <1>3
<1>8. i > 5 /\ job.beamPower => passed >= 5
  BY <1>2, <1>3
<1>9. i > 6 /\ job.attenuationWriter => passed >= 6
  BY <1>2, <1>3
<1>10. i > 7 /\ Filters(job) => passed >= 7
  BY <1>2, <1>3
<1>11. i > 8 /\ job.filteredWriter => passed >= 8
  BY <1>2, <1>3
<1>12. i > 9 /\ job.volumeWriter /\ ~(job.atBothLimits /\ p = NumberOfProjections - 1)
         => passed >= 9
  BY <1>2, <1>3
<1> QED
  BY <1>4, <1>5, <1>6, <1>7, <1>8, <1>9, <1>10, <1>11, <1>12 DEF Behind

(* A step is taken in its turn.                                             *)
LEMMA Turn ==
  ASSUME Placed, NEW i \in 1..9, Begin(Steps[i])
  PROVE  /\ passed' = i /\ passed < i /\ passed \in Nat /\ Behind(i)
         /\ Asked(Steps[i], p) /\ Placed'
         /\ phase = "projections" /\ p \in Nat /\ p < NumberOfProjections
         /\ UNCHANGED <<job, phase, p>>
<1>1. PICK j \in 1..9 : Steps[j] = Steps[i] /\ ComesNext(j) /\ passed' = j
  BY StepsAre DEF Begin
<1>2. j = i
  BY <1>1, StepsDiffer
<1>3. /\ passed < i /\ passed \in Nat /\ Asked(Steps[i], p)
      /\ \A n \in passed + 1 .. i - 1 : ~Asked(Steps[n], p)
  BY <1>1, <1>2, StepsAre DEF ComesNext, Placed
<1>4. phase = "projections" /\ UNCHANGED <<job, phase, p>>
  BY DEF Begin
<1>5. p \in Nat /\ p < NumberOfProjections
  BY <1>4, NumberOfProjectionsAssumption DEF Placed
<1>6. Placed'
  BY <1>1, <1>2, <1>4, <1>5 DEF Placed
<1>7. Behind(i)
  BY <1>3, NoneAskedIsBehind
<1> QED
  BY <1>1, <1>2, <1>3, <1>4, <1>5, <1>6, <1>7

LEMMA AskedIs ==
  ASSUME Placed, NEW i \in 1..9, Begin(Steps[i])
  PROVE  /\ i = 2 => job.source = "raw"
         /\ i = 3 => job.badPixels
         /\ i = 4 => job.beamPower /\ p = 0
         /\ i = 5 => job.beamPower
         /\ i = 6 => job.attenuationWriter
         /\ i = 7 => Filters(job)
         /\ i = 8 => job.filteredWriter
         /\ i = 9 => job.volumeWriter
                       /\ ~(job.atBothLimits /\ p = NumberOfProjections - 1)
<1>1. Asked(Steps[i], p)
  BY Turn
<1>2. /\ Asked("convert", p) => job.source = "raw"
      /\ Asked("badPixels", p) => job.badPixels
      /\ Asked("reference", p) => job.beamPower /\ p = 0
      /\ Asked("beamPower", p) => job.beamPower
      /\ Asked("writeAttenuation", p) => job.attenuationWriter
      /\ Asked("filter", p) => Filters(job)
      /\ Asked("writeFiltered", p) => job.filteredWriter
      /\ Asked("apply", p) =>
           job.volumeWriter /\ ~(job.atBothLimits /\ p = NumberOfProjections - 1)
  BY DEF Asked
<1> QED
  BY <1>1, <1>2, StepsAre

LEMMA JobIsAllowed ==
  ASSUME job \in Jobs
  PROVE  /\ job.source \in Kinds
         /\ job.badPixels \in BOOLEAN /\ job.beamPower \in BOOLEAN
         /\ job.attenuationWriter \in BOOLEAN /\ job.filteredWriter \in BOOLEAN
         /\ job.volumeWriter \in BOOLEAN /\ job.atBothLimits \in BOOLEAN
         /\ job.source # "raw" =>
              ~job.badPixels /\ ~job.beamPower /\ ~job.attenuationWriter
         /\ job.source = "filtered" => ~job.filteredWriter
BY JobsAssumption DEF AllowedJobs

LEMMA TwoSteps ==
  ASSUME NEW S, NEW a \in S, NEW b \in S
  PROVE  <<a>> \o <<b>> = <<a, b>> /\ Append(<<a>>, b) = <<a, b>>
<1>1. /\ <<a>> \o <<b>> \in Seq(S) /\ <<a, b>> \in Seq(S) /\ Append(<<a>>, b) \in Seq(S)
      /\ Len(<<a>> \o <<b>>) = 2 /\ Len(<<a, b>>) = 2 /\ Len(Append(<<a>>, b)) = 2
  OBVIOUS
<1>2. \A i \in 1..2 : (<<a>> \o <<b>>)[i] = <<a, b>>[i]
  OBVIOUS
<1>3. \A i \in 1..2 : Append(<<a>>, b)[i] = <<a, b>>[i]
  OBVIOUS
<1>4. <<a>> \o <<b>> = <<a, b>>
  BY <1>1, <1>2, SeqEqual
<1>5. Append(<<a>>, b) = <<a, b>>
  BY <1>1, <1>3, SeqEqual
<1> QED
  BY <1>4, <1>5

LEMMA ConvertedTwice ==
  /\ <<"convert">> \o <<"badPixels">> = <<"convert", "badPixels">>
  /\ Append(<<"convert">>, "badPixels") = <<"convert", "badPixels">>
<1>1. PICK a \in {"convert", "badPixels"}, b \in {"convert", "badPixels"} :
        a = "convert" /\ b = "badPixels"
  OBVIOUS
<1>2. <<a>> \o <<b>> = <<a, b>> /\ Append(<<a>>, b) = <<a, b>>
  BY TwoSteps
<1> QED
  BY <1>1, <1>2

LEMMA RecipesAre ==
  ASSUME job \in Jobs
  PROVE  /\ Recipe(job.source) = <<>>
         /\ Uncorrected = IF job.badPixels THEN <<"convert", "badPixels">>
                          ELSE <<"convert">>
         /\ job.source = "raw" =>
              Recipe("attenuation") =
                IF job.beamPower THEN Append(Uncorrected, "beamPower") ELSE Uncorrected
         /\ job.source # "filtered" =>
              Recipe("filtered") = Append(Recipe("attenuation"), "filter")
<1>1. /\ job.badPixels \in BOOLEAN /\ job.beamPower \in BOOLEAN
      /\ job.source \in {"raw", "attenuation", "filtered"}
      /\ job.source # "raw" => ~job.badPixels /\ ~job.beamPower
  BY JobIsAllowed DEF Kinds
<1>2. Uncorrected = IF job.badPixels THEN <<"convert", "badPixels">> ELSE <<"convert">>
  <2>1. CASE job.badPixels
    <3>1. Uncorrected = <<"convert">> \o <<"badPixels">>
      BY <2>1 DEF Uncorrected
    <3> QED
      BY <2>1, <3>1, ConvertedTwice
  <2>2. CASE ~job.badPixels
    <3>1. Uncorrected = <<"convert">> \o <<>>
      BY <2>2 DEF Uncorrected
    <3> QED
      BY <2>2, <3>1
  <2> QED
    BY <2>1, <2>2
<1>3. job.source = "raw" =>
        Recipe("attenuation") =
          IF job.beamPower THEN Append(Uncorrected, "beamPower") ELSE Uncorrected
  <2> SUFFICES ASSUME job.source = "raw"
               PROVE  Recipe("attenuation") =
                        IF job.beamPower THEN Append(Uncorrected, "beamPower") ELSE Uncorrected
    OBVIOUS
  <2>1. Recipe("attenuation") = Uncorrected \o (IF job.beamPower THEN <<"beamPower">> ELSE <<>>)
    BY DEF Recipe, Uncorrected
  <2> QED
    BY <1>1, <1>2, <2>1
<1>4. job.source # "filtered" => Recipe("filtered") = Append(Recipe("attenuation"), "filter")
  BY <1>1 DEF Recipe
<1> QED
  BY <1>2, <1>3, <1>4 DEF Recipe

LEMMA AppendsNext ==
  ASSUME NEW n \in Nat, NEW G
  PROVE  Append([k \in 1..n |-> G[k]], G[n + 1]) = [k \in 1 .. n + 1 |-> G[k]]
<1> DEFINE s == [k \in 1..n |-> G[k]]
           S == {G[k] : k \in 1 .. n + 1}
<1>1. s \in Seq(S) /\ Len(s) = n
  BY SeqDef, LenProperties
<1>2. G[n + 1] \in S
  OBVIOUS
<1>3. /\ Append(s, G[n + 1]) \in Seq(S)
      /\ Len(Append(s, G[n + 1])) = n + 1
      /\ \A k \in 1..n : Append(s, G[n + 1])[k] = s[k]
      /\ Append(s, G[n + 1])[n + 1] = G[n + 1]
  BY <1>1, <1>2, AppendProperties
<1>4. \A k \in 1..n : s[k] = G[k]
  OBVIOUS
<1>5. DOMAIN Append(s, G[n + 1]) = 1 .. n + 1
  BY <1>3, LenProperties
<1>6. \A k \in 1 .. n + 1 : k \in 1..n \/ k = n + 1
  OBVIOUS
<1> HIDE DEF s
<1>7. \A k \in 1 .. n + 1 : Append(s, G[n + 1])[k] = G[k]
  BY <1>3, <1>4, <1>6
<1>8. Append(s, G[n + 1]) = [k \in 1 .. n + 1 |-> Append(s, G[n + 1])[k]]
  BY <1>3, <1>5
<1> QED
  BY <1>7, <1>8 DEF s

-----------------------------------------------------------------------------
(* What a step leaves as it was                                             *)

(* All this depends on the job only.                                        *)
LEMMA JobDecides ==
  ASSUME job' = job
  PROVE  /\ Filters(job)' = Filters(job) /\ NumberOfAngles' = NumberOfAngles
         /\ Uncorrected' = Uncorrected /\ Reference' = Reference
         /\ \A kind : Recipe(kind)' = Recipe(kind)
         /\ \A kind, n : Product(kind, n)' = Product(kind, n)
BY DEF NumberOfAngles, Uncorrected, Reference, Recipe, Product

LEMMA ThroughKept ==
  ASSUME Placed, NEW i \in 1..9, Begin(Steps[i])
  PROVE  /\ i # 1 => Through(1)' = Through(1) /\ passed >= 1
         /\ i = 1 => Through(1)' = p + 1 /\ Through(1) = p
         /\ job.beamPower /\ i # 4 /\ Through(4)' > 0 => Through(4) > 0
         /\ job.attenuationWriter /\ i # 6 => Through(6)' = Through(6)
         /\ i = 6 => Through(6)' = p + 1 /\ Through(6) = p
         /\ job.filteredWriter /\ i # 8 => Through(8)' = Through(8)
         /\ i = 8 => Through(8)' = p + 1 /\ Through(8) = p
<1>1. /\ passed' = i /\ passed < i /\ passed \in Nat /\ Behind(i)
      /\ p' = p /\ p \in Nat
  BY Turn
<1> QED
  BY <1>1 DEF Behind, Through

LEMMA AppliedKept ==
  ASSUME Placed, NEW i \in 1..9, i # 9, Begin(Steps[i])
  PROVE  Applied' = Applied
<1>1. /\ passed' = i /\ passed < i /\ passed \in Nat
      /\ UNCHANGED <<job, phase, p>> /\ p \in Nat
  BY Turn
<1>2. Through(9)' = p /\ Through(9) = p
  BY <1>1 DEF Through
<1> QED
  BY <1>1, <1>2, JobDecides DEF Applied

LEMMA WrittenKept ==
  ASSUME Placed, NEW i \in 1..9, i \notin {6, 8}, Begin(Steps[i])
  PROVE  \A kind \in Kinds : Written(kind)' = Written(kind)
<1>1. job' = job
  BY Turn
<1> QED
  BY <1>1, ThroughKept DEF Written

LEMMA OutputsKept ==
  ASSUME InTurn, NEW i \in 1..9, i \notin {6, 8, 9}, Begin(Steps[i]),
         UNCHANGED <<volume, file, volumeFile>>
  PROVE  (Stored /\ Added /\ Finished)'
<1>1. Placed /\ Stored /\ Added /\ Finished
  BY DEF InTurn
<1>2. UNCHANGED <<job, phase>> /\ phase = "projections"
  BY <1>1, Turn
<1>3. Stored'
  BY <1>1, <1>2, WrittenKept, JobDecides DEF Stored
<1>4. Added'
  BY <1>1, <1>2, AppliedKept, JobDecides DEF Added
<1> QED
  BY <1>1, <1>2, <1>3, <1>4 DEF Finished

LEMMA ReferredKept ==
  ASSUME InTurn, NEW i \in 1..9, i # 4, Begin(Steps[i]), reference' = reference
  PROVE  Referred'
<1>1. Placed /\ Referred
  BY DEF InTurn
<1>2. job' = job
  BY <1>1, Turn
<1> QED
  BY <1>1, <1>2, ThroughKept, JobDecides DEF Referred

(* A step that makes no picture leaves them as they should be.              *)
LEMMA PicturedKept ==
  ASSUME InTurn, NEW i \in {4, 6, 8, 9}, Begin(Steps[i]), image' = image
  PROVE  Pictured'
<1>1. Placed /\ Pictured
  BY DEF InTurn
<1>2. /\ passed' = i /\ passed < i /\ passed \in Nat /\ Behind(i)
      /\ UNCHANGED <<job, p>> /\ job \in Jobs
  BY <1>1, Turn DEF Placed
<1>3. i > 4 => (i > 5 /\ i # 7)
  OBVIOUS
<1>4. passed >= 1
  BY <1>2 DEF Behind
<1>5. image'[job.source] = Fresh(p + 1)
  BY <1>1, <1>4 DEF Pictured
<1>6. job.source = "raw" =>
        /\ passed >= 2
        /\ (job.beamPower /\ passed' >= 5) <=> (job.beamPower /\ passed >= 5)
        /\ (job.badPixels /\ passed' >= 3) <=> (job.badPixels /\ passed >= 3)
  BY <1>2, <1>3 DEF Behind
<1>7. (Filters(job) /\ passed' >= 7) => passed >= 7
  BY <1>2, <1>3 DEF Behind
<1> QED
  BY <1>1, <1>2, <1>5, <1>6, <1>7, JobDecides DEF Pictured, Converted

-----------------------------------------------------------------------------
(* The steps                                                                *)

LEMMA ReadInTurn ==
  ASSUME InTurn, Read
  PROVE  InTurn'
<1>1. Placed /\ Pictured /\ nextRead = Through(1) + 1
  BY DEF InTurn
<1>2. /\ Begin(Steps[1]) /\ image' = [image EXCEPT ![job.source] = Fresh(nextRead)]
      /\ nextRead' = nextRead + 1 /\ UNCHANGED <<reference, volume, file, volumeFile>>
  BY StepsAre DEF Read
<1>3. /\ passed' = 1 /\ p \in Nat /\ Placed' /\ UNCHANGED <<job, p>> /\ job \in Jobs
  BY <1>1, <1>2, Turn DEF Placed
<1>4. Through(1) = p /\ Through(1)' = p + 1
  BY <1>1, <1>2, ThroughKept
<1>5. nextRead = p + 1 /\ nextRead' = Through(1)' + 1
  BY <1>1, <1>2, <1>4
<1>6. Pictured'
  BY <1>1, <1>2, <1>3, <1>5, JobIsAllowed DEF Pictured, Converted
<1> QED
  BY <1>2, <1>3, <1>5, <1>6, OutputsKept, ReferredKept DEF InTurn

(* The steps that make a picture of another.                                *)
LEMMA TransformInTurn ==
  ASSUME InTurn, NEW i \in {2, 3, 5, 7}, Begin(Steps[i]), Pictured',
         UNCHANGED <<reference, volume, nextRead, file, volumeFile>>
  PROVE  InTurn'
<1>1. Placed /\ nextRead = Through(1) + 1
  BY DEF InTurn
<1>2. Placed' /\ Through(1)' = Through(1)
  BY <1>1, Turn, ThroughKept
<1> QED
  BY <1>1, <1>2, OutputsKept, ReferredKept DEF InTurn

LEMMA ConvertInTurn ==
  ASSUME InTurn, Convert
  PROVE  InTurn'
<1>1. Placed /\ Pictured
  BY DEF InTurn
<1>2. /\ Begin(Steps[2])
      /\ image' = [image EXCEPT !["attenuation"] = Do("convert", image["raw"])]
      /\ UNCHANGED <<reference, volume, nextRead, file, volumeFile>>
  BY StepsAre DEF Convert, Transform
<1>3. /\ passed' = 2 /\ passed < 2 /\ passed \in Nat /\ Behind(2)
      /\ p \in Nat /\ UNCHANGED <<job, p>> /\ job \in Jobs
      /\ job.source = "raw"
  BY <1>1, <1>2, Turn, AskedIs DEF Placed
<1>4. image["raw"] = Fresh(p + 1)
  BY <1>1, <1>3 DEF Behind, Pictured
<1>5. Append(<<>>, "convert") = <<"convert">>
  OBVIOUS
<1>6. Do("convert", image["raw"]) = [number |-> p + 1, done |-> <<"convert">>]
  BY <1>4, <1>5 DEF Do, Fresh
<1>7. Pictured'
  BY <1>1, <1>2, <1>3, <1>4, <1>6 DEF Pictured, Converted, Kinds
<1> QED
  BY <1>2, <1>7, TransformInTurn

LEMMA CorrectBadPixelsInTurn ==
  ASSUME InTurn, CorrectBadPixels
  PROVE  InTurn'
<1>1. Placed /\ Pictured
  BY DEF InTurn
<1>2. /\ Begin(Steps[3])
      /\ image' = [image EXCEPT !["attenuation"] = Do("badPixels", image["attenuation"])]
      /\ UNCHANGED <<reference, volume, nextRead, file, volumeFile>>
  BY StepsAre DEF CorrectBadPixels, Transform
<1>3. /\ passed' = 3 /\ passed < 3 /\ passed \in Nat /\ Behind(3)
      /\ p \in Nat /\ UNCHANGED <<job, p>> /\ job \in Jobs
      /\ job.badPixels
  BY <1>1, <1>2, Turn, AskedIs DEF Placed
<1>4. job.source = "raw"
  BY <1>3, JobIsAllowed
<1>5. passed >= 1 /\ image["attenuation"] = [number |-> p + 1, done |-> <<"convert">>]
  BY <1>1, <1>3, <1>4 DEF Behind, Pictured, Converted
<1>6. Append(<<"convert">>, "badPixels") = <<"convert", "badPixels">>
  BY ConvertedTwice
<1>7. Do("badPixels", image["attenuation"]) =
        [number |-> p + 1, done |-> <<"convert", "badPixels">>]
  BY <1>5, <1>6 DEF Do
<1>8. Pictured'
  BY <1>1, <1>2, <1>3, <1>4, <1>5, <1>7 DEF Pictured, Converted, Kinds
<1> QED
  BY <1>2, <1>8, TransformInTurn

(* Before the beam power is corrected the image is as the reference was.    *)
LEMMA UncorrectedIs ==
  ASSUME InTurn, job.source = "raw", passed \in 2..4, Behind(4)
  PROVE  image["attenuation"] = [number |-> p + 1, done |-> Uncorrected]
<1>1. job \in Jobs /\ Pictured
  BY DEF InTurn, Placed
<1>2. job.badPixels => passed >= 3
  BY DEF Behind
<1> QED
  BY <1>1, <1>2, RecipesAre DEF Pictured, Converted

LEMMA SetReferenceInTurn ==
  ASSUME InTurn, SetReference
  PROVE  InTurn'
<1>1. Placed /\ Pictured /\ nextRead = Through(1) + 1
  BY DEF InTurn
<1>2. /\ Begin(Steps[4]) /\ reference' = image["attenuation"]
      /\ UNCHANGED <<image, volume, nextRead, file, volumeFile>>
  BY StepsAre DEF SetReference
<1>3. /\ passed' = 4 /\ passed < 4 /\ passed \in Nat /\ Behind(4)
      /\ p \in Nat /\ UNCHANGED <<job, p>> /\ job \in Jobs /\ Placed'
      /\ job.beamPower /\ p = 0
  BY <1>1, <1>2, Turn, AskedIs DEF Placed
<1>4. job.source = "raw"
  BY <1>3, JobIsAllowed
<1>5. passed \in 2..4
  BY <1>3, <1>4 DEF Behind
<1>6. reference' = Reference
  BY <1>2, <1>3, <1>4, <1>5, UncorrectedIs DEF Reference
<1>7. Referred'
  BY <1>3, <1>6, JobDecides DEF Referred
<1>8. Pictured' /\ Through(1)' = Through(1)
  BY <1>1, <1>2, PicturedKept, ThroughKept
<1> QED
  BY <1>1, <1>2, <1>3, <1>7, <1>8, OutputsKept DEF InTurn

LEMMA CorrectBeamPowerInTurn ==
  ASSUME InTurn, CorrectBeamPower
  PROVE  InTurn'
<1>1. Placed /\ Pictured /\ Referred
  BY DEF InTurn
<1> DEFINE i == image["attenuation"]
<1>2. /\ Begin(Steps[5])
      /\ image' = [image EXCEPT !["attenuation"] =
                     IF reference = [i EXCEPT !.number = 1] THEN Do("beamPower", i)
                     ELSE Garbage]
      /\ UNCHANGED <<reference, volume, nextRead, file, volumeFile>>
  BY StepsAre DEF CorrectBeamPower
<1>3. /\ passed' = 5 /\ passed < 5 /\ passed \in Nat /\ Behind(5)
      /\ p \in Nat /\ UNCHANGED <<job, p>> /\ job \in Jobs
      /\ job.beamPower
  BY <1>1, <1>2, Turn, AskedIs DEF Placed
<1>4. job.source = "raw"
  BY <1>3, JobIsAllowed
<1>5. passed \in 2..4 /\ Behind(4)
  BY <1>3, <1>4 DEF Behind
<1>6. i = [number |-> p + 1, done |-> Uncorrected]
  BY <1>4, <1>5, UncorrectedIs
<1>7. Through(4) > 0
  BY <1>3 DEF Behind, Through
<1>8. reference = [i EXCEPT !.number = 1]
  BY <1>1, <1>3, <1>6, <1>7 DEF Referred, Reference
<1>9. Do("beamPower", i) = [number |-> p + 1, done |-> Recipe("attenuation")]
  <2>1. Recipe("attenuation") = Append(Uncorrected, "beamPower")
    BY <1>3, <1>4, RecipesAre
  <2> HIDE DEF i
  <2> QED
    BY <1>6, <2>1 DEF Do
<1>10. image["raw"] = Fresh(p + 1)
  BY <1>1, <1>4, <1>5 DEF Pictured
<1> HIDE DEF i
<1>11. Pictured'
  BY <1>1, <1>2, <1>3, <1>4, <1>8, <1>9, <1>10, JobDecides DEF Pictured, Converted, Kinds
<1> QED
  BY <1>2, <1>11, TransformInTurn

LEMMA FilterInTurn ==
  ASSUME InTurn, Filter
  PROVE  InTurn'
<1>1. Placed /\ Pictured
  BY DEF InTurn
<1>2. /\ Begin(Steps[7])
      /\ image' = [image EXCEPT !["filtered"] = Do("filter", image["attenuation"])]
      /\ UNCHANGED <<reference, volume, nextRead, file, volumeFile>>
  BY StepsAre DEF Filter, Transform
<1>3. /\ passed' = 7 /\ passed < 7 /\ passed \in Nat /\ Behind(7)
      /\ p \in Nat /\ UNCHANGED <<job, p>> /\ job \in Jobs
      /\ Filters(job)
  BY <1>1, <1>2, Turn, AskedIs DEF Placed
<1>4. job.source \in {"raw", "attenuation"} /\ passed >= 1
  BY <1>3, JobIsAllowed DEF Filters, Behind, Kinds
<1>5. image[job.source] = Fresh(p + 1)
  BY <1>1, <1>4 DEF Pictured
<1>6. image["attenuation"] = [number |-> p + 1, done |-> Recipe("attenuation")]
  <2>1. CASE job.source = "attenuation"
    BY <1>3, <1>5, <2>1, RecipesAre DEF Fresh
  <2>2. CASE job.source = "raw"
    <3>1. Converted /\ (job.beamPower => passed >= 5) /\ (job.badPixels => passed >= 3)
      BY <1>3, <2>2 DEF Converted, Behind
    <3>2. Recipe("attenuation") =
            IF job.beamPower THEN Recipe("attenuation")
            ELSE IF job.badPixels THEN <<"convert", "badPixels">> ELSE <<"convert">>
      BY <1>3, <2>2, RecipesAre
    <3> QED
      BY <1>1, <3>1, <3>2 DEF Pictured
  <2> QED
    BY <1>4, <2>1, <2>2
<1>7. Do("filter", image["attenuation"]) = Product("filtered", p + 1)
  <2>1. Recipe("filtered") = Append(Recipe("attenuation"), "filter")
    BY <1>3, <1>4, RecipesAre
  <2> QED
    BY <1>6, <2>1 DEF Do, Product
<1>8. Pictured'
  <2>1. /\ DOMAIN image' = Kinds /\ image'[job.source] = Fresh(p + 1)
        /\ image'["attenuation"] = image["attenuation"]
        /\ image'["filtered"] = Product("filtered", p + 1)
    BY <1>1, <1>2, <1>4, <1>5, <1>7 DEF Pictured, Kinds
  <2>2. job.source = "raw" =>
          /\ passed >= 2 /\ (job.beamPower => passed >= 5)
          /\ (job.badPixels => passed >= 3)
    BY <1>3 DEF Behind
  <2> QED
    BY <1>1, <1>3, <2>1, <2>2, JobDecides DEF Pictured, Converted
<1> QED
  BY <1>2, <1>8, TransformInTurn

(* Images that are written or applied are as they should be.                *)
LEMMA AttenuationIs ==
  ASSUME InTurn, Behind(6), passed < 6, job.source = "raw"
  PROVE  image["attenuation"] = Product("attenuation", p + 1)
<1>1. Placed /\ Pictured /\ job \in Jobs
  BY DEF InTurn, Placed
<1>2. Converted /\ (job.beamPower => passed >= 5) /\ (job.badPixels => passed >= 3)
  BY DEF Converted, Behind
<1>3. Recipe("attenuation") =
        IF job.beamPower THEN Recipe("attenuation")
        ELSE IF job.badPixels THEN <<"convert", "badPixels">> ELSE <<"convert">>
  BY <1>1, RecipesAre
<1> QED
  BY <1>1, <1>2, <1>3 DEF Pictured, Product

LEMMA FilteredIs ==
  ASSUME InTurn, Behind(8), job.filteredWriter \/ job.volumeWriter
  PROVE  image["filtered"] = Product("filtered", p + 1)
<1>1. Pictured /\ job \in Jobs /\ passed >= 1
  BY DEF InTurn, Placed, Behind
<1>2. CASE job.source = "filtered"
  BY <1>1, <1>2, RecipesAre DEF Pictured, Product, Fresh
<1>3. CASE job.source # "filtered"
  <2>1. Filters(job)
    BY <1>3 DEF Filters
  <2>2. passed >= 7
    BY <2>1 DEF Behind
  <2> QED
    BY <1>1, <2>1, <2>2 DEF Pictured
<1> QED
  BY <1>2, <1>3

(* Another projection is appended to its file.                              *)
LEMMA StoresNext ==
  ASSUME InTurn, NEW kind \in {"attenuation", "filtered"}, NEW i \in {6, 8},
         i = IF kind = "attenuation" THEN 6 ELSE 8,
         Write(Steps[i], kind), image[kind] = Product(kind, p + 1)
  PROVE  InTurn'
<1>1. Placed /\ Stored /\ Added /\ Finished /\ nextRead = Through(1) + 1
  BY DEF InTurn
<1>2. /\ Begin(Steps[i]) /\ file' = [file EXCEPT ![kind] = Append(@, image[kind])]
      /\ UNCHANGED <<image, reference, volume, nextRead, volumeFile>>
  BY DEF Write
<1>3. /\ Placed' /\ UNCHANGED <<job, p, phase>> /\ p \in Nat /\ phase = "projections"
      /\ kind = "attenuation" => job.attenuationWriter
      /\ kind = "filtered" => job.filteredWriter
  BY <1>1, <1>2, Turn, AskedIs
<1>4. Written(kind) = p /\ Written(kind)' = p + 1
  BY <1>1, <1>2, <1>3, ThroughKept DEF Written
<1>5. \A other \in Kinds : other # kind => Written(other)' = Written(other)
  BY <1>1, <1>2, <1>3, ThroughKept DEF Written
<1>6. Append(file[kind], image[kind]) = [n \in 1 .. p + 1 |-> Product(kind, n)]
  <2> DEFINE G == [n \in 1 .. p + 1 |-> Product(kind, n)]
  <2>1. file[kind] = [n \in 1..p |-> G[n]]
    <3>1. file[kind] = [n \in 1 .. Written(kind) |-> Product(kind, n)]
      BY <1>1 DEF Stored, Kinds
    <3>2. \A n \in 1..p : n \in 1 .. p + 1
      BY <1>3
    <3> QED
      BY <1>4, <3>1, <3>2
  <2>2. image[kind] = G[p + 1]
    BY <1>3
  <2>3. G = [n \in 1 .. p + 1 |-> G[n]]
    OBVIOUS
  <2> HIDE DEF G
  <2>4. Append(file[kind], image[kind]) = [n \in 1 .. p + 1 |-> G[n]]
    BY <1>3, <2>1, <2>2, AppendsNext
  <2> QED
    BY <2>3, <2>4 DEF G
<1>7. Stored'
  <2>1. DOMAIN file = Kinds
        /\ \A other \in Kinds : file[other] = [n \in 1 .. Written(other) |-> Product(other, n)]
    BY <1>1 DEF Stored
  <2>2. file' = [other \in Kinds |->
                   IF other = kind THEN Append(file[kind], image[kind]) ELSE file[other]]
    BY <1>2, <2>1
  <2>3. \A other \in Kinds :
          file'[other] = [n \in 1 .. Written(other)' |-> Product(other, n)]
    BY <1>4, <1>5, <1>6, <2>1, <2>2
  <2>4. file' = [other \in Kinds |-> file'[other]]
    BY <2>2
  <2>5. file' = [other \in Kinds |-> [n \in 1 .. Written(other)' |-> Product(other, n)]]
    BY <2>3, <2>4
  <2> QED
    BY <1>3, <2>5, JobDecides DEF Stored
<1>8. Added'
  BY <1>1, <1>2, <1>3, AppliedKept, JobDecides DEF Added
<1>9. Finished' /\ Through(1)' = Through(1)
  BY <1>1, <1>2, <1>3, ThroughKept DEF Finished
<1> QED
  BY <1>1, <1>2, <1>3, <1>7, <1>8, <1>9, PicturedKept, ReferredKept DEF InTurn

LEMMA WriteAttenuationInTurn ==
  ASSUME InTurn, WriteAttenuation
  PROVE  InTurn'
<1>1. Placed /\ Write(Steps[6], "attenuation") /\ Begin(Steps[6])
  BY StepsAre DEF InTurn, WriteAttenuation, Write
<1>2. passed < 6 /\ Behind(6) /\ job.attenuationWriter /\ job \in Jobs
  BY <1>1, Turn, AskedIs DEF Placed
<1>3. image["attenuation"] = Product("attenuation", p + 1)
  BY <1>2, JobIsAllowed, AttenuationIs
<1> QED
  BY <1>1, <1>3, StoresNext

LEMMA WriteFilteredInTurn ==
  ASSUME InTurn, WriteFiltered
  PROVE  InTurn'
<1>1. Placed /\ Write(Steps[8], "filtered") /\ Begin(Steps[8])
  BY StepsAre DEF InTurn, WriteFiltered, Write
<1>2. Behind(8) /\ job.filteredWriter
  BY <1>1, Turn, AskedIs
<1>3. image["filtered"] = Product("filtered", p + 1)
  BY <1>2, FilteredIs
<1> QED
  BY <1>1, <1>3, StoresNext

LEMMA ApplyProjectionInTurn ==
  ASSUME InTurn, ApplyProjection
  PROVE  InTurn'
<1>1. Placed /\ Stored /\ Added /\ Finished /\ nextRead = Through(1) + 1
  BY DEF InTurn
<1>2. /\ Begin(Steps[9]) /\ volume' = Append(volume, <<image["filtered"], p + 1>>)
      /\ UNCHANGED <<image, reference, nextRead, file, volumeFile>>
  BY StepsAre DEF ApplyProjection
<1>3. /\ Placed' /\ UNCHANGED <<job, p, phase>> /\ p \in Nat /\ p < NumberOfProjections
      /\ phase = "projections" /\ Behind(9) /\ passed' = 9 /\ passed < 9 /\ passed \in Nat
      /\ job.volumeWriter /\ ~(job.atBothLimits /\ p = NumberOfProjections - 1)
  BY <1>1, <1>2, Turn, AskedIs
<1>4. Applied = p /\ Applied' = p + 1
  <2>1. Through(9) = p /\ Through(9)' = p + 1
    BY <1>3 DEF Through
  <2>2. NumberOfAngles' = NumberOfAngles /\ NumberOfAngles \in Nat /\ p + 1 <= NumberOfAngles
    BY <1>3, NumberOfProjectionsAssumption, JobDecides DEF NumberOfAngles
  <2> QED
    BY <1>3, <2>1, <2>2 DEF Applied
<1>5. image["filtered"] = Product("filtered", p + 1)
  <2>1. Behind(8)
    BY <1>3 DEF Behind
  <2> QED
    BY <1>3, <2>1, FilteredIs
<1>6. volume' = [n \in 1 .. p + 1 |-> <<Product("filtered", n), n>>]
  <2> DEFINE G == [n \in 1 .. p + 1 |-> <<Product("filtered", n), n>>]
  <2>1. volume = [n \in 1..p |-> G[n]]
    BY <1>1, <1>3, <1>4 DEF Added
  <2>2. <<image["filtered"], p + 1>> = G[p + 1]
    BY <1>3, <1>5
  <2>3. G = [n \in 1 .. p + 1 |-> G[n]]
    OBVIOUS
  <2> HIDE DEF G
  <2>4. volume' = [n \in 1 .. p + 1 |-> G[n]]
    BY <1>2, <1>3, <2>1, <2>2, AppendsNext
  <2> QED
    BY <2>3, <2>4 DEF G
<1>7. Added'
  BY <1>3, <1>4, <1>6, JobDecides DEF Added
<1>8. Stored'
  BY <1>1, <1>2, <1>3, WrittenKept, JobDecides DEF Stored
<1>9. Finished' /\ Through(1)' = Through(1)
  BY <1>1, <1>2, <1>3, ThroughKept DEF Finished
<1> QED
  BY <1>1, <1>2, <1>3, <1>7, <1>8, <1>9, PicturedKept, ReferredKept DEF InTurn

(* After its last step a projection has been through all that was asked.    *)
LEMMA NextProjectionInTurn ==
  ASSUME InTurn, NextProjection
  PROVE  InTurn'
<1>1. /\ Placed /\ Pictured /\ Referred /\ Stored /\ Added /\ Finished
      /\ nextRead = Through(1) + 1
  BY DEF InTurn
<1>2. /\ phase = "projections" /\ p' = p + 1 /\ passed' = 0
      /\ phase' = IF p' < NumberOfProjections THEN phase ELSE "writeVolume"
      /\ UNCHANGED <<job, image, reference, volume, nextRead, file, volumeFile>>
      /\ \A n \in passed + 1 .. 9 : ~Asked(Steps[n], p)
  BY StepsAre DEF NextProjection
<1>3. p \in Nat /\ p < NumberOfProjections /\ passed \in 0..9 /\ job \in Jobs
  BY <1>1, <1>2, NumberOfProjectionsAssumption DEF Placed
<1>4. Behind(10)
  BY <1>1, <1>2, NoneAskedIsBehind
<1>5. Placed'
  BY <1>2, <1>3, NumberOfProjectionsAssumption DEF Placed
<1>6. /\ Through(1)' = Through(1) /\ (job.beamPower => Through(4) > 0)
      /\ job.attenuationWriter => Through(6)' = Through(6)
      /\ job.filteredWriter => Through(8)' = Through(8)
      /\ Through(9) \in {p, p + 1} /\ Through(9)' = p + 1
      /\ job.volumeWriter /\ Through(9) = p => job.atBothLimits /\ p = NumberOfProjections - 1
  BY <1>2, <1>3, <1>4 DEF Behind, Through
<1>7. Pictured' /\ Referred'
  BY <1>1, <1>2, <1>6, JobDecides DEF Pictured, Converted, Referred
<1>8. \A kind : Written(kind)' = Written(kind)
  BY <1>2, <1>6 DEF Written
<1>9. Stored'
  BY <1>1, <1>2, <1>8, JobDecides DEF Stored
<1>10. Applied' = Applied
  BY <1>2, <1>3, <1>6, NumberOfProjectionsAssumption, JobDecides DEF Applied, NumberOfAngles
<1>11. Added'
  BY <1>1, <1>2, <1>10, JobDecides DEF Added
<1>12. Finished'
  BY <1>1, <1>2 DEF Finished
<1> QED
  BY <1>1, <1>2, <1>5, <1>6, <1>7, <1>9, <1>11, <1>12 DEF InTurn

(* What only changes the phase and the volume's file.                       *)
LEMMA RestInTurn ==
  ASSUME InTurn, Placed', Finished',
         UNCHANGED <<job, p, passed, image, reference, volume, nextRead, file>>
  PROVE  InTurn'
<1>1. \A i : Through(i)' = Through(i)
  BY DEF Through
<1>2. \A kind : Written(kind)' = Written(kind)
  BY <1>1 DEF Written
<1>3. Applied' = Applied
  BY <1>1, JobDecides DEF Applied
<1>4. Pictured' /\ Referred'
  BY <1>1, JobDecides DEF InTurn, Pictured, Converted, Referred
<1>5. Stored' /\ Added'
  BY <1>2, <1>3, JobDecides DEF InTurn, Stored, Added
<1> QED
  BY <1>1, <1>4, <1>5 DEF InTurn

LEMMA WriteVolumeInTurn ==
  ASSUME InTurn, WriteVolume
  PROVE  InTurn'
<1>1. /\ phase = "writeVolume" /\ phase' = "fit"
      /\ volumeFile' = IF job.volumeWriter THEN Append(volumeFile, volume) ELSE volumeFile
      /\ UNCHANGED <<job, p, passed, image, reference, volume, nextRead, file>>
  BY DEF WriteVolume
<1>2. Placed'
  BY <1>1 DEF InTurn, Placed
<1>3. volumeFile = <<>>
  BY <1>1 DEF InTurn, Finished
<1>4. Append(<<>>, volume) = <<volume>>
  OBVIOUS
<1>5. Finished'
  BY <1>1, <1>3, <1>4 DEF Finished
<1> QED
  BY <1>1, <1>2, <1>5, RestInTurn

LEMMA OtherInTurn ==
  ASSUME InTurn, Prepare \/ Return \/ Fail \/ Throw
  PROVE  InTurn'
<1>1. /\ phase' \in {"projections", "returned", "unwind", "threw"}
      /\ phase' = "projections" => phase = "prepare"
      /\ phase' = "returned" => phase = "fit"
      /\ UNCHANGED <<job, p, passed, image, reference, volume, nextRead, file, volumeFile>>
  BY DEF Prepare, Return, Fail, Throw
<1>2. Placed'
  BY <1>1, NumberOfProjectionsAssumption DEF InTurn, Placed
<1>3. Finished'
  BY <1>1 DEF InTurn, Finished
<1> QED
  BY <1>1, <1>2, <1>3, RestInTurn

LEMMA NoneAppended ==
  ASSUME NEW G
  PROVE  <<>> = [n \in 1..0 |-> G[n]]
<1>1. [n \in 1..0 |-> G[n]] \in Seq({0}) /\ Len([n \in 1..0 |-> G[n]]) = 0
  <2>1. [n \in 1..0 |-> G[n]] \in [1..0 -> {0}]
    OBVIOUS
  <2>2. [n \in 1..0 |-> G[n]] \in Seq({0})
    BY <2>1, SeqDef
  <2> QED
    BY <2>2, LenProperties
<1> QED
  BY <1>1, EmptySeq

LEMMA InitInTurn ==
  ASSUME Init
  PROVE  InTurn
<1>1. /\ job \in Jobs /\ phase = "prepare" /\ p = 0 /\ passed = 0
      /\ image = [k \in Kinds |-> Garbage] /\ volume = <<>> /\ nextRead = 1
      /\ file = [k \in Kinds |-> <<>>] /\ volumeFile = <<>>
  BY DEF Init
<1>2. Placed /\ Pictured /\ Finished
  BY <1>1, NumberOfProjectionsAssumption DEF Placed, Pictured, Converted, Finished
<1>3. \A i \in 1..9 : Through(i) = 0
  BY <1>1 DEF Through
<1>4. Referred /\ nextRead = Through(1) + 1
  BY <1>1, <1>3 DEF Referred
<1>5. Applied = 0 /\ \A kind : Written(kind) = 0
  <2>1. NumberOfAngles >= 0 /\ NumberOfAngles \in Int
    BY NumberOfProjectionsAssumption DEF NumberOfAngles
  <2> QED
    BY <1>3, <2>1 DEF Applied, Written
<1>6. Stored
  <2>1. ASSUME NEW kind PROVE <<>> = [n \in 1..0 |-> Product(kind, n)]
    <3> DEFINE G == [n \in 1..0 |-> Product(kind, n)]
    <3>1. <<>> = [n \in 1..0 |-> G[n]]
      BY NoneAppended
    <3> QED
      BY <3>1
  <2> QED
    BY <1>1, <1>5, <2>1 DEF Stored
<1>7. Added
  <2> DEFINE G == [n \in 1..0 |-> <<Product("filtered", n), n>>]
  <2>1. <<>> = [n \in 1..0 |-> G[n]]
    BY NoneAppended
  <2> QED
    BY <1>1, <1>5, <2>1 DEF Added
<1> QED
  BY <1>2, <1>4, <1>6, <1>7 DEF InTurn

LEMMA StutterInTurn ==
  ASSUME InTurn, UNCHANGED vars
  PROVE  InTurn'
<1>1. UNCHANGED <<job, phase, p, passed, image, reference, volume, nextRead, file, volumeFile>>
  BY DEF vars
<1>2. Placed' /\ Finished'
  BY <1>1 DEF InTurn, Placed, Finished
<1> QED
  BY <1>1, <1>2, RestInTurn

(* Every projection goes through the steps in their order, each step finds  *)
(* the images as the steps before it left them, and what is written or      *)
(* applied is the proper result.                                            *)
THEOREM AlwaysInTurn == Spec => []InTurn
<1>1. InTurn /\ [Next]_vars => InTurn'
  BY ReadInTurn, ConvertInTurn, CorrectBadPixelsInTurn, SetReferenceInTurn,
     CorrectBeamPowerInTurn, WriteAttenuationInTurn, FilterInTurn, WriteFilteredInTurn,
     ApplyProjectionInTurn, NextProjectionInTurn, WriteVolumeInTurn, OtherInTurn,
     StutterInTurn
     DEF Next, Ended
<1> QED
  BY InitInTurn, <1>1, PTL DEF Spec

-----------------------------------------------------------------------------
(* The single-threaded engine: what the promise sees                        *)

Files ==
  [k \in {"attenuation", "filtered"} |->
     [j \in DOMAIN file[k] |-> Number(k, file[k][j])]]

Wholes ==
  [k \in DOMAIN volumeFile |->
     [j \in DOMAIN volumeFile[k] |->
        <<Number("filtered", volumeFile[k][j][1]), volumeFile[k][j][2]>>]
       = WholeVolume(job, NumberOfProjections)]

Failed == phase \in {"unwind", "threw"}

Outcome == IF phase \in {"returned", "threw"} THEN phase ELSE "running"

LEMMA FilesAre ==
  ASSUME InTurn
  PROVE  Files = [k \in {"attenuation", "filtered"} |-> [j \in 1 .. Written(k) |-> j]]
<1>1. ASSUME NEW k \in {"attenuation", "filtered"}
      PROVE  [j \in DOMAIN file[k] |-> Number(k, file[k][j])] = [j \in 1 .. Written(k) |-> j]
  <2>1. file[k] = [n \in 1 .. Written(k) |-> Product(k, n)]
    BY DEF InTurn, Stored, Kinds
  <2>2. DOMAIN file[k] = 1 .. Written(k)
    BY <2>1
  <2>3. \A j \in 1 .. Written(k) : Number(k, file[k][j]) = j
    BY <2>1 DEF Number, Product
  <2> QED
    BY <2>2, <2>3
<1> QED
  BY <1>1 DEF Files

LEMMA FilesAreNext == InTurn' => Files' = [k \in {"attenuation", "filtered"} |-> [j \in 1 .. Written(k)' |-> j]]
<1>1. InTurn => Files = [k \in {"attenuation", "filtered"} |-> [j \in 1 .. Written(k) |-> j]]
  BY FilesAre
<1>2. (InTurn => Files = [k \in {"attenuation", "filtered"} |-> [j \in 1 .. Written(k) |-> j]])'
  BY <1>1, PTL
<1> QED
  BY <1>2

LEMMA WrittenIs ==
  ASSUME InTurn, NEW k \in {"attenuation", "filtered"}
  PROVE  /\ Written(k) \in Nat /\ Len(Files[k]) = Written(k)
         /\ Files[k] = [j \in 1 .. Written(k) |-> j]
<1>1. p \in Nat
  BY NumberOfProjectionsAssumption DEF InTurn, Placed
<1>2. Written(k) \in Nat
  BY <1>1 DEF Written, Through
<1>3. Files[k] = [j \in 1 .. Written(k) |-> j]
  BY FilesAre
<1>4. Files[k] \in Seq(Nat)
  BY <1>2, <1>3, SeqDef
<1>5. DOMAIN Files[k] = 1 .. Written(k)
  BY <1>3
<1> QED
  BY <1>2, <1>3, <1>4, <1>5, LenProperties

(* What changes neither a file nor the outcome changes nothing the promise  *)
(* sees.                                                                    *)
LEMMA SameView ==
  ASSUME UNCHANGED <<job, file, volumeFile>>
  PROVE  Files' = Files /\ Wholes' = Wholes /\ Wanted(job)' = Wanted(job)
<1>1. \A kind, i : Number(kind, i)' = Number(kind, i)
  BY JobDecides DEF Number
<1> QED
  BY <1>1 DEF Files, Wholes

LEMMA QuietStep ==
  ASSUME UNCHANGED <<job, nextRead, file, volumeFile>>, Failed' = Failed, Outcome' = Outcome
  PROVE  [Promise!Next]_(Promise!vars)
BY SameView DEF Promise!vars, Files, Wholes, Failed, Outcome

LEMMA StepRuns ==
  ASSUME InTurn, NEW i \in 1..9, Begin(Steps[i])
  PROVE  /\ Outcome = "running" /\ Outcome' = "running"
         /\ Failed' = Failed /\ Failed = FALSE
<1>1. phase = "projections" /\ phase' = phase
  BY Turn DEF InTurn
<1> QED
  BY <1>1 DEF Outcome, Failed

LEMMA ReadRefines ==
  ASSUME InTurn, Read
  PROVE  Promise!Take
<1>1. /\ Begin(Steps[1]) /\ nextRead' = nextRead + 1 /\ UNCHANGED <<file, volumeFile>>
  BY StepsAre DEF Read
<1>2. /\ p \in Nat /\ p < NumberOfProjections /\ job' = job /\ nextRead = p + 1
  BY <1>1, Turn, ThroughKept DEF InTurn
<1>3. nextRead - 1 < NumberOfProjections /\ nextRead' - 1 = nextRead - 1 + 1
  BY <1>1, <1>2
<1> QED
  BY <1>1, <1>2, <1>3, SameView, StepRuns DEF Promise!Take, Files, Wholes, Failed, Outcome

LEMMA WriteRefines ==
  ASSUME InTurn, InTurn', NEW kind \in {"attenuation", "filtered"}, NEW i \in {6, 8},
         i = IF kind = "attenuation" THEN 6 ELSE 8, Write(Steps[i], kind)
  PROVE  Promise!Write(kind)
<1>1. Begin(Steps[i]) /\ UNCHANGED <<nextRead, volumeFile>> /\ Placed
  BY DEF Write, InTurn
<1>2. /\ p \in Nat /\ job' = job /\ passed < i /\ passed \in Nat
      /\ kind = "attenuation" => job.attenuationWriter
      /\ kind = "filtered" => job.filteredWriter
  BY <1>1, Turn, AskedIs
<1>3. kind \in Wanted(job)
  BY <1>2 DEF Wanted
<1>4. Written(kind) = p /\ Written(kind)' = p + 1
  BY <1>1, <1>2, ThroughKept DEF Written
<1>5. \A other \in {"attenuation", "filtered"} : other # kind => Written(other)' = Written(other)
  BY <1>1, <1>2, ThroughKept DEF Written
<1>6. Len(Files[kind]) = p /\ Files[kind] = [j \in 1..p |-> j]
  BY <1>4, WrittenIs
<1>7. nextRead - 1 = p + 1
  BY <1>1, <1>2, ThroughKept, Turn DEF InTurn, Through
<1>8. Append(Files[kind], p + 1) = [j \in 1 .. p + 1 |-> j]
  <2> DEFINE G == [j \in 1 .. p + 1 |-> j]
  <2>1. Files[kind] = [j \in 1..p |-> G[j]] /\ G[p + 1] = p + 1
    BY <1>2, <1>6
  <2>2. G = [j \in 1 .. p + 1 |-> G[j]]
    OBVIOUS
  <2> HIDE DEF G
  <2>3. Append(Files[kind], p + 1) = [j \in 1 .. p + 1 |-> G[j]]
    BY <1>2, <2>1, AppendsNext
  <2> QED
    BY <2>2, <2>3 DEF G
<1>9. Files' = [Files EXCEPT ![kind] = Append(@, Len(@) + 1)]
  <2>1. DOMAIN Files = {"attenuation", "filtered"}
    BY DEF Files
  <2>2. Files'[kind] = Append(Files[kind], Len(Files[kind]) + 1)
    BY <1>4, <1>6, <1>8, FilesAreNext
  <2>3. ASSUME NEW other \in {"attenuation", "filtered"}, other # kind
        PROVE  Files'[other] = Files[other]
    BY <1>5, <2>3, FilesAre, FilesAreNext
  <2>4. Files' = [k \in {"attenuation", "filtered"} |-> Files'[k]]
    BY FilesAreNext
  <2> QED
    BY <2>1, <2>2, <2>3, <2>4
<1>10. Wholes' = Wholes
  <2>1. \A k, n : Number(k, n)' = Number(k, n)
    BY <1>2, JobDecides DEF Number
  <2> QED
    BY <1>1, <1>2, <2>1 DEF Wholes
<1>11. Wanted(job)' = Wanted(job) /\ (nextRead - 1)' = nextRead - 1
  BY <1>1, <1>2
<1>12. Len(Files[kind]) < nextRead - 1
  BY <1>2, <1>6, <1>7
<1>13. Outcome = "running" /\ Outcome' = "running" /\ Failed' = Failed
  <2>1. i \in 1..9
    OBVIOUS
  <2> QED
    BY <1>1, <2>1, StepRuns, Zenon
<1> QED
  BY <1>3, <1>9, <1>10, <1>11, <1>12, <1>13
     DEF Promise!Write, Files, Wholes, Failed, Outcome

(* The volume is written when every projection has been applied.            *)
LEMMA VolumeIsWhole ==
  ASSUME InTurn, phase \in {"writeVolume", "fit"}, job.volumeWriter
  PROVE  [j \in DOMAIN volume |-> <<Number("filtered", volume[j][1]), volume[j][2]>>]
           = WholeVolume(job, NumberOfProjections)
<1>1. p = NumberOfProjections /\ passed = 0 /\ Through(9) = NumberOfProjections
  BY DEF InTurn, Placed, Through
<1>2. Applied = NumberOfAngles
  BY <1>1, NumberOfProjectionsAssumption DEF Applied, NumberOfAngles
<1>3. volume = [n \in 1..NumberOfAngles |-> <<Product("filtered", n), n>>]
  BY <1>2 DEF InTurn, Added
<1>4. \A n \in 1..NumberOfAngles : Number("filtered", volume[n][1]) = n /\ volume[n][2] = n
  BY <1>3 DEF Number, Product
<1>5. DOMAIN volume = 1..NumberOfAngles
  BY <1>3
<1> QED
  BY <1>4, <1>5 DEF WholeVolume, NumberOfAngles

LEMMA TrueAlone == <<TRUE>> \in Seq(BOOLEAN) /\ Len(<<TRUE>>) = 1 /\ <<TRUE>>[1]
OBVIOUS

LEMMA OneWhole ==
  ASSUME InTurn, phase = "fit", job.volumeWriter
  PROVE  Wholes = <<TRUE>>
<1>1. volumeFile = <<volume>>
  BY DEF InTurn, Finished
<1>2. DOMAIN volumeFile = {1} /\ volumeFile[1] = volume
  BY <1>1
<1>3. DOMAIN Wholes = 1..1 /\ Wholes \in [1..1 -> BOOLEAN]
  BY <1>2 DEF Wholes
<1>4. Wholes \in Seq(BOOLEAN)
  BY <1>3, SeqDef
<1>5. Len(Wholes) = 1
  BY <1>3, <1>4, LenProperties
<1>6. Wholes[1]
  <2>1. [j \in DOMAIN volumeFile[1] |->
           <<Number("filtered", volumeFile[1][j][1]), volumeFile[1][j][2]>>]
          = WholeVolume(job, NumberOfProjections)
    BY <1>2, VolumeIsWhole
  <2>2. 1 \in DOMAIN volumeFile
    BY <1>2
  <2> QED
    BY <2>1, <2>2 DEF Wholes
<1>7. <<TRUE>> \in Seq(BOOLEAN) /\ Len(<<TRUE>>) = 1 /\ <<TRUE>>[1]
  BY TrueAlone
<1>8. Wholes[1] = <<TRUE>>[1]
  <2>1. Wholes[1] \in BOOLEAN /\ <<TRUE>>[1] \in BOOLEAN
    BY <1>3
  <2> QED
    BY <1>6, <1>7, <2>1, Zenon
<1>9. PICK t \in Seq(BOOLEAN) : t = <<TRUE>>
  BY <1>7
<1>10. Len(t) = 1 /\ Wholes[1] = t[1]
  BY <1>7, <1>8, <1>9
<1>11. Wholes = t
  BY <1>4, <1>5, <1>10, SeqEqual
<1> QED
  BY <1>9, <1>11

LEMMA NoWholes ==
  ASSUME volumeFile = <<>>
  PROVE  Wholes = <<>>
<1>1. DOMAIN Wholes = 1..0
  BY DEF Wholes
<1>2. Wholes \in [1..0 -> BOOLEAN]
  BY <1>1 DEF Wholes
<1>3. Wholes \in Seq(BOOLEAN)
  BY <1>2, SeqDef
<1>4. Len(Wholes) = 0
  BY <1>1, <1>3, LenProperties
<1> QED
  BY <1>3, <1>4, EmptySeq

LEMMA OneWholeNext == InTurn' /\ phase' = "fit" /\ job'.volumeWriter => Wholes' = <<TRUE>>
<1>1. InTurn /\ phase = "fit" /\ job.volumeWriter => Wholes = <<TRUE>>
  BY OneWhole
<1>2. (InTurn /\ phase = "fit" /\ job.volumeWriter => Wholes = <<TRUE>>)'
  BY <1>1, PTL
<1> QED
  BY <1>2

LEMMA WriteVolumeRefines ==
  ASSUME InTurn, InTurn', WriteVolume
  PROVE  [Promise!Next]_(Promise!vars)
<1>1. /\ phase = "writeVolume" /\ phase' = "fit" /\ UNCHANGED <<job, nextRead, file>>
      /\ ~job.volumeWriter => volumeFile' = volumeFile
  BY DEF WriteVolume
<1>2. Outcome = "running" /\ Outcome' = "running" /\ Failed = FALSE /\ Failed' = FALSE
  BY <1>1 DEF Outcome, Failed
<1>3. CASE ~job.volumeWriter
  BY <1>1, <1>2, <1>3, QuietStep
<1>4. CASE job.volumeWriter
  <2>1. Wholes = <<>> /\ Wholes' = <<TRUE>>
    BY <1>1, <1>4, NoWholes, OneWholeNext DEF InTurn, Finished
  <2>2. Append(<<>>, TRUE) = <<TRUE>> /\ Len(<<>>) < 1
    OBVIOUS
  <2>3. Files' = Files
    <3>1. \A k, n : Number(k, n)' = Number(k, n)
      BY <1>1, JobDecides DEF Number
    <3> QED
      BY <1>1, <3>1 DEF Files
  <2>4. nextRead - 1 = NumberOfProjections
    BY <1>1, NumberOfProjectionsAssumption DEF InTurn, Placed, Through
  <2>5. "volume" \in Wanted(job)
    BY <1>4 DEF Wanted
  <2>6. \E whole \in {TRUE, ~FALSE} : Wholes' = Append(Wholes, whole)
    BY <2>1, <2>2
  <2>7. Promise!WriteSubvolume
    BY <1>1, <1>2, <2>1, <2>2, <2>3, <2>4, <2>5, <2>6
       DEF Promise!WriteSubvolume, Files, Wholes, Failed, Outcome
  <2> QED
    BY <2>7 DEF Promise!Next
<1> QED
  BY <1>3, <1>4

LEMMA ReturnRefines ==
  ASSUME InTurn, Return
  PROVE  Promise!Return
<1>1. /\ phase = "fit" /\ phase' = "returned"
      /\ UNCHANGED <<job, nextRead, file, volumeFile>>
  BY DEF Return
<1>2. Outcome = "running" /\ Outcome' = "returned" /\ Failed = FALSE /\ Failed' = FALSE
  BY <1>1 DEF Outcome, Failed
<1>3. p = NumberOfProjections /\ passed = 0 /\ nextRead - 1 = NumberOfProjections
  BY <1>1, NumberOfProjectionsAssumption DEF InTurn, Placed, Through
<1>4. "volume" \in Wanted(job) => Len(Wholes) = 1
  <2>1. "volume" \in Wanted(job) => job.volumeWriter
    BY DEF Wanted
  <2>2. Len(<<TRUE>>) = 1
    OBVIOUS
  <2> QED
    BY <1>1, <2>1, <2>2, OneWhole
<1>5. ASSUME NEW k \in {"attenuation", "filtered"}
      PROVE  (IF k \in Wanted(job) THEN NumberOfProjections - Len(Files[k]) ELSE 0) = 0
  <2>1. CASE k \in Wanted(job)
    <3>1. Written(k) = NumberOfProjections
      BY <1>3, <2>1, NumberOfProjectionsAssumption DEF Wanted, Written, Through
    <3> QED
      BY <3>1, NumberOfProjectionsAssumption, WrittenIs
  <2> QED
    BY <2>1
<1>6. Promise!Lacking("attenuation") = 0 /\ Promise!Lacking("filtered") = 0
  BY <1>5 DEF Promise!Lacking, Files
<1>7. Promise!Complete
  BY <1>3, <1>4, <1>6 DEF Promise!Complete, Wholes
<1> QED
  BY <1>1, <1>2, <1>7, SameView DEF Promise!Return, Files, Wholes, Failed, Outcome

LEMMA FailRefines ==
  ASSUME InTurn, Fail
  PROVE  Promise!Fail
<1>1. /\ phase \in {"prepare", "projections", "writeVolume", "fit"} /\ phase' = "unwind"
      /\ UNCHANGED <<job, nextRead, file, volumeFile>>
  BY DEF Fail
<1>2. Outcome = "running" /\ Outcome' = "running" /\ Failed' = TRUE
  BY <1>1 DEF Outcome, Failed
<1> QED
  BY <1>1, <1>2, SameView DEF Promise!Fail, Files, Wholes, Failed, Outcome

LEMMA ThrowRefines ==
  ASSUME InTurn, Throw
  PROVE  Promise!Throw
<1>1. /\ phase = "unwind" /\ phase' = "threw"
      /\ UNCHANGED <<job, nextRead, file, volumeFile>>
  BY DEF Throw
<1>2. Outcome = "running" /\ Outcome' = "threw" /\ Failed = TRUE /\ Failed' = TRUE
  BY <1>1 DEF Outcome, Failed
<1> QED
  BY <1>1, <1>2, SameView DEF Promise!Throw, Files, Wholes, Failed, Outcome

(* The rest is between the engine and its images.                           *)
LEMMA OtherStepRefines ==
  ASSUME InTurn, \/ Prepare \/ Convert \/ CorrectBadPixels \/ SetReference
                 \/ CorrectBeamPower \/ Filter \/ ApplyProjection \/ NextProjection
  PROVE  [Promise!Next]_(Promise!vars)
<1>1. UNCHANGED <<job, nextRead, file, volumeFile>>
  BY DEF Prepare, Convert, CorrectBadPixels, SetReference, CorrectBeamPower, Filter,
     ApplyProjection, NextProjection, Transform, Begin
<1>2. /\ phase \in {"prepare", "projections"}
      /\ phase' \in {"prepare", "projections", "writeVolume"}
  BY DEF Prepare, Convert, CorrectBadPixels, SetReference, CorrectBeamPower, Filter,
     ApplyProjection, NextProjection, Transform, Begin
<1>3. Failed' = Failed /\ Outcome' = Outcome
  BY <1>2 DEF Failed, Outcome
<1> QED
  BY <1>1, <1>3, QuietStep

LEMMA StepRefines ==
  ASSUME InTurn, InTurn', [Next]_vars
  PROVE  [Promise!Next]_(Promise!vars)
<1>1. CASE Read
  BY <1>1, ReadRefines DEF Promise!Next
<1>2. CASE WriteAttenuation
  <2>1. Write(Steps[6], "attenuation")
    BY <1>2, StepsAre DEF WriteAttenuation
  <2>2. Promise!Write("attenuation")
    BY <2>1, WriteRefines
  <2> QED
    BY <2>2 DEF Promise!Next, Promise!Streams
<1>3. CASE WriteFiltered
  <2>1. Write(Steps[8], "filtered")
    BY <1>3, StepsAre DEF WriteFiltered
  <2>2. Promise!Write("filtered")
    BY <2>1, WriteRefines
  <2> QED
    BY <2>2 DEF Promise!Next, Promise!Streams
<1>4. CASE Return \/ Fail \/ Throw
  BY <1>4, ReturnRefines, FailRefines, ThrowRefines DEF Promise!Next
<1>5. CASE UNCHANGED vars
  <2>1. UNCHANGED <<job, nextRead, file, volumeFile, phase>>
    BY <1>5 DEF vars
  <2>2. Failed' = Failed /\ Outcome' = Outcome
    BY <2>1 DEF Failed, Outcome
  <2> QED
    BY <2>1, <2>2, QuietStep
<1> QED
  BY <1>1, <1>2, <1>3, <1>4, <1>5, WriteVolumeRefines, OtherStepRefines DEF Next, Ended

LEMMA InitRefines ==
  ASSUME Init
  PROVE  Promise!Init
<1>1. /\ phase = "prepare" /\ nextRead = 1 /\ volumeFile = <<>>
      /\ file = [k \in Kinds |-> <<>>]
  BY DEF Init
<1>2. Outcome = "running" /\ Failed = FALSE /\ Wholes = <<>>
  BY <1>1, NoWholes DEF Outcome, Failed
<1>3. Files = [k \in Promise!Streams |-> <<>>]
  <2>1. \A k \in Promise!Streams : file[k] = <<>>
    BY <1>1 DEF Promise!Streams, Kinds
  <2>2. \A k \in Promise!Streams : Files[k] = <<>>
    BY <2>1 DEF Files, Promise!Streams
  <2> QED
    BY <2>2 DEF Files, Promise!Streams
<1>4. Wanted(job) \in SUBSET Promise!Outputs
  BY DEF Wanted, Promise!Outputs, Promise!Streams
<1> QED
  BY <1>1, <1>2, <1>3, <1>4 DEF Promise!Init, Promise!Empty, Files, Wholes, Failed, Outcome

(* The single-threaded engine implements Reconstruction, at its strictest.  *)
THEOREM SingleThreadedKeepsPromise == Spec => KeepsPromise
<1>1. InTurn /\ InTurn' /\ [Next]_vars => [Promise!Next]_(Promise!vars)
  BY StepRefines
<1> QED
  BY InitRefines, <1>1, AlwaysInTurn, PTL DEF Spec, KeepsPromise, Promise!Spec

-----------------------------------------------------------------------------
(* The single-threaded engine: its types                                    *)

Held    == [number : 0 .. NumberOfProjections, done : Seq(Range(Steps))]
VolumeData == Seq(Held \X (1 .. NumberOfProjections))

LEMMA TypesAre ==
  TypeOK <=> /\ job \in Jobs
             /\ phase \in {"prepare", "projections", "writeVolume", "fit",
                           "returned", "unwind", "threw"}
             /\ p \in 0 .. NumberOfProjections
             /\ passed \in 0 .. Len(Steps)
             /\ image \in [Kinds -> Held]
             /\ reference \in Held
             /\ volume \in VolumeData
             /\ nextRead \in 1 .. NumberOfProjections + 1
             /\ file \in [Kinds -> Seq(Held)]
             /\ volumeFile \in Seq(VolumeData)
BY DEF TypeOK, Held, VolumeData

LEMMA InTurnTypes ==
  ASSUME InTurn
  PROVE  /\ job \in Jobs
         /\ phase \in {"prepare", "projections", "writeVolume", "fit",
                       "returned", "unwind", "threw"}
         /\ p \in 0 .. NumberOfProjections
         /\ passed \in 0 .. Len(Steps)
         /\ nextRead \in 1 .. NumberOfProjections + 1
<1>1. /\ Placed /\ nextRead = Through(1) + 1 /\ Len(Steps) = 9
  BY StepsAre DEF InTurn
<1>2. nextRead \in 1 .. NumberOfProjections + 1
  <2>1. passed >= 1 => p < NumberOfProjections
    BY <1>1, NumberOfProjectionsAssumption DEF Placed
  <2> QED
    BY <1>1, <2>1, NumberOfProjectionsAssumption DEF Placed, Through
<1> QED
  BY <1>1, <1>2 DEF Placed

DataOK ==
  /\ image \in [Kinds -> Held]
  /\ reference \in Held
  /\ volume \in VolumeData
  /\ file \in [Kinds -> Seq(Held)]
  /\ volumeFile \in Seq(VolumeData)

LEMMA FreshIsHeld ==
  ASSUME NEW n \in 0 .. NumberOfProjections
  PROVE  Fresh(n) \in Held
BY DEF Fresh, Held

LEMMA DoneIsHeld ==
  ASSUME NEW i \in Held, NEW n \in 1..9
  PROVE  Do(Steps[n], i) \in Held
<1>1. Steps[n] \in Range(Steps)
  BY StepsAre DEF Range
<1>2. i.number \in 0 .. NumberOfProjections /\ i.done \in Seq(Range(Steps))
  BY DEF Held
<1>3. Append(i.done, Steps[n]) \in Seq(Range(Steps))
  BY <1>1, <1>2
<1>4. Do(Steps[n], i) = [number |-> i.number, done |-> Append(i.done, Steps[n])]
  BY DEF Do, Held
<1> QED
  BY <1>2, <1>3, <1>4 DEF Held

LEMMA StepKeepsTypes ==
  ASSUME InTurn, DataOK, [Next]_vars
  PROVE  DataOK'
<1>1. CASE Read
  <2>1. nextRead \in 0 .. NumberOfProjections
    <3>1. Begin(Steps[1]) /\ Placed /\ nextRead = Through(1) + 1
      BY <1>1, StepsAre DEF Read, InTurn
    <3>2. p \in Nat /\ p < NumberOfProjections /\ Through(1) = p
      BY <3>1, Turn, ThroughKept
    <3> QED
      BY <3>1, <3>2, NumberOfProjectionsAssumption
  <2>2. Fresh(nextRead) \in Held
    BY <2>1, FreshIsHeld
  <2> QED
    BY <1>1, <2>2 DEF Read, DataOK
<1>2. ASSUME NEW n \in 1..9, NEW from \in Kinds, NEW to \in Kinds,
             Transform(Steps[n], from, to)
      PROVE  DataOK'
  <2>1. Do(Steps[n], image[from]) \in Held
    BY DoneIsHeld DEF DataOK
  <2> QED
    BY <1>2, <2>1 DEF Transform, DataOK
<1>3. CASE Convert \/ CorrectBadPixels \/ Filter
  BY <1>2, <1>3, StepsAre DEF Convert, CorrectBadPixels, Filter, Kinds
<1>4. CASE SetReference
  BY <1>4 DEF SetReference, DataOK, Kinds
<1>5. CASE CorrectBeamPower
  <2>1. Do(Steps[5], image["attenuation"]) \in Held /\ Garbage \in Held
    BY DoneIsHeld, FreshIsHeld, NumberOfProjectionsAssumption DEF DataOK, Garbage, Kinds
  <2> QED
    BY <1>5, <2>1, StepsAre DEF CorrectBeamPower, DataOK
<1>6. ASSUME NEW step, NEW kind \in Kinds, Write(step, kind)
      PROVE  DataOK'
  <2>1. image[kind] \in Held /\ file[kind] \in Seq(Held)
    BY DEF DataOK
  <2>2. Append(file[kind], image[kind]) \in Seq(Held)
    BY <2>1
  <2> QED
    BY <1>6, <2>2 DEF Write, DataOK
<1>7. CASE WriteAttenuation \/ WriteFiltered
  BY <1>6, <1>7 DEF WriteAttenuation, WriteFiltered, Kinds
<1>8. CASE ApplyProjection
  <2>1. Begin(Steps[9]) /\ Placed
    BY <1>8, StepsAre DEF ApplyProjection, InTurn
  <2>2. p + 1 \in 1 .. NumberOfProjections
    BY <2>1, Turn, NumberOfProjectionsAssumption
  <2>3. Append(volume, <<image["filtered"], p + 1>>) \in VolumeData
    BY <2>2 DEF DataOK, VolumeData, Kinds
  <2> QED
    BY <1>8, <2>3 DEF ApplyProjection, DataOK
<1>9. CASE WriteVolume
  BY <1>9 DEF WriteVolume, DataOK
<1>10. CASE \/ Prepare \/ NextProjection \/ Return \/ Fail \/ Throw \/ UNCHANGED vars
  <2>1. UNCHANGED <<image, reference, volume, file, volumeFile>>
    BY <1>10 DEF Prepare, NextProjection, Return, Fail, Throw, vars
  <2> QED
    BY <2>1 DEF DataOK
<1> QED
  BY <1>1, <1>3, <1>4, <1>5, <1>7, <1>8, <1>9, <1>10 DEF Next, Ended

(* Type correctness of the single-threaded engine.                          *)
THEOREM SingleThreadedTypeCorrect == Spec => []TypeOK
<1>1. Init => DataOK
  <2>1. Garbage \in Held
    BY FreshIsHeld, NumberOfProjectionsAssumption DEF Garbage
  <2>2. <<>> \in Seq(Held) /\ <<>> \in VolumeData /\ <<>> \in Seq(VolumeData)
    BY DEF VolumeData
  <2> QED
    BY <2>1, <2>2 DEF Init, DataOK
<1>2. InTurn /\ DataOK /\ [Next]_vars => DataOK'
  BY StepKeepsTypes
<1>3. InTurn /\ DataOK => TypeOK
  BY TypesAre, InTurnTypes DEF DataOK
<1> QED
  BY <1>1, <1>2, <1>3, AlwaysInTurn, PTL DEF Spec

-----------------------------------------------------------------------------
(* The memory of images: types                                              *)

Point   == Int \X Int
Address == Blocks \cup {NULL}
Arrays  ==
  [constructed : BOOLEAN, dims : Int, buffer : Address, base : Address,
   place : Point, extents : [interior : Point, exterior : Point]]

LEMMA ExtentsAreTyped ==
  ASSUME NEW dims \in Int, NEW place \in Point
  PROVE  Extents(dims, place) \in [interior : Point, exterior : Point]
<1>1. (dims - 1) * place[2] \in Int
  BY DEF Point
<1> QED
  BY <1>1 DEF Extents, Point

LEMMA EmptyIsTyped == Empty \in Arrays
<1>1. Extents(0, <<0, 0>>) \in [interior : Point, exterior : Point]
  BY ExtentsAreTyped DEF Point
<1> QED
  BY <1>1 DEF Empty, Arrays, Address, Point

LEMMA OwningIsTyped ==
  ASSUME NEW b \in Blocks, NEW dims \in Int, NEW place \in Point
  PROVE  Owning(b, dims, place) \in Arrays
<1>1. Extents(dims, place) \in [interior : Point, exterior : Point]
  BY ExtentsAreTyped
<1> QED
  BY <1>1 DEF Owning, Arrays, Address

LEMMA SizesAreTyped == Dims \subseteq Int /\ Places \subseteq Point
BY ContainersAssumption DEF Point

-----------------------------------------------------------------------------
(* The inductive invariant                                                  *)

Typed ==
  /\ existence \in [Objects -> {"none", "alive", "dying"}]
  /\ array \in [Objects -> Arrays]

(* Of a double buffer, side B exists only between the making and the        *)
(* destruction of side A.                                                   *)
SidesLiveTogether ==
  \A d \in Buffers :
    existence[<<d, "A">>] # "alive" => existence[<<d, "B">>] = "none"

(* Only what is alive and says it is constructed owns memory: so a          *)
(* destructor that is called a second time finds nothing to free.           *)
OwnersLive ==
  \A o \in Objects :
    array[o].buffer # NULL =>
      existence[o] = "alive" /\ array[o].constructed /\ array[o].buffer \in heap

NothingLeaks == \A b \in heap : \E o \in Objects : array[o].buffer = b

OwnersDiffer ==
  \A o, q \in Objects :
    array[o].buffer # NULL /\ array[o].buffer = array[q].buffer => o = q

Owned ==
  /\ Typed
  /\ heap \subseteq Blocks
  /\ corrupt = FALSE
  /\ SidesLiveTogether
  /\ OwnersLive
  /\ NothingLeaks
  /\ OwnersDiffer

LEMMA OwnedIsEnough == Owned => EveryBlockHasOneOwner
<1> SUFFICES ASSUME Owned PROVE EveryBlockHasOneOwner
  OBVIOUS
<1>1. heap = {array[o].buffer : o \in {q \in Objects : existence[q] # "none"}} \ {NULL}
  <2>1. ASSUME NEW b \in heap
        PROVE  \E o \in {q \in Objects : existence[q] # "none"} : b = array[o].buffer
    <3>1. PICK o \in Objects : array[o].buffer = b
      BY DEF Owned, NothingLeaks
    <3>2. b # NULL
      BY ContainersAssumption DEF Owned
    <3> QED
      BY <3>1, <3>2 DEF Owned, OwnersLive
  <2>2. NULL \notin heap
    BY ContainersAssumption DEF Owned
  <2>3. ASSUME NEW o \in Objects, array[o].buffer # NULL
        PROVE  array[o].buffer \in heap
    BY <2>3 DEF Owned, OwnersLive
  <2> QED
    BY <2>1, <2>2, <2>3
<1> QED
  BY <1>1 DEF Owned, OwnersDiffer, EveryBlockHasOneOwner

LEMMA OwnedInit == ContainersInit => Owned
<1> SUFFICES ASSUME ContainersInit PROVE Owned
  OBVIOUS
<1>1. \A o \in Objects : existence[o] = "none" /\ array[o] = Empty
  BY DEF ContainersInit
<1>2. Empty.buffer = NULL
  BY DEF Empty
<1>3. Typed
  BY EmptyIsTyped DEF ContainersInit, Typed
<1>4. SidesLiveTogether
  BY <1>1 DEF SidesLiveTogether, Objects, Members, Sides
<1> QED
  BY <1>1, <1>2, <1>3, <1>4
  DEF ContainersInit, Owned, OwnersLive, NothingLeaks, OwnersDiffer

-----------------------------------------------------------------------------
(* What a step may do to the ownership                                      *)

(* Nothing: no array's buffer changes, and no owner is disturbed.           *)
LEMMA KeepsOwners ==
  ASSUME Owned, Typed', SidesLiveTogether',
         UNCHANGED <<heap, corrupt>>,
         \A o \in Objects :
           /\ array'[o].buffer = array[o].buffer
           /\ array[o].buffer # NULL =>
                existence'[o] = "alive" /\ array'[o].constructed
  PROVE  Owned'
BY DEF Owned, OwnersLive, NothingLeaks, OwnersDiffer

(* Give a free block to an array that owns none.                            *)
LEMMA TakesBlock ==
  ASSUME Owned, Typed', SidesLiveTogether', corrupt' = corrupt,
         NEW o \in Objects, NEW b \in Blocks \ heap,
         heap' = heap \cup {b}, array[o].buffer = NULL,
         array'[o].buffer = b, array'[o].constructed, existence'[o] = "alive",
         \A q \in Objects \ {o} : array'[q] = array[q] /\ existence'[q] = existence[q]
  PROVE  Owned'
<1>1. OwnersLive'
  BY DEF Owned, OwnersLive
<1>2. NothingLeaks'
  <2> SUFFICES ASSUME NEW c \in heap' PROVE \E q \in Objects : array'[q].buffer = c
    BY DEF NothingLeaks
  <2>1. CASE c = b
    BY <2>1
  <2>2. CASE c \in heap
    <3>1. PICK q \in Objects : array[q].buffer = c
      BY <2>2 DEF Owned, NothingLeaks
    <3>2. q # o
      BY <2>2, <3>1, ContainersAssumption DEF Owned
    <3> QED
      BY <3>1, <3>2
  <2> QED
    BY <2>1, <2>2
<1>3. OwnersDiffer'
  <2>1. \A q \in Objects : array[q].buffer # b
    BY ContainersAssumption DEF Owned, OwnersLive
  <2> QED
    BY <2>1 DEF Owned, OwnersDiffer
<1> QED
  BY <1>1, <1>2, <1>3 DEF Owned

(* Free what some arrays own, which then own nothing.                       *)
LEMMA FreesBlocks ==
  ASSUME Owned, Typed', SidesLiveTogether', corrupt' = FALSE,
         NEW S \in SUBSET Objects,
         heap' = heap \ {array[o].buffer : o \in S},
         \A o \in S : array'[o].buffer = NULL,
         \A o \in Objects \ S : array'[o] = array[o] /\ existence'[o] = existence[o]
  PROVE  Owned'
<1>1. OwnersLive'
  <2> SUFFICES ASSUME NEW o \in Objects, array'[o].buffer # NULL
               PROVE  /\ existence'[o] = "alive" /\ array'[o].constructed
                      /\ array'[o].buffer \in heap'
    BY DEF OwnersLive
  <2>1. o \notin S /\ array'[o] = array[o] /\ existence'[o] = existence[o]
    OBVIOUS
  <2>2. \A q \in S : array[q].buffer # array[o].buffer
    BY <2>1 DEF Owned, OwnersDiffer
  <2> QED
    BY <2>1, <2>2 DEF Owned, OwnersLive
<1>2. NothingLeaks'
  BY DEF Owned, NothingLeaks
<1>3. OwnersDiffer'
  BY DEF Owned, OwnersDiffer
<1> QED
  BY <1>1, <1>2, <1>3 DEF Owned
-----------------------------------------------------------------------------
(* Every operation does one of these                                        *)

(* The sides of a double buffer are two objects, and no image is a side.    *)
LEMMA ObjectsAreApart ==
  /\ \A o \in Plain : o \in Objects /\ \A d \in Buffers, s \in Sides : o # <<d, s>>
  /\ \A d \in Buffers : <<d, "A">> \in Objects /\ <<d, "B">> \in Objects
BY ContainersAssumption DEF Objects, Members, Sides

(* new[] in an array that was not constructed.                              *)
LEMMA AllocatesKeeps ==
  ASSUME Owned, NEW o \in Objects, NEW dims \in Int, NEW place \in Point,
         Allocates(o, dims, place), corrupt' = corrupt,
         existence' \in [Objects -> {"none", "alive", "dying"}],
         SidesLiveTogether', existence'[o] = "alive",
         \A q \in Objects \ {o} : existence'[q] = existence[q]
  PROVE  Owned'
<1>1. PICK b \in Blocks \ heap :
        heap' = heap \cup {b} /\ array' = [array EXCEPT ![o] = Owning(b, dims, place)]
  BY DEF Allocates
<1>2. array[o].buffer = NULL
  BY DEF Allocates, Owned, OwnersLive
<1>3. Typed'
  BY <1>1, OwningIsTyped DEF Owned, Typed
<1>4. array'[o] = Owning(b, dims, place)
        /\ \A q \in Objects \ {o} : array'[q] = array[q]
  BY <1>1 DEF Owned, Typed
<1>5. array'[o].buffer = b /\ array'[o].constructed
  BY <1>4 DEF Owning
<1> QED
  BY <1>1, <1>2, <1>3, <1>4, <1>5, TakesBlock

(* An array that owned nothing is replaced by another that owns nothing.    *)
LEMMA ReplacesUnowned ==
  ASSUME Owned, NEW o \in Objects, NEW a \in Arrays, a.buffer = NULL,
         array[o].buffer = NULL, array' = [array EXCEPT ![o] = a],
         existence' \in [Objects -> {"none", "alive", "dying"}],
         SidesLiveTogether', UNCHANGED <<heap, corrupt>>,
         \A q \in Objects \ {o} : existence'[q] = existence[q]
  PROVE  Owned'
<1>1. Typed'
  BY DEF Owned, Typed
<1>2. array'[o] = a /\ \A q \in Objects \ {o} : array'[q] = array[q]
  BY DEF Owned, Typed
<1> QED
  BY <1>1, <1>2, KeepsOwners DEF Owned, OwnersLive

(* An allocation that throws.                                               *)
LEMMA CannotAllocateKeeps ==
  ASSUME Owned, NEW o \in Objects, NEW dims \in Int, CannotAllocate(o, dims),
         UNCHANGED <<existence, corrupt>>
  PROVE  Owned'
<1> DEFINE a == [array[o] EXCEPT !.constructed = TRUE, !.dims = dims]
<1>1. array[o] \in Arrays
  BY DEF Owned, Typed
<1>2. array[o].buffer = NULL
  BY DEF CannotAllocate, Owned, OwnersLive
<1>3. a \in Arrays /\ a.buffer = NULL
  BY <1>1, <1>2 DEF Arrays
<1>4. array' = [array EXCEPT ![o] = a]
  BY <1>1 DEF CannotAllocate, Arrays, Owned, Typed
<1>5. existence' \in [Objects -> {"none", "alive", "dying"}] /\ SidesLiveTogether'
  BY DEF Owned, Typed, SidesLiveTogether
<1> HIDE DEF a
<1> QED
  BY <1>2, <1>3, <1>4, <1>5, ReplacesUnowned DEF CannotAllocate

(* Only images are made and destroyed otherwise than as sides.              *)
LEMMA PlainLeavesSides ==
  ASSUME Owned, NEW o \in Plain,
         \A q \in Objects \ {o} : existence'[q] = existence[q]
  PROVE  SidesLiveTogether'
BY ObjectsAreApart DEF Owned, SidesLiveTogether, Sides

LEMMA ReferenceIsTyped ==
  ASSUME NEW a \in Arrays
  PROVE  ReferenceTo(a) \in Arrays /\ ReferenceTo(a).buffer = NULL
BY DEF ReferenceTo, Arrays, Address

LEMMA CreatesKeep ==
  ASSUME Owned, NEW o \in Plain,
         \/ Create(o)
         \/ \E dims \in Dims, place \in Places : CreateConstructed(o, dims, place)
         \/ \E source \in Objects : CreateReference(o, source)
  PROVE  Owned'
<1>1. o \in Objects
  BY ObjectsAreApart
<1>2. existence[o] = "none" /\ existence' = [existence EXCEPT ![o] = "alive"]
        /\ corrupt' = corrupt
  BY DEF Create, CreateConstructed, CreateReference
<1>3. /\ existence' \in [Objects -> {"none", "alive", "dying"}]
      /\ existence'[o] = "alive"
      /\ \A q \in Objects \ {o} : existence'[q] = existence[q]
  BY <1>1, <1>2 DEF Owned, Typed
<1>4. SidesLiveTogether'
  BY <1>3, PlainLeavesSides
<1>5. array[o].buffer = NULL
  BY <1>1, <1>2 DEF Owned, OwnersLive
<1>6. CASE Create(o)
  <2>1. array' = [array EXCEPT ![o] = Empty] /\ heap' = heap
    BY <1>6 DEF Create
  <2>2. Empty.buffer = NULL
    BY DEF Empty
  <2> QED
    BY <1>1, <1>2, <1>3, <1>4, <1>5, <2>1, <2>2, EmptyIsTyped, ReplacesUnowned
<1>7. ASSUME NEW dims \in Dims, NEW place \in Places, CreateConstructed(o, dims, place)
      PROVE  Owned'
  <2>1. Allocates(o, dims, place)
    BY <1>7 DEF CreateConstructed
  <2>2. dims \in Int /\ place \in Point
    BY SizesAreTyped
  <2> QED
    BY <1>1, <1>2, <1>3, <1>4, <2>1, <2>2, AllocatesKeeps
<1>8. ASSUME NEW source \in Objects, CreateReference(o, source)
      PROVE  Owned'
  <2>1. array' = [array EXCEPT ![o] = ReferenceTo(array[source])] /\ heap' = heap
    BY <1>8 DEF CreateReference
  <2>2. array[source] \in Arrays
    BY DEF Owned, Typed
  <2> QED
    BY <1>1, <1>2, <1>3, <1>4, <1>5, <2>1, <2>2, ReferenceIsTyped, ReplacesUnowned
<1> QED
  BY <1>6, <1>7, <1>8

LEMMA ConstructsKeep ==
  ASSUME Owned, NEW o \in Objects,
         \/ \E dims \in Dims, place \in Places : Construct(o, dims, place)
         \/ \E source \in Objects : ConstructReference(o, source)
  PROVE  Owned'
<1>1. UNCHANGED <<existence, corrupt>> /\ Usable(o)
  BY DEF Construct, ConstructReference
<1>2. existence[o] = "alive"
  BY <1>1 DEF Usable
<1>3. /\ existence' \in [Objects -> {"none", "alive", "dying"}]
      /\ existence'[o] = "alive" /\ SidesLiveTogether'
      /\ \A q \in Objects \ {o} : existence'[q] = existence[q]
  BY <1>1, <1>2 DEF Owned, Typed, SidesLiveTogether
<1>4. ASSUME NEW dims \in Dims, NEW place \in Places, Construct(o, dims, place)
      PROVE  Owned'
  <2>1. Allocates(o, dims, place) \/ CannotAllocate(o, dims)
    BY <1>4 DEF Construct
  <2>2. dims \in Int /\ place \in Point
    BY SizesAreTyped
  <2> QED
    BY <1>1, <1>3, <2>1, <2>2, AllocatesKeeps, CannotAllocateKeeps
<1>5. ASSUME NEW source \in Objects, ConstructReference(o, source)
      PROVE  Owned'
  <2>1. array' = [array EXCEPT ![o] = ReferenceTo(array[source])] /\ heap' = heap
          /\ ~array[o].constructed
    BY <1>5 DEF ConstructReference
  <2>2. array[source] \in Arrays /\ array[o].buffer = NULL
    BY <2>1 DEF Owned, Typed, OwnersLive
  <2> QED
    BY <1>1, <1>3, <2>1, <2>2, ReferenceIsTyped, ReplacesUnowned
<1> QED
  BY <1>4, <1>5

LEMMA SidesKeep ==
  ASSUME Owned, NEW d \in Buffers,
         \/ \E dims \in Dims, place \in Places : ConstructA(d, dims, place)
         \/ ConstructB(d)
  PROVE  Owned'
<1>1. UNCHANGED <<existence, corrupt>>
  BY DEF ConstructA, ConstructB
<1>2. existence' \in [Objects -> {"none", "alive", "dying"}] /\ SidesLiveTogether'
  BY <1>1 DEF Owned, Typed, SidesLiveTogether
<1>3. ASSUME NEW dims \in Dims, NEW place \in Places, ConstructA(d, dims, place)
      PROVE  Owned'
  <2>1. /\ Allocates(<<d, "A">>, dims, place) \/ CannotAllocate(<<d, "A">>, dims)
        /\ existence'[<<d, "A">>] = "alive"
    BY <1>1, <1>3 DEF ConstructA, Usable
  <2>2. dims \in Int /\ place \in Point
    BY SizesAreTyped
  <2> QED
    BY <1>1, <1>2, <2>1, <2>2, ObjectsAreApart, AllocatesKeeps, CannotAllocateKeeps
<1>4. CASE ConstructB(d)
  <2> DEFINE a == array[<<d, "A">>]
  <2>1. /\ \/ Allocates(<<d, "B">>, a.dims, a.place)
           \/ CannotAllocate(<<d, "B">>, a.dims)
        /\ existence'[<<d, "B">>] = "alive"
    BY <1>1, <1>4 DEF ConstructB, Usable
  <2>2. a.dims \in Int /\ a.place \in Point
    <3>1. a \in Arrays
      BY ObjectsAreApart DEF Owned, Typed
    <3> QED
      BY <3>1 DEF Arrays
  <2> HIDE DEF a
  <2> QED
    BY <1>1, <1>2, <2>1, <2>2, ObjectsAreApart, AllocatesKeeps, CannotAllocateKeeps
<1> QED
  BY <1>3, <1>4

(* A group's new member is where no object was.                             *)
LEMMA AddsKeep ==
  ASSUME Owned, NEW d \in Buffers, AddToGroup(d)
  PROVE  Owned'
<1> DEFINE S == {d} \X Sides
<1>1. S \subseteq Objects /\ S = {<<d, "A">>, <<d, "B">>}
  BY DEF Objects, Members, Sides
<1>2. \A o \in S : array[o].buffer = NULL
  <2>1. existence[<<d, "A">>] = "none" /\ existence[<<d, "B">>] = "none"
    BY DEF AddToGroup, Owned, SidesLiveTogether
  <2> QED
    BY <1>1, <2>1 DEF Owned, OwnersLive
<1>3. /\ existence' = [o \in Objects |-> IF o \in S THEN "alive" ELSE existence[o]]
      /\ array' = [o \in Objects |-> IF o \in S THEN Empty ELSE array[o]]
      /\ UNCHANGED <<heap, corrupt>>
  BY DEF AddToGroup
<1> HIDE DEF S
<1>4. Typed'
  BY <1>3, EmptyIsTyped DEF Owned, Typed
<1>5. \A o \in Objects :
        /\ array'[o].buffer = array[o].buffer
        /\ array[o].buffer # NULL => existence'[o] = "alive" /\ array'[o].constructed
  <2>1. Empty.buffer = NULL
    BY DEF Empty
  <2> QED
    BY <1>2, <1>3, <2>1 DEF Owned, OwnersLive
<1>6. SidesLiveTogether'
  <2> SUFFICES ASSUME NEW e \in Buffers, existence'[<<e, "A">>] # "alive"
               PROVE  existence'[<<e, "B">>] = "none"
    BY DEF SidesLiveTogether
  <2>1. <<e, "A">> \in Objects /\ <<e, "B">> \in Objects
    BY ObjectsAreApart
  <2>2. <<e, "A">> \notin S /\ existence[<<e, "A">>] # "alive"
    BY <1>3, <2>1
  <2>3. <<e, "B">> \notin S
    BY <1>1, <2>2
  <2> QED
    BY <1>3, <2>1, <2>2, <2>3 DEF Owned, SidesLiveTogether
<1> QED
  BY <1>3, <1>4, <1>5, <1>6, KeepsOwners

LEMMA CopyKeeps ==
  ASSUME Owned, NEW o \in Objects, NEW source \in Objects, Copy(o, source)
  PROVE  Owned'
<1> DEFINE from == array[source]
           a    == [array[o] EXCEPT !.place = from.place,
                                    !.extents = Extents(array[o].dims, from.place)]
<1>1. UNCHANGED <<existence, corrupt>> /\ existence[o] = "alive"
  BY DEF Copy, Usable
<1>2. existence' \in [Objects -> {"none", "alive", "dying"}] /\ SidesLiveTogether'
  BY <1>1 DEF Owned, Typed, SidesLiveTogether
<1>3. array[o] \in Arrays /\ array[o].dims \in Int
        /\ from.dims \in Int /\ from.place \in Point
  <2>1. array[o] \in Arrays /\ from \in Arrays
    BY DEF Owned, Typed
  <2> QED
    BY <2>1 DEF Arrays
<1>4. a \in Arrays /\ a.buffer = array[o].buffer /\ a.constructed = array[o].constructed
  BY <1>3, ExtentsAreTyped DEF Arrays
<1>5. CASE ~array[o].constructed
  <2>1. \/ Allocates(o, from.dims, from.place)
        \/ CannotAllocate(o, from.dims)
    BY <1>5 DEF Copy, Allocates
  <2> HIDE DEF from
  <2> QED
    BY <1>1, <1>2, <1>3, <2>1, AllocatesKeeps, CannotAllocateKeeps
<1>6. CASE array[o].constructed
  <2>1. TakesPlace(o, source) /\ heap' = heap
    BY <1>6 DEF Copy
  <2>2. array' = [array EXCEPT ![o] = a]
    BY <1>3, <2>1 DEF TakesPlace, Arrays, Owned, Typed
  <2> HIDE DEF a
  <2>3. Typed'
    BY <1>2, <1>4, <2>2 DEF Owned, Typed
  <2>4. array'[o] = a /\ \A q \in Objects \ {o} : array'[q] = array[q]
    BY <2>2 DEF Owned, Typed
  <2> QED
    BY <1>1, <1>2, <1>4, <2>1, <2>3, <2>4, KeepsOwners DEF Owned, OwnersLive
<1> QED
  BY <1>5, <1>6

(* Array::destruct, together with whatever becomes of the object.           *)
LEMMA DestructKeeps ==
  ASSUME Owned, NEW o \in Objects, Destruct(o),
         existence' \in [Objects -> {"none", "alive", "dying"}],
         SidesLiveTogether',
         \A q \in Objects \ {o} : existence'[q] = existence[q]
  PROVE  Owned'
<1> DEFINE S == {o}
<1>1. heap' = heap \ {array[q].buffer : q \in S} /\ corrupt' = FALSE
  <2>1. CASE array[o].buffer = NULL
    BY <2>1, ContainersAssumption DEF Destruct, Owned
  <2>2. CASE array[o].buffer # NULL
    BY <2>2 DEF Destruct, Owned, OwnersLive
  <2> QED
    BY <2>1, <2>2
<1>2. Typed'
  BY EmptyIsTyped DEF Destruct, Owned, Typed
<1>3. array'[o].buffer = NULL /\ \A q \in Objects \ {o} : array'[q] = array[q]
  BY DEF Destruct, Empty, Owned, Typed
<1>4. /\ S \in SUBSET Objects /\ \A q \in S : array'[q].buffer = NULL
      /\ \A q \in Objects \ S : array'[q] = array[q] /\ existence'[q] = existence[q]
  BY <1>3
<1> HIDE DEF S
<1> QED
  BY <1>1, <1>2, <1>4, FreesBlocks

LEMMA DestructSidesKeeps ==
  ASSUME Owned, NEW d \in Buffers, DestructSides(d)
  PROVE  Owned'
<1> DEFINE S == {d} \X Sides
<1>1. S \in SUBSET Objects
  BY DEF Objects, Members, Sides
<1>2. {array[<<d, s>>].buffer : s \in Sides} = {array[o].buffer : o \in S}
  <2>1. S = {<<d, "A">>, <<d, "B">>} /\ Sides = {"A", "B"}
    BY DEF Sides
  <2> HIDE DEF S
  <2> QED
    BY <2>1
<1>3. /\ heap' = heap \ ({array[o].buffer : o \in S} \ {NULL})
      /\ corrupt' = (corrupt \/ ~(({array[o].buffer : o \in S} \ {NULL}) \subseteq heap))
      /\ array' = [o \in Objects |-> IF o \in S THEN Empty ELSE array[o]]
      /\ existence' = existence
  BY <1>2 DEF DestructSides
<1> HIDE DEF S
<1>4. heap' = heap \ {array[o].buffer : o \in S}
  BY <1>3, ContainersAssumption DEF Owned
<1>5. corrupt' = FALSE
  BY <1>1, <1>3 DEF Owned, OwnersLive
<1>6. Typed' /\ SidesLiveTogether'
  BY <1>3, EmptyIsTyped DEF Owned, Typed, SidesLiveTogether
<1>7. Empty.buffer = NULL
  BY DEF Empty
<1> QED
  BY <1>1, <1>3, <1>4, <1>5, <1>6, <1>7, FreesBlocks

(* The destructors: side B has gone before side A does.                     *)
LEMMA DestroysKeep ==
  ASSUME Owned, NEW o \in Objects, CallDestruct(o) \/ Delete(o) \/ DeleteBase(o)
  PROVE  Owned'
<1>1. Destruct(o)
  BY DEF CallDestruct, Delete, DeleteBase
<1>2. CASE CallDestruct(o)
  <2>1. existence' = existence
    BY <1>2 DEF CallDestruct
  <2>2. existence' \in [Objects -> {"none", "alive", "dying"}] /\ SidesLiveTogether'
    BY <2>1 DEF Owned, Typed, SidesLiveTogether
  <2> QED
    BY <1>1, <2>1, <2>2, DestructKeeps
<1>3. CASE Delete(o)
  <2>1. existence' = [existence EXCEPT ![o] = "dying"] /\ existence[o] = "alive"
    BY <1>3 DEF Delete
  <2>2. ASSUME NEW d \in Buffers, o = <<d, "A">>
        PROVE  existence[<<d, "B">>] = "none"
    BY <1>3, <2>2 DEF Delete, MayDie, Members, Sides
  <2>3. SidesLiveTogether'
    <3> SUFFICES ASSUME NEW d \in Buffers, existence'[<<d, "A">>] # "alive"
                 PROVE  existence'[<<d, "B">>] = "none"
      BY DEF SidesLiveTogether
    <3>1. existence[<<d, "B">>] = "none"
      BY <2>1, <2>2, ObjectsAreApart DEF Owned, Typed, SidesLiveTogether
    <3> QED
      BY <2>1, <3>1, ObjectsAreApart DEF Owned, Typed
  <2> QED
    BY <1>1, <2>1, <2>3, DestructKeeps DEF Owned, Typed
<1>4. CASE DeleteBase(o)
  <2>1. existence' = [existence EXCEPT ![o] = "none"] /\ existence[o] = "dying"
    BY <1>4 DEF DeleteBase
  <2>2. SidesLiveTogether'
    BY <2>1, ObjectsAreApart DEF Owned, Typed, SidesLiveTogether
  <2> QED
    BY <1>1, <2>1, <2>2, DestructKeeps DEF Owned, Typed
<1> QED
  BY <1>2, <1>3, <1>4

-----------------------------------------------------------------------------

LEMMA OwnedStep ==
  ASSUME Owned, [ContainersNext]_containersVars
  PROVE  Owned'
<1>1. CASE UNCHANGED containersVars
  BY <1>1 DEF containersVars, Owned, Typed, SidesLiveTogether, OwnersLive,
              NothingLeaks, OwnersDiffer
<1>2. ASSUME NEW o \in Objects,
             \/ Create(o) \/ CallDestruct(o) \/ Delete(o) \/ DeleteBase(o)
             \/ \E n \in Dims, place \in Places :
                  Construct(o, n, place) \/ CreateConstructed(o, n, place)
             \/ \E s \in Objects :
                  ConstructReference(o, s) \/ CreateReference(o, s) \/ Copy(o, s)
      PROVE  Owned'
  <2>1. CASE CallDestruct(o) \/ Delete(o) \/ DeleteBase(o)
    BY <2>1, DestroysKeep
  <2>2. CASE \/ \E n \in Dims, place \in Places : Construct(o, n, place)
             \/ \E s \in Objects : ConstructReference(o, s)
    BY <2>2, ConstructsKeep
  <2>3. CASE \/ Create(o)
             \/ \E n \in Dims, place \in Places : CreateConstructed(o, n, place)
             \/ \E s \in Objects : CreateReference(o, s)
    <3>1. o \in Plain
      BY <2>3 DEF Create, CreateConstructed, CreateReference
    <3> QED
      BY <2>3, <3>1, CreatesKeep
  <2>4. CASE \E s \in Objects : Copy(o, s)
    BY <2>4, CopyKeeps
  <2> QED
    BY <1>2, <2>1, <2>2, <2>3, <2>4
<1>3. ASSUME NEW d \in Buffers,
             \/ AddToGroup(d) \/ ConstructB(d) \/ SwapSides(d) \/ DestructSides(d)
             \/ \E n \in Dims, place \in Places : ConstructA(d, n, place)
      PROVE  Owned'
  <2>1. CASE ConstructB(d) \/ \E n \in Dims, place \in Places : ConstructA(d, n, place)
    BY <2>1, SidesKeep
  <2>2. CASE AddToGroup(d)
    BY <2>2, AddsKeep
  <2>3. CASE SwapSides(d)
    BY <2>3 DEF SwapSides, Owned, Typed, SidesLiveTogether, OwnersLive,
                NothingLeaks, OwnersDiffer
  <2>4. CASE DestructSides(d)
    BY <2>4, DestructSidesKeeps
  <2> QED
    BY <1>3, <2>1, <2>2, <2>3, <2>4
<1> QED
  BY <1>1, <1>2, <1>3 DEF ContainersNext

(* Array.hpp: whatever is made, referred to, copied, swapped and destroyed  *)
(* in whatever order the contract allows, nothing leaks and nothing is      *)
(* freed twice, also when an allocation throws half-way.                    *)
THEOREM MemoryHasOneOwner == ContainersSpec => []EveryBlockHasOneOwner
<1>1. ContainersSpec => []Owned
  BY OwnedInit, OwnedStep, PTL DEF ContainersSpec
<1> QED
  BY <1>1, OwnedIsEnough, PTL

-----------------------------------------------------------------------------
(* What is constructed can be used                                          *)

(* What there is to one object: an array that is not constructed, as every  *)
(* array is whose object does not live, refers to nothing; one whose        *)
(* allocation threw neither; any other has memory and the extents of its    *)
(* place. It owns what it uses, or nothing.                                 *)
Sound(o) ==
  LET a == array[o] IN
  /\ a.constructed => existence[o] = "alive"
  /\ o \in failed => existence[o] # "none" /\ a.base = NULL
  /\ ~a.constructed => a.base = NULL
  /\ a.buffer # NULL => a.base = a.buffer
  /\ a.constructed /\ o \notin failed =>
       a.base \in heap /\ a.extents = Extents(a.dims, a.place)

(* ... and to the two sides of a double buffer: as far as it was built,     *)
(* they own their memory, and are alike.                                    *)
SoundPair(d) ==
  LET a == array[<<d, "A">>]
      b == array[<<d, "B">>]
  IN  existence[<<d, "B">>] = "alive" =>
        /\ built[d] # "no" => a.buffer # NULL
        /\ built[d] = "yes" => b.buffer # NULL /\ a.dims = b.dims /\ a.place = b.place

WellMade ==
  /\ built \in [Buffers -> {"no", "half", "yes"}]
  /\ loadingSide \in [Buffers -> Sides]
  /\ \A o \in Objects : Sound(o)
  /\ \A d \in Buffers : SoundPair(d)

LEMMA OwnerHasMemory ==
  ASSUME Owned, NEW o \in Objects, Sound(o), array[o].buffer # NULL
  PROVE  array[o].base = array[o].buffer /\ array[o].base \in heap
BY DEF Owned, OwnersLive, Sound

LEMMA WellMadeIsEnough == Owned /\ WellMade => ConstructedIsUsable
<1> SUFFICES ASSUME Owned, WellMade PROVE ConstructedIsUsable
  OBVIOUS
<1>1. ConstructedHasMemory
  BY DEF ConstructedHasMemory, WellMade, Sound
<1>2. SidesMatch
  <2> SUFFICES ASSUME NEW d \in Buffers, built[d] = "yes",
                      existence[<<d, "B">>] = "alive"
               PROVE  LET active == array[<<d, OtherSide(loadingSide[d])>>]
                          loading == array[<<d, loadingSide[d]>>]
                      IN  /\ active.base \in heap /\ loading.base \in heap
                          /\ active.base # loading.base
                          /\ active.dims = loading.dims
                          /\ active.place = loading.place
    BY DEF SidesMatch
  <2> DEFINE a == array[<<d, "A">>]
             b == array[<<d, "B">>]
  <2>1. /\ a.buffer # NULL /\ b.buffer # NULL
        /\ a.dims = b.dims /\ a.place = b.place
    BY DEF WellMade, SoundPair
  <2>2. a.base = a.buffer /\ a.base \in heap /\ b.base = b.buffer /\ b.base \in heap
    BY <2>1, ObjectsAreApart, OwnerHasMemory DEF WellMade
  <2>3. a.base # b.base
    BY <2>1, <2>2, ObjectsAreApart DEF Owned, OwnersDiffer
  <2>4. \/ loadingSide[d] = "A" /\ OtherSide(loadingSide[d]) = "B"
        \/ loadingSide[d] = "B" /\ OtherSide(loadingSide[d]) = "A"
    BY DEF WellMade, Sides, OtherSide
  <2> QED
    BY <2>1, <2>2, <2>3, <2>4
<1> QED
  BY <1>1, <1>2 DEF ConstructedIsUsable

LEMMA WellMadeInit == ContainersInit => WellMade
<1> SUFFICES ASSUME ContainersInit PROVE WellMade
  OBVIOUS
<1>1. \A o \in Objects : existence[o] = "none" /\ array[o] = Empty
  BY DEF ContainersInit
<1>2. Empty.buffer = NULL /\ Empty.base = NULL /\ Empty.constructed = FALSE
  BY DEF Empty
<1>3. \A o \in Objects : Sound(o)
  BY <1>1, <1>2 DEF ContainersInit, Sound
<1>4. \A d \in Buffers : SoundPair(d)
  BY <1>1, ObjectsAreApart DEF SoundPair
<1> QED
  BY <1>3, <1>4 DEF ContainersInit, WellMade, Sides

-----------------------------------------------------------------------------
(* An object after an operation on it                                       *)

LEMMA SoundIfEmpty ==
  ASSUME NEW o, array'[o] = Empty, o \in failed' => existence'[o] # "none"
  PROVE  Sound(o)'
BY DEF Sound, Empty

LEMMA SoundIfOwning ==
  ASSUME NEW o, NEW b, NEW dims, NEW place, array'[o] = Owning(b, dims, place),
         b \in heap', o \notin failed', existence'[o] = "alive"
  PROVE  Sound(o)'
BY DEF Sound, Owning

LEMMA SoundIfReference ==
  ASSUME NEW o, NEW source \in Objects, Owned, Sound(source), InUse(source),
         array'[o] = ReferenceTo(array[source]),
         heap' = heap, o \notin failed', existence'[o] = "alive"
  PROVE  Sound(o)'
<1>1. array[source] \in Arrays
  BY DEF Owned, Typed
<1>2. /\ array'[o].constructed /\ array'[o].buffer = NULL
      /\ array'[o].base = array[source].base
      /\ array'[o].extents = array[source].extents
      /\ array'[o].dims = array[source].dims /\ array'[o].place = array[source].place
  BY <1>1 DEF ReferenceTo, Arrays, InUse
<1>3. array[source].base \in heap
        /\ array[source].extents = Extents(array[source].dims, array[source].place)
  BY DEF InUse, Usable, Sound
<1> QED
  BY <1>2, <1>3 DEF Sound

(* The others, as long as they keep their memory.                           *)
LEMMA OthersStaySound ==
  ASSUME NEW q, Sound(q), array'[q] = array[q], existence'[q] = existence[q],
         q \in failed' <=> q \in failed,
         array[q].base \in heap => array[q].base \in heap'
  PROVE  Sound(q)'
BY DEF Sound

LEMMA PairsStaySound ==
  ASSUME NEW d, SoundPair(d), built'[d] = built[d],
         existence'[<<d, "B">>] = "alive" => existence[<<d, "B">>] = "alive",
         existence[<<d, "B">>] = "alive" =>
           array'[<<d, "A">>] = array[<<d, "A">>] /\ array'[<<d, "B">>] = array[<<d, "B">>]
  PROVE  SoundPair(d)'
BY DEF SoundPair

(* An operation on an image.                                                *)
LEMMA PlainIsWellMade ==
  ASSUME WellMade, NEW o \in Plain, UNCHANGED <<built, loadingSide>>, Sound(o)',
         \A q \in Objects \ {o} :
           /\ array'[q] = array[q] /\ existence'[q] = existence[q]
           /\ q \in failed' <=> q \in failed
           /\ array[q].base \in heap => array[q].base \in heap'
  PROVE  WellMade'
<1>1. \A q \in Objects : Sound(q)'
  <2> SUFFICES ASSUME NEW q \in Objects, q # o PROVE Sound(q)'
    OBVIOUS
  <2> QED
    BY OthersStaySound DEF WellMade
<1>2. ASSUME NEW d \in Buffers PROVE SoundPair(d)'
  <2>1. <<d, "A">> \in Objects \ {o} /\ <<d, "B">> \in Objects \ {o}
    BY ObjectsAreApart DEF Sides
  <2> QED
    BY <2>1, PairsStaySound DEF WellMade
<1> QED
  BY <1>1, <1>2 DEF WellMade

(* An allocation, which touches no other object.                            *)
LEMMA AllocatesMakesSound ==
  ASSUME Owned, NEW o \in Objects, NEW dims, NEW place, Allocates(o, dims, place),
         o \notin failed', existence'[o] = "alive"
  PROVE  /\ Sound(o)' /\ heap \subseteq heap'
         /\ \A q \in Objects \ {o} : array'[q] = array[q]
         /\ array'[o].buffer # NULL
         /\ array'[o].dims = dims /\ array'[o].place = place
<1>1. PICK b \in Blocks \ heap :
        heap' = heap \cup {b} /\ array' = [array EXCEPT ![o] = Owning(b, dims, place)]
  BY DEF Allocates
<1>2. array'[o] = Owning(b, dims, place)
        /\ \A q \in Objects \ {o} : array'[q] = array[q]
  BY <1>1 DEF Owned, Typed
<1>3. b # NULL
  BY ContainersAssumption
<1>4. Owning(b, dims, place).buffer = b /\ Owning(b, dims, place).dims = dims
        /\ Owning(b, dims, place).place = place
  BY DEF Owning
<1> QED
  BY <1>1, <1>2, <1>3, <1>4, SoundIfOwning

LEMMA CannotAllocateMakesSound ==
  ASSUME Owned, NEW o \in Objects, Sound(o), NEW dims, CannotAllocate(o, dims),
         existence'[o] = "alive"
  PROVE  /\ Sound(o)' /\ heap' = heap /\ failed' = failed \cup {o}
         /\ \A q \in Objects \ {o} : array'[q] = array[q]
         /\ array'[o].buffer = array[o].buffer
<1> DEFINE a == [array[o] EXCEPT !.constructed = TRUE, !.dims = dims]
<1>1. array[o] \in Arrays
  BY DEF Owned, Typed
<1>2. array' = [array EXCEPT ![o] = a]
  BY <1>1 DEF CannotAllocate, Arrays, Owned, Typed
<1>3. a.constructed = TRUE /\ a.buffer = array[o].buffer /\ a.base = array[o].base
  BY <1>1 DEF Arrays
<1> HIDE DEF a
<1>4. array'[o] = a /\ \A q \in Objects \ {o} : array'[q] = array[q]
  BY <1>2 DEF Owned, Typed
<1>5. array[o].base = NULL /\ heap' = heap /\ failed' = failed \cup {o}
  BY DEF CannotAllocate, Sound
<1>6. Sound(o)'
  BY <1>3, <1>4, <1>5 DEF Sound
<1> QED
  BY <1>3, <1>4, <1>5, <1>6

-----------------------------------------------------------------------------
(* The operations                                                           *)

LEMMA CreatesWellMade ==
  ASSUME Owned, WellMade, NEW o \in Plain,
         \/ Create(o)
         \/ \E dims \in Dims, place \in Places : CreateConstructed(o, dims, place)
         \/ \E source \in Objects : CreateReference(o, source)
  PROVE  WellMade'
<1>1. o \in Objects
  BY ObjectsAreApart
<1>2. /\ existence[o] = "none" /\ existence' = [existence EXCEPT ![o] = "alive"]
      /\ UNCHANGED <<failed, built, loadingSide>>
  BY DEF Create, CreateConstructed, CreateReference
<1>3. existence'[o] = "alive" /\ \A q \in Objects \ {o} : existence'[q] = existence[q]
  BY <1>1, <1>2 DEF Owned, Typed
<1>4. o \notin failed'
  BY <1>1, <1>2 DEF WellMade, Sound
<1>5. CASE Create(o)
  <2>1. heap' = heap /\ array'[o] = Empty /\ \A q \in Objects \ {o} : array'[q] = array[q]
    BY <1>1, <1>5 DEF Create, Owned, Typed
  <2>2. Sound(o)'
    BY <1>4, <2>1, SoundIfEmpty
  <2> QED
    BY <1>2, <1>3, <2>1, <2>2, PlainIsWellMade
<1>6. ASSUME NEW dims \in Dims, NEW place \in Places, CreateConstructed(o, dims, place)
      PROVE  WellMade'
  <2>1. /\ Sound(o)' /\ heap \subseteq heap'
        /\ \A q \in Objects \ {o} : array'[q] = array[q]
    BY <1>1, <1>3, <1>4, <1>6, AllocatesMakesSound DEF CreateConstructed
  <2> QED
    BY <1>2, <1>3, <2>1, PlainIsWellMade
<1>7. ASSUME NEW source \in Objects, CreateReference(o, source)
      PROVE  WellMade'
  <2>1. /\ heap' = heap /\ array'[o] = ReferenceTo(array[source])
        /\ \A q \in Objects \ {o} : array'[q] = array[q]
    BY <1>1, <1>7 DEF CreateReference, Owned, Typed
  <2>2. Sound(o)'
    BY <1>3, <1>4, <1>7, <2>1, SoundIfReference DEF CreateReference, WellMade
  <2> QED
    BY <1>2, <1>3, <2>1, <2>2, PlainIsWellMade
<1> QED
  BY <1>5, <1>6, <1>7

LEMMA ConstructsWellMade ==
  ASSUME Owned, WellMade, NEW o \in Objects,
         \/ \E dims \in Dims, place \in Places : Construct(o, dims, place)
         \/ \E source \in Objects : ConstructReference(o, source)
  PROVE  WellMade'
<1>1. o \in Plain /\ Usable(o) /\ UNCHANGED <<existence, built, loadingSide>>
  BY DEF Construct, ConstructReference
<1>2. existence'[o] = "alive" /\ o \notin failed
  BY <1>1 DEF Usable
<1>3. ASSUME NEW dims, NEW place, Construct(o, dims, place)
      PROVE  WellMade'
  <2>1. CASE Allocates(o, dims, place) /\ UNCHANGED failed
    <3>1. /\ Sound(o)' /\ heap \subseteq heap'
          /\ \A q \in Objects \ {o} : array'[q] = array[q]
      BY <1>2, <2>1, AllocatesMakesSound
    <3> QED
      BY <1>1, <2>1, <3>1, PlainIsWellMade
  <2>2. CASE CannotAllocate(o, dims)
    <3>1. /\ Sound(o)' /\ heap' = heap /\ failed' = failed \cup {o}
          /\ \A q \in Objects \ {o} : array'[q] = array[q]
      BY <1>2, <2>2, CannotAllocateMakesSound DEF WellMade
    <3> QED
      BY <1>1, <3>1, PlainIsWellMade
  <2> QED
    BY <1>3, <2>1, <2>2 DEF Construct
<1>4. ASSUME NEW source \in Objects, ConstructReference(o, source)
      PROVE  WellMade'
  <2>1. /\ heap' = heap /\ failed' = failed /\ array'[o] = ReferenceTo(array[source])
        /\ \A q \in Objects \ {o} : array'[q] = array[q]
    BY <1>4 DEF ConstructReference, Owned, Typed
  <2>2. Sound(o)'
    BY <1>2, <1>4, <2>1, SoundIfReference DEF ConstructReference, WellMade
  <2> QED
    BY <1>1, <2>1, <2>2, PlainIsWellMade
<1> QED
  BY <1>3, <1>4

LEMMA CopyWellMade ==
  ASSUME Owned, WellMade, NEW o \in Objects, NEW source \in Objects, Copy(o, source)
  PROVE  WellMade'
<1> DEFINE from == array[source]
           a    == [array[o] EXCEPT !.place = from.place,
                                    !.extents = Extents(array[o].dims, from.place)]
<1>1. o \in Plain /\ Usable(o) /\ UNCHANGED <<existence, built, loadingSide>>
  BY DEF Copy
<1>2. existence'[o] = "alive" /\ o \notin failed
  BY <1>1 DEF Usable
<1>3. CASE ~array[o].constructed
  <2> HIDE DEF from
  <2>1. CASE Allocates(o, from.dims, from.place) /\ UNCHANGED failed
    <3>1. /\ Sound(o)' /\ heap \subseteq heap'
          /\ \A q \in Objects \ {o} : array'[q] = array[q]
      BY <1>2, <2>1, AllocatesMakesSound
    <3> QED
      BY <1>1, <2>1, <3>1, PlainIsWellMade
  <2>2. CASE CannotAllocate(o, from.dims)
    <3>1. /\ Sound(o)' /\ heap' = heap /\ failed' = failed \cup {o}
          /\ \A q \in Objects \ {o} : array'[q] = array[q]
      BY <1>2, <2>2, CannotAllocateMakesSound DEF WellMade
    <3> QED
      BY <1>1, <3>1, PlainIsWellMade
  <2>3. \/ Allocates(o, from.dims, from.place) /\ UNCHANGED failed
        \/ CannotAllocate(o, from.dims)
    BY <1>3 DEF Copy, Allocates, from
  <2> QED
    BY <2>1, <2>2, <2>3
<1>4. CASE array[o].constructed
  <2>1. array[o] \in Arrays
    BY DEF Owned, Typed
  <2>2. TakesPlace(o, source) /\ heap' = heap /\ failed' = failed
    BY <1>4 DEF Copy
  <2>3. array' = [array EXCEPT ![o] = a]
    BY <2>1, <2>2 DEF TakesPlace, Arrays, Owned, Typed
  <2>4. /\ a.constructed = array[o].constructed /\ a.buffer = array[o].buffer
        /\ a.base = array[o].base /\ a.dims = array[o].dims
        /\ a.extents = Extents(a.dims, a.place)
    BY <2>1 DEF Arrays
  <2> HIDE DEF a
  <2>5. array'[o] = a /\ \A q \in Objects \ {o} : array'[q] = array[q]
    BY <2>3 DEF Owned, Typed
  <2>6. Sound(o)
    BY DEF WellMade
  <2>7. Sound(o)'
    BY <1>1, <2>2, <2>4, <2>5, <2>6 DEF Sound
  <2> QED
    BY <1>1, <2>2, <2>5, <2>7, PlainIsWellMade
<1> QED
  BY <1>3, <1>4

(* An operation on one side of a double buffer.                             *)
LEMMA SideIsWellMade ==
  ASSUME WellMade, NEW d \in Buffers, NEW s \in Sides,
         UNCHANGED <<existence, loadingSide>>, Sound(<<d, s>>)', SoundPair(d)',
         heap \subseteq heap',
         \A q \in Objects \ {<<d, s>>} :
           array'[q] = array[q] /\ (q \in failed' <=> q \in failed),
         NEW how \in {"no", "half", "yes"}, built' = [built EXCEPT ![d] = how]
  PROVE  WellMade'
<1>1. \A q \in Objects : Sound(q)'
  <2> SUFFICES ASSUME NEW q \in Objects, q # <<d, s>> PROVE Sound(q)'
    OBVIOUS
  <2> QED
    BY OthersStaySound DEF WellMade
<1>2. ASSUME NEW e \in Buffers PROVE SoundPair(e)'
  <2>1. CASE e = d
    BY <2>1
  <2>2. CASE e # d
    <3>1. <<e, "A">> \in Objects \ {<<d, s>>} /\ <<e, "B">> \in Objects \ {<<d, s>>}
      BY <2>2, ObjectsAreApart
    <3>2. SoundPair(e) /\ built'[e] = built[e]
      BY <2>2 DEF WellMade
    <3> QED
      BY <3>1, <3>2, PairsStaySound
  <2> QED
    BY <2>1, <2>2
<1>3. built' \in [Buffers -> {"no", "half", "yes"}]
  BY DEF WellMade
<1> QED
  BY <1>1, <1>2, <1>3 DEF WellMade

LEMMA SidesWellMade ==
  ASSUME Owned, WellMade, NEW d \in Buffers,
         \/ \E dims \in Dims, place \in Places : ConstructA(d, dims, place)
         \/ ConstructB(d)
  PROVE  WellMade'
<1> DEFINE A == <<d, "A">>
           B == <<d, "B">>
<1>1. A \in Objects /\ B \in Objects /\ A # B /\ "A" \in Sides /\ "B" \in Sides
  BY ObjectsAreApart DEF Sides
<1>2. UNCHANGED <<existence, loadingSide>>
  BY DEF ConstructA, ConstructB
<1>3. built[d] \in {"no", "half", "yes"} /\ built \in [Buffers -> {"no", "half", "yes"}]
  BY DEF WellMade
<1> HIDE DEF A, B
<1>4. ASSUME NEW dims, NEW place, ConstructA(d, dims, place)
      PROVE  WellMade'
  <2>1. existence'[A] = "alive" /\ A \notin failed /\ built[d] = "no"
    BY <1>2, <1>4 DEF ConstructA, Usable, A
  <2>2. CASE /\ Allocates(A, dims, place) /\ UNCHANGED failed
             /\ built' = [built EXCEPT ![d] = "half"]
    <3>1. /\ Sound(A)' /\ heap \subseteq heap'
          /\ \A q \in Objects \ {A} : array'[q] = array[q]
          /\ array'[A].buffer # NULL
      BY <1>1, <2>1, <2>2, AllocatesMakesSound
    <3>2. built'[d] = "half"
      BY <1>3, <2>2
    <3>3. SoundPair(d)'
      BY <3>1, <3>2 DEF SoundPair, A
    <3> QED
      BY <1>1, <1>2, <2>2, <3>1, <3>3, SideIsWellMade DEF A
  <2>3. CASE CannotAllocate(A, dims) /\ UNCHANGED built
    <3>1. /\ Sound(A)' /\ heap' = heap /\ failed' = failed \cup {A}
          /\ \A q \in Objects \ {A} : array'[q] = array[q]
      BY <1>1, <2>1, <2>3, CannotAllocateMakesSound DEF WellMade
    <3>2. SoundPair(d)'
      BY <2>1, <2>3 DEF SoundPair
    <3>3. built' = [built EXCEPT ![d] = "no"]
      BY <1>3, <2>1, <2>3
    <3> QED
      BY <1>1, <1>2, <3>1, <3>2, <3>3, SideIsWellMade DEF A
  <2> QED
    BY <1>4, <2>2, <2>3 DEF ConstructA, A
<1>5. CASE ConstructB(d)
  <2> DEFINE a == array[A]
  <2>1. existence'[B] = "alive" /\ B \notin failed /\ built[d] = "half"
    BY <1>2, <1>5 DEF ConstructB, Usable, B
  <2>2. a.buffer # NULL
    BY <1>2, <2>1 DEF WellMade, SoundPair, A, B
  <2> HIDE DEF a
  <2>3. CASE /\ Allocates(B, a.dims, a.place) /\ UNCHANGED failed
             /\ built' = [built EXCEPT ![d] = "yes"]
    <3>1. /\ Sound(B)' /\ heap \subseteq heap'
          /\ \A q \in Objects \ {B} : array'[q] = array[q]
          /\ array'[B].buffer # NULL
          /\ array'[B].dims = a.dims /\ array'[B].place = a.place
      BY <1>1, <2>1, <2>3, AllocatesMakesSound
    <3>2. array'[A] = a
      BY <1>1, <3>1 DEF a
    <3>3. SoundPair(d)'
      BY <2>2, <3>1, <3>2 DEF SoundPair, A, B
    <3> QED
      BY <1>1, <1>2, <2>3, <3>1, <3>3, SideIsWellMade DEF B
  <2>4. CASE CannotAllocate(B, a.dims) /\ UNCHANGED built
    <3>1. /\ Sound(B)' /\ heap' = heap /\ failed' = failed \cup {B}
          /\ \A q \in Objects \ {B} : array'[q] = array[q]
      BY <1>1, <2>1, <2>4, CannotAllocateMakesSound DEF WellMade
    <3>2. array'[A] = a
      BY <1>1, <3>1 DEF a
    <3>3. SoundPair(d)'
      BY <2>1, <2>2, <2>4, <3>2 DEF SoundPair, A, B
    <3>4. built' = [built EXCEPT ![d] = "half"]
      BY <1>3, <2>1, <2>4
    <3> QED
      BY <1>1, <1>2, <3>1, <3>3, <3>4, SideIsWellMade DEF B
  <2> QED
    BY <1>5, <2>3, <2>4 DEF ConstructB, A, B, a
<1> QED
  BY <1>4, <1>5

(* A group's new member, and one that is taken apart, have two empty sides. *)
LEMMA EmptyPairIsWellMade ==
  ASSUME Owned, WellMade, NEW d \in Buffers,
         built' = [built EXCEPT ![d] = "no"],
         loadingSide' \in [Buffers -> Sides],
         array' = [o \in Objects |-> IF o \in {d} \X Sides THEN Empty ELSE array[o]],
         \A s \in Sides : <<d, s>> \notin failed',
         \A q \in Objects \ ({d} \X Sides) :
           /\ existence'[q] = existence[q]
           /\ q \in failed' <=> q \in failed
           /\ array[q].base \in heap => array[q].base \in heap'
  PROVE  WellMade'
<1> DEFINE S == {d} \X Sides
<1>1. \A q \in Objects \ S : array'[q] = array[q]
  OBVIOUS
<1>2. \A q \in Objects : q \in S => array'[q] = Empty /\ q \notin failed'
  OBVIOUS
<1>3. \A e \in Buffers : e # d => <<e, "A">> \notin S /\ <<e, "B">> \notin S
  OBVIOUS
<1> HIDE DEF S
<1>4. ASSUME NEW q \in Objects PROVE Sound(q)'
  <2>1. CASE q \in S
    BY <1>2, <2>1, SoundIfEmpty
  <2>2. CASE q \notin S
    BY <1>1, <2>2, OthersStaySound DEF WellMade, S
  <2> QED
    BY <2>1, <2>2
<1>5. ASSUME NEW e \in Buffers PROVE SoundPair(e)'
  <2>1. CASE e = d
    BY <2>1 DEF SoundPair, WellMade
  <2>2. CASE e # d
    <3>1. <<e, "A">> \in Objects \ S /\ <<e, "B">> \in Objects \ S
      BY <1>3, <2>2, ObjectsAreApart
    <3>2. SoundPair(e) /\ built'[e] = built[e]
      BY <2>2 DEF WellMade
    <3> QED
      BY <1>1, <3>1, <3>2, PairsStaySound DEF S
  <2> QED
    BY <2>1, <2>2
<1>6. built' \in [Buffers -> {"no", "half", "yes"}]
  BY DEF WellMade
<1> QED
  BY <1>4, <1>5, <1>6 DEF WellMade

(* Nothing that somebody refers to is destructed, so that whoever uses      *)
(* memory keeps it.                                                         *)
LEMMA UsersKeepMemory ==
  ASSUME Owned, WellMade, NEW o \in Objects, NotReferredTo(o),
         NEW q \in Objects, q # o, array[q].base \in heap
  PROVE  array[q].base # array[o].buffer
<1>1. array[q].base # NULL
  BY ContainersAssumption DEF Owned
<1>2. existence[q] # "none"
  BY <1>1 DEF WellMade, Sound
<1> QED
  BY <1>1, <1>2 DEF NotReferredTo, Refers

LEMMA GroupsWellMade ==
  ASSUME Owned, WellMade, NEW d \in Buffers, AddToGroup(d) \/ DestructSides(d)
  PROVE  WellMade'
<1> DEFINE A == <<d, "A">>
           B == <<d, "B">>
<1>1. A \in Objects /\ B \in Objects /\ Sides = {"A", "B"}
  BY ObjectsAreApart DEF Sides
<1>2. CASE AddToGroup(d)
  <2>1. existence[A] = "none" /\ existence[B] = "none"
    BY <1>2 DEF AddToGroup, Owned, SidesLiveTogether
  <2>2. failed' = failed /\ A \notin failed /\ B \notin failed /\ heap' = heap
    BY <1>1, <1>2, <2>1 DEF AddToGroup, WellMade, Sound
  <2>3. \A s \in Sides : <<d, s>> \notin failed'
    BY <1>1, <2>2
  <2>4. loadingSide' \in [Buffers -> Sides]
    BY <1>2 DEF AddToGroup, WellMade, Sides
  <2>5. \A q \in Objects \ ({d} \X Sides) : existence'[q] = existence[q]
    BY <1>2 DEF AddToGroup
  <2>6. /\ built' = [built EXCEPT ![d] = "no"]
        /\ array' = [o \in Objects |-> IF o \in {d} \X Sides THEN Empty ELSE array[o]]
    BY <1>2 DEF AddToGroup
  <2> QED
    BY <2>2, <2>3, <2>4, <2>5, <2>6, EmptyPairIsWellMade
<1>3. CASE DestructSides(d)
  <2>1. \A s \in Sides : <<d, s>> \notin failed'
    BY <1>3 DEF DestructSides
  <2>2. \A q \in Objects \ ({d} \X Sides) :
          existence'[q] = existence[q] /\ (q \in failed' <=> q \in failed)
    BY <1>3 DEF DestructSides
  <2>3. ASSUME NEW q \in Objects \ ({d} \X Sides), array[q].base \in heap
        PROVE  array[q].base \in heap'
    <3>1. NotReferredTo(A) /\ NotReferredTo(B)
      BY <1>1, <1>3 DEF DestructSides
    <3>2. q # A /\ q # B
      BY <1>1
    <3>3. array[q].base # array[A].buffer /\ array[q].base # array[B].buffer
      BY <1>1, <2>3, <3>1, <3>2, UsersKeepMemory
    <3>4. \A s \in Sides : array[q].base # array[<<d, s>>].buffer
      BY <1>1, <3>3
    <3> QED
      BY <1>3, <2>3, <3>4 DEF DestructSides
  <2>4. /\ built' = [built EXCEPT ![d] = "no"] /\ loadingSide' = loadingSide
        /\ array' = [o \in Objects |-> IF o \in {d} \X Sides THEN Empty ELSE array[o]]
    BY <1>3 DEF DestructSides
  <2> QED
    BY <2>1, <2>2, <2>3, <2>4, EmptyPairIsWellMade DEF WellMade
<1> QED
  BY <1>2, <1>3

(* The destructors. A double buffer of which a side dies is one no longer.  *)
LEMMA DestroysWellMade ==
  ASSUME Owned, WellMade, NEW o \in Objects,
         CallDestruct(o) \/ Delete(o) \/ DeleteBase(o)
  PROVE  WellMade'
<1>1. /\ array'[o] = Empty /\ \A q \in Objects \ {o} : array'[q] = array[q]
      /\ UNCHANGED <<built, loadingSide>>
  BY DEF CallDestruct, Delete, DeleteBase, Destruct, Owned, Typed
<1>2. \A q \in Objects \ {o} : array[q].base \in heap => array[q].base \in heap'
  <2> SUFFICES ASSUME NEW q \in Objects \ {o}, array[q].base \in heap
               PROVE  array[q].base \in heap'
    OBVIOUS
  <2>1. CASE CallDestruct(o) \/ Delete(o)
    <3>1. NotReferredTo(o) /\ Destruct(o)
      BY <2>1 DEF CallDestruct, Delete, MayDie
    <3>2. array[q].base # array[o].buffer
      BY <3>1, UsersKeepMemory
    <3> QED
      BY <3>1, <3>2 DEF Destruct
  <2>2. CASE DeleteBase(o)
    <3>1. array[o].buffer = NULL
      BY <2>2 DEF DeleteBase, Owned, OwnersLive
    <3> QED
      BY <2>2, <3>1 DEF DeleteBase, Destruct
  <2> QED
    BY <2>1, <2>2
<1>3. CASE CallDestruct(o)
  <2>1. /\ existence' = existence /\ o \in Plain /\ o \notin failed'
        /\ \A q \in Objects \ {o} : q \in failed' <=> q \in failed
    BY <1>3 DEF CallDestruct
  <2>2. Sound(o)'
    BY <1>1, <2>1, SoundIfEmpty
  <2> QED
    BY <1>1, <1>2, <2>1, <2>2, PlainIsWellMade
<1>4. CASE Delete(o) \/ DeleteBase(o)
  <2>1. /\ \/ existence'[o] = "dying"
           \/ existence'[o] = "none" /\ o \notin failed'
        /\ \A q \in Objects \ {o} :
             existence'[q] = existence[q] /\ (q \in failed' <=> q \in failed)
    BY <1>4 DEF Delete, DeleteBase, Owned, Typed
  <2>2. Sound(o)'
    BY <1>1, <2>1, SoundIfEmpty
  <2>3. \A q \in Objects : Sound(q)'
    <3> SUFFICES ASSUME NEW q \in Objects, q # o PROVE Sound(q)'
      BY <2>2
    <3> QED
      BY <1>1, <1>2, <2>1, OthersStaySound DEF WellMade
  <2>4. ASSUME NEW d \in Buffers PROVE SoundPair(d)'
    <3> DEFINE A == <<d, "A">>
               B == <<d, "B">>
    <3>1. A \in Objects /\ B \in Objects /\ A # B
      BY ObjectsAreApart
    <3>2. SoundPair(d)
      BY DEF WellMade
    <3>3. CASE o = B
      BY <2>1, <3>3 DEF SoundPair
    <3>4. CASE o = A
      <4>1. existence[B] = "none"
        <5>1. CASE Delete(o)
          BY <3>4, <5>1 DEF Delete, MayDie, Members, Sides
        <5>2. CASE DeleteBase(o)
          BY <3>4, <5>2 DEF DeleteBase, Owned, SidesLiveTogether
        <5> QED
          BY <1>4, <5>1, <5>2
      <4>2. existence'[B] = "none"
        BY <2>1, <3>1, <3>4, <4>1
      <4> QED
        BY <4>2 DEF SoundPair
    <3>5. CASE o # A /\ o # B
      BY <1>1, <2>1, <3>1, <3>2, <3>5, PairsStaySound
    <3> QED
      BY <3>3, <3>4, <3>5
  <2> QED
    BY <1>1, <2>3, <2>4 DEF WellMade
<1> QED
  BY <1>3, <1>4

-----------------------------------------------------------------------------

LEMMA WellMadeStep ==
  ASSUME Owned, WellMade, [ContainersNext]_containersVars
  PROVE  WellMade'
<1>1. ASSUME UNCHANGED <<existence, array, failed, heap, built>>,
             loadingSide' \in [Buffers -> Sides]
      PROVE  WellMade'
  BY <1>1 DEF WellMade, Sound, SoundPair
<1>2. CASE UNCHANGED containersVars
  BY <1>1, <1>2 DEF containersVars, WellMade
<1>3. ASSUME NEW o \in Objects,
             \/ Create(o) \/ CallDestruct(o) \/ Delete(o) \/ DeleteBase(o)
             \/ \E n \in Dims, place \in Places :
                  Construct(o, n, place) \/ CreateConstructed(o, n, place)
             \/ \E s \in Objects :
                  ConstructReference(o, s) \/ CreateReference(o, s) \/ Copy(o, s)
      PROVE  WellMade'
  <2>1. CASE CallDestruct(o) \/ Delete(o) \/ DeleteBase(o)
    BY <2>1, DestroysWellMade
  <2>2. CASE \/ \E n \in Dims, place \in Places : Construct(o, n, place)
             \/ \E s \in Objects : ConstructReference(o, s)
    BY <2>2, ConstructsWellMade
  <2>3. CASE \/ Create(o)
             \/ \E n \in Dims, place \in Places : CreateConstructed(o, n, place)
             \/ \E s \in Objects : CreateReference(o, s)
    <3>1. o \in Plain
      BY <2>3 DEF Create, CreateConstructed, CreateReference
    <3> QED
      BY <2>3, <3>1, CreatesWellMade
  <2>4. CASE \E s \in Objects : Copy(o, s)
    BY <2>4, CopyWellMade
  <2> QED
    BY <1>3, <2>1, <2>2, <2>3, <2>4
<1>4. ASSUME NEW d \in Buffers,
             \/ AddToGroup(d) \/ ConstructB(d) \/ SwapSides(d) \/ DestructSides(d)
             \/ \E n \in Dims, place \in Places : ConstructA(d, n, place)
      PROVE  WellMade'
  <2>1. CASE ConstructB(d) \/ \E n \in Dims, place \in Places : ConstructA(d, n, place)
    BY <2>1, SidesWellMade
  <2>2. CASE AddToGroup(d) \/ DestructSides(d)
    BY <2>2, GroupsWellMade
  <2>3. CASE SwapSides(d)
    <3>1. loadingSide' \in [Buffers -> Sides]
      BY <2>3 DEF SwapSides, WellMade, OtherSide, Sides
    <3> QED
      BY <1>1, <2>3, <3>1 DEF SwapSides
  <2> QED
    BY <1>4, <2>1, <2>2, <2>3
<1> QED
  BY <1>2, <1>3, <1>4 DEF ContainersNext

(* Image.hpp and DoubleBuffer.hpp: what says it is constructed has memory   *)
(* that nobody has freed, a reference too, and lies where its place says;   *)
(* the sides of a double buffer are alike and apart. Only an array whose    *)
(* own allocation threw says so and has none.                               *)
THEOREM WhatIsMadeIsUsable == ContainersSpec => []ConstructedIsUsable
<1>1. Owned /\ WellMade /\ [ContainersNext]_containersVars => (Owned /\ WellMade)'
  BY OwnedStep, WellMadeStep
<1>2. ContainersInit => Owned /\ WellMade
  BY OwnedInit, WellMadeInit
<1>3. ContainersSpec => [](Owned /\ WellMade)
  BY <1>1, <1>2, PTL DEF ContainersSpec
<1> QED
  BY <1>3, WellMadeIsEnough, PTL

-----------------------------------------------------------------------------
(* Back-projection stays within the projection                              *)

Axes == [n : Nat \ {0}, origin : Int, spacing : Nat \ {0}]

AnyAngle == [sin : Int, cos : Int, unit : Nat \ {0}]

LEMMA PositionIsInt ==
  ASSUME NEW axis \in Axes, NEW i \in Int
  PROVE  Position(axis, i) \in Int
BY DEF Axes, Position

LEMMA Division ==
  ASSUME NEW d \in Nat, d > 0, NEW x \in Int
  PROVE  \E q \in Int, r \in 0..d-1 : x = d * q + r /\ x \div d = q /\ x % d = r
<1>1. x \div d \in Int /\ x % d \in 0..d-1
  OBVIOUS
<1>2. x % d = x - d * (x \div d)
  OBVIOUS
<1>3. \A q \in Int, r \in 0..d-1 : r = x - d * q => x = d * q + r
  OBVIOUS
<1> QED
  BY <1>1, <1>2, <1>3

(* s is the spacing; the differences from the origin are x, and i * s for   *)
(* the pixel.                                                               *)
LEMMA NearestIsNear ==
  ASSUME NEW n \in Nat \ {0}, NEW s \in Nat \ {0}, NEW x \in Int,
         -(s \div 2) < x, x < (n - 1) * s + s \div 2
  PROVE  LET i == (2 * x + s) \div (2 * s)
         IN  /\ i \in 0..n-1
             /\ 2 * (i * s - x) <= s /\ 2 * (x - i * s) <= s
<1>1. 2 * s \in Nat /\ 2 * s > 0 /\ 2 * x + s \in Int
  OBVIOUS
<1>2. PICK i \in Int, r \in 0..2 * s - 1 :
        2 * x + s = 2 * s * i + r /\ (2 * x + s) \div (2 * s) = i
  BY <1>1, Division
<1>3. PICK off \in Int : off = i * s
  OBVIOUS
<1>4. 2 * x + s = 2 * off + r
  BY <1>2, <1>3
<1>5. 2 * (off - x) <= s /\ 2 * (x - off) <= s
  BY <1>4
<1>6. 2 * x + s > 0
  OBVIOUS
<1>7. off > -s
  BY <1>4, <1>6
<1>8. i > -1
  BY <1>3, <1>7
<1>9. PICK m \in Int : m = (n - 1) * s
  OBVIOUS
<1>10. x < m + s \div 2
  BY <1>9
<1>11. off < m + s
  BY <1>4, <1>10
<1>12. i * s < n * s
  BY <1>3, <1>9, <1>11
<1>13. i < n
  BY <1>12
<1> QED
  BY <1>2, <1>3, <1>5, <1>8, <1>13

LEMMA LinearIsWithin ==
  ASSUME NEW n \in Nat \ {0}, NEW s \in Nat \ {0}, NEW x \in Int,
         0 < x, x < (n - 1) * s
  PROVE  LET i == x \div s
             r == x % s
         IN  /\ i \in 0..n-1 /\ i + 1 \in 0..n-1 /\ r \in 0..s-1
             /\ x = i * s + r
<1>1. PICK i \in Int, r \in 0..s-1 : x = s * i + r /\ x \div s = i /\ x % s = r
  BY Division
<1>2. PICK off \in Int : off = i * s
  OBVIOUS
<1>3. x = off + r
  BY <1>1, <1>2
<1>4. off > -s
  BY <1>3
<1>5. i > -1
  BY <1>2, <1>4
<1>6. i * s < (n - 1) * s
  BY <1>2, <1>3
<1>7. i < n - 1
  BY <1>6
<1> QED
  BY <1>1, <1>2, <1>3, <1>5, <1>7

LEMMA NearestOnAxis ==
  ASSUME NEW axis \in Axes, NEW u \in Int, ~Beyond(u, Exterior(axis)),
         NEW i \in DOMAIN Nearest(axis, u)
  PROVE  /\ i \in Pixels(axis) /\ Nearest(axis, u)[i] \in Nat
         /\ 2 * Abs(Position(axis, i) - u) <= axis.spacing
<1>1. PICK n \in Nat \ {0}, o \in Int, s \in Nat \ {0} :
        axis.n = n /\ axis.origin = o /\ axis.spacing = s
  BY DEF Axes
<1>2. PICK x \in Int : x = u - o
  OBVIOUS
<1>3. PICK m \in Int : m = (n - 1) * s
  OBVIOUS
<1>4. Exterior(axis) = <<o - s \div 2, o + m + s \div 2>>
  BY <1>1, <1>3 DEF Exterior, Position
<1>5. ~(u <= o - s \div 2) /\ ~(u >= o + m + s \div 2)
  BY <1>4 DEF Beyond
<1>6. -(s \div 2) < x /\ x < m + s \div 2
  BY <1>2, <1>5
<1>7. -(s \div 2) < x /\ x < (n - 1) * s + s \div 2
  BY <1>3, <1>6
<1>8. /\ (2 * x + s) \div (2 * s) \in 0..n-1
      /\ 2 * (((2 * x + s) \div (2 * s)) * s - x) <= s
      /\ 2 * (x - ((2 * x + s) \div (2 * s)) * s) <= s
  BY <1>7, NearestIsNear
<1>9. i = (2 * x + s) \div (2 * s) /\ Nearest(axis, u)[i] = s
  BY <1>1, <1>2 DEF Nearest
<1>10. PICK off \in Int : off = i * s
  BY <1>8, <1>9
<1>11. 2 * (off - x) <= s /\ 2 * (x - off) <= s
  BY <1>8, <1>9, <1>10
<1>12. Position(axis, i) = o + off
  BY <1>1, <1>10 DEF Position
<1>13. 2 * Abs(o + off - u) <= s
  BY <1>2, <1>11 DEF Abs
<1> QED
  BY <1>1, <1>8, <1>9, <1>12, <1>13 DEF Pixels

LEMMA LinearOnAxis ==
  ASSUME NEW axis \in Axes, NEW u \in Int, ~Beyond(u, Interior(axis)),
         NEW i \in DOMAIN Linear(axis, u)
  PROVE  /\ i \in Pixels(axis) /\ Linear(axis, u)[i] \in Nat
         /\ Linear(axis, u)[i] > 0 => Abs(Position(axis, i) - u) < axis.spacing
<1>1. PICK n \in Nat \ {0}, o \in Int, s \in Nat \ {0} :
        axis.n = n /\ axis.origin = o /\ axis.spacing = s
  BY DEF Axes
<1>2. PICK x \in Int : x = u - o
  OBVIOUS
<1>3. PICK m \in Int : m = (n - 1) * s
  OBVIOUS
<1>4. Interior(axis) = <<o, o + m>>
  BY <1>1, <1>3 DEF Interior, Position
<1>5. 0 < x /\ x < (n - 1) * s
  BY <1>2, <1>3, <1>4 DEF Beyond
<1>6. PICK low \in Int, r \in Int : low = x \div s /\ r = x % s
  OBVIOUS
<1>7. /\ low \in 0..n-1 /\ low + 1 \in 0..n-1 /\ r \in 0..s-1
      /\ x = low * s + r
  BY <1>5, <1>6, LinearIsWithin
<1>8. /\ i \in {low, low + 1}
      /\ Linear(axis, u)[i] = IF i = low THEN s - r ELSE r
  BY <1>1, <1>2, <1>6 DEF Linear
<1>9. PICK off \in Int : off = low * s
  OBVIOUS
<1>10. x = off + r
  BY <1>7, <1>9
<1>11. CASE i = low
  <2>1. Position(axis, i) = o + off
    BY <1>1, <1>9, <1>11 DEF Position
  <2>2. Abs(o + off - u) = r /\ r < s /\ s - r \in Nat
    BY <1>2, <1>7, <1>10 DEF Abs
  <2> QED
    BY <1>1, <1>7, <1>8, <1>11, <2>1, <2>2 DEF Pixels
<1>12. CASE i = low + 1
  <2>1. (low + 1) * s = off + s
    BY <1>9
  <2>2. Position(axis, i) = o + (off + s)
    BY <1>1, <1>12, <2>1 DEF Position
  <2>3. Abs(o + (off + s) - u) = s - r /\ (r > 0 => s - r < s) /\ r \in Nat /\ i # low
    BY <1>2, <1>7, <1>10, <1>12 DEF Abs
  <2> QED
    BY <1>1, <1>7, <1>8, <1>12, <2>2, <2>3 DEF Pixels
<1> QED
  BY <1>8, <1>11, <1>12

(* What is read along both axes.                                            *)
LEMMA InterpolatesNearby ==
  ASSUME NEW method \in Methods, NEW axes \in [1..2 -> Axes],
         NEW u, u[1] \in Int, u[2] \in Int,
         NEW pixel \in DOMAIN Interpolate(method, axes, u), NEW a \in 1..2
  PROVE  /\ pixel[a] \in Pixels(axes[a])
         /\ Interpolate(method, axes, u)[pixel] > 0 =>
              /\ Abs(Position(axes[a], pixel[a]) - u[a]) < axes[a].spacing
              /\ method = "NearestNeighbor" =>
                   2 * Abs(Position(axes[a], pixel[a]) - u[a]) <= axes[a].spacing
<1> DEFINE nearest ==
             IF \E b \in 1..2 : Beyond(u[b], Exterior(axes[b])) THEN <<>>
             ELSE Both(Nearest(axes[1], u[1]), Nearest(axes[2], u[2]))
           bilinear ==
             IF \E b \in 1..2 : Beyond(u[b], Interior(axes[b])) THEN <<>>
             ELSE Both(Linear(axes[1], u[1]), Linear(axes[2], u[2]))
<1>1. axes[1] \in Axes /\ axes[2] \in Axes /\ (a = 1 \/ a = 2)
  OBVIOUS
<1>2. \/ Interpolate(method, axes, u) = nearest
      \/ Interpolate(method, axes, u) = bilinear /\ method # "NearestNeighbor"
  BY DEF Methods, Interpolate
<1>3. ASSUME NEW i \in Pixels(axes[a])
      PROVE  Abs(Position(axes[a], i) - u[a]) \in Nat /\ axes[a].spacing \in Nat \ {0}
  <2>1. axes[a].spacing \in Nat \ {0} /\ axes[a].origin \in Int /\ axes[a].n \in Nat
    BY <1>1 DEF Axes
  <2>2. i \in Int /\ u[a] \in Int
    BY <1>1, <1>3, <2>1 DEF Pixels
  <2>3. Position(axes[a], i) \in Int
    BY <1>1, <2>2, PositionIsInt
  <2>4. Position(axes[a], i) - u[a] \in Int
    BY <2>2, <2>3
  <2>5. \A x \in Int : Abs(x) \in Nat
    BY DEF Abs
  <2> QED
    BY <2>1, <2>4, <2>5
<1>4. CASE Interpolate(method, axes, u) = nearest
  <2>1. ~\E b \in 1..2 : Beyond(u[b], Exterior(axes[b]))
    BY <1>4
  <2>2. Interpolate(method, axes, u) = Both(Nearest(axes[1], u[1]), Nearest(axes[2], u[2]))
    BY <1>4, <2>1
  <2>3. pixel[1] \in DOMAIN Nearest(axes[1], u[1]) /\ pixel[2] \in DOMAIN Nearest(axes[2], u[2])
    BY <2>2 DEF Both
  <2>4. /\ pixel[a] \in Pixels(axes[a])
        /\ 2 * Abs(Position(axes[a], pixel[a]) - u[a]) <= axes[a].spacing
    BY <1>1, <2>1, <2>3, NearestOnAxis
  <2>5. \A d \in Nat, s \in Nat \ {0} : 2 * d <= s => d < s
    OBVIOUS
  <2> QED
    BY <1>3, <2>4, <2>5
<1>5. CASE Interpolate(method, axes, u) = bilinear /\ method # "NearestNeighbor"
  <2>1. ~\E b \in 1..2 : Beyond(u[b], Interior(axes[b]))
    BY <1>5
  <2> DEFINE w1 == Linear(axes[1], u[1])
             w2 == Linear(axes[2], u[2])
  <2>2. Interpolate(method, axes, u) = Both(w1, w2)
    BY <1>5, <2>1
  <2>3. pixel \in (DOMAIN w1) \X (DOMAIN w2)
    BY <2>2 DEF Both
  <2>4. /\ pixel[1] \in DOMAIN w1 /\ pixel[2] \in DOMAIN w2
        /\ Interpolate(method, axes, u)[pixel] = w1[pixel[1]] * w2[pixel[2]]
    BY <2>2, <2>3 DEF Both
  <2>5. /\ pixel[1] \in Pixels(axes[1]) /\ w1[pixel[1]] \in Nat
        /\ w1[pixel[1]] > 0 => Abs(Position(axes[1], pixel[1]) - u[1]) < axes[1].spacing
    BY <1>1, <2>1, <2>4, LinearOnAxis
  <2>6. /\ pixel[2] \in Pixels(axes[2]) /\ w2[pixel[2]] \in Nat
        /\ w2[pixel[2]] > 0 => Abs(Position(axes[2], pixel[2]) - u[2]) < axes[2].spacing
    BY <1>1, <2>1, <2>4, LinearOnAxis
  <2> HIDE DEF w1, w2
  <2>7. \A x, y \in Nat : x * y > 0 => x > 0 /\ y > 0
    OBVIOUS
  <2>8. Interpolate(method, axes, u)[pixel] > 0 => w1[pixel[1]] > 0 /\ w2[pixel[2]] > 0
    BY <2>4, <2>5, <2>6, <2>7
  <2> QED
    BY <1>1, <1>5, <2>5, <2>6, <2>8
<1> QED
  BY <1>2, <1>4, <1>5

LEMMA ScaledAxis ==
  ASSUME NEW axis \in Axes, NEW by \in Nat \ {0}
  PROVE  /\ Scaled(axis, by) \in Axes
         /\ Pixels(Scaled(axis, by)) = Pixels(axis)
         /\ Scaled(axis, by).spacing = axis.spacing * by
         /\ \A i \in Pixels(axis) : Position(Scaled(axis, by), i) = Position(axis, i) * by
<1>1. PICK n \in Nat \ {0}, o \in Int, s \in Nat \ {0} :
        axis = [n |-> n, origin |-> o, spacing |-> s]
  BY DEF Axes
<1>2. Scaled(axis, by) = [n |-> n, origin |-> o * by, spacing |-> s * by]
  <2>1. /\ Scaled(axis, by) = [[axis EXCEPT !.origin = axis.origin * by]
                              EXCEPT !.spacing = axis.spacing * by]
        /\ axis.origin = o /\ axis.spacing = s
    BY <1>1 DEF Scaled
  <2> QED
    BY <1>1, <2>1
<1>3. s * by \in Nat \ {0} /\ o * by \in Int
  OBVIOUS
<1>4. \A i \in Int : o * by + i * (s * by) = (o + i * s) * by
  OBVIOUS
<1>5. \A i \in Pixels(axis) : i \in Int
  BY DEF Pixels
<1> QED
  BY <1>1, <1>2, <1>3, <1>4, <1>5 DEF Axes, Pixels, Position

(* The calls that the runs make, for any volume, projection and angle.      *)
BackProjectsAny ==
  \E method \in Methods, voxels \in [1..3 -> Axes], projection \in [1..2 -> Axes],
     angle \in AnyAngle :
    Called([name |-> "apply", method |-> method, volume |-> voxels,
            projection |-> projection, angle |-> angle],
           WeightsOf(method, voxels, projection, angle))

BackProjectionSpec == CallsInit /\ [][BackProjectsAny]_<<call, result>>

LEMMA WeightsAreNearby ==
  ASSUME NEW method \in Methods, NEW voxels \in [1..3 -> Axes],
         NEW projection \in [1..2 -> Axes], NEW angle \in AnyAngle,
         NEW v \in DOMAIN WeightsOf(method, voxels, projection, angle),
         NEW pixel \in DOMAIN WeightsOf(method, voxels, projection, angle)[v],
         NEW a \in 1..2
  PROVE  LET u == Intersect([d \in 1..3 |-> Position(voxels[d], v[d])], angle)
             away == Abs(Position(projection[a], pixel[a]) * angle.unit - u[a])
             unit == projection[a].spacing * angle.unit
         IN  /\ pixel[a] \in Pixels(projection[a])
             /\ WeightsOf(method, voxels, projection, angle)[v][pixel] > 0 =>
                  /\ away < unit
                  /\ method = "NearestNeighbor" => 2 * away <= unit
<1> DEFINE axes == [b \in 1..2 |-> Scaled(projection[b], angle.unit)]
           at == [d \in 1..3 |-> Position(voxels[d], v[d])]
           u == Intersect(at, angle)
<1>1. v \in Scanned(voxels, projection)
  BY DEF WeightsOf
<1>2. v[1] \in Int /\ v[2] \in Int /\ v[3] \in Int
  <2>1. v \in SlicesInView(voxels[1], projection[1]) \X Pixels(voxels[2]) \X Pixels(voxels[3])
    BY <1>1 DEF Scanned
  <2>2. SlicesInView(voxels[1], projection[1]) \subseteq Int
    BY DEF SlicesInView, Pixels
  <2>3. Pixels(voxels[2]) \subseteq Int /\ Pixels(voxels[3]) \subseteq Int
    BY DEF Pixels
  <2> QED
    BY <2>1, <2>2, <2>3
<1>3. at[1] \in Int /\ at[2] \in Int /\ at[3] \in Int
  BY <1>2, PositionIsInt
<1>4. u[1] \in Int /\ u[2] \in Int
  <2>1. angle.unit \in Int /\ angle.cos \in Int /\ angle.sin \in Int
    BY DEF AnyAngle
  <2> HIDE DEF at
  <2>2. u = <<at[1] * angle.unit, angle.cos * at[2] - angle.sin * at[3]>>
    BY DEF Intersect
  <2>3. at[1] * angle.unit \in Int /\ angle.cos * at[2] - angle.sin * at[3] \in Int
    BY <1>3, <2>1
  <2> QED
    BY <2>2, <2>3
<1>5. angle.unit \in Nat \ {0} /\ projection[a] \in Axes
  BY DEF AnyAngle
<1>6. axes \in [1..2 -> Axes]
  BY <1>5, ScaledAxis
<1>7. WeightsOf(method, voxels, projection, angle)[v] = Interpolate(method, axes, u)
  BY <1>1 DEF WeightsOf
<1>8. /\ axes[a] = Scaled(projection[a], angle.unit)
  OBVIOUS
<1> HIDE DEF axes, u
<1>9. /\ pixel[a] \in Pixels(axes[a])
      /\ Interpolate(method, axes, u)[pixel] > 0 =>
           /\ Abs(Position(axes[a], pixel[a]) - u[a]) < axes[a].spacing
           /\ method = "NearestNeighbor" =>
                2 * Abs(Position(axes[a], pixel[a]) - u[a]) <= axes[a].spacing
  BY <1>4, <1>6, <1>7, InterpolatesNearby
<1>10. /\ Pixels(axes[a]) = Pixels(projection[a])
       /\ axes[a].spacing = projection[a].spacing * angle.unit
       /\ \A i \in Pixels(projection[a]) :
            Position(axes[a], i) = Position(projection[a], i) * angle.unit
  BY <1>5, <1>8, ScaledAxis
<1> QED
  BY <1>7, <1>9, <1>10 DEF u

(* No interpolation reads a pixel outside the projection, and a pixel that  *)
(* counts is near the ray: for any method, volume, projection and angle.    *)
THEOREM AnyPixelReadIsNearby == BackProjectionSpec => []ReadsNearbyPixels
<1>1. CallsInit => ReadsNearbyPixels
  BY DEF CallsInit, NoCall, ReadsNearbyPixels
<1>2. ASSUME ReadsNearbyPixels, UNCHANGED <<call, result>>
      PROVE  ReadsNearbyPixels'
  BY <1>2 DEF ReadsNearbyPixels, PlaceOf
<1>3. ASSUME BackProjectsAny
      PROVE  ReadsNearbyPixels'
  <2>1. PICK method \in Methods, voxels \in [1..3 -> Axes],
             projection \in [1..2 -> Axes], angle \in AnyAngle :
          /\ call' = [name |-> "apply", method |-> method, volume |-> voxels,
                      projection |-> projection, angle |-> angle]
          /\ result' = WeightsOf(method, voxels, projection, angle)
    BY <1>3 DEF BackProjectsAny, Called
  <2>2. /\ call'.method = method /\ call'.volume = voxels
        /\ call'.projection = projection /\ call'.angle = angle
    BY <2>1
  <2> QED
    BY <2>1, <2>2, WeightsAreNearby DEF ReadsNearbyPixels, PlaceOf
<1> QED
  BY <1>1, <1>2, <1>3, PTL DEF BackProjectionSpec

-----------------------------------------------------------------------------
(* Sums over finite sets, by induction on the number of elements            *)

LEMMA LeastNatural ==
  ASSUME NEW T \in SUBSET Nat, T # {}
  PROVE  \E x \in T : \A y \in T : x <= y
<1> DEFINE R == OpToRel(<, Nat)
<1>1. \A x \in Nat, y \in Nat : x < y => <<x, y>> \in R
  BY DEF OpToRel
<1>2. PICK x \in T : \A y \in T : <<y, x>> \notin R
  BY NatLessThanWellFounded, WFMin
<1> HIDE DEF R
<1>3. ASSUME NEW y \in T PROVE x <= y
  <2>1. x \in Nat /\ y \in Nat /\ ~(y < x)
    BY <1>1, <1>2
  <2> QED
    BY <2>1
<1> QED
  BY <1>3

(* Sums over a set, to whatever it is the set of.                           *)

(* An element of a set, whichever CHOOSE takes.                             *)
AnyOf(s) == CHOOSE x \in s : TRUE

(* The function that a sum is defined by.                                   *)
Adds(iter, w, S) ==
  iter = [s \in SUBSET S |-> IF s = {} THEN 0 ELSE w[AnyOf(s)] + iter[s \ {AnyOf(s)}]]

LEMMA SumIs ==
  ASSUME NEW w, NEW S
  PROVE  Sum(w, S) = (CHOOSE iter : Adds(iter, w, S))[S]
BY Zenon DEF Sum, MapThenSumSet, MapThenFoldSet, Adds, AnyOf

(* Of any subsets of a finite set, one holds no other: induction on sets.   *)
LEMMA SmallestSubset ==
  ASSUME NEW S, IsFiniteSet(S), NEW C \in SUBSET SUBSET S, C # {}
  PROVE  \E s \in C : IsFiniteSet(s) /\ \A x \in s : s \ {x} \notin C
<1> DEFINE sizes == {Cardinality(s) : s \in C}
<1>1. \A s \in C : IsFiniteSet(s) /\ Cardinality(s) \in Nat
  BY FS_Subset, FS_CardinalityType
<1>2. sizes \in SUBSET Nat /\ sizes # {}
  BY <1>1
<1>3. PICK n \in sizes : \A m \in sizes : n <= m
  BY <1>2, LeastNatural
<1>4. PICK s \in C : Cardinality(s) = n
  BY <1>3
<1>5. ASSUME NEW x \in s, s \ {x} \in C PROVE FALSE
  <2>1. Cardinality(s \ {x}) = Cardinality(s) - 1
    BY <1>1, <1>4, FS_RemoveElement
  <2>2. Cardinality(s \ {x}) \in sizes
    BY <1>5
  <2>3. Cardinality(s) <= Cardinality(s \ {x})
    BY <1>3, <1>4, <2>2
  <2> HIDE DEF sizes
  <2> QED
    BY <1>1, <1>4, <2>1, <2>3
<1> QED
  BY <1>1, <1>4, <1>5

LEMMA AnyOfIsIn ==
  ASSUME NEW s, s # {}
  PROVE  AnyOf(s) \in s
BY DEF AnyOf

LEMMA AddsAlike ==
  ASSUME NEW w, NEW S, NEW R, NEW T, IsFiniteSet(T), T \subseteq S, T \subseteq R,
         NEW f, Adds(f, w, S), NEW g, Adds(g, w, R)
  PROVE  f[T] = g[T]
<1> DEFINE C == {s \in SUBSET T : f[s] # g[s]}
<1>1. SUFFICES ASSUME C # {} PROVE FALSE
  <2>1. T \in SUBSET T
    OBVIOUS
  <2> QED
    BY <2>1, <1>1
<1>2. PICK s \in C : \A x \in s : s \ {x} \notin C
  <2>1. C \in SUBSET SUBSET T
    OBVIOUS
  <2> HIDE DEF C
  <2> QED
    BY <1>1, <2>1, SmallestSubset
<1>3. /\ s \in SUBSET S /\ s \in SUBSET R /\ s \in SUBSET T
  OBVIOUS
<1>4. CASE s = {}
  <2>1. f[s] = 0 /\ g[s] = 0
    BY <1>3, <1>4 DEF Adds
  <2> QED
    BY <2>1
<1>5. CASE s # {}
  <2> DEFINE r == s \ {AnyOf(s)}
  <2>1. AnyOf(s) \in s
    BY <1>5, AnyOfIsIn
  <2>2. f[s] = w[AnyOf(s)] + f[r] /\ g[s] = w[AnyOf(s)] + g[r]
    BY <1>3, <1>5 DEF Adds
  <2>3. f[r] = g[r]
    BY <1>2, <1>3, <2>1
  <2> QED
    BY <2>2, <2>3
<1> QED
  BY <1>4, <1>5

LEMMA AddsExists ==
  ASSUME NEW w, NEW S, IsFiniteSet(S)
  PROVE  \E f : Adds(f, w, S)
<1> DEFINE C == {s \in SUBSET S : ~(\E f : Adds(f, w, s))}
<1>1. SUFFICES ASSUME C # {} PROVE FALSE
  <2>1. S \in SUBSET S
    OBVIOUS
  <2> QED
    BY <2>1, <1>1
<1>2. PICK s \in C : IsFiniteSet(s) /\ \A x \in s : s \ {x} \notin C
  <2>1. C \in SUBSET SUBSET S
    OBVIOUS
  <2> HIDE DEF C
  <2> QED
    BY <1>1, <2>1, SmallestSubset
<1> DEFINE H(x) == CHOOSE f : Adds(f, w, s \ {x})
           rest(t) == t \ {AnyOf(t)}
           iter == [t \in SUBSET s |-> IF t = {} THEN 0 ELSE w[AnyOf(t)] + H(AnyOf(t))[rest(t)]]
<1>3. ASSUME NEW x \in s PROVE Adds(H(x), w, s \ {x})
  <2>1. \E f : Adds(f, w, s \ {x})
    BY <1>2, <1>3
  <2> QED
    BY <2>1
<1> HIDE DEF H
<1>4. ASSUME NEW t \in SUBSET s, t # {}
      PROVE  iter[rest(t)] = H(AnyOf(t))[rest(t)]
  <2> DEFINE r == rest(t)
  <2>1. AnyOf(t) \in t /\ r \in SUBSET s /\ r \in SUBSET (s \ {AnyOf(t)})
    BY <1>4, AnyOfIsIn
  <2>2. Adds(H(AnyOf(t)), w, s \ {AnyOf(t)})
    BY <1>3, <2>1
  <2>3. CASE r = {}
    <3>1. iter[r] = 0
      BY <2>1, <2>3
    <3>2. H(AnyOf(t))[r] = 0
      BY <2>1, <2>2, <2>3 DEF Adds
    <3> QED
      BY <3>1, <3>2
  <2>4. CASE r # {}
    <3>1. AnyOf(r) \in r
      BY <2>4, AnyOfIsIn
    <3>2. iter[r] = w[AnyOf(r)] + H(AnyOf(r))[rest(r)]
      BY <2>1, <2>4
    <3>3. H(AnyOf(t))[r] = w[AnyOf(r)] + H(AnyOf(t))[rest(r)]
      BY <2>1, <2>2, <2>4 DEF Adds
    <3>4. H(AnyOf(r))[rest(r)] = H(AnyOf(t))[rest(r)]
      <4>1. Adds(H(AnyOf(r)), w, s \ {AnyOf(r)})
        BY <1>3, <2>1, <3>1
      <4>2. /\ rest(r) \subseteq s \ {AnyOf(r)} /\ rest(r) \subseteq s \ {AnyOf(t)}
            /\ rest(r) \in SUBSET s
        BY <2>1
      <4>3. IsFiniteSet(rest(r))
        BY <1>2, <4>2, FS_Subset
      <4> HIDE DEF rest
      <4> QED
        BY <2>2, <4>1, <4>2, <4>3, AddsAlike
    <3> QED
      BY <3>2, <3>3, <3>4
  <2> QED
    BY <2>3, <2>4
<1>5. Adds(iter, w, s)
  <2>1. \A t \in SUBSET s : iter[t] = IF t = {} THEN 0 ELSE w[AnyOf(t)] + iter[rest(t)]
    BY <1>4
  <2>2. iter = [t \in SUBSET s |-> IF t = {} THEN 0 ELSE w[AnyOf(t)] + iter[rest(t)]]
    <3> DEFINE F == [t \in SUBSET s |-> IF t = {} THEN 0 ELSE w[AnyOf(t)] + iter[rest(t)]]
    <3>1. DOMAIN iter = SUBSET s /\ DOMAIN F = SUBSET s
      OBVIOUS
    <3>2. iter = [t \in SUBSET s |-> iter[t]]
      OBVIOUS
    <3> HIDE DEF iter
    <3> QED
      BY <2>1, <3>2
  <2> HIDE DEF iter
  <2> QED
    BY <2>2 DEF Adds
<1> QED
  BY <1>2, <1>5

(* The sum of a set is an element's value and the sum of the rest.          *)
LEMMA SumOfNone ==
  ASSUME NEW w
  PROVE  Sum(w, {}) = 0
<1>1. Adds(CHOOSE f : Adds(f, w, {}), w, {})
  BY FS_EmptySet, AddsExists
<1>2. \A f : Adds(f, w, {}) => f[{}] = 0
  BY DEF Adds
<1> QED
  BY <1>1, <1>2, SumIs

LEMMA SumOfRest ==
  ASSUME NEW w, NEW S, IsFiniteSet(S), S # {}
  PROVE  Sum(w, S) = w[AnyOf(S)] + Sum(w, S \ {AnyOf(S)})
<1> DEFINE r == S \ {AnyOf(S)}
           f == CHOOSE f : Adds(f, w, S)
           g == CHOOSE g : Adds(g, w, r)
<1>1. IsFiniteSet(r)
  BY FS_RemoveElement
<1>2. Adds(f, w, S) /\ Adds(g, w, r)
  BY <1>1, AddsExists
<1>3. Sum(w, S) = f[S] /\ Sum(w, r) = g[r]
  BY SumIs
<1> HIDE DEF f, g
<1>4. f[S] = w[AnyOf(S)] + f[r]
  BY <1>2 DEF Adds
<1>5. f[r] = g[r]
  BY <1>1, <1>2, AddsAlike
<1> QED
  BY <1>3, <1>4, <1>5

LEMMA SumIsInt ==
  ASSUME NEW S, IsFiniteSet(S), NEW w, \A x \in S : w[x] \in Int
  PROVE  Sum(w, S) \in Int
<1> DEFINE C == {s \in SUBSET S : Sum(w, s) \notin Int}
<1>1. SUFFICES ASSUME C # {} PROVE FALSE
  OBVIOUS
<1>2. PICK s \in C : IsFiniteSet(s) /\ \A x \in s : s \ {x} \notin C
  <2>1. C \in SUBSET SUBSET S
    OBVIOUS
  <2> HIDE DEF C
  <2> QED
    BY <1>1, <2>1, SmallestSubset
<1>3. CASE s = {}
  BY <1>3, SumOfNone
<1>4. CASE s # {}
  <2>1. AnyOf(s) \in s /\ Sum(w, s) = w[AnyOf(s)] + Sum(w, s \ {AnyOf(s)})
    BY <1>2, <1>4, AnyOfIsIn, SumOfRest
  <2>2. Sum(w, s \ {AnyOf(s)}) \in Int
    BY <1>2, <2>1
  <2>3. w[AnyOf(s)] \in Int
    BY <2>1
  <2>4. Sum(w, s) \in Int
    BY <2>1, <2>2, <2>3
  <2> QED
    BY <2>4
<1> QED
  BY <1>3, <1>4

(* Whichever element is taken first.                                        *)
LEMMA SumOfAny ==
  ASSUME NEW S, IsFiniteSet(S), NEW w, \A x \in S : w[x] \in Int, NEW y \in S
  PROVE  Sum(w, S) = w[y] + Sum(w, S \ {y})
<1> DEFINE C == {s \in SUBSET S : \E z \in s : Sum(w, s) # w[z] + Sum(w, s \ {z})}
<1>1. SUFFICES ASSUME C # {} PROVE FALSE
  OBVIOUS
<1>2. PICK s \in C : IsFiniteSet(s) /\ \A x \in s : s \ {x} \notin C
  <2>1. C \in SUBSET SUBSET S
    OBVIOUS
  <2> HIDE DEF C
  <2> QED
    BY <1>1, <2>1, SmallestSubset
<1>3. PICK z \in s : Sum(w, s) # w[z] + Sum(w, s \ {z})
  OBVIOUS
<1> DEFINE x == AnyOf(s)
<1>4. x \in s /\ Sum(w, s) = w[x] + Sum(w, s \ {x})
  BY <1>2, <1>3, AnyOfIsIn, SumOfRest
<1>5. x # z
  BY <1>3, <1>4
<1>6. s \ {x} \notin C /\ s \ {z} \notin C
  BY <1>2, <1>4
<1>7. Sum(w, s \ {x}) = w[z] + Sum(w, (s \ {x}) \ {z})
  BY <1>5, <1>6
<1>8. Sum(w, s \ {z}) = w[x] + Sum(w, (s \ {z}) \ {x})
  BY <1>4, <1>5, <1>6
<1>9. (s \ {x}) \ {z} = (s \ {z}) \ {x}
  OBVIOUS
<1>10. Sum(w, (s \ {z}) \ {x}) \in Int
  <2>1. IsFiniteSet((s \ {z}) \ {x})
    BY <1>2, FS_RemoveElement
  <2>2. \A v \in (s \ {z}) \ {x} : w[v] \in Int
    OBVIOUS
  <2> QED
    BY <2>1, <2>2, SumIsInt
<1>11. w[x] \in Int /\ w[z] \in Int
  BY <1>4
<1>12. \A a \in Int, b \in Int, c \in Int : a + (b + c) = b + (a + c)
  OBVIOUS
<1> HIDE DEF x, C
<1>13. Sum(w, s) = w[x] + (w[z] + Sum(w, (s \ {z}) \ {x}))
  BY Zenon, <1>4, <1>7, <1>9
<1>14. w[z] + Sum(w, s \ {z}) = w[z] + (w[x] + Sum(w, (s \ {z}) \ {x}))
  BY Zenon, <1>8
<1> QED
  BY Zenon, <1>3, <1>10, <1>11, <1>12, <1>13, <1>14

(* A sum of sums, and of multiples.                                         *)
LEMMA SumIsLinear ==
  ASSUME NEW S, IsFiniteSet(S), NEW a \in Int, NEW b \in Int, NEW u, NEW v, NEW w,
         \A x \in S : u[x] \in Int /\ v[x] \in Int /\ w[x] = a * u[x] + b * v[x]
  PROVE  Sum(w, S) = a * Sum(u, S) + b * Sum(v, S)
<1> DEFINE C == {s \in SUBSET S : Sum(w, s) # a * Sum(u, s) + b * Sum(v, s)}
<1>1. SUFFICES ASSUME C # {} PROVE FALSE
  OBVIOUS
<1>2. PICK s \in C : IsFiniteSet(s) /\ \A x \in s : s \ {x} \notin C
  <2>1. C \in SUBSET SUBSET S
    OBVIOUS
  <2> HIDE DEF C
  <2> QED
    BY <1>1, <2>1, SmallestSubset
<1>3. CASE s = {}
  BY <1>3, SumOfNone
<1>4. CASE s # {}
  <2> DEFINE x == AnyOf(s)
             r == s \ {x}
  <2>1. /\ x \in s /\ IsFiniteSet(r)
        /\ Sum(w, s) = w[x] + Sum(w, r) /\ Sum(u, s) = u[x] + Sum(u, r)
        /\ Sum(v, s) = v[x] + Sum(v, r)
    BY <1>2, <1>4, AnyOfIsIn, SumOfRest, FS_RemoveElement
  <2>2. Sum(w, r) = a * Sum(u, r) + b * Sum(v, r)
    BY <1>2, <2>1
  <2>3. u[x] \in Int /\ v[x] \in Int /\ w[x] = a * u[x] + b * v[x]
    BY <2>1
  <2>4. Sum(u, r) \in Int /\ Sum(v, r) \in Int
    BY <2>1, SumIsInt
  <2>5. \A k \in Int, l \in Int, m \in Int, n \in Int :
          (a * k + b * l) + (a * m + b * n) = a * (k + m) + b * (l + n)
    OBVIOUS
  <2>6. Sum(w, s) # a * Sum(u, s) + b * Sum(v, s)
    OBVIOUS
  <2> HIDE DEF x, r, C
  <2>7. Sum(w, s) = (a * u[x] + b * v[x]) + (a * Sum(u, r) + b * Sum(v, r))
    BY Zenon, <2>1, <2>2, <2>3
  <2>8. a * Sum(u, s) + b * Sum(v, s) = a * (u[x] + Sum(u, r)) + b * (v[x] + Sum(v, r))
    BY Zenon, <2>1
  <2>9. (a * u[x] + b * v[x]) + (a * Sum(u, r) + b * Sum(v, r))
          = a * (u[x] + Sum(u, r)) + b * (v[x] + Sum(v, r))
    BY <2>3, <2>4, <2>5
  <2> QED
    BY Zenon, <2>6, <2>7, <2>8, <2>9
<1> QED
  BY <1>3, <1>4

LEMMA SumOfSame ==
  ASSUME NEW S, IsFiniteSet(S), NEW u, NEW w, \A x \in S : u[x] \in Int /\ w[x] = u[x]
  PROVE  Sum(w, S) = Sum(u, S)
<1>1. Sum(w, S) = 1 * Sum(u, S) + 0 * Sum(u, S)
  BY SumIsLinear
<1> QED
  BY <1>1, SumIsInt

LEMMA SumOfEqual ==
  ASSUME NEW S, IsFiniteSet(S), NEW w, NEW c \in Int, \A x \in S : w[x] = c
  PROVE  Sum(w, S) = Cardinality(S) * c
<1> DEFINE C == {s \in SUBSET S : Sum(w, s) # Cardinality(s) * c}
<1>1. SUFFICES ASSUME C # {} PROVE FALSE
  OBVIOUS
<1>2. PICK s \in C : IsFiniteSet(s) /\ \A x \in s : s \ {x} \notin C
  <2>1. C \in SUBSET SUBSET S
    OBVIOUS
  <2> HIDE DEF C
  <2> QED
    BY <1>1, <2>1, SmallestSubset
<1>3. CASE s = {}
  <2>1. Sum(w, s) = 0 /\ Cardinality(s) = 0
    BY <1>3, SumOfNone, FS_EmptySet
  <2> QED
    BY <2>1
<1>4. CASE s # {}
  <2> DEFINE x == AnyOf(s)
             r == s \ {x}
  <2>1. /\ x \in s /\ IsFiniteSet(r) /\ Sum(w, s) = w[x] + Sum(w, r)
    BY <1>2, <1>4, AnyOfIsIn, SumOfRest, FS_RemoveElement
  <2>2. Sum(w, r) = Cardinality(r) * c
    BY <1>2, <2>1
  <2>3. w[x] = c
    BY <2>1
  <2>4. Cardinality(r) = Cardinality(s) - 1 /\ Cardinality(s) \in Nat
    BY <1>2, <2>1, FS_RemoveElement, FS_CardinalityType
  <2>5. Sum(w, s) # Cardinality(s) * c
    OBVIOUS
  <2> HIDE DEF x, r, C
  <2>6. Sum(w, s) = c + (Cardinality(s) - 1) * c
    BY <2>1, <2>2, <2>3, <2>4
  <2>7. \A n \in Nat : c + (n - 1) * c = n * c
    OBVIOUS
  <2> QED
    BY <2>4, <2>5, <2>6, <2>7
<1> QED
  BY <1>3, <1>4

-----------------------------------------------------------------------------
(* Back-projection: the weights of the pixels of a voxel                    *)

(* The least and the greatest number of a set.                              *)
LEMMA MinimumIs ==
  ASSUME NEW T \in SUBSET Nat, T # {}
  PROVE  Min(T) \in T /\ \A t \in T : Min(T) <= t
BY LeastNatural DEF Min

LEMMA MaximumIs ==
  ASSUME NEW n \in Nat, NEW T \in SUBSET (0 .. n), T # {}
  PROVE  Max(T) \in T /\ \A t \in T : t <= Max(T)
<1> DEFINE U == {n - t : t \in T}
<1>1. U \in SUBSET Nat /\ U # {}
  <2>1. \A t \in T : n - t \in Nat
    OBVIOUS
  <2> QED
    BY <2>1
<1>2. PICK m \in U : \A k \in U : m <= k
  <2> HIDE DEF U
  <2> QED
    BY <1>1, LeastNatural
<1>3. PICK t \in T : m = n - t
  OBVIOUS
<1>4. ASSUME NEW q \in T PROVE q <= t
  <2>1. n - q \in U /\ q \in 0 .. n /\ t \in 0 .. n
    OBVIOUS
  <2>2. n - t <= n - q
    BY <1>2, <1>3, <2>1
  <2> QED
    BY <2>1, <2>2
<1>5. \E y \in T : \A q \in T : y >= q
  <2>1. \A q \in T : t >= q
    <3>1. \A q \in T : q \in Int
      OBVIOUS
    <3> QED
      BY <1>4, <3>1
  <2> QED
    BY <2>1
<1>6. Max(T) \in T /\ \A q \in T : Max(T) >= q
  BY <1>5 DEF Max
<1>7. \A q \in T : q \in Int
  OBVIOUS
<1> QED
  BY <1>6, <1>7

(* A voxel within the chord is in the part of the row that is scanned.      *)
LEMMA RowHasChord ==
  ASSUME NEW axis \in Axes, NEW chord2 \in Int, NEW k \in Pixels(axis),
         Position(axis, k) * Position(axis, k) < chord2
  PROVE  k \in Row(axis, chord2)
<1> DEFINE square(i) == Position(axis, i) * Position(axis, i)
           left(i)  == Position(axis, i) <= 0 /\ square(i) >= chord2
           right(i) == Position(axis, i) >= 0 /\ square(i) >= chord2
           L == {0} \cup {i \in 0 .. axis.n : left(i)}
           R == {axis.n} \cup {i \in 0 .. axis.n : right(i)}
<1>1. axis.n \in Nat \ {0} /\ axis.origin \in Int /\ axis.spacing \in Nat \ {0}
  BY DEF Axes
<1>2. k \in 0 .. axis.n - 1
  BY DEF Pixels
<1>3. \A i \in 0 .. axis.n : Position(axis, i) \in Int
  BY <1>1, PositionIsInt
<1>4. \A i \in 0 .. axis.n, j \in 0 .. axis.n : i < j => Position(axis, i) < Position(axis, j)
  <2>1. \A i \in Int, j \in Int : i < j => i * axis.spacing < j * axis.spacing
    BY <1>1
  <2>2. \A i \in Int : i * axis.spacing \in Int
    BY <1>1
  <2> QED
    BY <1>1, <2>1, <2>2 DEF Position
<1>5. \A a \in Int, b \in Int : a < b /\ b <= 0 => b * b <= a * a
  OBVIOUS
<1>6. \A a \in Int, b \in Int : 0 <= a /\ a < b => a * a <= b * b
  OBVIOUS
<1>7. \A a \in Int : a * a \in Int
  OBVIOUS
<1>8. ASSUME NEW i \in L PROVE i <= k
  <2>1. SUFFICES ASSUME i \in 0 .. axis.n, left(i), k < i PROVE FALSE
    BY <1>1, <1>2
  <2>2. Position(axis, k) < Position(axis, i)
    BY <1>1, <1>2, <1>4, <2>1
  <2>3. Position(axis, k) \in Int /\ Position(axis, i) \in Int /\ Position(axis, i) <= 0
        /\ square(i) >= chord2
    BY <1>1, <1>2, <1>3, <2>1
  <2> HIDE DEF L, R
  <2>4. square(i) <= square(k)
    BY <1>5, <2>2, <2>3
  <2>5. square(i) \in Int /\ square(k) \in Int
    BY <1>7, <2>3
  <2> QED
    BY <2>3, <2>4, <2>5
<1>9. ASSUME NEW i \in R PROVE k < i
  <2>1. SUFFICES ASSUME i \in 0 .. axis.n, right(i), ~(k < i) PROVE FALSE
    BY <1>1, <1>2
  <2>2. Position(axis, i) < Position(axis, k) \/ i = k
    BY <1>1, <1>2, <1>4, <2>1
  <2>3. Position(axis, k) \in Int /\ Position(axis, i) \in Int /\ Position(axis, i) >= 0
        /\ square(i) >= chord2
    BY <1>1, <1>2, <1>3, <2>1
  <2> HIDE DEF L, R
  <2>4. square(i) <= square(k)
    BY <1>6, <1>7, <2>2, <2>3
  <2>5. square(i) \in Int /\ square(k) \in Int
    BY <1>7, <2>3
  <2> QED
    BY <2>3, <2>4, <2>5
<1>10. L \in SUBSET (0 .. axis.n) /\ L # {} /\ R \in SUBSET Nat /\ R # {}
  BY <1>1
<1>11. Row(axis, chord2) = Max(L) .. Min(R) - 1
  BY DEF Row
<1> HIDE DEF L, R
<1>12. Max(L) \in L /\ Min(R) \in R
  BY <1>1, <1>10, MaximumIs, MinimumIs
<1>13. Max(L) <= k /\ k < Min(R) /\ Max(L) \in Int /\ Min(R) \in Int /\ k \in Int
  <2>1. Max(L) \in Int /\ Min(R) \in Int /\ k \in Int
    <3>1. Min(R) \in Nat
      BY Zenon, <1>10, <1>12
    <3>2. Max(L) \in 0 .. axis.n
      BY Zenon, <1>10, <1>12
    <3> QED
      BY <1>1, <1>2, <3>1, <3>2
  <2>2. Max(L) <= k /\ k < Min(R)
    BY <1>8, <1>9, <1>12
  <2> QED
    BY <2>1, <2>2
<1> QED
  BY <1>11, <1>13

(* A turned point is no farther from the axis than it was (Cauchy-Schwarz). *)
LEMMA TurnedIsWithin ==
  ASSUME NEW x \in Int, NEW y \in Int, NEW c \in Int, NEW s \in Int,
         NEW unit \in Nat \ {0}, c * c + s * s = unit * unit,
         NEW R \in Nat, x * x + y * y < R * R
  PROVE  /\ c * x - s * y < R * unit
         /\ -(R * unit) < c * x - s * y
<1> DEFINE u == c * x - s * y
           v == s * x + c * y
           most == R * unit
<1>1. u * u + v * v = (c * c + s * s) * (x * x + y * y)
  OBVIOUS
<1>2. most * most = (unit * unit) * (R * R)
  OBVIOUS
<1>3. u \in Int /\ v \in Int /\ most \in Nat /\ unit * unit \in Nat \ {0}
      /\ x * x + y * y \in Int /\ R * R \in Int
  OBVIOUS
<1>4. \A a \in Nat \ {0}, b \in Int, d \in Int : b < d => a * b < a * d
  OBVIOUS
<1>5. (unit * unit) * (x * x + y * y) < (unit * unit) * (R * R)
  BY <1>3, <1>4
<1>6. u * u + v * v < most * most
  BY <1>1, <1>2, <1>5
<1>7. v * v >= 0
  OBVIOUS
<1> HIDE DEF u, v, most
<1>8. u * u < most * most
  <2>1. u * u \in Int /\ v * v \in Int /\ most * most \in Int
    BY <1>3
  <2> QED
    BY <1>6, <1>7, <2>1
<1>9. \A a \in Nat, b \in Nat : a >= b => a * a >= b * b
  OBVIOUS
<1>10. u < most
  <2>1. SUFFICES ASSUME u >= most PROVE FALSE
    BY <1>3
  <2>2. u \in Nat /\ u * u >= most * most
    BY <1>3, <1>9, <2>1
  <2> QED
    BY <1>3, <1>8, <2>2
<1>11. -most < u
  <2>1. SUFFICES ASSUME -u >= most PROVE FALSE
    BY <1>3
  <2>2. -u \in Nat /\ (-u) * (-u) >= most * most
    BY <1>3, <1>9, <2>1
  <2>3. (-u) * (-u) = u * u
    BY <1>3
  <2> QED
    BY <1>3, <1>8, <2>2, <2>3
<1> QED
  BY <1>10, <1>11 DEF u, most

LEMMA LinearSharesSpacing ==
  ASSUME NEW axis \in Axes, NEW u \in Int, ~Beyond(u, Interior(axis))
  PROVE  \E i \in Int :
           /\ DOMAIN Linear(axis, u) = {i, i + 1}
           /\ Linear(axis, u)[i] \in Nat /\ Linear(axis, u)[i + 1] \in Nat
           /\ Linear(axis, u)[i] + Linear(axis, u)[i + 1] = axis.spacing
<1>1. axis.n \in Nat \ {0} /\ axis.origin \in Int /\ axis.spacing \in Nat \ {0}
  BY DEF Axes
<1>2. PICK low \in Int, rest \in Int :
        low = (u - axis.origin) \div axis.spacing /\ rest = (u - axis.origin) % axis.spacing
  BY <1>1
<1>3. Linear(axis, u) = [i \in {low, low + 1} |-> IF i = low THEN axis.spacing - rest ELSE rest]
  BY <1>2 DEF Linear
<1>4. low # low + 1
  OBVIOUS
<1>5. /\ Linear(axis, u)[low] = axis.spacing - rest /\ Linear(axis, u)[low + 1] = rest
      /\ DOMAIN Linear(axis, u) = {low, low + 1}
  BY <1>3, <1>4
<1>6. Linear(axis, u)[low] \in Nat /\ Linear(axis, u)[low + 1] \in Nat
  BY <1>5, LinearOnAxis
<1>7. (axis.spacing - rest) + rest = axis.spacing
  BY <1>1
<1> QED
  BY <1>5, <1>6, <1>7

LEMMA SumOfFour ==
  ASSUME NEW q, \A i, j \in 1..4 : i # j => q[i] # q[j],
         NEW w, \A i \in 1..4 : w[q[i]] \in Int
  PROVE  Sum(w, {q[1], q[2], q[3], q[4]}) = w[q[1]] + w[q[2]] + w[q[3]] + w[q[4]]
<1> DEFINE S1 == {q[4]}
           S2 == {q[3], q[4]}
           S3 == {q[2], q[3], q[4]}
           S4 == {q[1], q[2], q[3], q[4]}
<1>1. IsFiniteSet(S1) /\ IsFiniteSet(S2) /\ IsFiniteSet(S3) /\ IsFiniteSet(S4)
  <2>1. S2 = S1 \cup {q[3]} /\ S3 = S2 \cup {q[2]} /\ S4 = S3 \cup {q[1]}
    OBVIOUS
  <2>2. IsFiniteSet(S1)
    BY FS_Singleton
  <2> HIDE DEF S1, S2, S3, S4
  <2> QED
    BY <2>1, <2>2, FS_AddElement
<1>2. /\ S4 \ {q[1]} = S3 /\ S3 \ {q[2]} = S2 /\ S2 \ {q[3]} = S1 /\ S1 \ {q[4]} = {}
      /\ q[1] \in S4 /\ q[2] \in S3 /\ q[3] \in S2 /\ q[4] \in S1
  OBVIOUS
<1>3. /\ \A x \in S4 : w[x] \in Int
      /\ \A x \in S3 : w[x] \in Int
      /\ \A x \in S2 : w[x] \in Int
      /\ \A x \in S1 : w[x] \in Int
  OBVIOUS
<1> HIDE DEF S1, S2, S3, S4
<1>4. Sum(w, S4) = w[q[1]] + Sum(w, S3)
  BY <1>1, <1>2, <1>3, SumOfAny
<1>5. Sum(w, S3) = w[q[2]] + Sum(w, S2)
  BY <1>1, <1>2, <1>3, SumOfAny
<1>6. Sum(w, S2) = w[q[3]] + Sum(w, S1)
  BY <1>1, <1>2, <1>3, SumOfAny
<1>7. Sum(w, S1) = w[q[4]] + Sum(w, {})
  BY <1>1, <1>2, <1>3, SumOfAny
<1>8. Sum(w, S4) = w[q[1]] + (w[q[2]] + (w[q[3]] + (w[q[4]] + 0)))
  BY Zenon, <1>4, <1>5, <1>6, <1>7, SumOfNone
<1>9. Sum(w, S4) = w[q[1]] + w[q[2]] + w[q[3]] + w[q[4]]
  <2>1. w[q[1]] \in Int /\ w[q[2]] \in Int /\ w[q[3]] \in Int /\ w[q[4]] \in Int
    OBVIOUS
  <2> QED
    BY <1>8, <2>1
<1> QED
  BY <1>9 DEF S4

LEMMA SumOfSingle ==
  ASSUME NEW a, NEW w, w[a] \in Int
  PROVE  Sum(w, {a}) = w[a]
<1>1. IsFiniteSet({a})
  BY FS_Singleton
<1>2. Sum(w, {a}) = w[a] + Sum(w, {a} \ {a})
  BY <1>1, SumOfAny
<1>3. {a} \ {a} = {}
  OBVIOUS
<1>4. Sum(w, {a}) = w[a] + 0
  BY Zenon, <1>2, <1>3, SumOfNone
<1> QED
  BY <1>4

LEMMA TotalIsSum ==
  ASSUME NEW w
  PROVE  Total(w) = Sum(w, DOMAIN w)
BY Zenon DEF Total, Sum

LEMMA BothShareSpacings ==
  ASSUME NEW axes \in [1..2 -> Axes], NEW u, u[1] \in Int, u[2] \in Int,
         ~Beyond(u[1], Interior(axes[1])), ~Beyond(u[2], Interior(axes[2]))
  PROVE  LET both == Both(Linear(axes[1], u[1]), Linear(axes[2], u[2]))
         IN  /\ Total(both) = axes[1].spacing * axes[2].spacing
             /\ both # <<>>
             /\ \A pixel \in DOMAIN both : both[pixel] >= 0
<1> DEFINE w1 == Linear(axes[1], u[1])
           w2 == Linear(axes[2], u[2])
           both == Both(w1, w2)
<1>1. axes[1] \in Axes /\ axes[2] \in Axes
  OBVIOUS
<1>2. PICK i \in Int : /\ DOMAIN w1 = {i, i + 1} /\ w1[i] \in Nat /\ w1[i + 1] \in Nat
                       /\ w1[i] + w1[i + 1] = axes[1].spacing
  BY <1>1, LinearSharesSpacing
<1>3. PICK j \in Int : /\ DOMAIN w2 = {j, j + 1} /\ w2[j] \in Nat /\ w2[j + 1] \in Nat
                       /\ w2[j] + w2[j + 1] = axes[2].spacing
  BY <1>1, LinearSharesSpacing
<1> HIDE DEF w1, w2
<1>4. /\ DOMAIN both = {i, i + 1} \X {j, j + 1}
      /\ \A pixel \in {i, i + 1} \X {j, j + 1} :
           both[pixel] = w1[pixel[1]] * w2[pixel[2]]
  BY <1>2, <1>3 DEF Both
<1> DEFINE a == <<i, j>>
           b == <<i, j + 1>>
           c == <<i + 1, j>>
           d == <<i + 1, j + 1>>
           q == <<a, b, c, d>>
<1>5. {i, i + 1} \X {j, j + 1} = {a, b, c, d}
  OBVIOUS
<1>6. i # i + 1 /\ j # j + 1
  OBVIOUS
<1>7. a # b /\ a # c /\ a # d /\ b # c /\ b # d /\ c # d
  BY <1>6
<1>8. /\ both[a] = w1[i] * w2[j] /\ both[b] = w1[i] * w2[j + 1]
      /\ both[c] = w1[i + 1] * w2[j] /\ both[d] = w1[i + 1] * w2[j + 1]
  BY <1>4
<1>9. \A m \in Nat, n \in Nat : m * n \in Nat
  OBVIOUS
<1>10. both[a] \in Nat /\ both[b] \in Nat /\ both[c] \in Nat /\ both[d] \in Nat
  BY <1>2, <1>3, <1>8, <1>9
<1> HIDE DEF both, a, b, c, d
<1>11. Sum(both, {a, b, c, d}) = both[a] + both[b] + both[c] + both[d]
  <2>1. q[1] = a /\ q[2] = b /\ q[3] = c /\ q[4] = d
    OBVIOUS
  <2>2. \A k, l \in 1..4 : k # l => q[k] # q[l]
    BY <1>7, <2>1
  <2>3. \A k \in 1..4 : both[q[k]] \in Int
    BY <1>10, <2>1
  <2> HIDE DEF q
  <2>4. Sum(both, {q[1], q[2], q[3], q[4]})
          = both[q[1]] + both[q[2]] + both[q[3]] + both[q[4]]
    BY <2>2, <2>3, SumOfFour
  <2> QED
    BY Zenon, <2>1, <2>4
<1>12. Total(both) = Sum(both, {a, b, c, d})
  BY Zenon, <1>4, <1>5, TotalIsSum
<1>13. \A k, l, m, n \in Nat : k * m + k * n + l * m + l * n = (k + l) * (m + n)
  OBVIOUS
<1>14. Total(both) = w1[i] * w2[j] + w1[i] * w2[j + 1] + w1[i + 1] * w2[j]
                       + w1[i + 1] * w2[j + 1]
  BY Zenon, <1>8, <1>11, <1>12
<1>15. Total(both) = (w1[i] + w1[i + 1]) * (w2[j] + w2[j + 1])
  BY <1>2, <1>3, <1>13, <1>14
<1>16. Total(both) = axes[1].spacing * axes[2].spacing
  BY Zenon, <1>2, <1>3, <1>15
<1>17. a \in DOMAIN both
  BY <1>4, <1>5
<1>18. \A pixel \in DOMAIN both : both[pixel] >= 0
  BY <1>4, <1>5, <1>10
<1> QED
  BY <1>16, <1>17, <1>18 DEF both, w1, w2

LEMMA NearestHasSpacing ==
  ASSUME NEW axes \in [1..2 -> Axes], NEW u, u[1] \in Int, u[2] \in Int
  PROVE  LET both == Both(Nearest(axes[1], u[1]), Nearest(axes[2], u[2]))
         IN  /\ Total(both) = axes[1].spacing * axes[2].spacing
             /\ \A pixel \in DOMAIN both : both[pixel] >= 0
<1> DEFINE i(k) == (2 * (u[k] - axes[k].origin) + axes[k].spacing) \div (2 * axes[k].spacing)
           s(k) == axes[k].spacing
           w(k) == Nearest(axes[k], u[k])
           both == Both(w(1), w(2))
           q == <<i(1), i(2)>>
<1>1. s(1) \in Nat /\ s(2) \in Nat
  BY DEF Axes
<1>2. w(1) = [m \in {i(1)} |-> s(1)] /\ w(2) = [m \in {i(2)} |-> s(2)]
  BY DEF Nearest
<1> HIDE DEF i, s, w
<1>3. both = [n \in {i(1)} \X {i(2)} |-> s(1) * s(2)]
  BY <1>2 DEF Both
<1>4. {i(1)} \X {i(2)} = {q}
  OBVIOUS
<1>5. DOMAIN both = {q} /\ both[q] = s(1) * s(2)
  BY <1>3, <1>4
<1>6. s(1) * s(2) \in Nat
  BY <1>1
<1> HIDE DEF both, q
<1>7. Sum(both, {q}) = both[q]
  BY <1>5, <1>6, SumOfSingle
<1>8. Total(both) = s(1) * s(2)
  BY Zenon, <1>5, <1>7, TotalIsSum
<1>9. \A n \in DOMAIN both : both[n] >= 0
  BY <1>5, <1>6
<1> QED
  BY <1>8, <1>9 DEF both, s, w

LEMMA InteriorIsWithin ==
  ASSUME NEW axis \in Axes, NEW u \in Int, ~Beyond(u, Interior(axis))
  PROVE  ~Beyond(u, Exterior(axis))
<1>1. axis.n \in Nat \ {0} /\ axis.origin \in Int /\ axis.spacing \in Nat \ {0}
  BY DEF Axes
<1>2. PICK last \in Int : last = Position(axis, axis.n - 1)
  BY <1>1, PositionIsInt
<1>3. PICK half \in Nat : half = axis.spacing \div 2
  BY <1>1
<1>4. /\ Interior(axis) = <<axis.origin, last>>
      /\ Exterior(axis) = <<axis.origin - half, last + half>>
  BY <1>2, <1>3 DEF Interior, Exterior
<1>5. axis.origin < u /\ u < last
  BY <1>1, <1>4 DEF Beyond
<1> QED
  BY <1>1, <1>4, <1>5 DEF Beyond

LEMMA InterpolatesWhole ==
  ASSUME NEW method \in Methods, NEW axes \in [1..2 -> Axes],
         NEW u, u[1] \in Int, u[2] \in Int,
         ~Beyond(u[1], IF method = "Bilinear" THEN Interior(axes[1]) ELSE Exterior(axes[1])),
         ~Beyond(u[2], Interior(axes[2]))
  PROVE  /\ Total(Interpolate(method, axes, u)) = axes[1].spacing * axes[2].spacing
         /\ \A pixel \in DOMAIN Interpolate(method, axes, u) :
              Interpolate(method, axes, u)[pixel] >= 0
<1> DEFINE near == Both(Nearest(axes[1], u[1]), Nearest(axes[2], u[2]))
           lin  == Both(Linear(axes[1], u[1]), Linear(axes[2], u[2]))
           outside == \E b \in 1..2 : Beyond(u[b], Exterior(axes[b]))
           atEdge == \E b \in 1..2 : Beyond(u[b], Interior(axes[b]))
           nearest == IF outside THEN <<>> ELSE near
           bilinear == IF atEdge THEN <<>> ELSE lin
<1>1. axes[1] \in Axes /\ axes[2] \in Axes
  OBVIOUS
<1>2. ~Beyond(u[2], Exterior(axes[2]))
  BY <1>1, InteriorIsWithin
<1>3. /\ Total(near) = axes[1].spacing * axes[2].spacing
      /\ \A pixel \in DOMAIN near : near[pixel] >= 0
  BY NearestHasSpacing
<1>4. ASSUME ~atEdge
      PROVE  /\ Total(lin) = axes[1].spacing * axes[2].spacing /\ lin # <<>>
             /\ \A pixel \in DOMAIN lin : lin[pixel] >= 0
  <2>1. ~Beyond(u[1], Interior(axes[1])) /\ ~Beyond(u[2], Interior(axes[2]))
    BY <1>4
  <2> HIDE DEF atEdge
  <2> QED
    BY <2>1, BothShareSpacings
<1>5. method = "Bilinear" => ~atEdge
  OBVIOUS
<1>6. method # "Bilinear" => ~outside
  BY <1>2
<1>7. /\ method = "NearestNeighbor" => Interpolate(method, axes, u) = nearest
      /\ method = "Bilinear" => Interpolate(method, axes, u) = bilinear
      /\ method = "BilinearWithFallback" =>
           Interpolate(method, axes, u) = IF bilinear = <<>> THEN nearest ELSE bilinear
  BY DEF Interpolate
<1> HIDE DEF near, lin, outside, atEdge
<1>8. method \in {"NearestNeighbor", "Bilinear", "BilinearWithFallback"}
  BY DEF Methods
<1>9. \/ Interpolate(method, axes, u) = near
      \/ ~atEdge /\ Interpolate(method, axes, u) = lin
  BY <1>4, <1>5, <1>6, <1>7, <1>8
<1> QED
  BY <1>3, <1>4, <1>9

LEMMA ScaledInterior ==
  ASSUME NEW axis \in Axes, NEW by \in Nat \ {0}, NEW x \in Int,
         NEW strictly \in BOOLEAN,
         LET seen == IF strictly THEN Interior(axis) ELSE Exterior(axis)
         IN  seen[1] < x /\ x < seen[2]
  PROVE  LET scaled == Scaled(axis, by)
             seen == IF strictly THEN Interior(scaled) ELSE Exterior(scaled)
         IN  ~Beyond(x * by, seen)
<1>1. axis.n \in Nat \ {0} /\ axis.origin \in Int /\ axis.spacing \in Nat \ {0}
  BY DEF Axes
<1> DEFINE scaled == Scaled(axis, by)
<1>2. PICK last \in Int : last = Position(axis, axis.n - 1)
  BY <1>1, PositionIsInt
<1>3. PICK half \in Nat : half = axis.spacing \div 2 /\ 2 * half <= axis.spacing
  BY <1>1
<1>4. /\ Interior(axis) = <<axis.origin, last>>
      /\ Exterior(axis) = <<axis.origin - half, last + half>>
  BY <1>2, <1>3 DEF Interior, Exterior
<1>5. 0 \in Pixels(axis) /\ axis.n - 1 \in Pixels(axis)
  BY <1>1 DEF Pixels
<1>6. scaled.n = axis.n /\ scaled.origin = axis.origin * by
  BY <1>1 DEF Axes, Scaled
<1>7. Position(scaled, scaled.n - 1) = last * by
  BY <1>2, <1>5, <1>6, ScaledAxis
<1>8. PICK most \in Nat : most = scaled.spacing \div 2 /\ half * by <= most
  <2>1. scaled.spacing = axis.spacing * by
    BY ScaledAxis
  <2>2. PICK m \in Nat : m = axis.spacing * by
    BY <1>1
  <2>3. PICK k \in Nat : k = half * by
    BY <1>3
  <2>4. 2 * k <= m
    <3>1. (2 * half) * by <= axis.spacing * by
      BY <1>1, <1>3
    <3> QED
      BY <2>2, <2>3, <3>1
  <2>5. m \div 2 \in Nat /\ k <= m \div 2
    BY <2>4
  <2> QED
    BY <2>1, <2>2, <2>3, <2>5
<1>9. /\ Interior(scaled) = <<axis.origin * by, last * by>>
      /\ Exterior(scaled) = <<axis.origin * by - most, last * by + most>>
  BY <1>6, <1>7, <1>8 DEF Interior, Exterior
<1>10. \A a \in Int, b \in Int : a < b => a * by < b * by
  OBVIOUS
<1> HIDE DEF scaled
<1>11. CASE strictly
  <2>1. axis.origin < x /\ x < last
    BY <1>4, <1>11
  <2>2. axis.origin * by < x * by /\ x * by < last * by
    BY <1>1, <1>10, <2>1
  <2>3. axis.origin * by \in Int /\ x * by \in Int /\ last * by \in Int
    BY <1>1
  <2>4. ~Beyond(x * by, Interior(scaled))
    BY <1>9, <2>2, <2>3 DEF Beyond
  <2> QED
    BY <1>11, <2>4 DEF scaled
<1>12. CASE ~strictly
  <2>1. axis.origin - half < x /\ x < last + half
    BY <1>4, <1>12
  <2>2. (axis.origin - half) * by < x * by /\ x * by < (last + half) * by
    BY <1>1, <1>10, <2>1
  <2>3. axis.origin * by \in Int /\ x * by \in Int /\ last * by \in Int /\ half * by \in Int
    BY <1>1
  <2>4. /\ (axis.origin - half) * by = axis.origin * by - half * by
        /\ (last + half) * by = last * by + half * by
    BY <1>1
  <2>5. axis.origin * by - most < x * by /\ x * by < last * by + most
    BY <1>8, <2>2, <2>3, <2>4
  <2>6. ~Beyond(x * by, Exterior(scaled))
    BY <1>9, <2>3, <2>5 DEF Beyond
  <2> QED
    BY <1>12, <2>6 DEF scaled
<1> QED
  BY <1>11, <1>12

(* The angles that there are: a sine and a cosine of the same angle.        *)
UnitAngle == {angle \in AnyAngle :
            angle.cos * angle.cos + angle.sin * angle.sin = angle.unit * angle.unit}

LEMMA RadiusIs ==
  ASSUME NEW axis \in Axes
  PROVE  /\ Radius(axis) \in Int
         /\ Radius(axis) <= -Interior(axis)[1] /\ Radius(axis) <= Interior(axis)[2]
<1>1. axis.n \in Nat \ {0} /\ axis.origin \in Int
  BY DEF Axes
<1>2. PICK a \in Int, b \in Int : a = -Interior(axis)[1] /\ b = Interior(axis)[2]
  BY <1>1, PositionIsInt DEF Interior
<1>3. \E m \in {a, b} : \A k \in {a, b} : m <= k
  OBVIOUS
<1>4. Min({a, b}) \in {a, b} /\ \A k \in {a, b} : Min({a, b}) <= k
  BY <1>3 DEF Min
<1>5. Radius(axis) = Min({a, b})
  BY <1>2 DEF Radius
<1> QED
  BY <1>2, <1>4, <1>5

LEMMA WeightsAreWhole ==
  ASSUME NEW method \in Methods, NEW voxels \in [1..3 -> Axes],
         NEW projection \in [1..2 -> Axes], NEW angle \in UnitAngle,
         NEW v \in Pixels(voxels[1]) \X Pixels(voxels[2]) \X Pixels(voxels[3]),
         NEW at, at = [d \in 1..3 |-> Position(voxels[d], v[d])],
         Radius(projection[2]) > 0,
         at[2] * at[2] + at[3] * at[3] < Radius(projection[2]) * Radius(projection[2]),
         LET seen == IF method = "Bilinear" THEN Interior(projection[1])
                     ELSE Exterior(projection[1])
         IN  seen[1] < at[1] /\ at[1] < seen[2]
  PROVE  LET weights == WeightsOf(method, voxels, projection, angle)
         IN  /\ v \in DOMAIN weights
             /\ Total(weights[v]) = projection[1].spacing * projection[2].spacing
                                      * angle.unit * angle.unit
             /\ \A pixel \in DOMAIN weights[v] : weights[v][pixel] >= 0
<1> DEFINE R == Radius(projection[2])
           columns == projection[2]
           rows == projection[1]
           unit == angle.unit
           axes == [b \in 1..2 |-> Scaled(projection[b], unit)]
           u == Intersect(at, angle)
<1>1. /\ rows \in Axes /\ columns \in Axes
      /\ voxels[1] \in Axes /\ voxels[2] \in Axes /\ voxels[3] \in Axes
  OBVIOUS
<1>2. /\ unit \in Nat \ {0} /\ angle.cos \in Int /\ angle.sin \in Int
      /\ angle.cos * angle.cos + angle.sin * angle.sin = unit * unit
  BY DEF UnitAngle, AnyAngle
<1>3. /\ v[1] \in Pixels(voxels[1]) /\ v[2] \in Pixels(voxels[2]) /\ v[3] \in Pixels(voxels[3])
      /\ v = <<v[1], v[2], v[3]>>
  OBVIOUS
<1>4. /\ at[1] = Position(voxels[1], v[1]) /\ at[2] = Position(voxels[2], v[2])
      /\ at[3] = Position(voxels[3], v[3])
  OBVIOUS
<1>5. at[1] \in Int /\ at[2] \in Int /\ at[3] \in Int
  <2>1. v[1] \in Int /\ v[2] \in Int /\ v[3] \in Int
    BY <1>3 DEF Pixels
  <2> QED
    BY <1>1, <1>4, <2>1, PositionIsInt
<1>6. R \in Nat \ {0} /\ R <= -Interior(columns)[1] /\ R <= Interior(columns)[2]
  BY <1>1, RadiusIs
<1>7. /\ u[1] = at[1] * unit /\ u[2] = angle.cos * at[2] - angle.sin * at[3]
      /\ u[1] \in Int /\ u[2] \in Int
  <2>1. at[1] * unit \in Int /\ angle.cos * at[2] - angle.sin * at[3] \in Int
    BY <1>2, <1>5
  <2> QED
    BY <2>1 DEF Intersect
<1> DEFINE strictly == method = "Bilinear"
           seen == IF strictly THEN Interior(rows) ELSE Exterior(rows)
<1>8. seen[1] < at[1] /\ at[1] < seen[2]
  OBVIOUS
<1>9. ~Beyond(at[1], Exterior(rows))
  <2>1. CASE strictly
    <3>1. ~Beyond(at[1], Interior(rows))
      <4>1. Interior(rows)[1] < at[1] /\ at[1] < Interior(rows)[2]
        BY <1>8, <2>1
      <4>2. Interior(rows)[1] \in Int /\ Interior(rows)[2] \in Int
        BY <1>1, PositionIsInt DEF Interior, Axes
      <4> QED
        BY <1>5, <4>1, <4>2 DEF Beyond
    <3> QED
      BY <1>1, <1>5, <3>1, InteriorIsWithin
  <2>2. CASE ~strictly
    <3>1. Exterior(rows)[1] < at[1] /\ at[1] < Exterior(rows)[2]
      BY <1>8, <2>2
    <3>2. Exterior(rows)[1] \in Int /\ Exterior(rows)[2] \in Int
      <4>1. rows.origin \in Int /\ rows.spacing \div 2 \in Int /\ rows.n - 1 \in Int
        BY <1>1 DEF Axes
      <4>2. Position(rows, rows.n - 1) \in Int
        BY <1>1, <4>1, PositionIsInt
      <4> QED
        BY <4>1, <4>2 DEF Exterior
    <3> QED
      BY <1>5, <3>1, <3>2 DEF Beyond
  <2> QED
    BY <2>1, <2>2
<1> HIDE DEF u, R, seen
<1>10. v \in Scanned(voxels, projection)
  <2>1. v[1] \in SlicesInView(voxels[1], rows)
    BY <1>3, <1>4, <1>9 DEF SlicesInView
  <2> DEFINE chord2 == Chord2(voxels[2], v[2], columns)
  <2>2. chord2 = R * R - at[2] * at[2]
    BY <1>4 DEF Chord2, R
  <2>3. at[2] * at[2] \in Int /\ at[3] * at[3] \in Nat /\ R * R \in Int
    <3>1. \A a \in Int : a * a \in Nat
      OBVIOUS
    <3> QED
      BY <1>5, <1>6, <3>1
  <2>4. at[2] * at[2] + at[3] * at[3] < R * R
    BY DEF R
  <2> HIDE DEF chord2
  <2>5. chord2 > 0 /\ chord2 \in Int /\ at[3] * at[3] < chord2
    BY <2>2, <2>3, <2>4
  <2>6. v[3] \in Row(voxels[3], chord2)
    BY <1>1, <1>3, <1>4, <2>5, RowHasChord
  <2> QED
    BY <1>3, <2>1, <2>5, <2>6 DEF Scanned, chord2
<1>11. axes \in [1..2 -> Axes]
  BY <1>2, ScaledAxis
<1>12. /\ axes[1] = Scaled(rows, unit) /\ axes[2] = Scaled(columns, unit)
  OBVIOUS
<1> HIDE DEF axes
<1>13. ~Beyond(u[1], IF method = "Bilinear" THEN Interior(axes[1]) ELSE Exterior(axes[1]))
  <2>1. strictly \in BOOLEAN
    OBVIOUS
  <2>2. /\ (IF strictly THEN Interior(rows) ELSE Exterior(rows))[1] < at[1]
        /\ at[1] < (IF strictly THEN Interior(rows) ELSE Exterior(rows))[2]
    BY <1>8 DEF seen
  <2>3. ~Beyond(at[1] * unit, IF strictly THEN Interior(axes[1]) ELSE Exterior(axes[1]))
    BY <1>1, <1>2, <1>5, <1>12, <2>1, <2>2, ScaledInterior
  <2> QED
    BY Zenon, <1>7, <2>3
<1>14. ~Beyond(u[2], Interior(axes[2]))
  <2>1. u[2] < R * unit /\ -(R * unit) < u[2]
    <3>1. at[2] * at[2] + at[3] * at[3] < R * R
      BY DEF R
    <3>2. R \in Nat
      BY <1>6
    <3>3. /\ angle.cos * at[2] - angle.sin * at[3] < R * unit
          /\ -(R * unit) < angle.cos * at[2] - angle.sin * at[3]
      BY <1>2, <1>5, <3>1, <3>2, TurnedIsWithin
    <3> QED
      BY <1>7, <3>3
  <2>2. columns.n \in Nat \ {0} /\ columns.origin \in Int
    BY <1>1 DEF Axes
  <2>3. PICK last \in Int : last = Position(columns, columns.n - 1)
    BY <1>1, <2>2, PositionIsInt
  <2>4. Interior(columns) = <<columns.origin, last>>
    BY <2>3 DEF Interior
  <2>5. Interior(axes[2]) = <<columns.origin * unit, last * unit>>
    <3>1. axes[2].n = columns.n /\ axes[2].origin = columns.origin * unit
      BY <1>1, <1>12 DEF Axes, Scaled
    <3>2. columns.n - 1 \in Pixels(columns)
      BY <2>2 DEF Pixels
    <3>3. Position(axes[2], columns.n - 1) = last * unit
      <4>1. Position(Scaled(columns, unit), columns.n - 1)
              = Position(columns, columns.n - 1) * unit
        BY <1>1, <1>2, <3>2, ScaledAxis
      <4> QED
        BY Zenon, <1>12, <2>3, <4>1
    <3> QED
      BY <3>1, <3>3 DEF Interior
  <2>6. R <= -columns.origin /\ R <= last
    BY <1>6, <2>4
  <2>7. \A a \in Int, b \in Int : a <= b => a * unit <= b * unit
    BY <1>2
  <2>8. R * unit <= (-columns.origin) * unit /\ R * unit <= last * unit
    BY <1>6, <2>2, <2>6, <2>7
  <2>9. /\ R * unit \in Int /\ last * unit \in Int /\ columns.origin * unit \in Int
        /\ (-columns.origin) * unit = -(columns.origin * unit)
    BY <1>2, <1>6, <2>2
  <2>10. columns.origin * unit < u[2] /\ u[2] < last * unit
    BY <1>7, <2>1, <2>8, <2>9
  <2> QED
    BY <1>7, <2>5, <2>9, <2>10 DEF Beyond
<1>15. /\ Total(Interpolate(method, axes, u)) = axes[1].spacing * axes[2].spacing
       /\ \A pixel \in DOMAIN Interpolate(method, axes, u) :
            Interpolate(method, axes, u)[pixel] >= 0
  BY <1>7, <1>11, <1>13, <1>14, InterpolatesWhole
<1>16. axes[1].spacing * axes[2].spacing = rows.spacing * columns.spacing * unit * unit
  <2>1. axes[1].spacing = rows.spacing * unit /\ axes[2].spacing = columns.spacing * unit
    BY <1>1, <1>2, <1>12, ScaledAxis
  <2>2. rows.spacing \in Int /\ columns.spacing \in Int
    BY <1>1 DEF Axes
  <2>3. \A a \in Int, b \in Int, c \in Int : (a * c) * (b * c) = a * b * c * c
    OBVIOUS
  <2> QED
    BY <1>2, <2>1, <2>2, <2>3
<1>17. WeightsOf(method, voxels, projection, angle)[v] = Interpolate(method, axes, u)
  BY <1>10 DEF WeightsOf, axes, u
<1>18. v \in DOMAIN WeightsOf(method, voxels, projection, angle)
  BY <1>10 DEF WeightsOf
<1> QED
  BY <1>15, <1>16, <1>17, <1>18

(* Whatever is applied at any such angle.                                   *)
BackProjectsTurned ==
  \E method \in Methods, voxels \in [1..3 -> Axes], projection \in [1..2 -> Axes],
     angle \in UnitAngle :
    Called([name |-> "apply", method |-> method, volume |-> voxels,
            projection |-> projection, angle |-> angle],
           WeightsOf(method, voxels, projection, angle))

TurnedSpec == CallsInit /\ [][BackProjectsTurned]_<<call, result>>

(* ApplyProjection: a voxel within the cylinder that is scanned, in a row   *)
(* that the projection reaches, is given pixels with weights that are never *)
(* negative and add up to one pixel, whatever the method, the volume, the   *)
(* projection and the angle. No voxel comes out darker for where it lies.   *)
THEOREM AnyVoxelHasItsWeight == TurnedSpec => []WeightsAreUniform
<1>1. CallsInit => WeightsAreUniform
  BY DEF CallsInit, NoCall, WeightsAreUniform
<1>2. ASSUME WeightsAreUniform, UNCHANGED <<call, result>>
      PROVE  WeightsAreUniform'
  BY <1>2 DEF WeightsAreUniform, PlaceOf
<1>3. ASSUME BackProjectsTurned
      PROVE  WeightsAreUniform'
  <2>1. PICK method \in Methods, voxels \in [1..3 -> Axes],
             projection \in [1..2 -> Axes], angle \in UnitAngle :
          /\ call' = [name |-> "apply", method |-> method, volume |-> voxels,
                      projection |-> projection, angle |-> angle]
          /\ result' = WeightsOf(method, voxels, projection, angle)
    BY <1>3 DEF BackProjectsTurned, Called
  <2>2. /\ call'.method = method /\ call'.volume = voxels
        /\ call'.projection = projection /\ call'.angle = angle
    BY <2>1
  <2> DEFINE place(v) == [d \in 1..3 |-> Position(voxels[d], v[d])]
             seen == IF method = "Bilinear" THEN Interior(projection[1])
                     ELSE Exterior(projection[1])
             R == Radius(projection[2])
             whole == projection[1].spacing * projection[2].spacing
                        * angle.unit * angle.unit
             weights == WeightsOf(method, voxels, projection, angle)
  <2>3. ASSUME NEW v \in Pixels(voxels[1]) \X Pixels(voxels[2]) \X Pixels(voxels[3]),
               R > 0, place(v)[2] * place(v)[2] + place(v)[3] * place(v)[3] < R * R,
               seen[1] < place(v)[1], place(v)[1] < seen[2]
        PROVE  /\ v \in DOMAIN weights /\ Total(weights[v]) = whole
               /\ \A pixel \in DOMAIN weights[v] : weights[v][pixel] >= 0
    <3>1. PICK at : at = place(v)
      OBVIOUS
    <3>2. R > 0 /\ at[2] * at[2] + at[3] * at[3] < R * R /\ seen[1] < at[1] /\ at[1] < seen[2]
      BY Zenon, <2>3, <3>1
    <3> QED
      BY <3>1, <3>2, WeightsAreWhole
  <2> HIDE DEF place, seen, R, whole, weights
  <2>4. R > 0 =>
          \A v \in Pixels(voxels[1]) \X Pixels(voxels[2]) \X Pixels(voxels[3]) :
            /\ place(v)[2] * place(v)[2] + place(v)[3] * place(v)[3] < R * R
            /\ seen[1] < place(v)[1] /\ place(v)[1] < seen[2]
            => /\ v \in DOMAIN weights /\ Total(weights[v]) = whole
               /\ \A pixel \in DOMAIN weights[v] : weights[v][pixel] >= 0
    BY <2>3
  <2>5. \A v : PlaceOf(v)' = place(v)
    BY Zenon, <2>2 DEF PlaceOf, place
  <2>6. /\ call'.projection[1].spacing * call'.projection[2].spacing
             * call'.angle.unit * call'.angle.unit = whole
        /\ (IF call'.method = "Bilinear" THEN Interior(call'.projection[1])
            ELSE Exterior(call'.projection[1])) = seen
        /\ Radius(call'.projection[2]) = R /\ result' = weights
        /\ Pixels(call'.volume[1]) \X Pixels(call'.volume[2]) \X Pixels(call'.volume[3])
             = Pixels(voxels[1]) \X Pixels(voxels[2]) \X Pixels(voxels[3])
    BY Zenon, <2>1, <2>2 DEF whole, seen, R, weights
  <2> QED
    BY Zenon, <2>4, <2>5, <2>6 DEF WeightsAreUniform
<1> QED
  BY <1>1, <1>2, <1>3, PTL DEF TurnedSpec

(* The places and angles that are checked are among them.                  *)
LEMMA PlacesAreAny ==
  BackProjects => BackProjectsTurned
<1>1. Angles \subseteq UnitAngle
  BY DEF Angles, UnitAngle, AnyAngle
<1>2. \A n \in {2, 3, 4}, o \in {-5, -4, -3, -2, -1, 0, 1}, w \in {2, 3} :
        Axis(n, o, w) \in Axes
  BY DEF Axis, Axes
<1>3. Volumes \subseteq [1..3 -> Axes]
  BY <1>2 DEF Volumes
<1>4. Projections \subseteq [1..2 -> Axes]
  BY <1>2 DEF Projections
<1> QED
  BY <1>1, <1>3, <1>4 DEF BackProjects, BackProjectsTurned

-----------------------------------------------------------------------------
(* Beam power: the calibration fields of a scan whose beam decays evenly    *)

LEMMA ExactDivision ==
  ASSUME NEW a \in Int, NEW b \in Nat \ {0}
  PROVE  (a * b) \div b = a /\ (b * a) \div b = a
<1>1. PICK m \in Int : m = a * b /\ m = b * a
  OBVIOUS
<1>2. PICK q \in Int, r \in 0..b - 1 : m = b * q + r /\ m \div b = q
  BY <1>1, Division
<1>3. b * (a - q) = r
  BY <1>1, <1>2
<1>4. a - q < 1 /\ a - q > -1
  BY <1>2, <1>3
<1> QED
  BY <1>1, <1>2, <1>4

(* The function that a sum is defined by gives it.                          *)
LEMMA SumFrom ==
  ASSUME NEW w, NEW S, IsFiniteSet(S), NEW g, Adds(g, w, S)
  PROVE  g[S] = Sum(w, S)
<1> DEFINE f == CHOOSE f : Adds(f, w, S)
<1>1. Adds(f, w, S)
  BY AddsExists
<1>2. Sum(w, S) = f[S]
  BY SumIs
<1> HIDE DEF f
<1>3. f[S] = g[S]
  BY <1>1, AddsAlike
<1> QED
  BY <1>2, <1>3

SumThrough(layers, pixel, S) == MapThenSumSet(LAMBDA k : layers[k][pixel], S)

LEMMA SumOfLayers ==
  ASSUME NEW layers, NEW pixel, NEW S, IsFiniteSet(S),
         NEW w, \A k \in S : w[k] = layers[k][pixel]
  PROVE  SumThrough(layers, pixel, S) = Sum(w, S)
<1> DEFINE F(f) == [s \in SUBSET S |-> IF s = {} THEN 0
                      ELSE layers[AnyOf(s)][pixel] + f[s \ {AnyOf(s)}]]
           g == CHOOSE f : f = F(f)
<1>1. SumThrough(layers, pixel, S) = g[S]
  BY Zenon DEF SumThrough, MapThenSumSet, MapThenFoldSet, AnyOf
<1>2. ASSUME NEW f PROVE f = F(f) <=> Adds(f, w, S)
  <2> DEFINE G == [s \in SUBSET S |-> IF s = {} THEN 0
                     ELSE w[AnyOf(s)] + f[s \ {AnyOf(s)}]]
  <2>1. \A s \in SUBSET S : s # {} => AnyOf(s) \in S
    BY AnyOfIsIn
  <2>2. \A s \in SUBSET S : s # {} => w[AnyOf(s)] = layers[AnyOf(s)][pixel]
    BY <2>1
  <2>3. F(f) = G
    BY <2>2
  <2> QED
    BY <2>3 DEF Adds
<1> HIDE DEF F
<1>3. \E f : f = F(f)
  BY <1>2, AddsExists
<1>4. g = F(g)
  BY <1>3
<1> HIDE DEF g
<1> QED
  BY <1>1, <1>2, <1>4, SumFrom

LEMMA SumOfLine ==
  ASSUME NEW a \in Int, NEW b \in Int, NEW N \in Nat, NEW w,
         \A k \in 1..N : w[k] = a + 2 * b * k
  PROVE  Sum(w, 1..N) = N * (a + b * (N + 1))
<1> DEFINE T == {n \in 0..N : Sum(w, 1..n) # n * (a + b * (n + 1))}
<1>1. SUFFICES ASSUME T # {} PROVE FALSE
  <2>1. N \in 0..N
    OBVIOUS
  <2> QED
    BY <1>1, <2>1
<1>2. PICK n \in T : \A m \in T : n <= m
  <2>1. T \in SUBSET Nat
    OBVIOUS
  <2> HIDE DEF T
  <2> QED
    BY <1>1, <2>1, LeastNatural
<1>3. CASE n = 0
  <2>1. 1..n = {}
    BY <1>3
  <2>2. Sum(w, 1..n) = 0
    BY Zenon, <2>1, SumOfNone
  <2> QED
    BY <1>3, <2>2
<1>4. CASE n # 0
  <2>1. PICK m \in 0..N : n = m + 1
    BY <1>4
  <2>2. m \notin T
    BY <1>2, <2>1
  <2>3. Sum(w, 1..m) = m * (a + b * (m + 1))
    BY <2>2
  <2>4. (1..n) \ {n} = 1..m /\ n \in 1..n /\ n \in 1..N
    BY <2>1
  <2>5. IsFiniteSet(1..n)
    BY <2>1, FS_Interval
  <2>6. /\ \A k \in 1..n : w[k] = a + 2 * b * k
        /\ \A k \in Int : a + 2 * b * k \in Int
    OBVIOUS
  <2>7. \A k \in 1..n : w[k] \in Int
    BY <2>6
  <2>8. Sum(w, 1..n) = w[n] + Sum(w, (1..n) \ {n})
    BY <2>4, <2>5, <2>7, SumOfAny
  <2>9. Sum(w, 1..n) = (a + 2 * b * n) + m * (a + b * (m + 1))
    BY Zenon, <2>3, <2>4, <2>6, <2>8
  <2>10. \A k \in Int : (a + 2 * b * (k + 1)) + k * (a + b * (k + 1))
                          = (k + 1) * (a + b * ((k + 1) + 1))
    OBVIOUS
  <2> QED
    BY <2>1, <2>9, <2>10
<1> QED
  BY <1>3, <1>4

LEMMA MeanOfLine ==
  ASSUME NEW a \in Int, NEW b \in Int, NEW n \in Nat \ {0}, NEW w,
         \A k \in 1..n : w[k] = a + 2 * b * k
  PROVE  Sum(w, 1..n) \div n = a + b * (n + 1)
<1>1. n \in Nat
  OBVIOUS
<1>2. Sum(w, 1..n) = n * (a + b * (n + 1))
  BY Zenon, <1>1, SumOfLine
<1>3. a + b * (n + 1) \in Int
  OBVIOUS
<1> QED
  BY <1>2, <1>3, ExactDivision

(* A scan: any number of projections, bright fields and strides, and any    *)
(* even decay that leaves the beam on until the last projection; any pixels *)
(* bad, but not all.                                                        *)
AnyScan ==
  {s \in [decay : {2 * e : e \in Nat}, before : Nat \ {0}, after : Nat \ {0},
          stride : Nat \ {0}, reads : Nat \ {0, 1}, bad : (SUBSET Columns) \ {Columns},
          dark : Nat, single : BOOLEAN,
          option : {"Manual", "BeforeAndAfterBrightField",
                    "ConstantTotalAttenuation", "NullProjectionEdge"}] :
     s.decay * ((s.reads - 1) * s.stride) <= 992}

LEMMA ColumnsAre ==
  /\ Columns = {<<0, 0>>, <<0, 1>>, <<0, 2>>, <<0, 3>>}
  /\ IsFiniteSet(Columns) /\ Cardinality(Columns) = 4
<1>1. 0..3 = {0, 1, 2, 3}
  OBVIOUS
<1>2. Columns = {<<0, 0>>, <<0, 1>>, <<0, 2>>, <<0, 3>>}
  BY <1>1 DEF Columns
<1>3. /\ IsFiniteSet({<<0, 0>>}) /\ Cardinality({<<0, 0>>}) = 1
  BY FS_Singleton
<1> DEFINE A == {<<0, 0>>}
           B == A \cup {<<0, 1>>}
           C == B \cup {<<0, 2>>}
           D == C \cup {<<0, 3>>}
<1>4. /\ <<0, 1>> \notin A /\ <<0, 2>> \notin B /\ <<0, 3>> \notin C
      /\ Columns = D
  BY <1>2
<1> HIDE DEF A, B, C, D
<1>5. IsFiniteSet(A) /\ Cardinality(A) = 1
  BY <1>3 DEF A
<1>6. IsFiniteSet(B) /\ Cardinality(B) = 2
  <2>1. IsFiniteSet(A \cup {<<0, 1>>}) /\ Cardinality(A \cup {<<0, 1>>}) = Cardinality(A) + 1
    BY <1>4, <1>5, FS_AddElement
  <2> QED
    BY <1>5, <2>1 DEF B
<1>7. IsFiniteSet(C) /\ Cardinality(C) = 3
  <2>1. IsFiniteSet(B \cup {<<0, 2>>}) /\ Cardinality(B \cup {<<0, 2>>}) = Cardinality(B) + 1
    BY <1>4, <1>6, FS_AddElement
  <2> QED
    BY <1>6, <2>1 DEF C
<1>8. IsFiniteSet(D) /\ Cardinality(D) = 4
  <2>1. IsFiniteSet(C \cup {<<0, 3>>}) /\ Cardinality(C \cup {<<0, 3>>}) = Cardinality(C) + 1
    BY <1>4, <1>7, FS_AddElement
  <2> QED
    BY <1>7, <2>1 DEF D
<1> QED
  BY <1>2, <1>4, <1>8

LEMMA SumThroughIs ==
  ASSUME NEW layers, NEW c, NEW n \in Nat \ {0}
  PROVE  SumThrough(layers, c, 1..n) = Sum([k \in 1..n |-> layers[k][c]], 1..n)
<1> DEFINE w == [k \in 1..n |-> layers[k][c]]
<1>1. n \in Int /\ 1 \in Int
  OBVIOUS
<1>2. IsFiniteSet(1..n)
  BY <1>1, FS_Interval
<1>3. \A k \in 1..n : w[k] = layers[k][c]
  OBVIOUS
<1> HIDE DEF w
<1>4. SumThrough(layers, c, 1..n) = Sum(w, 1..n)
  BY <1>2, <1>3, SumOfLayers
<1> QED
  BY <1>4 DEF w

LEMMA SumThroughIsInt ==
  ASSUME NEW layers, NEW c, NEW n \in Nat \ {0}, \A k \in 1..n : layers[k][c] \in Int
  PROVE  SumThrough(layers, c, 1..n) \in Int
<1> DEFINE w == [k \in 1..n |-> layers[k][c]]
<1>1. n \in Int /\ 1 \in Int
  OBVIOUS
<1>2. IsFiniteSet(1..n)
  BY <1>1, FS_Interval
<1>3. \A k \in 1..n : w[k] \in Int
  OBVIOUS
<1>4. SumThrough(layers, c, 1..n) = Sum(w, 1..n)
  BY SumThroughIs
<1> HIDE DEF w
<1>5. Sum(w, 1..n) \in Int
  BY <1>2, <1>3, SumIsInt
<1> QED
  BY <1>4, <1>5

(* A file of n fields that change evenly outside some pixels.               *)
FieldOn(from, out, n, a, b) ==
  /\ from.ndims \in {2, 3} /\ (from.ndims = 2 => n = 1)
  /\ DOMAIN from.layers = 1..n /\ Len(from.layers) = n
  /\ DOMAIN from.layers[1] = Columns
  /\ \A k \in 1..n : \A c \in Columns : from.layers[k][c] \in Int
  /\ \A k \in 1..n : \A c \in Columns \ out : from.layers[k][c] = a + 2 * b * k

LEMMA StackMean ==
  ASSUME NEW from, NEW out, NEW n \in Nat \ {0}, NEW a \in Int, NEW b \in Int,
         FieldOn(from, out, n, a, b), NEW c \in Columns \ out
  PROVE  SumThrough(from.layers, c, 1..n) \div n = a + b * (n + 1)
<1> DEFINE layers == from.layers
           w == [k \in 1..n |-> layers[k][c]]
<1>1. \A k \in 1..n : w[k] = a + 2 * b * k
  BY DEF FieldOn
<1>2. SumThrough(layers, c, 1..n) = Sum(w, 1..n)
  BY SumThroughIs
<1> HIDE DEF w, layers
<1>3. Sum(w, 1..n) \div n = a + b * (n + 1)
  BY Zenon, <1>1, MeanOfLine
<1>4. SumThrough(layers, c, 1..n) \div n = a + b * (n + 1)
  BY Zenon, <1>2, <1>3
<1> QED
  BY <1>4 DEF layers

LEMMA FieldIs ==
  ASSUME NEW from, NEW out, NEW n \in Nat \ {0}, NEW a \in Int, NEW b \in Int,
         FieldOn(from, out, n, a, b)
  PROVE  /\ DOMAIN ReadField(from) = Columns /\ Interval(from) = n + 1
         /\ \A c \in Columns : ReadField(from)[c] \in Int
         /\ \A c \in Columns \ out : ReadField(from)[c] = a + b * (n + 1)
<1>1. Interval(from) = n + 1
  BY DEF Interval, FieldOn
<1>2. CASE from.ndims = 2
  <2>1. ReadField(from) = from.layers[1] /\ n = 1 /\ 1 \in 1..n
    BY <1>2 DEF ReadField, FieldOn
  <2>2. a + 2 * b * 1 = a + b * (1 + 1)
    OBVIOUS
  <2>3. \A c \in Columns \ out : from.layers[1][c] = a + 2 * b * 1
    BY <2>1 DEF FieldOn
  <2>4. \A c \in Columns \ out : ReadField(from)[c] = a + b * (n + 1)
    BY <2>1, <2>2, <2>3
  <2>5. /\ DOMAIN ReadField(from) = Columns
        /\ \A c \in Columns : ReadField(from)[c] \in Int
    BY <2>1 DEF FieldOn
  <2> QED
    BY <1>1, <2>4, <2>5
<1>3. CASE from.ndims = 3
  <2> DEFINE layers == from.layers
  <2>1. ReadField(from) = [c \in Columns |-> SumThrough(layers, c, 1..n) \div n]
    <3>1. ReadField(from) = ReadStackAndAverage(layers)
      BY <1>3 DEF ReadField
    <3>2. DOMAIN layers = 1..n /\ Len(layers) = n /\ DOMAIN layers[1] = Columns
      BY DEF FieldOn
    <3> HIDE DEF layers
    <3> QED
      BY Zenon, <3>1, <3>2 DEF ReadStackAndAverage, SumThrough
  <2>2. ASSUME NEW c \in Columns
        PROVE  ReadField(from)[c] \in Int
    <3>1. \A k \in 1..n : layers[k][c] \in Int
      BY DEF FieldOn
    <3> HIDE DEF layers
    <3>2. SumThrough(layers, c, 1..n) \in Int
      BY Zenon, <3>1, SumThroughIsInt
    <3> QED
      BY <2>1, <3>2
  <2>3. ASSUME NEW c \in Columns \ out
        PROVE  ReadField(from)[c] = a + b * (n + 1)
    <3>3. SumThrough(from.layers, c, 1..n) \div n = a + b * (n + 1)
      BY StackMean
    <3>1. SumThrough(layers, c, 1..n) \div n = a + b * (n + 1)
      BY Zenon, <3>3
    <3>2. ReadField(from)[c] = SumThrough(layers, c, 1..n) \div n
      BY <2>1
    <3> QED
      BY Zenon, <3>1, <3>2
  <2>4. DOMAIN ReadField(from) = Columns
    BY <2>1
  <2> QED
    BY <1>1, <2>2, <2>3, <2>4
<1> QED
  BY <1>2, <1>3 DEF FieldOn

(* A stack of n fields, the k-th at t + g * k.                              *)
StackAt(s, e, n, t, g, times) ==
  /\ s \in AnyScan /\ e \in Nat /\ s.decay = 2 * e
  /\ n \in Nat \ {0} /\ t \in Int /\ g \in Int
  /\ times = [k \in 1..n |-> t + g * k]

LEMMA StackIs ==
  ASSUME NEW s, NEW e, NEW n, NEW t, NEW g, NEW times, StackAt(s, e, n, t, g, times)
  PROVE  LET stack == Stack(s, times)
         IN  /\ stack # Missing /\ stack.ndims \in {2, 3} /\ (stack.ndims = 2 => n = 1)
             /\ DOMAIN stack.layers = 1..n /\ Len(stack.layers) = n
             /\ DOMAIN stack.layers[1] = Columns
             /\ \A k \in 1..n : \A c \in Columns : stack.layers[k][c] \in Int
             /\ \A k \in 1..n : \A c \in Columns \ s.bad :
                  stack.layers[k][c] = s.dark + Power(s, t + g * k)
<1> USE DEF StackAt
<1> DEFINE stack == Stack(s, times)
           layer(k) == [c \in Columns |->
                          s.dark + IF c \in s.bad THEN 3 * times[k] ELSE Power(s, times[k])]
           layers == [k \in 1..n |-> layer(k)]
<1>1. /\ s.dark \in Nat /\ s.single \in BOOLEAN /\ s.bad \subseteq Columns
  BY DEF AnyScan
<1>2. DOMAIN times = 1..n /\ Len(times) = n /\ \A k \in 1..n : times[k] = t + g * k
  <2>1. times \in Seq(Int)
    <3>1. \A k \in 1..n : t + g * k \in Int
      OBVIOUS
    <3> QED
      BY <3>1
  <2> QED
    BY <2>1
<1>3. stack = [ndims |-> IF n = 1 /\ s.single THEN 2 ELSE 3, layers |-> layers]
  BY Zenon, <1>2 DEF Stack
<1>4. stack.ndims \in {2, 3} /\ stack.layers = layers /\ stack # Missing
      /\ (stack.ndims = 2 => n = 1)
  <2>1. Missing.ndims = 0
    BY DEF Missing
  <2> HIDE DEF stack, layers
  <2> QED
    BY <1>3, <2>1
<1>5. /\ DOMAIN layers = 1..n /\ \A k \in 1..n : layers[k] = layer(k)
      /\ Len(layers) = n /\ layers[1] = layer(1) /\ DOMAIN layers[1] = Columns
  <2>1. n \in Nat /\ 1 \in 1..n
    OBVIOUS
  <2>2. layers \in Seq({layer(k) : k \in 1..n})
    <3> DEFINE R == {layer(k) : k \in 1..n}
    <3>1. \A k \in 1..n : layer(k) \in R
      OBVIOUS
    <3> HIDE DEF layer, R
    <3>2. layers \in Seq(R)
      BY <3>1
    <3> QED
      BY <3>2 DEF R
  <2>3. DOMAIN layer(1) = Columns
    OBVIOUS
  <2> HIDE DEF layer
  <2> QED
    BY <2>1, <2>2, <2>3
<1>6. \A u \in Int : Power(s, u) \in Int
  <2>1. \A u \in Int : 1000 - 2 * e * u \in Int
    OBVIOUS
  <2> QED
    BY <2>1 DEF Power
<1>7. ASSUME NEW k \in 1..n, NEW c \in Columns
      PROVE  /\ layers[k][c] \in Int
             /\ c \notin s.bad => layers[k][c] = s.dark + Power(s, t + g * k)
  <2>1. layers[k][c] = s.dark + IF c \in s.bad THEN 3 * times[k] ELSE Power(s, times[k])
    BY <1>5
  <2>2. PICK u \in Int : u = t + g * k /\ times[k] = u
    BY <1>2
  <2>3. Power(s, u) \in Int /\ 3 * u \in Int
    BY <1>6
  <2> HIDE DEF layers
  <2> QED
    BY <1>1, <2>1, <2>2, <2>3
<1> HIDE DEF layers, layer, stack
<1> QED
  BY <1>4, <1>5, <1>7 DEF stack

LEMMA PowerIsInt ==
  ASSUME NEW s \in AnyScan, NEW t \in Int
  PROVE  Power(s, t) \in Int
<1>1. s.decay \in Int
  BY DEF AnyScan
<1> QED
  BY <1>1 DEF Power

LEMMA PowerIs ==
  ASSUME NEW s, NEW e, NEW n, NEW t, NEW g, NEW times, StackAt(s, e, n, t, g, times),
         NEW k \in 1..n
  PROVE  s.dark + Power(s, t + g * k) = (s.dark + Power(s, t)) + 2 * (-(e * g)) * k
<1> USE DEF StackAt
<1>1. s.dark \in Int
  BY DEF AnyScan
<1>2. PICK v \in Int, w \in Int : v = 2 * e * t /\ w = 2 * (-(e * g)) * k
  OBVIOUS
<1>3. 2 * e * (t + g * k) = v - w
  <2>1. 2 * e * (t + g * k) = 2 * e * t - 2 * (-(e * g)) * k
    OBVIOUS
  <2> QED
    BY <1>2, <2>1
<1>4. Power(s, t) = 1000 - v /\ Power(s, t + g * k) = 1000 - (v - w)
  BY <1>2, <1>3 DEF Power
<1>5. \A d \in Int, x \in Int, y \in Int : d + (1000 - (x - y)) = (d + (1000 - x)) + y
  OBVIOUS
<1>6. s.dark + (1000 - (v - w)) = (s.dark + (1000 - v)) + w
  BY <1>1, <1>5
<1>7. 1000 - v \in Int
  OBVIOUS
<1> QED
  BY <1>2, <1>4, <1>6, <1>7

(* The bright fields before a scan and after it.                            *)
LEMMA StackOn ==
  ASSUME NEW s, NEW e, NEW n, NEW t, NEW g, NEW times, StackAt(s, e, n, t, g, times)
  PROVE  /\ Stack(s, times) # Missing
         /\ FieldOn(Stack(s, times), s.bad, n, s.dark + Power(s, t), -(e * g))
<1> DEFINE stack == Stack(s, times)
<1>1. /\ stack # Missing /\ stack.ndims \in {2, 3} /\ (stack.ndims = 2 => n = 1)
      /\ DOMAIN stack.layers = 1..n /\ Len(stack.layers) = n
      /\ DOMAIN stack.layers[1] = Columns
      /\ \A k \in 1..n : \A c \in Columns : stack.layers[k][c] \in Int
      /\ \A k \in 1..n : \A c \in Columns \ s.bad :
           stack.layers[k][c] = s.dark + Power(s, t + g * k)
  BY StackIs
<1> HIDE DEF stack
<1>2. \A k \in 1..n : s.dark + Power(s, t + g * k)
                        = (s.dark + Power(s, t)) + 2 * (-(e * g)) * k
  BY PowerIs
<1>3. \A k \in 1..n : \A c \in Columns \ s.bad :
        stack.layers[k][c] = (s.dark + Power(s, t)) + 2 * (-(e * g)) * k
  BY <1>1, <1>2
<1>4. FieldOn(stack, s.bad, n, s.dark + Power(s, t), -(e * g))
  BY <1>1, <1>3 DEF FieldOn
<1> QED
  BY <1>1, <1>4 DEF stack

LEMMA StackField ==
  ASSUME NEW s, NEW e, NEW n, NEW t, NEW g, NEW times, StackAt(s, e, n, t, g, times)
  PROVE  LET stack == Stack(s, times)
         IN  /\ stack # Missing /\ stack.ndims \in {2, 3}
             /\ DOMAIN stack.layers[1] = Columns
             /\ DOMAIN ReadField(stack) = Columns /\ Interval(stack) = n + 1
             /\ \A c \in Columns : ReadField(stack)[c] \in Int
             /\ \A c \in Columns \ s.bad :
                  ReadField(stack)[c] = (s.dark + Power(s, t)) + (-(e * g)) * (n + 1)
<1> DEFINE stack == Stack(s, times)
<1>1. PICK a \in Int : a = s.dark + Power(s, t)
  <2>1. s.dark \in Int /\ Power(s, t) \in Int
    <3>1. s \in AnyScan /\ t \in Int
      BY DEF StackAt
    <3>2. s.dark \in Int
      BY <3>1 DEF AnyScan
    <3> QED
      BY <3>1, <3>2, PowerIsInt
  <2> QED
    BY <2>1
<1>2. PICK b \in Int : b = -(e * g)
  BY DEF StackAt
<1>3. stack # Missing /\ FieldOn(stack, s.bad, n, a, b)
  BY <1>1, <1>2, StackOn
<1>6. n \in Nat \ {0}
  BY DEF StackAt
<1> HIDE DEF stack
<1>4. /\ DOMAIN ReadField(stack) = Columns /\ Interval(stack) = n + 1
      /\ \A c \in Columns : ReadField(stack)[c] \in Int
      /\ \A c \in Columns \ s.bad : ReadField(stack)[c] = a + b * (n + 1)
  BY <1>3, <1>6, FieldIs
<1>5. stack.ndims \in {2, 3} /\ DOMAIN stack.layers[1] = Columns
  BY <1>3 DEF FieldOn
<1> QED
  BY <1>1, <1>2, <1>3, <1>4, <1>5 DEF stack

LEMMA FieldsAre ==
  ASSUME NEW s \in AnyScan, NEW e \in Nat, s.decay = 2 * e
  PROVE  LET f == Fields(s)
         IN  /\ DOMAIN f.dark = Columns /\ DOMAIN f.flat = Columns
             /\ DOMAIN f.post = Columns
             /\ f.advance = s.before + 1 /\ f.after = s.after + 1
             /\ \A c \in Columns :
                  f.dark[c] = s.dark /\ f.flat[c] \in Int /\ f.post[c] \in Int
             /\ \A c \in Columns \ s.bad :
                  /\ f.flat[c] = Power(s, 0) + e * (s.before + 1)
                  /\ f.post[c] = Power(s, (s.reads - 1) * s.stride) - e * (s.after + 1)
<1>1. /\ s.before \in Nat \ {0} /\ s.after \in Nat \ {0} /\ s.dark \in Nat
      /\ s.reads \in Nat /\ s.stride \in Nat /\ s.bad \subseteq Columns
  BY DEF AnyScan
<1>2. PICK T \in Int : T = (s.reads - 1) * s.stride
  BY <1>1
<1> DEFINE darks == [ndims |-> 2, layers |-> <<[c \in Columns |-> s.dark]>>]
           beforeTimes == [k \in 1..s.before |-> -k]
           afterTimes == [k \in 1..s.after |-> T + k]
           bright == Stack(s, beforeTimes)
           post == Stack(s, afterTimes)
<1>3. Fields(s) = LoadCalibrationFields(darks, bright, post)
  BY Zenon, <1>2 DEF Fields
<1>4. /\ darks # Missing /\ darks.ndims = 2 /\ DOMAIN darks.layers[1] = Columns
      /\ ReadField(darks) = [c \in Columns |-> s.dark]
  BY DEF Missing, ReadField
<1>5. /\ bright # Missing /\ bright.ndims \in {2, 3}
      /\ DOMAIN bright.layers[1] = Columns
      /\ DOMAIN ReadField(bright) = Columns /\ Interval(bright) = s.before + 1
      /\ \A c \in Columns : ReadField(bright)[c] \in Int
      /\ \A c \in Columns \ s.bad :
           ReadField(bright)[c] = (s.dark + Power(s, 0)) + (-(e * (-1))) * (s.before + 1)
  <2>1. beforeTimes = [k \in 1..s.before |-> 0 + (-1) * k]
    BY <1>1
  <2> HIDE DEF beforeTimes
  <2>2. StackAt(s, e, s.before, 0, -1, beforeTimes)
    BY <1>1, <2>1 DEF StackAt
  <2> QED
    BY <2>2, StackField DEF bright
<1>6. /\ post # Missing /\ post.ndims \in {2, 3}
      /\ DOMAIN post.layers[1] = Columns
      /\ DOMAIN ReadField(post) = Columns /\ Interval(post) = s.after + 1
      /\ \A c \in Columns : ReadField(post)[c] \in Int
      /\ \A c \in Columns \ s.bad :
           ReadField(post)[c] = (s.dark + Power(s, T)) + (-(e * 1)) * (s.after + 1)
  <2>1. afterTimes = [k \in 1..s.after |-> T + 1 * k]
    BY <1>1
  <2> HIDE DEF afterTimes
  <2>2. StackAt(s, e, s.after, T, 1, afterTimes)
    BY <1>1, <2>1 DEF StackAt
  <2> QED
    BY <2>2, StackField DEF post
<1> HIDE DEF darks, beforeTimes, afterTimes, bright, post
<1>7. Fields(s) = [dark    |-> ReadField(darks),
                   flat    |-> Minus(ReadField(bright), ReadField(darks)),
                   post    |-> Minus(ReadField(post), ReadField(darks)),
                   advance |-> Interval(bright), after |-> Interval(post)]
  <2>1. {f \in {darks, bright, post} : f # Missing} = {darks, bright, post}
    BY <1>4, <1>5, <1>6
  <2> DEFINE given == {f \in {darks, bright, post} : f # Missing}
  <2>2. /\ Missing \notin {darks, bright}
        /\ \A f \in given : f.ndims \in {2, 3}
        /\ \A f \in given : DOMAIN f.layers[1] = DOMAIN darks.layers[1]
    BY <1>4, <1>5, <1>6, <2>1
  <2>3. post # Missing
    BY <1>6
  <2> HIDE DEF given
  <2> QED
    BY <1>3, <2>2, <2>3 DEF LoadCalibrationFields, given
<1>8. /\ Fields(s).dark = [c \in Columns |-> s.dark]
      /\ Fields(s).flat = [c \in Columns |-> ReadField(bright)[c] - s.dark]
      /\ Fields(s).post = [c \in Columns |-> ReadField(post)[c] - s.dark]
      /\ Fields(s).advance = s.before + 1 /\ Fields(s).after = s.after + 1
  <2>1. /\ Fields(s).dark = ReadField(darks)
        /\ Fields(s).flat = Minus(ReadField(bright), ReadField(darks))
        /\ Fields(s).post = Minus(ReadField(post), ReadField(darks))
        /\ Fields(s).advance = Interval(bright) /\ Fields(s).after = Interval(post)
    BY <1>7
  <2> QED
    BY <1>4, <1>5, <1>6, <2>1 DEF Minus
<1>9. PICK p0 \in Int, pT \in Int : p0 = Power(s, 0) /\ pT = Power(s, T)
  BY <1>2, PowerIsInt
<1>10. \A c \in Columns \ s.bad :
         /\ Fields(s).flat[c] = p0 + e * (s.before + 1)
         /\ Fields(s).post[c] = pT - e * (s.after + 1)
  <2>1. /\ \A x \in Int : ((s.dark + p0) + (-(e * (-1))) * (x + 1)) - s.dark = p0 + e * (x + 1)
        /\ \A x \in Int : ((s.dark + pT) + (-(e * 1)) * (x + 1)) - s.dark = pT - e * (x + 1)
    BY <1>1
  <2>2. ASSUME NEW c \in Columns \ s.bad
        PROVE  /\ Fields(s).flat[c] = p0 + e * (s.before + 1)
               /\ Fields(s).post[c] = pT - e * (s.after + 1)
    <3>1. /\ Fields(s).flat[c] = ReadField(bright)[c] - s.dark
          /\ Fields(s).post[c] = ReadField(post)[c] - s.dark
      BY <1>8
    <3>2. /\ ReadField(bright)[c] = (s.dark + p0) + (-(e * (-1))) * (s.before + 1)
          /\ ReadField(post)[c] = (s.dark + pT) + (-(e * 1)) * (s.after + 1)
      BY <1>5, <1>6, <1>9
    <3>3. s.before \in Int /\ s.after \in Int
      BY <1>1
    <3>4. /\ ((s.dark + p0) + (-(e * (-1))) * (s.before + 1)) - s.dark = p0 + e * (s.before + 1)
          /\ ((s.dark + pT) + (-(e * 1)) * (s.after + 1)) - s.dark = pT - e * (s.after + 1)
      BY Zenon, <2>1, <3>3
    <3> QED
      <4> DEFINE u == (s.dark + p0) + (-(e * (-1))) * (s.before + 1)
                 v == (s.dark + pT) + (-(e * 1)) * (s.after + 1)
      <4>1. /\ ReadField(bright)[c] = u /\ ReadField(post)[c] = v
        BY Zenon, <3>2
      <4>2. /\ u - s.dark = p0 + e * (s.before + 1)
            /\ v - s.dark = pT - e * (s.after + 1)
        BY Zenon, <3>4
      <4> HIDE DEF u, v
      <4> QED
        BY Zenon, <3>1, <4>1, <4>2
  <2> QED
    BY <2>2
<1>11. \A c \in Columns : Fields(s).dark[c] = s.dark
                          /\ Fields(s).flat[c] \in Int /\ Fields(s).post[c] \in Int
  BY <1>1, <1>5, <1>6, <1>8
<1>12. /\ DOMAIN Fields(s).dark = Columns /\ DOMAIN Fields(s).flat = Columns
       /\ DOMAIN Fields(s).post = Columns
  BY <1>8
<1> QED
  BY Zenon, <1>2, <1>8, <1>9, <1>10, <1>11, <1>12

-----------------------------------------------------------------------------
(* What is estimated from the fields                                        *)

(* The good pixels' mean difference, and the terms that are found from it.  *)
LEMMA MeanDifference ==
  ASSUME NEW u, NEW v, NEW S, IsFiniteSet(S), S # {}, NEW x \in Int, NEW y \in Int,
         \A c \in S : u[c] = x /\ v[c] = y
  PROVE  Log(Sum(u, S), Sum(v, S)) \div Cardinality(S) = x - y
<1>1. Sum(u, S) = Cardinality(S) * x
  BY SumOfEqual
<1>2. Sum(v, S) = Cardinality(S) * y
  BY SumOfEqual
<1>3. Cardinality(S) \in Nat \ {0}
  BY FS_CardinalityType, FS_EmptySet
<1>4. PICK n \in Nat \ {0} : n = Cardinality(S)
  BY <1>3
<1>5. n * x - n * y = n * (x - y)
  OBVIOUS
<1>6. (n * (x - y)) \div n = x - y
  BY ExactDivision
<1> QED
  BY <1>1, <1>2, <1>4, <1>5, <1>6 DEF Log

LEMMA TermsFound ==
  ASSUME NEW e \in Nat, NEW stride \in Nat \ {0}, NEW before \in Nat \ {0},
         NEW halves \in Nat \ {0}
  PROVE  /\ (2 * stride * (e * halves)) \div halves = stride * (2 * e)
         /\ ((before + 1) * (stride * (2 * e))) \div (2 * stride)
              = (2 * e * (before + 1)) \div 2
<1>1. PICK twice \in Nat \ {0} : twice = 2 * stride
  OBVIOUS
<1>2. PICK line \in Nat : line = twice * e
  BY <1>1
<1>3. twice * (e * halves) = line * halves
  BY <1>1, <1>2
<1>4. (2 * stride * (e * halves)) \div halves = line
  <2>1. 2 * stride * (e * halves) = line * halves
    BY <1>1, <1>3
  <2>2. (line * halves) \div halves = line
    BY <1>2, ExactDivision
  <2> QED
    BY <2>1, <2>2
<1>5. line = stride * (2 * e)
  BY <1>1, <1>2
<1>6. (before + 1) * line = twice * ((before + 1) * e)
  BY <1>1, <1>2
<1>7. (before + 1) * e \in Int
  OBVIOUS
<1>8. (twice * ((before + 1) * e)) \div twice = (before + 1) * e
  BY <1>1, <1>7, ExactDivision
<1>9. (2 * e * (before + 1)) \div 2 = (before + 1) * e
  <2>1. 2 * e * (before + 1) = 2 * ((before + 1) * e)
    OBVIOUS
  <2>2. (2 * ((before + 1) * e)) \div 2 = (before + 1) * e
    BY <1>7, ExactDivision
  <2> QED
    BY <2>1, <2>2
<1> QED
  BY <1>1, <1>4, <1>5, <1>6, <1>8, <1>9

LEMMA EstimateIs ==
  ASSUME NEW s \in AnyScan, NEW e \in Nat, s.decay = 2 * e
  PROVE  BeforeAndAfter(Fields(s), s.reads, s.stride, s.bad)
           = [constant |-> Terms(s).constant, linear |-> s.stride * Terms(s).linear]
<1>1. /\ s.before \in Nat \ {0} /\ s.after \in Nat \ {0}
      /\ s.reads \in Nat \ {0, 1} /\ s.stride \in Nat \ {0}
      /\ s.bad \in SUBSET Columns /\ s.bad # Columns
  <2>1. /\ s.before \in Nat \ {0} /\ s.after \in Nat \ {0}
        /\ s.reads \in Nat \ {0, 1} /\ s.stride \in Nat \ {0}
    BY DEF AnyScan
  <2>2. s.bad \in (SUBSET Columns) \ {Columns}
    BY DEF AnyScan
  <2> QED
    BY <2>1, <2>2
<1>2. PICK r \in Nat \ {0, 1}, stride \in Nat \ {0}, before \in Nat \ {0},
           after \in Nat \ {0} :
        r = s.reads /\ stride = s.stride /\ before = s.before /\ after = s.after
  BY <1>1
<1>3. PICK T \in Nat : T = (r - 1) * stride
  <2>1. r - 1 \in Nat
    OBVIOUS
  <2> QED
    BY <2>1
<1>4. PICK halves \in Nat \ {0} : halves = 2 * T + (before + 1) + (after + 1)
  OBVIOUS
<1> DEFINE f == Fields(s)
           good == Columns \ s.bad
<1>5. /\ DOMAIN f.flat = Columns
      /\ f.advance = before + 1 /\ f.after = after + 1
      /\ \A c \in Columns \ s.bad :
           /\ f.flat[c] = Power(s, 0) + e * (before + 1)
           /\ f.post[c] = Power(s, T) - e * (after + 1)
  BY Zenon, <1>2, <1>3, FieldsAre
<1>6. IsFiniteSet(good) /\ good # {}
  BY <1>1, ColumnsAre, FS_Subset
<1>7. PICK p0 \in Int, pT \in Int : p0 = Power(s, 0) /\ pT = Power(s, T)
  BY PowerIsInt
<1>8. pT = p0 - 2 * (e * T)
  <2>1. Power(s, 0) = 1000 - 2 * e * 0 /\ Power(s, T) = 1000 - 2 * e * T
    BY DEF Power
  <2> QED
    BY <1>7, <2>1
<1>9. PICK x \in Int, y \in Int : x = p0 + e * (before + 1) /\ y = pT - e * (after + 1)
  OBVIOUS
<1>10. x - y = e * halves
  BY <1>4, <1>8, <1>9
<1> HIDE DEF f, good
<1>11. \A c \in good : f.flat[c] = x /\ f.post[c] = y
  BY Zenon, <1>5, <1>7, <1>9 DEF good
<1>12. Log(Sum(f.flat, good), Sum(f.post, good)) \div Cardinality(good) = x - y
  <2> DEFINE u == f.flat
             v == f.post
  <2>1. \A c \in good : u[c] = x /\ v[c] = y
    BY <1>11
  <2> HIDE DEF u, v
  <2>2. Log(Sum(u, good), Sum(v, good)) \div Cardinality(good) = x - y
    BY <1>6, <2>1, MeanDifference
  <2> QED
    BY Zenon, <2>2 DEF u, v
<1>13. 2 * (r - 1) * stride + f.advance + f.after = halves
  BY <1>3, <1>4, <1>5
<1> DEFINE linear == (2 * stride * (e * halves)) \div halves
           constant == ((before + 1) * linear) \div (2 * stride)
<1>14. DOMAIN f.flat \ s.bad = good
  BY <1>5 DEF good
<1>15. BeforeAndAfter(f, r, stride, s.bad) = [linear |-> linear, constant |-> constant]
  BY Zenon, <1>5, <1>10, <1>12, <1>13, <1>14 DEF BeforeAndAfter
<1>16. linear = stride * (2 * e) /\ constant = (2 * e * (before + 1)) \div 2
  <2>1. /\ (2 * stride * (e * halves)) \div halves = stride * (2 * e)
        /\ ((before + 1) * (stride * (2 * e))) \div (2 * stride)
             = (2 * e * (before + 1)) \div 2
    BY TermsFound
  <2> QED
    BY Zenon, <2>1
<1>17. Terms(s).constant = (2 * e * (before + 1)) \div 2 /\ Terms(s).linear = 2 * e
  BY <1>2 DEF Terms
<1> HIDE DEF linear, constant
<1>18. BeforeAndAfter(f, r, stride, s.bad)
         = [constant |-> Terms(s).constant, linear |-> stride * Terms(s).linear]
  BY <1>15, <1>16, <1>17
<1> QED
  BY <1>2, <1>18 DEF f

-----------------------------------------------------------------------------
(* The line that is fitted                                                  *)

(* The sums of 0, ..., n - 1 and of their squares.                          *)
LEMMA SumOfTimes ==
  ASSUME NEW N \in Nat, NEW w, \A k \in 1..N : w[k] = k - 1
  PROVE  2 * Sum(w, 1..N) = N * (N - 1)
<1> DEFINE T == {n \in 0..N : 2 * Sum(w, 1..n) # n * (n - 1)}
<1>1. SUFFICES ASSUME T # {} PROVE FALSE
  <2>1. N \in 0..N
    OBVIOUS
  <2> QED
    BY <1>1, <2>1
<1>2. PICK n \in T : \A m \in T : n <= m
  <2>1. T \in SUBSET Nat
    OBVIOUS
  <2> HIDE DEF T
  <2> QED
    BY <1>1, <2>1, LeastNatural
<1>3. CASE n = 0
  <2>1. 1..n = {}
    BY <1>3
  <2>2. Sum(w, 1..n) = 0
    BY Zenon, <2>1, SumOfNone
  <2> QED
    BY <1>3, <2>2
<1>4. CASE n # 0
  <2>1. PICK m \in 0..N : n = m + 1
    BY <1>4
  <2>2. m \notin T
    BY <1>2, <2>1
  <2>3. 2 * Sum(w, 1..m) = m * (m - 1)
    BY <2>2
  <2>4. (1..n) \ {n} = 1..m /\ n \in 1..n /\ n \in 1..N
    BY <2>1
  <2>5. IsFiniteSet(1..n) /\ IsFiniteSet(1..m)
    BY <2>1, FS_Interval
  <2>6. \A k \in Int : k - 1 \in Int
    OBVIOUS
  <2>7. /\ \A k \in 1..n : w[k] \in Int
        /\ \A k \in 1..m : w[k] \in Int
    BY <2>1, <2>6
  <2>8. Sum(w, 1..n) = w[n] + Sum(w, (1..n) \ {n})
    BY <2>4, <2>5, <2>7, SumOfAny
  <2>9. PICK z \in Int : z = Sum(w, 1..m)
    BY <2>5, <2>7, SumIsInt
  <2>14. w[n] = m
    <3>1. w[n] = n - 1 /\ n - 1 = m
      BY <2>1, <2>4
    <3> QED
      BY Zenon, <3>1
  <2>10. Sum(w, 1..n) = m + z
    BY Zenon, <2>4, <2>8, <2>9, <2>14
  <2>11. 2 * z = m * (m - 1)
    BY <2>3, <2>9
  <2>12. \A k \in Int : 2 * k + k * (k - 1) = (k + 1) * ((k + 1) - 1)
    OBVIOUS
  <2>13. 2 * (m + z) = (m + 1) * ((m + 1) - 1)
    <3>1. 2 * (m + z) = 2 * m + 2 * z
      OBVIOUS
    <3>2. 2 * m + m * (m - 1) = (m + 1) * ((m + 1) - 1)
      BY <2>12
    <3> QED
      BY <2>11, <3>1, <3>2
  <2>15. 2 * Sum(w, 1..n) = n * (n - 1)
    BY Zenon, <2>1, <2>10, <2>13
  <2> QED
    BY <2>15
<1> QED
  BY <1>3, <1>4

LEMMA SumOfSquares ==
  ASSUME NEW N \in Nat, NEW w, \A k \in 1..N : w[k] = (k - 1) * (k - 1)
  PROVE  6 * Sum(w, 1..N) = N * (N - 1) * (2 * N - 1)
<1> DEFINE T == {n \in 0..N : 6 * Sum(w, 1..n) # n * (n - 1) * (2 * n - 1)}
<1>1. SUFFICES ASSUME T # {} PROVE FALSE
  <2>1. N \in 0..N
    OBVIOUS
  <2> QED
    BY <1>1, <2>1
<1>2. PICK n \in T : \A m \in T : n <= m
  <2>1. T \in SUBSET Nat
    OBVIOUS
  <2> HIDE DEF T
  <2> QED
    BY <1>1, <2>1, LeastNatural
<1>3. CASE n = 0
  <2>1. 1..n = {}
    BY <1>3
  <2>2. Sum(w, 1..n) = 0
    BY Zenon, <2>1, SumOfNone
  <2> QED
    BY <1>3, <2>2
<1>4. CASE n # 0
  <2>1. PICK m \in 0..N : n = m + 1
    BY <1>4
  <2>2. m \notin T
    BY <1>2, <2>1
  <2>3. 6 * Sum(w, 1..m) = m * (m - 1) * (2 * m - 1)
    BY <2>2
  <2>4. (1..n) \ {n} = 1..m /\ n \in 1..n /\ n \in 1..N
    BY <2>1
  <2>5. IsFiniteSet(1..n) /\ IsFiniteSet(1..m)
    BY <2>1, FS_Interval
  <2>6. \A k \in Int : (k - 1) * (k - 1) \in Int
    OBVIOUS
  <2>7. /\ \A k \in 1..n : w[k] \in Int
        /\ \A k \in 1..m : w[k] \in Int
    BY <2>1, <2>6
  <2>8. Sum(w, 1..n) = w[n] + Sum(w, (1..n) \ {n})
    BY <2>4, <2>5, <2>7, SumOfAny
  <2>9. PICK z \in Int : z = Sum(w, 1..m)
    BY <2>5, <2>7, SumIsInt
  <2>14. w[n] = m * m
    <3>1. w[n] = (n - 1) * (n - 1) /\ n - 1 = m
      BY <2>1, <2>4
    <3> QED
      BY Zenon, <3>1
  <2>10. Sum(w, 1..n) = m * m + z
    BY Zenon, <2>4, <2>8, <2>9, <2>14
  <2>11. 6 * z = m * (m - 1) * (2 * m - 1)
    BY <2>3, <2>9
  <2>12. \A k \in Int : 6 * (k * k) + k * (k - 1) * (2 * k - 1)
                          = (k + 1) * ((k + 1) - 1) * (2 * (k + 1) - 1)
    OBVIOUS
  <2>13. 6 * (m * m + z) = 6 * (m * m) + 6 * z
    OBVIOUS
  <2> QED
    BY <2>1, <2>10, <2>11, <2>12, <2>13
<1> QED
  BY <1>3, <1>4

(* The determinant of the normal equations, of two points or more.          *)
LEMMA DeterminantIs ==
  ASSUME NEW n \in Nat \ {0, 1}, NEW sx \in Int, NEW sxx \in Int,
         2 * sx = n * (n - 1), 6 * sxx = n * (n - 1) * (2 * n - 1)
  PROVE  n * sxx - sx * sx \in Nat \ {0}
<1>1. PICK m \in Nat \ {0} : n = m + 1
  <2>1. n - 1 \in Nat \ {0} /\ n = (n - 1) + 1
    OBVIOUS
  <2> QED
    BY <2>1
<1>2. 2 * sx = (m + 1) * m /\ 6 * sxx = (m + 1) * m * (2 * m + 1)
  BY <1>1
<1>3. 12 * (n * sxx) = 2 * (m + 1) * ((m + 1) * m * (2 * m + 1))
  BY <1>1, <1>2
<1>4. 12 * (sx * sx) = 3 * (((m + 1) * m) * ((m + 1) * m))
  <2>1. (2 * sx) * (2 * sx) = ((m + 1) * m) * ((m + 1) * m)
    BY <1>2
  <2>2. 12 * (sx * sx) = 3 * ((2 * sx) * (2 * sx))
    OBVIOUS
  <2> QED
    BY <2>1, <2>2
<1>5. 2 * (m + 1) * ((m + 1) * m * (2 * m + 1)) - 3 * (((m + 1) * m) * ((m + 1) * m))
        = ((m + 1) * (m + 1)) * (m * (m + 2))
  OBVIOUS
<1>6. ((m + 1) * (m + 1)) * (m * (m + 2)) > 0
  <2>1. PICK a \in Nat, b \in Nat : a = (m + 1) * (m + 1) /\ b = m * (m + 2)
    OBVIOUS
  <2>2. a > 0 /\ b > 0
    <3>1. (m + 1) * (m + 1) = m * m + 2 * m + 1 /\ m * (m + 2) = m * m + 2 * m
      OBVIOUS
    <3>2. m * m >= 0
      OBVIOUS
    <3> QED
      BY <2>1, <3>1, <3>2
  <2>3. a * b > 0
    BY <2>2
  <2> QED
    BY <2>1, <2>3
<1>7. PICK d \in Int : d = n * sxx - sx * sx
  OBVIOUS
<1>8. 12 * d = ((m + 1) * (m + 1)) * (m * (m + 2))
  <2>1. 12 * (n * sxx - sx * sx) = 12 * (n * sxx) - 12 * (sx * sx)
    OBVIOUS
  <2> QED
    BY <1>3, <1>4, <1>5, <1>7, <2>1
<1>9. d > 0
  BY <1>6, <1>8
<1> QED
  BY <1>7, <1>9

(* The line is fitted by Cramer's rule.                                    *)
LEMMA FitsLine ==
  ASSUME NEW n \in Nat \ {0, 1}, NEW K \in Int, NEW L \in Int
  PROVE  LinearFit([k \in 1..n |-> K + (k - 1) * L]) = [constant |-> K, linear |-> L]
<1> DEFINE y == [k \in 1..n |-> K + (k - 1) * L]
           x == [k \in 1..n |-> k - 1]
           one == [k \in 1..n |-> 1]
           xx == [k \in 1..n |-> x[k] * x[k]]
           xy == [k \in 1..n |-> x[k] * y[k]]
           sx == Sum(x, 1..n)
           sxx == Sum(xx, 1..n)
<1>1. IsFiniteSet(1..n) /\ Cardinality(1..n) = n
  BY FS_Interval
<1>2. Len(y) = n /\ ~(n <= 1)
  <2>1. \A k \in 1..n : K + (k - 1) * L \in Int
    OBVIOUS
  <2>2. y \in Seq(Int)
    BY <2>1
  <2> QED
    BY <2>2
<1>3. /\ \A k \in 1..n : x[k] = k - 1 /\ x[k] \in Int
      /\ \A k \in 1..n : one[k] = 1
      /\ \A k \in 1..n : xx[k] = x[k] * x[k]
      /\ \A k \in 1..n : xy[k] = x[k] * y[k]
      /\ \A k \in 1..n : y[k] = K + (k - 1) * L
  OBVIOUS
<1>4. \A k \in 1..n : xx[k] = (k - 1) * (k - 1)
  BY <1>3
<1>5. LinearFit(y) = [constant |-> (sxx * Sum(y, 1..n) - sx * Sum(xy, 1..n)) \div (n * sxx - sx * sx),
                      linear |-> (n * Sum(xy, 1..n) - sx * Sum(y, 1..n)) \div (n * sxx - sx * sx)]
  BY Zenon, <1>2 DEF LinearFit
<1> HIDE DEF x, one, xx, xy, y
<1>6. Sum(one, 1..n) = n
  <2>1. Sum(one, 1..n) = Cardinality(1..n) * 1
    <3>1. /\ \A k \in 1..n : one[k] = 1
          /\ 1 \in Int
      BY <1>3
    <3> QED
      BY Zenon, <1>1, <3>1, SumOfEqual
  <2> QED
    BY <1>1, <2>1
<1>7. Sum(y, 1..n) = K * n + L * sx
  <2>1. \A k \in 1..n : one[k] \in Int /\ x[k] \in Int /\ y[k] = K * one[k] + L * x[k]
    BY <1>3
  <2>2. Sum(y, 1..n) = K * Sum(one, 1..n) + L * Sum(x, 1..n)
    BY <1>1, <2>1, SumIsLinear
  <2> QED
    BY Zenon, <1>6, <2>2
<1>8. \A k \in 1..n : xx[k] \in Int /\ xy[k] = K * x[k] + L * xx[k]
  <2>1. \A t \in Int : t * t \in Int /\ t * (K + t * L) = K * t + L * (t * t)
    OBVIOUS
  <2>2. ASSUME NEW k \in 1..n
        PROVE  xx[k] \in Int /\ xy[k] = K * x[k] + L * xx[k]
    <3>1. x[k] \in Int /\ x[k] = k - 1 /\ xx[k] = x[k] * x[k]
          /\ xy[k] = x[k] * y[k] /\ y[k] = K + (k - 1) * L
      BY <1>3
    <3>2. xy[k] = x[k] * (K + x[k] * L)
      BY Zenon, <3>1
    <3> QED
      BY Zenon, <2>1, <3>1, <3>2
  <2> QED
    BY <2>2
<1>9. Sum(xy, 1..n) = K * sx + L * sxx
  <2>1. \A k \in 1..n : x[k] \in Int /\ xx[k] \in Int /\ xy[k] = K * x[k] + L * xx[k]
    BY <1>3, <1>8
  <2> QED
    BY <1>1, <2>1, SumIsLinear
<1>10. sx \in Int /\ sxx \in Int
  BY <1>1, <1>3, <1>8, SumIsInt
<1>11. 2 * sx = n * (n - 1)
  <2>1. n \in Nat /\ \A k \in 1..n : x[k] = k - 1
    BY <1>3
  <2> QED
    BY <2>1, SumOfTimes
<1>12. 6 * sxx = n * (n - 1) * (2 * n - 1)
  <2>1. n \in Nat
    OBVIOUS
  <2> QED
    BY <1>4, <2>1, SumOfSquares
<1> HIDE DEF sx, sxx
<1>13. n * sxx - sx * sx \in Nat \ {0}
  BY <1>10, <1>11, <1>12, DeterminantIs
<1>14. /\ (sxx * (K * n + L * sx) - sx * (K * sx + L * sxx)) \div (n * sxx - sx * sx) = K
       /\ (n * (K * sx + L * sxx) - sx * (K * n + L * sx)) \div (n * sxx - sx * sx) = L
  <2>1. PICK t \in Int, tt \in Int, d \in Nat \ {0} :
          t = sx /\ tt = sxx /\ d = n * sxx - sx * sx
    BY <1>10, <1>13
  <2>2. tt * (K * n + L * t) - t * (K * t + L * tt) = K * d
    BY <2>1
  <2>3. n * (K * t + L * tt) - t * (K * n + L * t) = L * d
    BY <2>1
  <2>4. (K * d) \div d = K /\ (L * d) \div d = L
    BY ExactDivision
  <2> QED
    BY Zenon, <2>1, <2>2, <2>3, <2>4
<1> QED
  BY Zenon, <1>5, <1>7, <1>9, <1>14 DEF y

-----------------------------------------------------------------------------
(* What is attenuated, and what each corrector makes of it                  *)

(* What the sample attenuates.                                              *)
LEMMA SampleIs ==
  ASSUME NEW i \in Nat
  PROVE  /\ \A c \in Columns : Sample(i)[c] \in Int /\ Sample(i)[c] <= 8
         /\ Sample(i)[<<0, 0>>] = 0 /\ Sample(i)[<<0, 3>>] = 0
         /\ Sample(i)[<<0, 1>>] + Sample(i)[<<0, 2>>] = 12
<1>1. \A c \in Columns :
        Sample(i)[c] = IF c[2] \in {0, 3} THEN 0 ELSE IF (c[2] + i) % 2 = 1 THEN 4 ELSE 8
  BY Zenon DEF Sample
<1>2. /\ <<0, 0>> \in Columns /\ <<0, 1>> \in Columns /\ <<0, 2>> \in Columns
      /\ <<0, 3>> \in Columns
  BY ColumnsAre
<1>3. \A c \in Columns : Sample(i)[c] \in Int /\ Sample(i)[c] <= 8
  BY <1>1
<1>4. Sample(i)[<<0, 0>>] = 0 /\ Sample(i)[<<0, 3>>] = 0
  BY <1>1, <1>2
<1>5. /\ Sample(i)[<<0, 1>>] = (IF (1 + i) % 2 = 1 THEN 4 ELSE 8)
      /\ Sample(i)[<<0, 2>>] = (IF (2 + i) % 2 = 1 THEN 4 ELSE 8)
  BY <1>1, <1>2
<1>6. (1 + i) % 2 = 1 <=> (2 + i) % 2 # 1
  OBVIOUS
<1> QED
  BY <1>3, <1>4, <1>5, <1>6

LEMMA MaxWithZero ==
  ASSUME NEW x \in Nat
  PROVE  Max({x, 0}) = x
<1>1. Max({x, 0}) = CHOOSE m \in {x, 0} : \A y \in {x, 0} : m >= y
  BY DEF Max
<1>2. \E m \in {x, 0} : \A y \in {x, 0} : m >= y
  OBVIOUS
<1>3. Max({x, 0}) \in {x, 0} /\ \A y \in {x, 0} : Max({x, 0}) >= y
  BY <1>1, <1>2
<1> QED
  BY <1>3

(* The beam stays on while the scan lasts.                                  *)
LEMMA BeamStaysOn ==
  ASSUME NEW s \in AnyScan, NEW i \in Nat, i <= s.reads - 1
  PROVE  Power(s, i * s.stride) \in Int /\ Power(s, i * s.stride) >= 8
<1>1. PICK d \in Nat, r \in Nat, t \in Nat :
        d = s.decay /\ r = s.reads - 1 /\ t = s.stride
  BY DEF AnyScan
<1>2. d * (r * t) <= 992
  BY <1>1 DEF AnyScan
<1>3. i * t <= r * t
  BY <1>1
<1>4. PICK u \in Nat, v \in Nat : u = i * t /\ v = r * t
  OBVIOUS
<1>5. d * u <= d * v
  BY <1>3, <1>4
<1>6. Power(s, i * s.stride) = 1000 - d * u
  BY <1>1, <1>4 DEF Power
<1> QED
  BY <1>2, <1>4, <1>5, <1>6

(* The terms of the decay, as the program counts.                           *)
Offset(s) == Terms(s).constant
Slope(s) == s.stride * Terms(s).linear

LEMMA TermsAre ==
  ASSUME NEW s \in AnyScan, NEW e \in Nat, s.decay = 2 * e
  PROVE  Offset(s) = e * (s.before + 1) /\ Slope(s) = 2 * e * s.stride
         /\ Offset(s) \in Int /\ Slope(s) \in Int
<1>1. PICK b \in Nat, t \in Nat : b = s.before /\ t = s.stride
  BY DEF AnyScan
<1>2. PICK h \in Nat : h = e * (b + 1)
  <2>1. b + 1 \in Nat
    OBVIOUS
  <2> QED
    BY <2>1
<1>3. (2 * e) * (b + 1) = 2 * h
  BY <1>2
<1>4. (2 * h) \div 2 = h
  BY ExactDivision
<1>5. Offset(s) = h
  BY <1>1, <1>3, <1>4 DEF Offset, Terms
<1>6. t * (2 * e) = 2 * e * t /\ t * (2 * e) \in Int
  OBVIOUS
<1>7. Slope(s) = t * (2 * e)
  BY <1>1 DEF Slope, Terms
<1> QED
  BY <1>1, <1>2, <1>5, <1>6, <1>7

(* An attenuation image: the sample's, and what the decay adds.             *)
LEMMA AttenuatedIs ==
  ASSUME NEW s \in AnyScan, NEW i \in Nat, i <= s.reads - 1
  PROVE  /\ DOMAIN Attenuated(s, i) = Columns
         /\ \A c \in Columns \ s.bad :
              Attenuated(s, i)[c] = (Offset(s) + i * Slope(s)) + Sample(i)[c]
<1>1. PICK e \in Nat : s.decay = 2 * e
  BY DEF AnyScan
<1>2. PICK dark \in Nat, b \in Nat, t \in Nat :
        dark = s.dark /\ b = s.before /\ t = s.stride
  BY DEF AnyScan
<1> DEFINE f == Fields(s)
           seen == [c \in Columns |-> (s.dark + Power(s, i * s.stride)) - Sample(i)[c]]
<1>3. PICK now \in Int, p0 \in Int : now = Power(s, i * s.stride) /\ p0 = Power(s, 0)
  BY BeamStaysOn, PowerIsInt
<1>4. now >= 8
  BY <1>3, BeamStaysOn
<1>5. now = p0 - 2 * e * (i * t)
  <2>1. Power(s, 0) = 1000 - 2 * e * 0 /\ Power(s, i * s.stride) = 1000 - 2 * e * (i * t)
    BY <1>1, <1>2 DEF Power
  <2> QED
    BY <1>3, <2>1
<1>6. /\ DOMAIN f.dark = Columns /\ \A c \in Columns : f.dark[c] = dark
      /\ \A c \in Columns \ s.bad : f.flat[c] = p0 + e * (b + 1)
  BY Zenon, <1>1, <1>2, <1>3, FieldsAre
<1>7. Attenuated(s, i) = Attenuation(f, seen, Columns)
  <2>1. \A x \in Int, y \in Int, z \in Int : x + y - z = (x + y) - z
    OBVIOUS
  <2>2. \A c \in Columns : s.dark + Power(s, i * s.stride) - Sample(i)[c]
                             = (s.dark + Power(s, i * s.stride)) - Sample(i)[c]
    BY <1>2, <1>3, <2>1, SampleIs
  <2>3. [c \in Columns |-> s.dark + Power(s, i * s.stride) - Sample(i)[c]] = seen
    BY Zenon, <2>2
  <2> QED
    BY Zenon, <2>3 DEF Attenuated
<1>8. Attenuation(f, seen, Columns)
        = [c \in Columns |-> Log(f.flat[c], Max({seen[c] - f.dark[c], 0}))]
  <2>1. DOMAIN seen = Columns
    OBVIOUS
  <2> HIDE DEF f, seen
  <2>2. ~(DOMAIN seen # DOMAIN f.dark)
    BY <1>6, <2>1
  <2>3. Attenuation(f, seen, Columns)
          = [c \in Columns |-> IF c \in DOMAIN seen
               THEN Log(f.flat[c], Max({seen[c] - f.dark[c], 0})) ELSE 0]
    BY Zenon, <2>2 DEF Attenuation
  <2> QED
    BY Zenon, <2>1, <2>3
<1>9. ASSUME NEW c \in Columns \ s.bad
      PROVE  Attenuated(s, i)[c] = (Offset(s) + i * Slope(s)) + Sample(i)[c]
  <2>1. PICK h \in Int : h = Sample(i)[c] /\ h <= 8
    BY SampleIs
  <2>2. seen[c] = (dark + now) - h /\ f.dark[c] = dark
    BY <1>2, <1>3, <1>6, <2>1
  <2>3. seen[c] - f.dark[c] = now - h /\ now - h \in Nat
    BY <1>4, <2>1, <2>2
  <2>4. Attenuated(s, i)[c] = Log(f.flat[c], Max({seen[c] - f.dark[c], 0}))
    BY <1>7, <1>8
  <2> HIDE DEF f, seen
  <2>5. Max({seen[c] - f.dark[c], 0}) = now - h
    BY <2>3, MaxWithZero
  <2>6. Attenuated(s, i)[c] = (p0 + e * (b + 1)) - (now - h)
    BY <1>6, <2>4, <2>5 DEF Log
  <2>7. Offset(s) = e * (b + 1) /\ Slope(s) = 2 * e * t
    BY <1>1, <1>2, TermsAre
  <2>8. (p0 + e * (b + 1)) - (now - h) = (e * (b + 1) + i * (2 * e * t)) + h
    <3>1. PICK x \in Int, y \in Int : x = e * (b + 1) /\ y = 2 * e * (i * t)
      OBVIOUS
    <3>2. i * (2 * e * t) = y
      BY <3>1
    <3> QED
      BY <1>5, <3>1, <3>2
  <2> QED
    BY Zenon, <2>1, <2>6, <2>7, <2>8
<1>10. DOMAIN Attenuated(s, i) = Columns
  BY <1>7, <1>8
<1> QED
  BY <1>9, <1>10

(* Sums over an image, and over its edges.                                  *)
LEMMA SumOfColumns ==
  ASSUME NEW w, \A c \in Columns : w[c] \in Int
  PROVE  Sum(w, Columns) = w[<<0, 0>>] + w[<<0, 1>>] + w[<<0, 2>>] + w[<<0, 3>>]
<1> DEFINE q == <<<<0, 0>>, <<0, 1>>, <<0, 2>>, <<0, 3>>>>
<1>1. /\ q[1] = <<0, 0>> /\ q[2] = <<0, 1>> /\ q[3] = <<0, 2>> /\ q[4] = <<0, 3>>
  OBVIOUS
<1>2. \A i, j \in 1..4 : i # j => q[i] # q[j]
  <2>1. 1..4 = {1, 2, 3, 4}
    OBVIOUS
  <2>2. \A i \in 1..4 : q[i] = <<0, i - 1>>
    BY <1>1, <2>1
  <2> QED
    BY <2>2
<1>3. {q[1], q[2], q[3], q[4]} = Columns
  BY ColumnsAre, <1>1
<1>4. \A i \in 1..4 : w[q[i]] \in Int
  <2>1. 1..4 = {1, 2, 3, 4}
    OBVIOUS
  <2>2. \A i \in 1..4 : q[i] \in {q[1], q[2], q[3], q[4]}
    BY <2>1
  <2> HIDE DEF q
  <2> QED
    BY <1>3, <2>2
<1> HIDE DEF q
<1>5. Sum(w, {q[1], q[2], q[3], q[4]}) = w[q[1]] + w[q[2]] + w[q[3]] + w[q[4]]
  BY <1>2, <1>4, SumOfFour
<1> QED
  BY Zenon, <1>1, <1>3, <1>5

LEMMA AttenuatedSum ==
  ASSUME NEW s \in AnyScan, NEW i \in Nat, i <= s.reads - 1, s.bad = {}
  PROVE  Sum(Attenuated(s, i), Columns) = 4 * (Offset(s) + i * Slope(s)) + 12
<1>1. PICK e \in Nat : s.decay = 2 * e
  BY DEF AnyScan
<1>2. PICK z \in Int : z = Offset(s) + i * Slope(s)
  BY <1>1, TermsAre
<1> DEFINE w == Attenuated(s, i)
<1>3. \A c \in Columns : w[c] = z + Sample(i)[c] /\ w[c] \in Int
  BY <1>2, AttenuatedIs, SampleIs
<1> HIDE DEF w
<1>4. Sum(w, Columns) = w[<<0, 0>>] + w[<<0, 1>>] + w[<<0, 2>>] + w[<<0, 3>>]
  BY <1>3, SumOfColumns
<1>5. /\ w[<<0, 0>>] = z + Sample(i)[<<0, 0>>] /\ w[<<0, 1>>] = z + Sample(i)[<<0, 1>>]
      /\ w[<<0, 2>>] = z + Sample(i)[<<0, 2>>] /\ w[<<0, 3>>] = z + Sample(i)[<<0, 3>>]
      /\ Sample(i)[<<0, 1>>] \in Int /\ Sample(i)[<<0, 2>>] \in Int
  BY <1>3, ColumnsAre, SampleIs
<1>6. Sum(w, Columns) = 4 * z + 12
  BY <1>4, <1>5, SampleIs
<1> QED
  BY <1>2, <1>6 DEF w

LEMMA EdgeMeanIs ==
  ASSUME NEW w, DOMAIN w = Columns, NEW z \in Int, w[<<0, 0>>] = z, w[<<0, 3>>] = z
  PROVE  EdgeMean(w, 1) = z
<1>1. {c[1] : c \in DOMAIN w} = {0} /\ {c[2] : c \in DOMAIN w} = {0, 1, 2, 3}
  BY ColumnsAre
<1>2. Max({0, 1, 2, 3}) = 3
  <2>1. {0, 1, 2, 3} \in SUBSET (0..3) /\ {0, 1, 2, 3} # {} /\ 3 \in Nat
    OBVIOUS
  <2>2. Max({0, 1, 2, 3}) \in {0, 1, 2, 3} /\ \A t \in {0, 1, 2, 3} : t <= Max({0, 1, 2, 3})
    BY <2>1, MaximumIs
  <2> QED
    BY <2>2
<1>3. Cardinality({0}) = 1
  BY FS_Singleton
<1>4. {0} \X (0 .. 1 - 1) = {<<0, 0>>} /\ {0} \X ((1 + 3) - 1 .. (1 + 3) - 1) = {<<0, 3>>}
  OBVIOUS
<1>5. Sum(w, {<<0, 0>>}) = z /\ Sum(w, {<<0, 3>>}) = z
  <2>1. w[<<0, 0>>] \in Int /\ w[<<0, 3>>] \in Int
    OBVIOUS
  <2> QED
    BY <2>1, SumOfSingle
<1>6. EdgeMean(w, 1)
        = (Sum(w, {0} \X (0 .. 1 - 1)) + Sum(w, {0} \X ((1 + 3) - 1 .. (1 + 3) - 1)))
            \div (2 * 1 * Cardinality({0}))
  BY Zenon, <1>1, <1>2 DEF EdgeMean
<1>7. EdgeMean(w, 1) = (z + z) \div (2 * 1 * 1)
  BY Zenon, <1>3, <1>4, <1>5, <1>6
<1>8. (2 * z) \div 2 = z
  BY ExactDivision
<1> QED
  BY <1>7, <1>8

(* What each of the correctors subtracts is what the decay has added.       *)
CorrectorOf(s) ==
  Corrector(s.option, Terms(s), Fields(s), s.reads, s.stride, s.bad)
Shift(s, i) == Correction(CorrectorOf(s), Attenuated(s, 0), i, Attenuated(s, i))

LEMMA ShiftIs ==
  ASSUME NEW s \in AnyScan, NEW i \in Nat, i <= s.reads - 1,
         s.bad = {} \/ s.option \in {"Manual", "BeforeAndAfterBrightField"}
  PROVE  Shift(s, i) = Offset(s) + i * Slope(s)
<1>1. PICK e \in Nat : s.decay = 2 * e
  BY DEF AnyScan
<1>2. Offset(s) \in Int /\ Slope(s) \in Int
  BY <1>1, TermsAre
<1>3. s.option \in {"Manual", "BeforeAndAfterBrightField",
                    "ConstantTotalAttenuation", "NullProjectionEdge"}
  BY DEF AnyScan
<1> DEFINE C == CorrectorOf(s)
<1>4. /\ C.kind = s.option /\ C.constant = Offset(s) /\ C.edge = 1
      /\ C.linear = IF s.option = "Manual" THEN Terms(s).linear * s.stride
                    ELSE IF s.option = "BeforeAndAfterBrightField"
                    THEN BeforeAndAfter(Fields(s), s.reads, s.stride, s.bad).linear
                    ELSE 0
  <2>1. Terms(s).edge = 1
    BY DEF Terms
  <2> QED
    BY <2>1 DEF CorrectorOf, Corrector, Offset
<1>5. Shift(s, i) = Correction(C, Attenuated(s, 0), i, Attenuated(s, i))
  BY DEF Shift
<1> HIDE DEF C
<1>6. CASE s.option = "Manual"
  <2>1. C.linear = Slope(s)
    <3>1. Terms(s).linear \in Int /\ s.stride \in Int
      BY <1>1 DEF Terms, AnyScan
    <3>2. Terms(s).linear * s.stride = s.stride * Terms(s).linear
      BY <3>1
    <3> QED
      BY <1>4, <1>6, <3>2 DEF Slope
  <2>2. Shift(s, i) = C.constant + i * C.linear
    BY <1>4, <1>5, <1>6 DEF Correction
  <2> QED
    BY Zenon, <1>4, <2>1, <2>2
<1>7. CASE s.option = "BeforeAndAfterBrightField"
  <2>1. C.linear = Slope(s)
    <3>1. BeforeAndAfter(Fields(s), s.reads, s.stride, s.bad).linear = Slope(s)
      <4>1. BeforeAndAfter(Fields(s), s.reads, s.stride, s.bad)
              = [constant |-> Terms(s).constant, linear |-> Slope(s)]
        BY <1>1, EstimateIs DEF Slope
      <4> QED
        BY <4>1
    <3> QED
      BY <1>4, <1>7, <3>1
  <2>2. Shift(s, i) = C.constant + i * C.linear
    BY <1>4, <1>5, <1>7 DEF Correction
  <2> QED
    BY Zenon, <1>4, <2>1, <2>2
<1>8. CASE s.option = "ConstantTotalAttenuation"
  <2>1. s.bad = {}
    BY <1>8
  <2>2. 0 \in Nat /\ 0 <= s.reads - 1
    BY DEF AnyScan
  <2>3. /\ DOMAIN Attenuated(s, i) = Columns /\ DOMAIN Attenuated(s, 0) = Columns
        /\ Sum(Attenuated(s, i), Columns) = 4 * (Offset(s) + i * Slope(s)) + 12
        /\ Sum(Attenuated(s, 0), Columns) = 4 * (Offset(s) + 0 * Slope(s)) + 12
    BY <2>1, <2>2, AttenuatedIs, AttenuatedSum
  <2>4. Cardinality(Columns) = 4
    BY ColumnsAre
  <2>5. Shift(s, i) = (Sum(Attenuated(s, i), Columns) - Sum(Attenuated(s, 0), Columns))
                         \div 4 + C.constant
    BY <1>4, <1>5, <1>8, <2>3, <2>4 DEF Correction
  <2>6. PICK K \in Int, y \in Int : K = Offset(s) /\ y = i * Slope(s)
    BY <1>2
  <2>7. 0 * Slope(s) = 0
    BY <1>2
  <2>8. (4 * (K + y) + 12) - (4 * (K + 0) + 12) = 4 * y
    OBVIOUS
  <2>9. (4 * y) \div 4 = y
    BY ExactDivision
  <2>10. Shift(s, i) = y + K
    BY Zenon, <1>4, <2>3, <2>5, <2>6, <2>7, <2>8, <2>9
  <2> QED
    BY <2>6, <2>10
<1>9. CASE s.option = "NullProjectionEdge"
  <2>1. s.bad = {}
    BY <1>9
  <2> DEFINE w == Attenuated(s, i)
  <2>2. PICK z \in Int : z = Offset(s) + i * Slope(s)
    BY <1>2
  <2>3. /\ DOMAIN w = Columns /\ w[<<0, 0>>] = z /\ w[<<0, 3>>] = z
    BY <2>1, <2>2, AttenuatedIs, ColumnsAre, SampleIs
  <2> HIDE DEF w
  <2>4. EdgeMean(w, 1) = z
    BY <2>3, EdgeMeanIs
  <2>5. Shift(s, i) = EdgeMean(w, 1)
    BY <1>4, <1>5, <1>9 DEF Correction, w
  <2> QED
    BY <2>2, <2>4, <2>5
<1> QED
  BY <1>3, <1>6, <1>7, <1>8, <1>9

LEMMA DecayLeaves ==
  ASSUME NEW s \in AnyScan, NEW i \in Nat, i <= s.reads - 1,
         s.bad = {} \/ s.option \in {"Manual", "BeforeAndAfterBrightField"},
         NEW c \in Columns \ s.bad
  PROVE  ProcessProjection(CorrectorOf(s), Attenuated(s, 0), i, Attenuated(s, i))[c]
           = Sample(i)[c]
<1>1. PICK z \in Int : z = Offset(s) + i * Slope(s)
  <2>1. PICK e \in Nat : s.decay = 2 * e
    BY DEF AnyScan
  <2> QED
    BY <2>1, TermsAre
<1>2. Shift(s, i) = z
  BY <1>1, ShiftIs
<1>3. ProcessProjection(CorrectorOf(s), Attenuated(s, 0), i, Attenuated(s, i))
        = [d \in DOMAIN Attenuated(s, i) |-> Attenuated(s, i)[d] + -z]
  BY <1>2 DEF ProcessProjection, ShiftProjection, Shift
<1>4. /\ DOMAIN Attenuated(s, i) = Columns /\ Attenuated(s, i)[c] = z + Sample(i)[c]
      /\ Sample(i)[c] \in Int
  BY <1>1, AttenuatedIs, SampleIs
<1> QED
  BY <1>3, <1>4

(* Whatever scan is corrected.                                              *)
CorrectsAnyBeam ==
  \E s \in AnyScan :
    Called([name |-> "beam", scan |-> s],
      [k \in 1 .. s.reads |->
         [shift |-> Shift(s, k - 1),
          image |-> ProcessProjection(CorrectorOf(s), Attenuated(s, 0), k - 1,
                                      Attenuated(s, k - 1))]])

BeamSpec == CallsInit /\ [][CorrectsAnyBeam]_<<call, result>>

(* CTCalibration, the correctors and LinearFit: whatever the scan, what is  *)
(* left is the sample's attenuation, the estimate from the bright fields is *)
(* what a user would have to give, and so is the line that is fitted to the *)
(* corrections.                                                             *)
THEOREM AnyDecayIsUndone == BeamSpec => []DecayIsUndone
<1>1. CallsInit => DecayIsUndone
  BY DEF CallsInit, NoCall, DecayIsUndone
<1>2. ASSUME DecayIsUndone, UNCHANGED <<call, result>>
      PROVE  DecayIsUndone'
  BY <1>2 DEF DecayIsUndone
<1>3. ASSUME CorrectsAnyBeam
      PROVE  DecayIsUndone'
  <2>1. PICK s \in AnyScan :
          /\ call' = [name |-> "beam", scan |-> s]
          /\ result' = [k \in 1 .. s.reads |->
               [shift |-> Shift(s, k - 1),
                image |-> ProcessProjection(CorrectorOf(s), Attenuated(s, 0), k - 1,
                                            Attenuated(s, k - 1))]]
    BY <1>3 DEF CorrectsAnyBeam, Called
  <2>2. call'.scan = s /\ DOMAIN result' = 1 .. s.reads
    BY <2>1
  <2>3. PICK n \in Nat \ {0, 1} : n = s.reads
    BY DEF AnyScan
  <2>4. PICK e \in Nat : s.decay = 2 * e
    BY DEF AnyScan
  <2> DEFINE terms == [constant |-> Offset(s), linear |-> Slope(s)]
  <2>5. BeforeAndAfter(Fields(s), s.reads, s.stride, s.bad) = terms
    BY <2>4, EstimateIs DEF Offset, Slope
  <2>6. \A k \in 1 .. n : k - 1 \in Nat /\ k - 1 <= s.reads - 1
    BY <2>3
  <2>7. ASSUME s.bad = {} \/ s.option \in {"Manual", "BeforeAndAfterBrightField"}
        PROVE  \A k \in 1 .. n : \A c \in Columns \ s.bad :
                 result'[k].image[c] = Sample(k - 1)[c]
    <3>1. ASSUME NEW k \in 1 .. n, NEW c \in Columns \ s.bad
          PROVE  result'[k].image[c] = Sample(k - 1)[c]
      <4>1. result'[k].image = ProcessProjection(CorrectorOf(s), Attenuated(s, 0), k - 1,
                                                 Attenuated(s, k - 1))
        BY <2>1, <2>3
      <4>2. PICK i \in Nat : i = k - 1 /\ i <= s.reads - 1
        BY <2>6
      <4>3. ProcessProjection(CorrectorOf(s), Attenuated(s, 0), i, Attenuated(s, i))[c]
              = Sample(i)[c]
        BY <2>7, <4>2, DecayLeaves
      <4> QED
        BY Zenon, <4>1, <4>2, <4>3
    <3> QED
      BY <3>1
  <2>8. ASSUME s.bad = {}
        PROVE  LinearFit([k \in DOMAIN result' |-> result'[k].shift]) = terms
    <3>1. PICK K \in Int, L \in Int : K = Offset(s) /\ L = Slope(s)
      BY <2>4, TermsAre
    <3>2. \A k \in 1 .. n : result'[k].shift = Shift(s, k - 1)
      BY <2>1, <2>3
    <3>3. \A k \in 1 .. n : Shift(s, k - 1) = Offset(s) + (k - 1) * Slope(s)
      BY <2>6, <2>8, ShiftIs
    <3>4. \A k \in 1 .. n : result'[k].shift = K + (k - 1) * L
      BY Zenon, <3>1, <3>2, <3>3
    <3>5. [k \in DOMAIN result' |-> result'[k].shift] = [k \in 1 .. n |-> K + (k - 1) * L]
      BY Zenon, <2>2, <2>3, <3>4
    <3>6. LinearFit([k \in 1 .. n |-> K + (k - 1) * L]) = [constant |-> K, linear |-> L]
      BY FitsLine
    <3> QED
      BY Zenon, <3>1, <3>5, <3>6
  <2>9. [constant |-> Terms(call'.scan).constant,
         linear   |-> call'.scan.stride * Terms(call'.scan).linear] = terms
    BY Zenon, <2>2 DEF Offset, Slope
  <2> HIDE DEF terms
  <2> QED
    BY Zenon, <2>2, <2>3, <2>5, <2>7, <2>8, <2>9 DEF DecayIsUndone
<1> QED
  BY <1>1, <1>2, <1>3, PTL DEF BeamSpec

(* The scans that are checked are among them.                               *)
LEMMA ScansAreAny ==
  CorrectsBeam => CorrectsAnyBeam
<1>1. ASSUME NEW s \in Scans
      PROVE  s \in AnyScan
  <2>1. \A d \in {0, 2, 4} : d \in {2 * e : e \in Nat}
    <3>1. 0 = 2 * 0 /\ 2 = 2 * 1 /\ 4 = 2 * 2
      OBVIOUS
    <3> QED
      BY <3>1
  <2>2. {{}, {<<0, 1>>}} \subseteq (SUBSET Columns) \ {Columns}
    <3>1. <<0, 0>> \in Columns /\ <<0, 1>> \in Columns /\ <<0, 0>> # <<0, 1>>
      BY ColumnsAre
    <3>2. {} # Columns /\ {<<0, 1>>} # Columns
      BY <3>1
    <3> QED
      BY <3>1, <3>2
  <2>3. /\ s.decay \in {0, 2, 4} /\ s.reads \in 2 .. 4 /\ s.stride \in 1 .. 3
    BY DEF Scans
  <2>4. s.decay * ((s.reads - 1) * s.stride) <= 992
    <3>1. PICK r \in {1, 2, 3}, t \in {1, 2, 3} : r = s.reads - 1 /\ t = s.stride
      BY <2>3
    <3>2. r * t \in 1 .. 9
      BY <3>1
    <3> QED
      BY <2>3, <3>1, <3>2
  <2>5. s \in [decay : {2 * e : e \in Nat}, before : Nat \ {0}, after : Nat \ {0},
               stride : Nat \ {0}, reads : Nat \ {0, 1}, bad : (SUBSET Columns) \ {Columns},
               dark : Nat, single : BOOLEAN,
               option : {"Manual", "BeforeAndAfterBrightField",
                         "ConstantTotalAttenuation", "NullProjectionEdge"}]
    <3> DEFINE options == {"Manual", "BeforeAndAfterBrightField",
                           "ConstantTotalAttenuation", "NullProjectionEdge"}
               decays == {2 * e : e \in Nat}
               some == (SUBSET Columns) \ {Columns}
    <3>1. /\ {0, 2, 4} \subseteq decays /\ {{}, {<<0, 1>>}} \subseteq some
          /\ 1 .. 3 \subseteq Nat \ {0} /\ 2 .. 4 \subseteq Nat \ {0, 1} /\ {0, 7} \subseteq Nat
      BY <2>1, <2>2
    <3>2. s \in [decay : {0, 2, 4}, before : 1 .. 3, after : 1 .. 3, stride : 1 .. 3,
                 reads : 2 .. 4, bad : {{}, {<<0, 1>>}}, dark : {0, 7}, single : BOOLEAN,
                 option : options]
      BY Zenon DEF Scans
    <3> HIDE DEF options, decays, some
    <3>3. s \in [decay : decays, before : Nat \ {0}, after : Nat \ {0},
                 stride : Nat \ {0}, reads : Nat \ {0, 1}, bad : some,
                 dark : Nat, single : BOOLEAN, option : options]
      BY <3>1, <3>2
    <3> QED
      BY Zenon, <3>3 DEF options, decays, some
  <2> QED
    BY <2>4, <2>5 DEF AnyScan
<1>2. ASSUME CorrectsBeam
      PROVE  CorrectsAnyBeam
  <2>1. PICK s \in Scans :
          Called([name |-> "beam", scan |-> s],
            [k \in 1 .. s.reads |->
               [shift |-> Shift(s, k - 1),
                image |-> ProcessProjection(CorrectorOf(s), Attenuated(s, 0), k - 1,
                                            Attenuated(s, k - 1))]])
    BY Zenon, <1>2 DEF CorrectsBeam, Shift, CorrectorOf
  <2> QED
    BY <1>1, <2>1 DEF CorrectsAnyBeam
<1> QED
  BY <1>2
=============================================================================
