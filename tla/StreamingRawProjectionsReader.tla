--------------------- MODULE StreamingRawProjectionsReader ---------------------
(***************************************************************************)
(* The reader of projections (source/io/StreamingRawProjectionsReader.txx; *)
(* the any-format and the MetaImage readers hand everything over to it).   *)
(* The file is a number of projections, one after the other, numbered from *)
(* 1; a position is the number of projections before it.                   *)
(***************************************************************************)
EXTENDS Naturals

CONSTANTS
  FileProjections,       \* projections in the file
  ProjectionStride       \* m_ProjectionStride

VARIABLES
  position,              \* of m_ProjectionsFileStream
  readCount              \* m_ReadCount

vars == <<position, readCount>>

Init == position = 0 /\ readCount = 0

(* What is skipped: nothing before the first projection.                   *)
Skipped == IF readCount > 0 THEN ProjectionStride - 1 ELSE 0

(* The number of the projection that is read next.                         *)
NextNumber == position + Skipped + 1

(* Reading past the end throws.                                            *)
GetNextProjection ==
  /\ NextNumber <= FileProjections
  /\ position' = NextNumber
  /\ readCount' = readCount + 1

(* Fault: the stream is rewound, and not the count.                        *)
RewindsStreamOnly == position' = 0 /\ UNCHANGED readCount

Rewind == position' = 0 /\ readCount' = 0
=============================================================================
