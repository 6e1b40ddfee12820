-------------------------------- MODULE MetaImage --------------------------------
(***************************************************************************)
(* MetaImage files (source/io/MetaImageWriter, MetaImageReader, the        *)
(* streaming writers and readers made of them, bonelab/endian.hpp).        *)
(*                                                                         *)
(* A header is [lines, ended]: a sequence of lines and whether the last    *)
(* one has an end.  A line is [key, value], the value being a sequence of  *)
(* words or of integers.  Data is a sequence of elements, an element the   *)
(* sequence of its bytes.  Tuples go from the slowest to the fastest       *)
(* dimension.                                                              *)
(***************************************************************************)
EXTENDS Integers, FiniteSetsExt, SequencesExt, Tuples

Orders == {"big", "little"}

Blank     == [key |-> "", value |-> <<>>]
Malformed == [key |-> "", value |-> <<"=">>]      \* not a key, = and a value
NoNumber  == -9999                     \* a word where a number should be
Fails     == [outcome |-> "throws"]
Absent     == <<>>
Arbitrary == <<NoNumber>>                         \* memory not initialised

-----------------------------------------------------------------------------
(* Bytes                                                                    *)

(* The bytes that the loop does not come to were never set: NoNumber stands *)
(* for any value.                                                           *)
SwapBytes(element) ==
  LET size == Len(element)
      half == size \div 2
  IN  [i \in 1 .. size |-> IF i <= half \/ i > size - half
                           THEN element[size + 1 - i] ELSE NoNumber]

EndianConversion(data, from, to) ==
  [k \in DOMAIN data |-> IF from = to THEN data[k] ELSE SwapBytes(data[k])]

ElementSize(type) ==
  CASE type \in {"MET_CHAR", "MET_UCHAR"}                -> 1
    [] type \in {"MET_SHORT", "MET_USHORT"}              -> 2
    [] type \in {"MET_INT", "MET_UINT", "MET_FLOAT"}     -> 4
    [] type \in {"MET_LONG", "MET_ULONG", "MET_DOUBLE"}  -> 8

Types == {"MET_CHAR", "MET_UCHAR", "MET_SHORT", "MET_USHORT", "MET_INT",
          "MET_UINT", "MET_FLOAT", "MET_LONG", "MET_ULONG", "MET_DOUBLE"}

-----------------------------------------------------------------------------
(* The writer                                                               *)

(* A stream prints so many digits of a real number; here, it is two.        *)
Printed(x) == IF x \in -99 .. 99 THEN x ELSE 10 * (x \div 10)

(* A value with a = in it will be read as one word too many.                *)
Line(key, value) ==
  IF "a=b.raw" \in Range(value) THEN Malformed ELSE [key |-> key, value |-> value]
NumbersLine(key, value) == [key |-> key, value |-> value]

FormatMetaInfo(image, raw, host) ==
  LET real(t) == [i \in DOMAIN t |-> Printed(ReverseTuple(t)[i])]
  IN  [ended |-> TRUE, lines |->
         <<Line("ObjectType", <<"Image">>),
           NumbersLine("NDims", <<Len(image.dims)>>),
           Line("BinaryData", <<"True">>),
           Line("BinaryDataByteOrderMSB",
                <<IF host = "big" THEN "True" ELSE "False">>),
           Line("CompressedData", <<"False">>),
           NumbersLine("Offset", real(image.origin)),
           NumbersLine("ElementSpacing", real(image.spacing)),
           NumbersLine("DimSize", ReverseTuple(image.dims)),
           Line("ElementType", <<image.type>>),
           Line("ElementDataFile", <<raw>>)>>]

(* Fault: a stack counts as one slice, whatever is in it.                   *)
StackIsASlice(sliceDims, writes) ==
  LET size == LongProduct(sliceDims)
      step(s, w) ==
        IF s.outcome = "throws"
             \/ (IF w.kind = "slice" THEN Len(w.data) # size
                 ELSE Len(w.data) % size # 0)
        THEN Fails
        ELSE [s EXCEPT !.data = @ \o w.data, !.slices = @ + 1]
  IN  FoldLeft(step, [outcome |-> "ok", data |-> <<>>, slices |-> 0], writes)

(* StreamingRawWriter: slices and stacks of slices, one after another.      *)
StreamedFile(sliceDims, writes) ==
  LET size == LongProduct(sliceDims)
      step(s, w) ==
        IF s.outcome = "throws"
             \/ (IF w.kind = "slice" THEN Len(w.data) # size
                 ELSE Len(w.data) % size # 0)
        THEN Fails
        ELSE [s EXCEPT !.data = @ \o w.data,
                       !.slices = @ + (IF w.kind = "slice" THEN 1
                                       ELSE Len(w.data) \div size)]
  IN  FoldLeft(step, [outcome |-> "ok", data |-> <<>>, slices |-> 0], writes)

(* StreamingMetaImageWriter::Close: the header is written last, for as many *)
(* slices as there are.                                                     *)
ClosedHeader(settings, streamed, raw, host) ==
  FormatMetaInfo([dims    |-> <<streamed.slices>> \o settings.sliceDims,
                  spacing |-> settings.spacing,
                  origin  |-> settings.origin,
                  type    |-> settings.type], raw, host)

-----------------------------------------------------------------------------
(* The reader                                                               *)

(* ParseMeta. A blank line is looked at for ever. A last line without an    *)
(* end is not looked at. The last line of a key counts.                     *)
ParseMeta(header) ==
  LET complete == IF header.ended THEN header.lines ELSE Front(header.lines)
      bad == {i \in DOMAIN complete : complete[i] \in {Blank, Malformed}}
      of(key) == {i \in DOMAIN complete : complete[i].key = key}
  IN  IF bad # {}
      THEN IF complete[Min(bad)] = Blank THEN [outcome |-> "hangs"] ELSE Fails
      ELSE [outcome |-> "ok",
            meta |-> [key \in {complete[i].key : i \in DOMAIN complete} |->
                        complete[Max(of(key))].value]]

(* Fault: the numbers are not counted.                                      *)
AnyCount(value, ndims) == NoNumber \notin Range(value)

(* A field of the header that has a number for each dimension.              *)
IsVector(value, ndims) == Len(value) = ndims /\ NoNumber \notin Range(value)

(* GetInformation. All that is wrong is thrown; what is not there may be    *)
(* optional.                                                                *)
GetInformation(header) ==
  LET parsed == ParseMeta(header)
      meta   == parsed.meta
      has(key) == key \in DOMAIN meta
      is(key, values) == has(key) => meta[key] \in values
      flags  == {<<"True">>, <<"False">>}
      ndims  == meta["NDims"][1]
      vector(key) == IF has(key) THEN ReverseTuple(meta[key]) ELSE Absent
      \* the later of the two fields counts
      order  == IF has("ElementByteOrderMSB") THEN meta["ElementByteOrderMSB"]
                ELSE IF has("BinaryDataByteOrderMSB")
                THEN meta["BinaryDataByteOrderMSB"] ELSE Absent
  IN  IF parsed.outcome # "ok" THEN parsed
      ELSE IF /\ is("ObjectType", {<<"Image">>})
              /\ has("NDims") /\ IsVector(meta["NDims"], 1)
              /\ is("BinaryData", {<<"True">>})
              /\ is("BinaryDataByteOrderMSB", flags)
              /\ is("ElementByteOrderMSB", flags)
              /\ is("CompressedData", {<<"False">>})
              /\ has("Offset") => IsVector(meta["Offset"], ndims)
              /\ has("ElementSpacing") => IsVector(meta["ElementSpacing"], ndims)
              /\ has("DimSize") /\ IsVector(meta["DimSize"], ndims)
              /\ has("ElementType") /\ is("ElementType", {<<type>> : type \in Types})
              /\ has("ElementDataFile")
           THEN [outcome |-> "ok",
                 ndims   |-> ndims,
                 dims    |-> vector("DimSize"),
                 origin  |-> vector("Offset"),
                 spacing |-> vector("ElementSpacing"),
                 type    |-> meta["ElementType"][1],
                 order   |-> IF order = <<"True">> THEN <<"big">>
                             ELSE IF order = <<"False">> THEN <<"little">>
                             ELSE Absent,
                 raw     |-> meta["ElementDataFile"][1]]
           ELSE Fails

(* GetData, into an image that is not constructed; there is no memory for   *)
(* less than nothing. An origin that the header does not have is not        *)
(* initialised.                                                             *)
GetData(info, dimension, type, file, host) ==
  IF \/ info.ndims # dimension
     \/ info.type # type
     \/ LongProduct(info.dims) \notin 0 .. Len(file)
  THEN Fails
  ELSE [outcome |-> "ok",
        dims    |-> info.dims,
        spacing |-> IF info.spacing = Absent THEN [i \in 1 .. dimension |-> 1]
                    ELSE info.spacing,
        origin  |-> IF info.origin = Absent THEN Arbitrary ELSE info.origin,
        data    |-> LET taken == SubSeq(file, 1, LongProduct(info.dims)) IN
                    IF info.order = Absent THEN taken
                    ELSE EndianConversion(taken, info.order[1], host)]

(* The streaming reader's n-th projection, for a header that says in which  *)
(* order the bytes are; it looks at a flag that may not be there.           *)
StreamedProjection(info, size, n, file, host) ==
  EndianConversion(SubSeq(file, (n - 1) * size + 1, n * size),
                   info.order[1], host)
=============================================================================
