-------------------------------- MODULE FileCalls --------------------------------
(* What is written to files and read from them, as calls: MetaImage files,  *)
(* configurations, and the program as a whole.                              *)
EXTENDS Calls, Configuration

-----------------------------------------------------------------------------
(* MetaImage files                                                          *)

Pictures ==
  [dims : {<<1, 2, 1>>, <<2, 1, 2>>, <<3, 1, 2>>, <<2, 2, 2>>},
   type : {"MET_UCHAR", "MET_SHORT", "MET_FLOAT", "MET_DOUBLE"},
   origin : {<<-7, 0, 40>>}, spacing : {<<1, 2, 3>>}]

Volume(picture) == LongProduct(picture.dims)

(* The bytes of the k-th element, the most significant first, and as they   *)
(* are in the memory of a machine.                                          *)
Value(picture, k) ==
  [b \in 1 .. ElementSize(picture.type) |-> 10 * k + b]
Native(picture, k, host) ==
  IF host = "big" THEN Value(picture, k) ELSE Reverse(Value(picture, k))

InMemory(picture, host) ==
  [k \in 1 .. Volume(picture) |-> Native(picture, k, host)]

(* As one stack, or as a slice and the rest, or as slices.                  *)
Portions(picture, host, way) ==
  LET size  == Volume(picture) \div picture.dims[1]
      data  == InMemory(picture, host)
      slice(k) == [kind |-> "slice", data |-> SubSeq(data, (k - 1) * size + 1, k * size)]
  IN  CASE way = "stack"  -> <<[kind |-> "stack", data |-> data]>>
        [] way = "mixed"  -> <<slice(1), [kind |-> "stack",
                                data |-> SubSeq(data, size + 1, Len(data))]>>
        [] way = "slices" -> [k \in 1 .. picture.dims[1] |-> slice(k)]

(* An image is written on one machine and read on another, as a whole and   *)
(* projection by projection.                                                *)
WrittenAndRead(picture, writer, reader, portions) ==
  LET slice    == Tail(picture.dims)
      streamed == StreamedFile(slice, portions)
      info     == GetInformation(ClosedHeader(
                    [sliceDims |-> slice, spacing |-> picture.spacing,
                     origin |-> picture.origin, type |-> picture.type],
                    streamed, "a.raw", writer))
  IN  [image |-> GetData(info, 3, picture.type, streamed.data, reader),
       projections |->
         [n \in 1 .. picture.dims[1] |->
            StreamedProjection(info, LongProduct(slice), n, streamed.data, reader)]]

WritesAndReads ==
  \E picture \in Pictures, writer \in Orders, reader \in Orders,
     way \in {"stack", "mixed", "slices"} :
    Called([name |-> "picture", picture |-> picture, writer |-> writer,
            reader |-> reader],
           WrittenAndRead(picture, writer, reader, Portions(picture, writer, way)))

(* The image that is read has the size, the spacing and the origin of what  *)
(* was written, in slices or in stacks; elements of more than one byte have *)
(* the value they were written with, if the two machines have the same byte *)
(* order or not; and the reader of projections finds in the file what the   *)
(* reader of images finds.                                                  *)
ImagesAreRead ==
  call.name = "picture" =>
    LET image == result.image IN
    /\ image.outcome = "ok"
    /\ image.dims = call.picture.dims
    /\ image.spacing = call.picture.spacing
    /\ image.origin = call.picture.origin
    /\ ElementSize(call.picture.type) > 1 =>
         image.data = InMemory(call.picture, call.reader)
    /\ FlattenSeq(result.projections) = image.data

(* athabasca_recon_manual.adoc:1785-1788, on raw files in the other byte    *)
(* order, "This is not a problem, so long as the storage format it is       *)
(* correctly indicated": elements of any size are read as they were         *)
(* written.                                                                 *)
AnyByteOrderIsRead ==
  call.name = "picture" => result.image.data = InMemory(call.picture, call.reader)

-----------------------------------------------------------------------------
(* Headers: those that the writer makes, with up to two changes             *)

SoundHeader ==
  FormatMetaInfo([dims |-> <<2, 3>>, spacing |-> <<1, 2>>, origin |-> <<-7, 5>>,
                  type |-> "MET_SHORT"], "a.raw", "big").lines

Insertions ==
  {Blank, Malformed, Line("ObjectType", <<"Scene">>), Line("BinaryData", <<"False">>),
   Line("BinaryDataByteOrderMSB", <<"Maybe">>), Line("ElementByteOrderMSB", <<"False">>),
   Line("CompressedData", <<"True">>), NumbersLine("DimSize", <<3>>),
   NumbersLine("DimSize", <<NoNumber, 2>>), NumbersLine("DimSize", <<-3, 2>>),
   NumbersLine("Offset", <<1, 2, 3>>),
   NumbersLine("NDims", <<NoNumber>>), NumbersLine("NDims", <<3>>),
   NumbersLine("ElementSpacing", <<4, 3>>), Line("ElementType", <<"MET_BOOL">>)}

Changes(lines) ==
  {lines} \cup {RemoveAt(lines, i) : i \in DOMAIN lines}
    \cup {InsertAt(lines, i, new) : i \in 1 .. Len(lines) + 1, new \in Insertions}

ReadsHeader ==
  \E once \in Changes(SoundHeader) : \E lines \in Changes(once), ended \in BOOLEAN :
    Called([name |-> "header", header |-> [lines |-> lines, ended |-> ended]],
           GetInformation([lines |-> lines, ended |-> ended]))

(* The parser ends, unless a complete line is blank and all before it are   *)
(* understood; and an image that is accepted, whatever the header says, has *)
(* as many sizes, spacings and offsets as dimensions, all numbers, and is   *)
(* read from as much data as its sizes ask for, unless they ask for less    *)
(* than nothing.                                                            *)
HeadersAreUnderstood ==
  call.name = "header" =>
    LET complete == IF call.header.ended THEN call.header.lines
                    ELSE Front(call.header.lines)
        at(l) == {i \in DOMAIN complete : complete[i] = l}
    IN  /\ result.outcome = "hangs"
             <=> \E i \in at(Blank) : \A j \in at(Malformed) : i < j
        /\ result.outcome = "ok" =>
             LET size  == LongProduct(result.dims)
                 file  == [k \in 1 .. size |-> <<k, 10 + k>>]
                 image == GetData(result, result.ndims, result.type, file, "little")
             IN  /\ \A t \in {result.dims, result.spacing, result.origin} \ {Absent} :
                      Len(t) = result.ndims /\ NoNumber \notin Range(t)
                 /\ image.outcome = "ok" <=> size >= 0
                 /\ image.outcome = "ok" => Len(image.data) = size

-----------------------------------------------------------------------------
(* Configuration files                                                      *)

ConfLines ==
  {Nothing, WrongLine, SectionLine("A"), SectionLine("B"), KeyLine("a", Word("x")),
   KeyLine("b", Word("")), KeyLine("A", Word("x"))}

ReadsConf ==
  \E lines \in UNION {[1 .. n -> ConfLines] : n \in 0 .. 5} :
    Called([name |-> "conf", lines |-> lines], ReadConf(lines))

(* A file is read if and only if no line is wrong and no name is given      *)
(* twice: no key in a section, and no section or key outside of them; a     *)
(* section without keys does not count. What was read is written as a file  *)
(* from which the same is read.                                             *)
ReadRightly(lines, read) ==
  LET is(kind) == {i \in DOMAIN lines : lines[i].kind = kind}
      sectionOf(i) == Max({0} \cup {j \in is("section") : j <= i})
      live == {j \in is("section") : \E i \in is("key") : sectionOf(i) = j}
      outside == {i \in is("key") : sectionOf(i) = 0}
      sound ==
        /\ is("wrong") = {}
        /\ \A i, j \in is("key") :
             i < j /\ sectionOf(i) = sectionOf(j) => lines[i].key # lines[j].key
        /\ \A j \in is("section") : \A i \in live \cup outside :
             i < j => lines[i].key # lines[j].key
      written == WriteConf(read.tree)
  IN  /\ (read.outcome = "ok") = sound
      /\ sound => /\ written.outcome = "ok"
                  /\ ReadConf(written.lines).tree = read.tree

(* read_conf and write_conf: every file is read rightly.                    *)
ConfFilesAreRead == call.name = "conf" => ReadRightly(call.lines, result)

-----------------------------------------------------------------------------
(* The program, for configurations with up to two settings out of many      *)

Set(section, key, value) == [section |-> section, line |-> KeyLine(key, value)]
SetWord(section, key, w) == Set(section, key, Word(w))
SetNumbers(section, key, t) == Set(section, key, Numbers(t))

ReconstructionSettings ==
  LET R == "Reconstruction" IN
  {SetWord(R, "BadPixelCorrection", w) : w \in {"None", "Averaging", "Magic"}}
  \cup {SetWord(R, "BeamPowerCorrection", w) :
          w \in {"Manual", "BeforeAndAfterBrightField", "NullProjectionEdge",
                 "ZeroProjectionEdgeAttenuation", "ConstantTotalAttenuation", "Magic"}}
  \cup {SetWord(R, "SmoothingFilter", w) : w \in {"None", "TaperedCosineWindow", "Magic"}}
  \cup {SetWord(R, "PixelInterpolation", w) : w \in {"Bilinear", "Magic"}}
  \cup {SetNumbers(R, "BeamPowerDecayConstantTerm", <<6>>),
        SetNumbers(R, "BeamPowerDecayLinearTerm", <<6>>),
        SetNumbers(R, "SmoothingFilterRadius", <<6>>),
        SetNumbers(R, "SmoothingFilterFrequencies", <<6, 8>>),
        SetWord(R, "FlatFieldBadThreshold", "many"), SetWord(R, "Magic", "Magic")}

OtherSettings ==
  LET P == "Projections"
      S == "Software"
  IN  {SetNumbers(P, "PixelSize", t) : t \in {<<4, 4>>, <<8, 4>>, <<8>>}}
      \cup {SetNumbers(P, "CenterPixelU", <<5>>), SetNumbers(P, "OffsetV", <<5>>),
            SetNumbers(P, "Dimensions", <<7, 5>>),
            SetWord(P, "ReverseRotation", "Magic"), SetWord(P, "DataType", "Magic"),
            SetNumbers("Volume", "VoxelSize", <<4, 4, 4>>),
            SetNumbers("Volume", "Dimensions", <<3, 3, 3>>),
            SetNumbers("Volume", "Dimensions", <<3, 3>>),
            SetWord(S, "Engine", "SingleThreaded"), SetWord(S, "MaximumVolumeMemory", "lots"),
            Set(S, "MaximumVolumeMemory", [word |-> "GB", numbers |-> <<2>>]),
            SetNumbers(S, "Threads", <<2>>), SetNumbers(S, "Threads", <<0>>),
            SetWord("Magic", "Magic", "Magic"), SetWord("", "Volume", "Magic")}
      \cup {SetWord(S, "FilteringModule", w) : w \in {"FFTW", "vDSP", "Magic"}}

InputSettings ==
  LET file(k) == SetWord("Input", k, "a.mhd") IN
  {{file("RawProjectionsFile")}, {file("AttenuationProjectionsFile")},
   {file("FilteredProjectionsFile")},
   {file("RawProjectionsFile"), file("PostScanBrightFieldFile")},
   {file("RawProjectionsFile"), file("FilteredProjectionsFile")}}

OutputSettings ==
  LET file(k) == SetWord("Output", k, "b.mhd") IN
  {{}, {file("VolumeFile")}, {file("FilteredProjectionsFile")},
   {file("AttenuationProjectionsFile"), file("VolumeFile")}}

UpToTwo(settings) ==
  {s \in UNION {kSubset(n, settings) : n \in 0 .. 2} :
     \A a, b \in s : a.section = b.section /\ a.line.key = b.line.key => a = b}

(* The settings outside of sections come first.                             *)
LinesOf(settings) ==
  LET lines(section) == SetToSeq({s.line : s \in {t \in settings : t.section = section}})
      part(section)  == IF lines(section) = <<>> THEN <<>>
                        ELSE <<SectionLine(section)>> \o lines(section)
  IN  lines("") \o part("Input") \o part("Output") \o part("Volume")
        \o part("Projections") \o part("Reconstruction") \o part("Software")
        \o part("Magic")

ProjectionsHeader ==
  GetInformation(FormatMetaInfo(
    [dims |-> <<4, 3, 6>>, spacing |-> <<2, 4, 4>>, origin |-> <<0, -8, -12>>,
     type |-> "MET_USHORT"], "a.raw", "little"))

ProjectionsHeaders ==
  {ProjectionsHeader, Fails, [outcome |-> "hangs"],
   [ProjectionsHeader EXCEPT !.spacing = <<2, 4, 2>>],
   [ProjectionsHeader EXCEPT !.origin = Absent],
   [ProjectionsHeader EXCEPT !.spacing = Absent, !.type = "MET_LONG"]}

Libraries == {"FFTW"}

Runs(options, settings, header) ==
  \E verified \in {Configure(LinesOf(settings), header, Libraries)} :
    Called([name |-> "program", options |-> options, settings |-> settings,
            header |-> header, verified |-> verified],
           RunProgram(options, verified))

RunsWithReconstructionSettings ==
  \E in \in InputSettings, out \in OutputSettings,
     s \in UpToTwo(ReconstructionSettings) :
    Runs({"config_file"}, s \cup in \cup out, ProjectionsHeader)

RunsWithOtherSettings ==
  \E in \in InputSettings, out \in OutputSettings, s \in UpToTwo(OtherSettings),
     header \in ProjectionsHeaders :
    Runs({"config_file"}, s \cup in \cup out, header)

RunsWithOptions ==
  \E in \in InputSettings, out \in OutputSettings,
     options \in SUBSET {"config_file", "help", "version", "config", "wrong"} :
    Runs(options, in \cup out, ProjectionsHeader)

Tree == call.verified.tree

(* "The configuration is written in the conf format, which allows it to be  *)
(* copied and pasted" (ReconConfiguration.hpp:75): the program does the     *)
(* same with what it reported, and reports it again.                        *)
ReportCanBePasted ==
  call.name = "program" /\ result.report # <<>> =>
    RunProgram(call.options,
               Configure(result.report, call.header, Libraries)) = result

(* The launcher finds all that it takes for granted in a configuration that *)
(* was verified, and stops only at values that were not: those that do not  *)
(* matter for the verification as no volume is asked for, or no filter, and *)
(* the memory.                                                              *)
VerifiedIsEnough ==
  call.name = "program" /\ call.verified.outcome = "ok" =>
    /\ Finds(Tree)
    /\ \/ LauncherAccepts(Tree)
       \/ Has(Tree, <<"Input", "FilteredProjectionsFile">>)
       \/ ~Has(Tree, <<"Output", "VolumeFile">>)
       \/ ParseMemoryValue(Get(Tree, <<"Software", "MaximumVolumeMemory">>),
                           SystemMemory).outcome # "ok"

(* The projections are where their header says, with the header's pixels or *)
(* the user's, unless the user says where: the position goes through a      *)
(* division by one pixel size and a multiplication with another.            *)
GeometryFollowsHeader ==
  LET h == call.header IN
  call.name = "program" /\ call.verified.outcome = "ok" /\ h.origin # Absent
    /\ (\A s \in call.settings : s.line.key \notin {"CenterPixelU", "OffsetV"})
    => ProjectionOrigin(Tree) = <<h.origin[2], h.origin[3]>>
=============================================================================
