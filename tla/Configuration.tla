------------------------------ MODULE Configuration ------------------------------
(***************************************************************************)
(* The configuration, from the lines of its file to what the launcher      *)
(* takes from it (bonelab/boost/property_tree: conf_parser.hpp, util.hpp;  *)
(* source: ReconConfiguration.cpp, athabasca_recon.cpp, and the part of    *)
(* ReconstructionLauncher.txx that reads the configuration).               *)
(*                                                                         *)
(* A tree is a sequence of entries [key, value, children]; children are    *)
(* entries [key, value].  A place is <<section, key>>.  A value is a word  *)
(* or a tuple of numbers in the order of the file, u before v and x before *)
(* z; a real number is given in halves.  A configuration in the making is  *)
(* [outcome, tree].                                                        *)
(***************************************************************************)
EXTENDS Integers, FiniteSetsExt, SequencesExt, MetaImage

Word(w)    == [word |-> w, numbers |-> <<>>]
Numbers(t) == [word |-> "", numbers |-> t]

(* A text is anything; a tuple of n numbers has n of them.                  *)
ReadsAs(value, n) == n = 0 \/ Len(value.numbers) = n

Keys(entries) == {entries[i].key : i \in DOMAIN entries}
IndexOf(entries, key) == CHOOSE i \in DOMAIN entries : entries[i].key = key
Children(tree, section) ==
  IF section \in Keys(tree) THEN tree[IndexOf(tree, section)].children ELSE <<>>

Has(tree, at) == at[2] \in Keys(Children(tree, at[1]))

ValueOf(entries, key) == entries[IndexOf(entries, key)].value
Get(tree, at) == ValueOf(Children(tree, at[1]), at[2])

(* An entry in the place of the one with its key, or at the end.            *)
Upsert(entries, entry) ==
  IF entry.key \in Keys(entries)
  THEN [entries EXCEPT ![IndexOf(entries, entry.key)] = entry]
  ELSE Append(entries, entry)

Put(tree, at, value) ==
  Upsert(tree,
    [key   |-> at[1],
     value |-> IF at[1] \in Keys(tree) THEN ValueOf(tree, at[1]) ELSE Word(""),
     children |-> Upsert(Children(tree, at[1]), [key |-> at[2], value |-> value])])

-----------------------------------------------------------------------------
(* The file. A line is [kind, key, value].                                  *)

Nothing          == [kind |-> "nothing", key |-> "", value |-> Word("")]
KeyLine(k, v)    == [kind |-> "key", key |-> k, value |-> v]
SectionLine(k)   == [kind |-> "section", key |-> k, value |-> Word("")]
WrongLine        == [kind |-> "wrong", key |-> "", value |-> Word("")]

(* Fault: a section without keys is kept.                                   *)
KeepsEmptySection(s) == s.tree

(* A section in which nothing follows is dropped by what ends it.           *)
Closed(s) ==
  IF s.open /\ Last(s.tree).children = <<>> THEN Front(s.tree) ELSE s.tree

(* What a line adds to what was read. A wrong line is one with [ and no ],  *)
(* or with no key, or with no = sign.                                       *)
ReadLine(s, line) ==
  LET siblings == IF s.open THEN Last(s.tree).children ELSE s.tree
      entry    == [key |-> line.key, value |-> line.value, children |-> <<>>]
      fails    == [s EXCEPT !.outcome = "throws"]
  IN  IF s.outcome # "ok" THEN s
      ELSE CASE line.kind = "nothing" -> s
             [] line.kind = "section" ->
                  IF line.key \in Keys(Closed(s)) THEN fails
                  ELSE [s EXCEPT !.open = TRUE, !.tree = Append(Closed(s), entry)]
             [] line.kind = "key" ->
                  IF line.key \in Keys(siblings) THEN fails
                  ELSE IF s.open
                  THEN [s EXCEPT !.tree[Len(s.tree)].children =
                          Append(@, [key |-> line.key, value |-> line.value])]
                  ELSE [s EXCEPT !.tree = Append(@, entry)]
             [] line.kind = "wrong" -> fails

(* read_conf                                                                *)
ReadConf(lines) ==
  LET end == FoldLeft(ReadLine, [outcome |-> "ok", tree |-> <<>>, open |-> FALSE],
                      lines)
  IN  [outcome |-> end.outcome, tree |-> Closed(end)]

(* write_conf: an entry without children is a key, wherever it is.          *)
WriteConf(tree) ==
  LET part(i) ==
        LET e == tree[i] IN
        IF e.children = <<>> THEN <<KeyLine(e.key, e.value)>>
        ELSE (IF i = 1 THEN <<>> ELSE <<Nothing>>) \o <<SectionLine(e.key)>>
               \o [j \in DOMAIN e.children |->
                     KeyLine(e.children[j].key, e.children[j].value)]
  IN  IF \/ Cardinality(Keys(tree)) # Len(tree)
         \/ \E i \in DOMAIN tree :
              \/ Cardinality(Keys(tree[i].children)) # Len(tree[i].children)
              \/ tree[i].children # <<>> /\ tree[i].value # Word("")
      THEN [outcome |-> "throws", lines |-> <<>>]
      ELSE [outcome |-> "ok",
            lines |-> FlattenSeq([i \in DOMAIN tree |-> part(i)])]

(* merge: only what is not there is put.                                    *)
MergeSection(tree, section) ==
  FoldLeft(LAMBDA t, e : IF Has(t, <<section.key, e.key>>) THEN t
                         ELSE Put(t, <<section.key, e.key>>, e.value),
           tree, section.children)

Merge(a, b) == FoldLeft(MergeSection, a, b)

-----------------------------------------------------------------------------
(* What the projections' header adds                                        *)

Inputs == {"RawProjectionsFile", "AttenuationProjectionsFile",
           "FilteredProjectionsFile"}

Given(tree) == {k \in Inputs : Has(tree, <<"Input", k>>)}

Dies(c) == [c EXCEPT !.outcome = "dies"]

(* Fault: the pixel size is the header's whatever the user says.            *)
HeaderPixelSize(tree, header) ==
  IF header.spacing # Absent THEN <<header.spacing[3], header.spacing[2]>>
  ELSE <<2, 2>>

(* The user's, or the header's, or 1 by 1.                                  *)
PixelSize(tree, header) ==
  LET at == <<"Projections", "PixelSize">>
  IN  IF Has(tree, at) /\ ReadsAs(Get(tree, at), 2) THEN Get(tree, at).numbers
      ELSE IF header.spacing # Absent
      THEN <<header.spacing[3], header.spacing[2]>>
      ELSE <<2, 2>>

(* ReadProjectionsInfo, of a header with three dimensions. (Of one with     *)
(* fewer it reads past the end of a vector.)                                *)
ReadProjectionsInfo(c, header) ==
  LET size  == PixelSize(c.tree, header)
      found == <<<<"DataType", Word(header.type)>>,
                 <<"Dimensions", Numbers(<<header.dims[3], header.dims[2]>>)>>,
                 <<"NumberOfProjections", Numbers(<<header.dims[1]>>)>>,
                 <<"PixelSize", Numbers(size)>>>>
               \o (IF header.origin = Absent THEN <<>>
                   ELSE <<<<"CenterPixelU",
                            Numbers(<<-((2 * header.origin[3]) \div size[1])>>)>>,
                          <<"OffsetV", Numbers(<<header.origin[2]>>)>>>>)
      section == [key |-> "Projections", value |-> Word(""),
                  children |-> [i \in DOMAIN found |->
                    [key |-> found[i][1], value |-> found[i][2]]]]
  IN  IF Cardinality(Given(c.tree)) # 1 THEN Dies(c)
      ELSE IF header.outcome # "ok" THEN [c EXCEPT !.outcome = header.outcome]
      ELSE [c EXCEPT !.tree = Merge(@, <<section>>)]

-----------------------------------------------------------------------------
(* VerifyConfiguration                                                      *)

ValidKeys ==
  [Input |-> Inputs \cup {"DarkFieldFile", "BrightFieldFile",
                          "PostScanBrightFieldFile"},
   Output |-> {"AttenuationProjectionsFile", "FilteredProjectionsFile",
               "VolumeFile", "AttenuationCorrectionsFile"},
   Projections |-> {"DataType", "Dimensions", "NumberOfProjections",
                    "ProjectionAt180", "PixelSize", "CenterPixelU", "OffsetV",
                    "ReverseRotation", "ProjectionStride"},
   Volume |-> {"Dimensions", "VoxelSize", "Origin"},
   Reconstruction |-> {"BadPixelCorrection", "FlatFieldBadThreshold",
     "DarkFieldBadThreshold", "BeamPowerCorrection",
     "BeamPowerIndependentVariable", "BeamPowerDecayConstantTerm",
     "BeamPowerDecayLinearTerm", "ProjectionBackgroundEdgeWidth",
     "PixelInterpolation", "CalculateCenterOfRotation", "SmoothingFilter",
     "SmoothingFilterRadius", "SmoothingFilterFrequencies", "ScalingFactor"},
   Software |-> {"Engine", "Threads", "MaximumVolumeMemory", "FilteringModule"}]

Refuse(c, wrong) == IF c.outcome = "ok" /\ wrong THEN Dies(c) ELSE c

KnownKeys(c, section) ==
  Refuse(c, ~(Keys(Children(c.tree, section)) \subseteq ValidKeys[section]))

(* RequireParameter and OptionalParameter, of n numbers or a text.          *)
Require(c, at, n) == Refuse(c, ~(Has(c.tree, at) /\ ReadsAs(Get(c.tree, at), n)))

Optional(c, at, default) ==
  IF c.outcome # "ok" THEN c
  ELSE IF Has(c.tree, at)
  THEN Refuse(c, ~ReadsAs(Get(c.tree, at), Len(default.numbers)))
  ELSE [c EXCEPT !.tree = Put(@, at, default)]

(* An optional word that must be one of some.                               *)
OneOf(c, at, choices) ==
  Refuse(c, c.outcome = "ok" /\ Get(c.tree, at) \notin {Word(w) : w \in choices})

Choice(c, at, default, choices) ==
  OneOf(Optional(c, at, Word(default)), at, choices)

HasBoth(c, at1, at2) == Has(c.tree, at1) /\ Has(c.tree, at2)

VerifyInput(c) == KnownKeys(Refuse(c, Cardinality(Given(c.tree)) # 1), "Input")

VerifyOutput(c) ==
  LET in(k)  == <<"Input", k \o "ProjectionsFile">>
      out(k) == <<"Output", k \o "ProjectionsFile">>
  IN  KnownKeys(Refuse(c, \/ HasBoth(c, in("Attenuation"), out("Attenuation"))
                          \/ HasBoth(c, in("Filtered"), out("Filtered"))
                          \/ HasBoth(c, in("Filtered"), out("Attenuation"))),
                "Output")

(* The centre of the image, unless the user or the header gives another.    *)
Centred(c) ==
  LET at(k)   == <<"Projections", k>>
      n(d)    == Get(c.tree, at("Dimensions")).numbers[d]
      size(d) == Get(c.tree, at("PixelSize")).numbers[d]
  IN  IF c.outcome # "ok" THEN c
      ELSE Optional(Optional(c,
             at("CenterPixelU"), Numbers(<<n(1) - 1>>)),
             at("OffsetV"), Numbers(<<-((size(2) * (n(2) - 1)) \div 2)>>))

KnownType(c) ==
  Refuse(c, Get(c.tree, <<"Projections", "DataType">>).word \notin Types)

VerifyProjections(c) ==
  LET at(k)    == <<"Projections", k>>
      required == Require(Require(Require(Require(c,
                    at("Dimensions"), 2), at("NumberOfProjections"), 1),
                    at("DataType"), 0), at("PixelSize"), 2)
  IN  KnownKeys(Optional(Choice(Centred(KnownType(required)),
        at("ReverseRotation"), "False", {"True", "False"}),
        at("ProjectionAt180"), Word("True")), "Projections")

(* By default the volume has the size of what the projections show, and its *)
(* centre on the axis.                                                      *)
Sized(c) ==
  LET at  == <<"Volume", "VoxelSize">>
      pixel(d) == Get(c.tree, <<"Projections", "PixelSize">>).numbers[d]
  IN  IF c.outcome # "ok" \/ pixel(1) # pixel(2) THEN Require(c, at, 3)
      ELSE Optional(c, at, Numbers(<<pixel(2), pixel(2), pixel(2)>>))

Filled(c) ==
  LET of(k, d)  == Get(c.tree, <<"Projections", k>>).numbers[d]
      axis(d)   == IF d = 3 THEN 2 ELSE 1
      extent(d) == of("Dimensions", axis(d)) * of("PixelSize", axis(d))
      voxel(d)  == Get(c.tree, <<"Volume", "VoxelSize">>).numbers[d]
  IN  IF c.outcome # "ok" THEN c
      ELSE Optional(c, <<"Volume", "Dimensions">>, Numbers(
             [d \in 1 .. 3 |-> (2 * extent(d) + voxel(d)) \div (2 * voxel(d))]))

OnAxis(c) ==
  LET of(k, d) == Get(c.tree, <<"Volume", k>>).numbers[d]
  IN  IF c.outcome # "ok" THEN c
      ELSE Optional(c, <<"Volume", "Origin">>, Numbers(
             [d \in 1 .. 3 |-> -(((of("Dimensions", d) - 1) * of("VoxelSize", d)) \div 2)]))

VerifyVolume(c) ==
  KnownKeys(IF Has(c.tree, <<"Output", "VolumeFile">>)
            THEN OnAxis(Filled(Sized(c))) ELSE c, "Volume")

(* With a correction comes the threshold of the flat field.                 *)
Threshold(c) ==
  IF c.outcome # "ok" \/ Get(c.tree, <<"Reconstruction", "BadPixelCorrection">>)
                           = Word("None") THEN c
  ELSE Optional(c, <<"Reconstruction", "FlatFieldBadThreshold">>, Numbers(<<20>>))

(* Fault: only a user's own choice of the correction gets its threshold.    *)
ThresholdIfChosen(c) ==
  LET at == <<"Reconstruction", "BadPixelCorrection">>
  IN  IF Has(c.tree, at) THEN Threshold(Choice(c, at, "Averaging", {"Averaging", "None"}))
      ELSE Choice(c, at, "Averaging", {"Averaging", "None"})

VerifyBadPixelCorrection(c) ==
  Threshold(Choice(c, <<"Reconstruction", "BadPixelCorrection">>, "Averaging",
                   {"Averaging", "None"}))

(* An old name is replaced by the new one.                                  *)
Renamed(c) ==
  LET at == <<"Reconstruction", "BeamPowerCorrection">>
  IN  IF c.outcome = "ok" /\ Get(c.tree, at) = Word("ZeroProjectionEdgeAttenuation")
      THEN [c EXCEPT !.tree = Put(@, at, Word("NullProjectionEdge"))] ELSE c

(* What each kind of correction needs, and must not have.                   *)
BeamPowerTerms(c) ==
  LET at(k)    == <<"Reconstruction", k>>
      is(w)    == Get(c.tree, at("BeamPowerCorrection")) = Word(w)
      constant == at("BeamPowerDecayConstantTerm")
      zero     == Optional(c, constant, Numbers(<<0>>))
  IN  IF c.outcome # "ok" \/ is("None") THEN c
      ELSE IF is("Manual") THEN Require(zero, at("BeamPowerDecayLinearTerm"), 1)
      ELSE IF is("BeforeAndAfterBrightField") THEN
        Refuse(zero, ~Has(c.tree, <<"Input", "PostScanBrightFieldFile">>))
      ELSE IF is("NullProjectionEdge") THEN
        Refuse(Optional(c, at("ProjectionBackgroundEdgeWidth"), Numbers(<<20>>)),
               Has(c.tree, constant))
      ELSE IF is("ConstantTotalAttenuation") THEN zero
      ELSE Dies(c)

VerifyBeamPowerCorrection(c) ==
  BeamPowerTerms(Renamed(
    Optional(c, <<"Reconstruction", "BeamPowerCorrection">>, Word("None"))))

(* Fault: a default that the other filter must not have.                    *)
RadiusForAny(c) ==
  LET at(k) == <<"Reconstruction", k>>
      other == IF Get(c.tree, at("SmoothingFilter")) = Word("Gaussian")
               THEN "SmoothingFilterFrequencies" ELSE "SmoothingFilterRadius"
  IN  IF c.outcome # "ok" THEN c
      ELSE Optional(Refuse(c, Has(c.tree, at(other))),
                    at("SmoothingFilterRadius"), Numbers(<<1>>))

(* What each filter needs, and must not have.                               *)
SmoothingTerms(c) ==
  LET at(k) == <<"Reconstruction", k>>
      is(w) == Get(c.tree, at("SmoothingFilter")) = Word(w)
      frequencies == at("SmoothingFilterFrequencies")
      radius      == at("SmoothingFilterRadius")
  IN  IF c.outcome # "ok" \/ is("None") THEN c
      ELSE IF is("Gaussian")
      THEN Refuse(Optional(c, radius, Numbers(<<1>>)), Has(c.tree, frequencies))
      ELSE Refuse(Require(c, frequencies, 2), Has(c.tree, radius))

VerifySmoothing(c) ==
  SmoothingTerms(Choice(c, <<"Reconstruction", "SmoothingFilter">>, "Gaussian",
                        {"None", "Gaussian", "TaperedCosineWindow"}))

Interpolated(c) ==
  IF Has(c.tree, <<"Output", "VolumeFile">>)
  THEN Choice(c, <<"Reconstruction", "PixelInterpolation">>, "BilinearWithFallback",
              {"Bilinear", "NearestNeighbor", "BilinearWithFallback"})
  ELSE c

VerifyReconstruction(c) ==
  KnownKeys(VerifySmoothing(Interpolated(
    IF Has(c.tree, <<"Input", "RawProjectionsFile">>)
    THEN VerifyBeamPowerCorrection(VerifyBadPixelCorrection(c)) ELSE c)),
    "Reconstruction")

(* A number of threads, at least one, or the machine's.                     *)
Threaded(c) ==
  LET at == <<"Software", "Threads">>
      n  == Get(c.tree, at)
  IN  Refuse(c, c.outcome = "ok" /\ n # Word("Automatic")
                  /\ (~ReadsAs(n, 1) \/ n.numbers[1] < 1))

WithThreads(c) ==
  IF c.outcome # "ok" \/ Get(c.tree, <<"Software", "Engine">>) # Word("MultiThreaded")
  THEN c ELSE Threaded(Optional(c, <<"Software", "Threads">>, Word("Automatic")))

WithMemory(c) ==
  IF Has(c.tree, <<"Output", "VolumeFile">>)
  THEN Optional(c, <<"Software", "MaximumVolumeMemory">>, Word("Automatic")) ELSE c

(* The filtering modules that the program may have been built with.         *)
WithFilters(c, libraries) ==
  LET default == IF "vDSP" \in libraries THEN "vDSP"
                 ELSE IF "FFTW" \in libraries THEN "FFTW" ELSE "RealSpaceConvolution"
  IN  IF Has(c.tree, <<"Input", "FilteredProjectionsFile">>) THEN c
      ELSE Choice(c, <<"Software", "FilteringModule">>, default,
                  libraries \cup {"RealSpaceConvolution"})

VerifySoftware(c, libraries) ==
  KnownKeys(WithFilters(WithMemory(WithThreads(
    Choice(c, <<"Software", "Engine">>, "MultiThreaded",
           {"SingleThreaded", "MultiThreaded"}))), libraries), "Software")

KnownSections(c) == Refuse(c, ~(Keys(c.tree) \subseteq DOMAIN ValidKeys))

VerifyConfiguration(c, libraries) ==
  KnownSections(VerifySoftware(VerifyReconstruction(VerifyVolume(VerifyProjections(
    VerifyOutput(VerifyInput(c))))), libraries))

-----------------------------------------------------------------------------
(* What the launcher takes                                                  *)

(* The places of which it takes it for granted that they read as so many    *)
(* numbers, or as a text.                                                   *)
LauncherGets(tree) ==
  LET is(at, w)  == Has(tree, at) /\ Get(tree, at) = Word(w)
      recon(k)   == <<"Reconstruction", k>>
      beam(w)    == is(recon("BeamPowerCorrection"), w)
      raw        == Has(tree, <<"Input", "RawProjectionsFile">>)
      filters    == ~Has(tree, <<"Input", "FilteredProjectionsFile">>)
      places(p, ks, n) == {<<<<p, k>>, n>> : k \in ks}
  IN  places("Projections", {"Dimensions", "PixelSize"}, 2)
      \cup places("Projections", {"NumberOfProjections", "CenterPixelU", "OffsetV"}, 1)
      \cup {<<<<"Projections", "DataType">>, 0>>, <<<<"Software", "Engine">>, 0>>}
      \cup (IF Has(tree, <<"Output", "VolumeFile">>)
            THEN places("Volume", {"Dimensions", "VoxelSize", "Origin"}, 3)
                   \cup {<<<<"Software", "MaximumVolumeMemory">>, 0>>}
            ELSE {})
      \cup (IF raw /\ is(recon("BadPixelCorrection"), "Averaging")
            THEN {<<recon("FlatFieldBadThreshold"), 1>>} ELSE {})
      \cup (IF raw /\ \/ beam("Manual") \/ beam("BeforeAndAfterBrightField")
                      \/ beam("ConstantTotalAttenuation")
            THEN {<<recon("BeamPowerDecayConstantTerm"), 1>>} ELSE {})
      \cup (IF raw /\ beam("Manual")
            THEN {<<recon("BeamPowerDecayLinearTerm"), 1>>} ELSE {})
      \cup (IF raw /\ beam("NullProjectionEdge")
            THEN {<<recon("ProjectionBackgroundEdgeWidth"), 1>>} ELSE {})
      \cup (IF filters /\ is(recon("SmoothingFilter"), "Gaussian")
            THEN {<<recon("SmoothingFilterRadius"), 1>>} ELSE {})
      \cup (IF filters /\ is(recon("SmoothingFilter"), "TaperedCosineWindow")
            THEN {<<recon("SmoothingFilterFrequencies"), 2>>} ELSE {})
      \cup (IF is(<<"Software", "Engine">>, "MultiThreaded")
            THEN {<<<<"Software", "Threads">>,
                    IF is(<<"Software", "Threads">>, "Automatic") THEN 0 ELSE 1>>}
            ELSE {})

Finds(tree) ==
  \A g \in LauncherGets(tree) : Has(tree, g[1]) /\ ReadsAs(Get(tree, g[1]), g[2])

(* The words that it throws an exception at.                                *)
Understands(tree, place, words) ==
  Has(tree, place) => Get(tree, place) \in {Word(w) : w \in words}

LauncherUnderstands(tree) ==
  /\ Understands(tree, <<"Software", "Engine">>, {"SingleThreaded", "MultiThreaded"})
  /\ Understands(tree, <<"Software", "FilteringModule">>,
                 {"RealSpaceConvolution", "vDSP", "FFTW"})
  /\ Understands(tree, <<"Reconstruction", "PixelInterpolation">>,
                 {"Bilinear", "NearestNeighbor", "BilinearWithFallback"})
  /\ Has(tree, <<"Input", "FilteredProjectionsFile">>)
       \/ Understands(tree, <<"Reconstruction", "SmoothingFilter">>,
                      {"None", "Gaussian", "TaperedCosineWindow"})

SystemMemory == 4096

(* ParseMemoryValue, in megabytes. A value is [word |-> its unit, numbers]. *)
ParseMemoryValue(value, system) ==
  IF value = Word("Automatic")
  THEN [outcome |-> "ok", memory |-> Max({512, system - 1024})]
  ELSE IF value.word \notin {"MB", "GB"} \/ Len(value.numbers) # 1
  THEN [outcome |-> "dies", memory |-> 0]
  ELSE [outcome |-> IF value.numbers[1] > 0 THEN "ok" ELSE "throws",
        memory  |-> value.numbers[1] * (IF value.word = "GB" THEN 1024 ELSE 1)]

LauncherAccepts(tree) ==
  /\ Finds(tree) /\ LauncherUnderstands(tree)
  /\ Has(tree, <<"Output", "VolumeFile">>)
       => ParseMemoryValue(Get(tree, <<"Software", "MaximumVolumeMemory">>),
                           SystemMemory).outcome = "ok"

(* The first pixel's position, in the order of the header.                  *)
ProjectionOrigin(tree) ==
  LET of(k) == Get(tree, <<"Projections", k>>).numbers
  IN  <<of("OffsetV")[1], -((of("PixelSize")[1] * of("CenterPixelU")[1]) \div 2)>>

-----------------------------------------------------------------------------
(* The program                                                              *)

LaunchableTypes == Types \ {"MET_LONG", "MET_ULONG"}

Configure(lines, header, libraries) ==
  LET read == ReadConf(lines)
  IN  IF read.outcome # "ok" THEN [outcome |-> "throws", tree |-> <<>>]
      ELSE VerifyConfiguration(ReadProjectionsInfo(read, header), libraries)

Endless == 99                             \* no exit status: it never exits

(* main, with the options given and what Configure makes of the file: the   *)
(* status at the exit, what is reported, and whether the launcher is called.*)
RunProgram(options, configured) ==
  LET end(status, report, launched) ==
        [status |-> status, report |-> report, launched |-> launched]
      report == WriteConf(configured.tree)
      type   == Get(configured.tree, <<"Projections", "DataType">>).word
  IN  IF "wrong" \in options THEN end(-1, <<>>, FALSE)
      ELSE IF options \cap {"help", "version"} # {} THEN end(0, <<>>, FALSE)
      ELSE IF "config_file" \notin options THEN end(-1, <<>>, FALSE)
      ELSE IF configured.outcome = "hangs" THEN end(Endless, <<>>, FALSE)
      ELSE IF configured.outcome # "ok" \/ report.outcome # "ok"
      THEN end(-1, <<>>, FALSE)
      ELSE IF "config" \in options THEN end(0, report.lines, FALSE)
      ELSE IF type \notin LaunchableTypes THEN end(-1, report.lines, FALSE)
      ELSE end(IF LauncherAccepts(configured.tree) THEN 0 ELSE -1, report.lines, TRUE)
=============================================================================
