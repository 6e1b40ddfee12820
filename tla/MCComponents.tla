------------------------------ MODULE MCComponents ------------------------------
(* Small instances of components that do not depend on each other, in one   *)
(* run: subject says which of them is at work, and the others stand still   *)
(* in an initial state.                                                     *)
EXTENDS SingleThreadedReconstructionRunner, Containers, ProjectionFilterer,
        FileCalls

VARIABLE subject

componentsVars ==
  <<subject, vars, containersVars, filtererVars, call, result>>

Subjects ==
  {"engine", "containers", "filterer", "tuples", "filters", "back-projection", "bad pixels",
   "beam", "pictures", "headers", "conf", "reconstruction settings",
   "other settings", "options"}

ComponentsInit ==
  /\ subject \in Subjects
  /\ Init
  /\ subject # "engine" => job = CHOOSE j \in Jobs : TRUE
  /\ FiltererInit
  /\ subject # "filterer" => setup = CHOOSE s \in Setups : TRUE
  /\ ContainersInit
  /\ CallsInit

CallsNext ==
  \/ subject = "tuples" /\ (ReadsTuple \/ WritesTuple \/ FlattensIndices \/ ChoosesLength)
  \/ subject = "filters" /\ (FiltersRow \/ MakesWindow)
  \/ subject = "back-projection" /\ BackProjects
  \/ subject = "bad pixels" /\ CorrectsBadPixels
  \/ subject = "beam" /\ CorrectsBeam
  \/ subject = "pictures" /\ WritesAndReads
  \/ subject = "headers" /\ ReadsHeader
  \/ subject = "conf" /\ ReadsConf
  \/ subject = "reconstruction settings" /\ RunsWithReconstructionSettings
  \/ subject = "other settings" /\ RunsWithOtherSettings
  \/ subject = "options" /\ RunsWithOptions

ComponentsNext ==
  \/ /\ subject = "engine"
     /\ Next
     /\ UNCHANGED <<subject, containersVars, filtererVars, call, result>>
  \/ /\ subject = "containers"
     /\ ContainersNext
     /\ UNCHANGED <<subject, vars, filtererVars, call, result>>
  \/ /\ subject = "filterer"
     /\ FiltererNext
     /\ UNCHANGED <<subject, vars, containersVars, call, result>>
  \/ /\ call = NoCall
     /\ CallsNext
     /\ UNCHANGED <<subject, vars, containersVars, filtererVars>>

ComponentsSpec == ComponentsInit /\ [][ComponentsNext]_componentsVars

(* Two places of an image, so that extents of one are not those of another. *)
TwoPlaces == {<<0, 1>>, <<1, 2>>}
=============================================================================
