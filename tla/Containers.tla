------------------------------ MODULE Containers ------------------------------
(* The containers that hold all pixels: images, which are arrays with a     *)
(* place in space, the double buffers made of two of them, and the groups   *)
(* of double buffers that an engine makes, one for each worker              *)
(* (bonelab/Array.hpp, Image.hpp, DoubleBuffer.hpp, ObjectGroup.hpp).       *)
(* Modelled is who owns which memory, who refers to it, and where an image  *)
(* lies; what its pixels are is not. One dimension stands for all.          *)
EXTENDS Integers, Sequences, FiniteSets

CONSTANTS
  Plain,      \* images made one by one
  Buffers,    \* double buffers, made by a group
  Blocks,     \* addresses that new[] may return
  NULL,
  Dims,       \* sizes of an image
  Places      \* pairs of origin and spacing

ASSUME ContainersAssumption ==
  /\ NULL \notin Blocks
  /\ Dims \subseteq Nat \ {0}
  /\ Places \subseteq Int \X Nat
  /\ Plain \cap (Buffers \X {"A", "B"}) = {}

VARIABLES
  existence,    \* of an object: "none", "alive", or "dying" between destructors
  array,        \* the members of each object
  failed,       \* the objects whose allocation threw: not to be used any more
  heap,         \* the blocks allocated
  corrupt,      \* was a block freed that was not allocated?
  group,        \* ObjectGroup::m_Objects
  built,        \* how far the construct of a double buffer has come
  loadingSide   \* the side m_Loading points to; m_Active points to the other

containersVars ==
  <<existence, array, failed, heap, corrupt, group, built, loadingSide>>

Sides == {"A", "B"}
Members == Buffers \X Sides
Objects == Plain \cup Members

OtherSide(s) == IF s = "A" THEN "B" ELSE "A"

(* Centres and outer edges of the first and of the last pixel; the edges    *)
(* are counted in halves.                                                   *)
Extents(dims, place) ==
  LET last == place[1] + (dims - 1) * place[2]
  IN  [interior |-> <<place[1], last>>,
       exterior |-> <<2 * place[1] - place[2], 2 * last + place[2]>>]

Empty ==
  [constructed |-> FALSE, dims |-> 0, buffer |-> NULL, base |-> NULL,
   place |-> <<0, 0>>, extents |-> Extents(0, <<0, 0>>)]

Owning(block, dims, place) ==
  [constructed |-> TRUE, dims |-> dims, buffer |-> block, base |-> block,
   place |-> place, extents |-> Extents(dims, place)]

ReferenceTo(a) == [a EXCEPT !.buffer = NULL]

ContainersInit ==
  /\ existence = [o \in Objects |-> "none"]
  /\ array = [o \in Objects |-> Empty]
  /\ failed = {}
  /\ heap = {}
  /\ corrupt = FALSE
  /\ group = <<>>
  /\ built = [d \in Buffers |-> "no"]
  /\ loadingSide = [d \in Buffers |-> "A"]

Usable(o) == existence[o] = "alive" /\ o \notin failed
InUse(o) == Usable(o) /\ array[o].constructed

-----------------------------------------------------------------------------
(* Making them                                                              *)

Create(o) ==
  /\ o \in Plain /\ existence[o] = "none"
  /\ existence' = [existence EXCEPT ![o] = "alive"]
  /\ array' = [array EXCEPT ![o] = Empty]
  /\ UNCHANGED <<failed, heap, corrupt, group, built, loadingSide>>

(* new[], which may return any address that is free.                        *)
Allocates(o, dims, place) ==
  /\ ~array[o].constructed
  /\ \E b \in Blocks \ heap :
       /\ heap' = heap \cup {b}
       /\ array' = [array EXCEPT ![o] = Owning(b, dims, place)]

(* The constructor that allocates: when it throws there is no object.       *)
CreateConstructed(o, dims, place) ==
  /\ o \in Plain /\ existence[o] = "none"
  /\ existence' = [existence EXCEPT ![o] = "alive"]
  /\ Allocates(o, dims, place)
  /\ UNCHANGED <<failed, corrupt, group, built, loadingSide>>

CreateReference(o, source) ==
  /\ o \in Plain /\ existence[o] = "none" /\ InUse(source)
  /\ existence' = [existence EXCEPT ![o] = "alive"]
  /\ array' = [array EXCEPT ![o] = ReferenceTo(array[source])]
  /\ UNCHANGED <<failed, heap, corrupt, group, built, loadingSide>>

(* construct counts the array as constructed, and sets its dimensions,      *)
(* before it allocates; it may throw in between.                            *)
CannotAllocate(o, dims) ==
  /\ ~array[o].constructed
  /\ array' = [array EXCEPT ![o].constructed = TRUE, ![o].dims = dims]
  /\ failed' = failed \cup {o}
  /\ UNCHANGED heap

Construct(o, dims, place) ==
  /\ o \in Plain /\ Usable(o)
  /\ \/ Allocates(o, dims, place) /\ UNCHANGED failed
     \/ CannotAllocate(o, dims)
  /\ UNCHANGED <<existence, corrupt, group, built, loadingSide>>

ConstructReference(o, source) ==
  /\ o \in Plain /\ Usable(o) /\ ~array[o].constructed /\ InUse(source)
  /\ array' = [array EXCEPT ![o] = ReferenceTo(array[source])]
  /\ UNCHANGED <<existence, failed, heap, corrupt, group, built,
                 loadingSide>>

(* ObjectGroup::construct makes one member after the other.                 *)
AddToGroup(d) ==
  /\ \A i \in DOMAIN group : group[i] # d
  /\ existence[<<d, "A">>] = "none"
  /\ group' = Append(group, d)
  /\ existence' = [o \in Objects |->
       IF o \in {d} \X Sides THEN "alive" ELSE existence[o]]
  /\ array' = [o \in Objects |-> IF o \in {d} \X Sides THEN Empty ELSE array[o]]
  /\ built' = [built EXCEPT ![d] = "no"]
  /\ loadingSide' = [loadingSide EXCEPT ![d] = "A"]
  /\ UNCHANGED <<failed, heap, corrupt>>

(* DoubleBuffer::construct: first one side ...                              *)
ConstructA(d, dims, place) ==
  /\ Usable(<<d, "A">>) /\ built[d] = "no"
  /\ \/ /\ Allocates(<<d, "A">>, dims, place)
        /\ built' = [built EXCEPT ![d] = "half"]
        /\ UNCHANGED failed
     \/ CannotAllocate(<<d, "A">>, dims) /\ UNCHANGED built
  /\ UNCHANGED <<existence, corrupt, group, loadingSide>>

(* ... then the other, alike.                                               *)
ConstructB(d) ==
  LET a == array[<<d, "A">>] IN
  /\ Usable(<<d, "B">>) /\ built[d] = "half"
  /\ \/ /\ Allocates(<<d, "B">>, a.dims, a.place)
        /\ built' = [built EXCEPT ![d] = "yes"]
        /\ UNCHANGED failed
     \/ CannotAllocate(<<d, "B">>, a.dims) /\ UNCHANGED built
  /\ UNCHANGED <<existence, corrupt, group, loadingSide>>

-----------------------------------------------------------------------------
(* Using them                                                               *)

(* Fault: the extents are left as they are.                                 *)
TakesPlaceOnly(o, source) ==
  array' = [array EXCEPT ![o].place = array[source].place]

TakesPlace(o, source) ==
  array' = [array EXCEPT
    ![o].place = array[source].place,
    ![o].extents = Extents(array[o].dims, array[source].place)]

(* Image::copy. An image not yet constructed is constructed first; else its *)
(* dimensions must be those of the source, or nothing is copied.            *)
Copy(o, source) ==
  /\ o \in Plain /\ Usable(o) /\ InUse(source) /\ o # source
  /\ IF ~array[o].constructed
       THEN \/ /\ \E b \in Blocks \ heap :
                    /\ heap' = heap \cup {b}
                    /\ array' = [array EXCEPT ![o] =
                         Owning(b, array[source].dims, array[source].place)]
               /\ UNCHANGED failed
            \/ CannotAllocate(o, array[source].dims)
       ELSE /\ array[o].dims = array[source].dims
            /\ TakesPlace(o, source)
            /\ UNCHANGED <<heap, failed>>
  /\ UNCHANGED <<existence, corrupt, group, built, loadingSide>>

SwapSides(d) ==
  /\ Usable(<<d, "A">>) /\ built[d] = "yes"
  /\ loadingSide' = [loadingSide EXCEPT ![d] = OtherSide(@)]
  /\ UNCHANGED <<existence, array, failed, heap, corrupt, group, built>>

-----------------------------------------------------------------------------
(* Destroying them                                                          *)

(* Fault: the members are left as they are.                                 *)
FreesOnly(o) ==
  /\ IF array[o].buffer # NULL
       THEN /\ heap' = heap \ {array[o].buffer}
            /\ corrupt' = (corrupt \/ array[o].buffer \notin heap)
       ELSE UNCHANGED <<heap, corrupt>>
  /\ UNCHANGED array

(* Array::destruct frees what the array owns and forgets everything.        *)
Destruct(o) ==
  /\ IF array[o].buffer # NULL
       THEN /\ heap' = heap \ {array[o].buffer}
            /\ corrupt' = (corrupt \/ array[o].buffer \notin heap)
       ELSE UNCHANGED <<heap, corrupt>>
  /\ array' = [array EXCEPT ![o] = Empty]

Refers(r, o) ==
  /\ r # o /\ existence[r] # "none"
  /\ array[r].base # NULL /\ array[r].base = array[o].buffer

(* Whoever makes a reference must see to it that it does not outlive its    *)
(* source, says the comment of each constructor.                            *)
NotReferredTo(o) == \A r \in Objects : ~Refers(r, o)

CallDestruct(o) ==
  /\ o \in Plain /\ existence[o] = "alive" /\ NotReferredTo(o)
  /\ Destruct(o)
  /\ failed' = failed \ {o}
  /\ UNCHANGED <<existence, group, built, loadingSide>>

(* DoubleBuffer::destruct, after which it can be constructed again.         *)
DestructSides(d) ==
  LET freed == {array[<<d, s>>].buffer : s \in Sides} \ {NULL} IN
  /\ \A s \in Sides : existence[<<d, s>>] = "alive" /\ NotReferredTo(<<d, s>>)
  /\ heap' = heap \ freed
  /\ corrupt' = (corrupt \/ ~(freed \subseteq heap))
  /\ array' = [o \in Objects |-> IF o \in {d} \X Sides THEN Empty ELSE array[o]]
  /\ failed' = failed \ ({d} \X Sides)
  /\ built' = [built EXCEPT ![d] = "no"]
  /\ UNCHANGED <<existence, group, loadingSide>>

(* A group deletes its last member first, and side B goes before side A.    *)
MayDie(o) ==
  /\ NotReferredTo(o)
  /\ o \in Members =>
       /\ group # <<>> /\ o[1] = group[Len(group)]
       /\ o[2] = "A" => existence[<<o[1], "B">>] = "none"

(* ~Array calls destruct, and then so does ~ArrayBase.                      *)
Delete(o) ==
  /\ existence[o] = "alive" /\ MayDie(o)
  /\ existence' = [existence EXCEPT ![o] = "dying"]
  /\ Destruct(o)
  /\ UNCHANGED <<failed, group, built, loadingSide>>

DeleteBase(o) ==
  /\ existence[o] = "dying"
  /\ existence' = [existence EXCEPT ![o] = "none"]
  /\ Destruct(o)
  /\ failed' = failed \ {o}
  /\ group' = IF o \in Buffers \X {"A"}
                THEN SubSeq(group, 1, Len(group) - 1) ELSE group
  /\ UNCHANGED <<built, loadingSide>>

ContainersNext ==
  \/ \E o \in Objects :
       \/ Create(o) \/ CallDestruct(o) \/ Delete(o) \/ DeleteBase(o)
       \/ \E n \in Dims, p \in Places : Construct(o, n, p) \/ CreateConstructed(o, n, p)
       \/ \E s \in Objects :
            ConstructReference(o, s) \/ CreateReference(o, s) \/ Copy(o, s)
  \/ \E d \in Buffers :
       \/ AddToGroup(d) \/ ConstructB(d) \/ SwapSides(d) \/ DestructSides(d)
       \/ \E n \in Dims, p \in Places : ConstructA(d, n, p)

ContainersSpec == ContainersInit /\ [][ContainersNext]_containersVars

-----------------------------------------------------------------------------
(* Properties                                                               *)

(* The memory allocated is what existing objects own, and no two own the    *)
(* same: nothing leaks and nothing is freed twice, though two destructors   *)
(* free the buffer, an allocation may fail in the middle of a construct,    *)
(* and references look like the arrays they refer to.                       *)
EveryBlockHasOneOwner ==
  /\ ~corrupt
  /\ heap = {array[o].buffer : o \in {q \in Objects : existence[q] # "none"}}
              \ {NULL}
  /\ \A o, q \in Objects :
       array[o].buffer # NULL /\ array[o].buffer = array[q].buffer => o = q

(* An object that says it is constructed has memory, and the extents of its *)
(* place, unless its own allocation threw: then it says so, and has none.   *)
ConstructedHasMemory ==
  \A o \in Objects :
    existence[o] = "alive" /\ array[o].constructed =>
      IF o \in failed THEN array[o].base = NULL
      ELSE /\ array[o].base \in heap
           /\ array[o].extents = Extents(array[o].dims, array[o].place)

(* What is written to the side that is loading never shows on the active    *)
(* side, and either side can take what the other was made for.              *)
SidesMatch ==
  \A d \in Buffers :
    built[d] = "yes" /\ existence[<<d, "B">>] = "alive" =>
      LET active == array[<<d, OtherSide(loadingSide[d])>>]
          loading == array[<<d, loadingSide[d]>>]
      IN  /\ active.base \in heap /\ loading.base \in heap
          /\ active.base # loading.base
          /\ active.dims = loading.dims /\ active.place = loading.place

(* What is constructed can be used as it claims, on its own and as a side   *)
(* of a double buffer.                                                      *)
ConstructedIsUsable == ConstructedHasMemory /\ SidesMatch
=============================================================================
