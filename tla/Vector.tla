------------------------------- MODULE Vector -------------------------------
(***************************************************************************)
(* The vector of include/vector.c, its heap and a caller: the caller may   *)
(* keep a pointer from vec_get or vec_back while it goes on pushing, and   *)
(* owns the block that vec_pop gives it until it frees it.                 *)
(*                                                                         *)
(* malloc is taken to choose the block by what is allocated alone.  A call *)
(* that fails an ASSERT (an empty vector, an index outside it) ends the    *)
(* process with the state as it is: it is not a step.  Nor is one that     *)
(* would use memory that is not there: OneOwner, PointersStable and        *)
(* CapacityFits say that there is none.                                    *)
(***************************************************************************)
EXTENDS VectorOps, SequencesExt

CONSTANTS
  Values,    \* the contents of an element
  NoValue,   \* not a value: nothing has been taken out
  MaxBlocks  \* how many blocks can be allocated at a time (bound)

ASSUME VectorAssumption == MaxBlocks \in Nat \ {0} /\ NoValue \notin Values

Blocks == 1..MaxBlocks
NoRef == [pos |-> 0, block |-> Null]

VARIABLES
  vec,      \* the vector
  content,  \* what is in the allocated blocks, which are its domain
  popped,   \* the block the caller has from vec_pop, or Null
  ref,      \* the pointer the caller keeps, and the position it is of
  phase     \* "made" or "destroyed"

vars == <<vec, content, popped, ref, phase>>

Live == DOMAIN content

TypeOK ==
  /\ vec \in [size : Nat, slots : Seq(Slots)]
  /\ Live \subseteq Blocks /\ content \in [Live -> Values]
  /\ popped \in Blocks \cup {Null}
  /\ ref \in [pos : Nat, block : Slots]
  /\ phase \in {"made", "destroyed"}

(* vec_make                                                                *)
Init ==
  /\ vec = Made /\ content = <<>>
  /\ popped = Null /\ ref = NoRef /\ phase = "made"

-----------------------------------------------------------------------------
InUse == phase = "made"

Used(v) == {v.slots[p] : p \in 1..v.size}

Distinct(v) == \A p, q \in 1..v.size : v.slots[p] = v.slots[q] => p = q

(* The elements that a loop over all of them can free.                     *)
AllFreeable(v) == Used(v) \subseteq Live /\ Distinct(v)

(* The caller knows that a pointer to an element that is removed is gone.  *)
KeepRef(v) == ref' = IF ref.pos > v.size THEN NoRef ELSE ref

(* malloc and free                                                         *)
Fresh == CHOOSE b \in Blocks : b \notin Live
Freed(bs) == [b \in Live \ bs |-> content[b]]

(* vec_push; vec_push_none is the push of whatever is in the block.        *)
Push(v) ==
  /\ InUse /\ Live # Blocks /\ vec.size < Capacity(Grown(vec))
  /\ vec' = Pushed(vec, Fresh)
  /\ content' = [b \in Live \cup {Fresh} |-> IF b = Fresh THEN v ELSE content[b]]
  /\ UNCHANGED <<popped, ref, phase>>

(* vec_pop: the caller now has to free the block.                          *)
Pop ==
  /\ InUse /\ vec.size # 0 /\ popped = Null
  /\ popped' = Back(vec)
  /\ vec' = Popped(vec) /\ KeepRef(vec')
  /\ UNCHANGED <<content, phase>>

Release ==
  /\ popped \in Live
  /\ content' = Freed({popped}) /\ popped' = Null
  /\ UNCHANGED <<vec, ref, phase>>

PopBack ==
  /\ InUse /\ vec.size # 0 /\ Back(vec) \in Live
  /\ content' = Freed({Back(vec)})
  /\ vec' = Popped(vec) /\ KeepRef(vec')
  /\ UNCHANGED <<popped, phase>>

(* Mutants of Swapback: the pointer is moved instead of the contents, the  *)
(* block of the last element is not freed, or not copied.                  *)
SwapbackPointer(p) ==
  /\ InUse /\ p \in 1..vec.size /\ {vec.slots[p], Back(vec)} \subseteq Live
  /\ content' = Freed({vec.slots[p]})
  /\ vec' = Dropped([vec EXCEPT !.slots[p] = Back(vec)]) /\ KeepRef(vec')
  /\ UNCHANGED <<popped, phase>>
SwapbackLeaks(p) ==
  /\ InUse /\ p \in 1..vec.size /\ {vec.slots[p], Back(vec)} \subseteq Live
  /\ content' = [content EXCEPT ![vec.slots[p]] = content[Back(vec)]]
  /\ vec' = Dropped(vec) /\ KeepRef(vec')
  /\ UNCHANGED <<popped, phase>>

SwapbackForgets(p) ==
  /\ InUse /\ p \in 1..vec.size /\ {vec.slots[p], Back(vec)} \subseteq Live
  /\ content' = Freed({Back(vec)})
  /\ vec' = Dropped(vec) /\ KeepRef(vec')
  /\ UNCHANGED <<popped, phase>>

(* vec_swapback: the contents of the last element are copied.              *)
Swapback(p) ==
  /\ InUse /\ p \in 1..vec.size /\ {vec.slots[p], Back(vec)} \subseteq Live
  /\ content' = [b \in Live \ {Back(vec)} |->
                   content[IF b = vec.slots[p] THEN Back(vec) ELSE b]]
  /\ vec' = Dropped(vec) /\ KeepRef(vec')
  /\ UNCHANGED <<popped, phase>>

(* vec_get, and vec_back for the last position.                            *)
Get(p) ==
  /\ InUse /\ p \in 1..vec.size
  /\ ref' = [pos |-> p, block |-> vec.slots[p]]
  /\ UNCHANGED <<vec, content, popped, phase>>

(* The caller writes through its pointer.                                  *)
Write(v) ==
  /\ InUse /\ ref.block \in Live
  /\ content' = [content EXCEPT ![ref.block] = v]
  /\ UNCHANGED <<vec, popped, ref, phase>>

Clear ==
  /\ InUse /\ AllFreeable(vec)
  /\ content' = Freed(Used(vec))
  /\ vec' = Cleared(vec) /\ KeepRef(vec')
  /\ UNCHANGED <<popped, phase>>

(* vec_destroy; the vector is used again only after another vec_make.      *)
Destroy ==
  /\ InUse /\ AllFreeable(vec)
  /\ content' = Freed(Used(vec))
  /\ vec' = [size |-> 0, slots |-> <<>>] /\ KeepRef(vec')
  /\ phase' = "destroyed"
  /\ UNCHANGED <<popped>>

Make ==
  /\ phase = "destroyed"
  /\ vec' = Made /\ phase' = "made"
  /\ UNCHANGED <<content, popped, ref>>

Next ==
  \/ \E v \in Values : Push(v) \/ Write(v)
  \/ \E p \in 1..vec.size : Swapback(p) \/ Get(p)
  \/ Pop \/ Release \/ PopBack \/ Clear \/ Destroy \/ Make

Spec == Init /\ [][Next]_vars

-----------------------------------------------------------------------------
(* Properties                                                              *)

(* Every allocated block has one owner: the slot of one element, or the    *)
(* caller of vec_pop.  None is lost, freed twice or in two places.         *)
OneOwner ==
  /\ Live = Used(vec) \cup ({popped} \ {Null})
  /\ Distinct(vec) /\ popped \notin Used(vec)

(* The pointers returned by vec_get and vec_back stay those of their       *)
(* positions for as long as the position is in the vector, although the    *)
(* array is reallocated and elements are moved, so that the caller may use *)
(* them after later calls, as gui_loop does.                               *)
PointersStable ==
  ref # NoRef =>
    ref.pos \in 1..vec.size /\ vec.slots[ref.pos] = ref.block /\ ref.block \in Live

(* A push finds a slot inside the array, however the array has grown and   *)
(* shrunk, and no operation leaves an array that would have to shrink      *)
(* again: above the starting capacity it is a quarter full.                *)
CapacityFits ==
  phase = "made" =>
    /\ vec.size <= Capacity(vec) /\ vec.size < Capacity(Grown(vec))
    /\ Capacity(vec) >= Start
    /\ Capacity(vec) = Start \/ vec.size >= Capacity(vec) \div 4

(* An array that has just shrunk is less than half full: pushes and pops   *)
(* by turns do not reallocate it each time.                                *)
NoThrash ==
  [][phase' = "made" /\ Capacity(vec') < Capacity(vec) =>
       2 * vec'.size < Capacity(vec')]_vars

(* The vector is a sequence: each operation does to it, and to the element *)
(* the caller holds, what the operation of Stack of that name does, and    *)
(* nothing else changes either.                                            *)
Items == [p \in 1..vec.size |-> content[vec.slots[p]]]
Out == IF popped = Null THEN NoValue ELSE content[popped]
S == INSTANCE Stack WITH items <- Items, out <- Out
OperationsAgree ==
  /\ \A v \in Values : (Push(v) => S!Push(v)) /\ (Write(v) => S!Write(ref.pos, v))
  /\ \A p \in 1..vec.size : (Swapback(p) => S!Swapback(p)) /\ (Get(p) => UNCHANGED S!vars)
  /\ (Pop => S!Pop) /\ (PopBack => S!PopBack) /\ (Release => S!Release)
  /\ (Clear \/ Destroy => S!Clear) /\ (Make => UNCHANGED S!vars)
ImplementsStack == S!Init /\ [][[S!Next]_S!vars /\ OperationsAgree]_vars
=============================================================================
