----------------------------- MODULE VectorOps -----------------------------
(***************************************************************************)
(* The pointer array of the vector in include/vector.c.                    *)
(*                                                                         *)
(* A vector is a record of its size field and its slots, the sequence of   *)
(* the pointers in vec->elem; the capacity field is the length of slots.   *)
(* The elements are blocks of their own, and a slot holds a block, Null,   *)
(* or Junk, what realloc leaves in the slots it adds.  Positions are those *)
(* of TLA+ (1 is the first slot); the C index is one less.                 *)
(***************************************************************************)
EXTENDS Integers, Sequences

CONSTANT Start  \* VEC_STARTING_CAPACITY

ASSUME StartAssumption == Start \in Nat \ {0}

Null == 0
Junk == -1
Slots == Nat \cup {Junk}  \* what a slot can hold

Capacity(v) == Len(v.slots)

(* vec_make, vec_new: calloc of the starting capacity.                     *)
Made == [size |-> 0, slots |-> [p \in 1..Start |-> Null]]

(* Mutant of Resize: there is no least capacity.                           *)
ResizeToAny(v, n) ==
  [v EXCEPT !.slots = [p \in 1..n |-> IF p <= Capacity(v) THEN v.slots[p] ELSE Junk]]

(* resize                                                                  *)
Resize(v, n) ==
  LET cap == IF n < Start THEN Start ELSE n
  IN  [v EXCEPT !.slots =
         [p \in 1..cap |-> IF p <= Capacity(v) THEN v.slots[p] ELSE Junk]]

(* Mutant of Shrink: an array less than half full shrinks.                 *)
ShrinkEarly(v) ==
  IF v.size < Capacity(v) \div 2 THEN Resize(v, Capacity(v) \div 2) ELSE v

(* shrink_if_needed                                                        *)
Shrink(v) ==
  IF v.size < Capacity(v) \div 4 THEN Resize(v, Capacity(v) \div 2) ELSE v

(* The room a push makes, and the push of block b into the slot it has.    *)
Grown(v) == IF v.size = Capacity(v) THEN Resize(v, 2 * Capacity(v)) ELSE v
Pushed(v, b) ==
  LET g == Grown(v)
  IN  [size |-> v.size + 1, slots |-> [g.slots EXCEPT ![v.size + 1] = b]]

(* The block of the last element, NULL if there is none (vec_back).        *)
Back(v) == IF v.size = 0 THEN Null ELSE v.slots[v.size]

(* Mutant of Popped: size is decremented twice.                            *)
PoppedTwice(v) ==
  Shrink([size |-> v.size - 2, slots |-> [v.slots EXCEPT ![v.size] = Null]])

(* The vector without its last element.  vec_pop and vec_pop_back clear    *)
(* its slot; vec_swapback leaves the pointer to the freed block in it.     *)
Popped(v) == Shrink([size |-> v.size - 1, slots |-> [v.slots EXCEPT ![v.size] = Null]])
Dropped(v) == Shrink([v EXCEPT !.size = @ - 1])

(* vec_clear                                                               *)
Cleared(v) == Resize([v EXCEPT !.size = 0], Start)
=============================================================================
