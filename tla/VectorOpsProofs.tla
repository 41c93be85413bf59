--------------------------- MODULE VectorOpsProofs ---------------------------
(***************************************************************************)
(* What holds of the operators on the pointer array, for every starting    *)
(* capacity.  The vector and the menu of the gui both rest on it.          *)
(***************************************************************************)
EXTENDS VectorOps, SequenceTheorems, TLAPS

Vectors == [size : Nat, slots : Seq(Slots)]

(* Two vectors agree on the first n slots.                                 *)
Agree(v, w, n) == \A p \in 1..n : w.slots[p] = v.slots[p]

(* The array has room for the elements and is not too large for them.      *)
Room(v) == v.size <= Capacity(v) /\ Capacity(v) >= Start
Tight(v) == Capacity(v) = Start \/ v.size >= Capacity(v) \div 4

(* resize keeps the elements that fit and the size field.                  *)
LEMMA ResizeFacts ==
  ASSUME NEW v \in Vectors, NEW n \in Nat
  PROVE  /\ Resize(v, n) \in Vectors /\ Resize(v, n).size = v.size
         /\ Capacity(Resize(v, n)) = IF n < Start THEN Start ELSE n
         /\ \A m \in Nat : m <= Capacity(v) /\ m <= Capacity(Resize(v, n))
              => Agree(v, Resize(v, n), m)
  <1> DEFINE cap == IF n < Start THEN Start ELSE n
             s == [p \in 1..cap |-> IF p <= Capacity(v) THEN v.slots[p] ELSE Junk]
  <1>1. cap \in Nat /\ v.slots \in Seq(Slots) /\ v.size \in Nat /\ Capacity(v) \in Nat
    BY StartAssumption DEF Vectors, Capacity
  <1>2. \A p \in 1..Capacity(v) : v.slots[p] \in Slots
    BY <1>1, ElementOfSeq DEF Capacity
  <1>3. s \in [1..cap -> Slots]
    BY <1>1, <1>2 DEF Slots
  <1>4. s \in Seq(Slots) /\ Len(s) = cap
    BY <1>1, <1>3, IsASeq
  <1>5. Resize(v, n) = [v EXCEPT !.slots = s]
    BY DEF Resize
  <1>6. \A m \in Nat : m <= Capacity(v) /\ m <= cap => \A p \in 1..m : s[p] = v.slots[p]
    BY <1>1
  <1> HIDE DEF s
  <1>7. Resize(v, n) = [size |-> v.size, slots |-> s]
    BY <1>5 DEF Vectors
  <1> QED BY <1>1, <1>4, <1>6, <1>7 DEF Vectors, Capacity, Agree

(* A push has room for one element more, and the array only grows for it.  *)
LEMMA GrownFacts ==
  ASSUME NEW v \in Vectors, Room(v)
  PROVE  /\ Grown(v) \in Vectors /\ Grown(v).size = v.size
         /\ v.size < Capacity(Grown(v)) /\ Capacity(v) <= Capacity(Grown(v))
         /\ Capacity(Grown(v)) \in {Capacity(v), 2 * v.size}
         /\ Agree(v, Grown(v), v.size)
  <1>1. v.size \in Nat /\ Capacity(v) \in Nat /\ 2 * Capacity(v) \in Nat
    BY DEF Vectors, Capacity
  <1>2. CASE v.size = Capacity(v)
    <2> DEFINE g == Resize(v, 2 * Capacity(v))
    <2>1. /\ g \in Vectors /\ g.size = v.size
          /\ Capacity(g) = IF 2 * Capacity(v) < Start THEN Start ELSE 2 * Capacity(v)
          /\ v.size <= Capacity(v) /\ v.size <= Capacity(g) => Agree(v, g, v.size)
      BY <1>1, ResizeFacts
    <2>2. Grown(v) = g
      BY <1>2 DEF Grown
    <2> HIDE DEF g
    <2> QED BY <1>1, <1>2, <2>1, <2>2, StartAssumption DEF Room
  <1>3. CASE v.size # Capacity(v)
    BY <1>1, <1>3 DEF Grown, Room, Agree
  <1> QED BY <1>2, <1>3

(* A push puts the block behind the elements.                              *)
LEMMA PushedFacts ==
  ASSUME NEW v \in Vectors, Room(v), Tight(v), NEW b \in Slots
  PROVE  /\ Pushed(v, b) \in Vectors /\ Pushed(v, b).size = v.size + 1
         /\ Pushed(v, b).slots[v.size + 1] = b /\ Agree(v, Pushed(v, b), v.size)
         /\ Room(Pushed(v, b)) /\ Tight(Pushed(v, b))
         /\ Capacity(v) <= Capacity(Pushed(v, b))
  <1> DEFINE g == Grown(v)
             s == [g.slots EXCEPT ![v.size + 1] = b]
  <1>1. /\ g \in Vectors /\ g.size = v.size
        /\ v.size < Capacity(g) /\ Capacity(v) <= Capacity(g)
        /\ Capacity(g) \in {Capacity(v), 2 * v.size} /\ Agree(v, g, v.size)
    BY GrownFacts
  <1>2. /\ v.size \in Nat /\ Capacity(v) \in Nat /\ g.slots \in Seq(Slots)
        /\ Capacity(g) = Len(g.slots) /\ Capacity(g) \in Nat
    BY <1>1 DEF Vectors, Capacity
  <1> HIDE DEF g
  <1>3. v.size + 1 \in 1..Len(g.slots)
    BY <1>1, <1>2
  <1>4. /\ s \in Seq(Slots) /\ Len(s) = Len(g.slots) /\ s[v.size + 1] = b
        /\ \A p \in 1..v.size : s[p] = g.slots[p]
    BY <1>2, <1>3, ExceptSeq
  <1>5. Pushed(v, b) = [size |-> v.size + 1, slots |-> s]
    BY DEF Pushed, g
  <1> HIDE DEF s
  <1>6. /\ Pushed(v, b) \in Vectors /\ Pushed(v, b).size = v.size + 1
        /\ Pushed(v, b).slots = s /\ Capacity(Pushed(v, b)) = Capacity(g)
    BY <1>2, <1>4, <1>5 DEF Vectors, Capacity
  <1>7. Room(Pushed(v, b))
    BY <1>1, <1>2, <1>6, StartAssumption DEF Room
  <1>8. Tight(Pushed(v, b))
    <2>1. Capacity(g) = Start \/ v.size + 1 >= Capacity(g) \div 4
      <3>1. CASE Capacity(g) = Capacity(v)
        BY <1>1, <1>2, <3>1 DEF Tight
      <3>2. CASE Capacity(g) = 2 * v.size
        <4>1. v.size + 1 >= (2 * v.size) \div 4
          BY <1>2
        <4> QED BY <3>2, <4>1
      <3> QED BY <1>1, <3>1, <3>2
    <2> QED BY <1>6, <2>1 DEF Tight
  <1> QED BY <1>1, <1>2, <1>4, <1>6, <1>7, <1>8 DEF Agree

(* shrink_if_needed keeps the elements.  After the removal of one element  *)
(* the array is tight again, and if it shrank it is less than half full.   *)
LEMMA ShrinkFacts ==
  ASSUME NEW v \in Vectors, Room(v),
         Capacity(v) = Start \/ v.size + 1 >= Capacity(v) \div 4
  PROVE  /\ Shrink(v) \in Vectors /\ Shrink(v).size = v.size
         /\ Agree(v, Shrink(v), v.size) /\ Room(Shrink(v)) /\ Tight(Shrink(v))
         /\ Capacity(Shrink(v)) < Capacity(v) => 2 * v.size < Capacity(Shrink(v))
  <1> DEFINE c == Capacity(v)
  <1>1. v.size \in Nat /\ c \in Nat /\ c \div 2 \in Nat /\ c \div 4 \in Nat
    BY DEF Vectors, Capacity
  <1>2. CASE ~(v.size < c \div 4)
    BY <1>1, <1>2 DEF Shrink, Agree, Tight, Room
  <1>3. CASE v.size < c \div 4
    <2>1. /\ Shrink(v) \in Vectors /\ Shrink(v).size = v.size
          /\ Capacity(Shrink(v)) = IF c \div 2 < Start THEN Start ELSE c \div 2
          /\ \A m \in Nat : m <= c /\ m <= Capacity(Shrink(v)) => Agree(v, Shrink(v), m)
      BY <1>1, <1>3, ResizeFacts DEF Shrink
    <2> HIDE DEF c
    <2>2. v.size <= c \div 2 /\ v.size <= c /\ 2 * v.size < c \div 2
      BY <1>1, <1>3
    <2>3. c = Start \/ v.size >= (c \div 2) \div 4
      <3>1. CASE c = Start
        BY <3>1
      <3>2. CASE v.size + 1 >= c \div 4
        BY <1>1, <1>3, <3>2
      <3> QED BY <3>1, <3>2 DEF c
    <2>4. v.size <= Capacity(Shrink(v)) /\ Capacity(Shrink(v)) >= Start
      BY <1>1, <2>1, <2>2, StartAssumption
    <2>5. Tight(Shrink(v))
      BY <1>1, <2>1, <2>3, StartAssumption DEF Tight
    <2> QED BY <1>1, <2>1, <2>2, <2>4, <2>5, StartAssumption DEF Room
  <1> QED BY <1>2, <1>3

(* The vector without its last element, whichever way it was removed.      *)
LEMMA RemovedFacts ==
  ASSUME NEW v \in Vectors, Room(v), Tight(v), v.size # 0,
         NEW w, w = Popped(v) \/ w = Dropped(v)
  PROVE  /\ w \in Vectors /\ w.size = v.size - 1 /\ Agree(v, w, v.size - 1)
         /\ Room(w) /\ Tight(w)
         /\ Capacity(w) < Capacity(v) => 2 * w.size < Capacity(w)
  <1>1. v.size \in 1..Len(v.slots) /\ v.slots \in Seq(Slots) /\ Len(v.slots) \in Nat
    BY DEF Vectors, Room, Capacity
  <1>2. PICK u : /\ w = Shrink(u) /\ u.size = v.size - 1
                 /\ u \in Vectors /\ Capacity(u) = Capacity(v)
                 /\ Agree(v, u, v.size - 1)
    <2> DEFINE s == [v.slots EXCEPT ![v.size] = Null]
    <2>1. s \in Seq(Slots) /\ Len(s) = Len(v.slots)
          /\ \A p \in 1..(v.size - 1) : s[p] = v.slots[p]
      BY <1>1, ExceptSeq DEF Slots, Null
    <2>2. CASE w = Popped(v)
      <3> DEFINE u == [size |-> v.size - 1, slots |-> s]
      <3>1. w = Shrink(u)
        BY <2>2 DEF Popped
      <3> HIDE DEF s
      <3>2. u.size = v.size - 1 /\ u \in Vectors /\ Capacity(u) = Capacity(v)
            /\ Agree(v, u, v.size - 1)
        BY <1>1, <2>1 DEF Vectors, Capacity, Agree
      <3> QED BY <3>1, <3>2
    <2>3. CASE w = Dropped(v)
      <3> DEFINE u == [v EXCEPT !.size = @ - 1]
      <3>1. w = Shrink(u)
        BY <2>3 DEF Dropped
      <3>2. u.size = v.size - 1 /\ u \in Vectors /\ Capacity(u) = Capacity(v)
            /\ Agree(v, u, v.size - 1)
        BY <1>1 DEF Vectors, Capacity, Agree
      <3> QED BY <3>1, <3>2
    <2> QED BY <2>2, <2>3
  <1>3. Room(u) /\ (Capacity(u) = Start \/ u.size + 1 >= Capacity(u) \div 4)
    <2>1. v.size \in Nat /\ v.size - 1 + 1 = v.size /\ Capacity(v) \in Nat
      BY <1>1 DEF Capacity
    <2>2. Room(u)
      BY <1>2, <2>1, StartAssumption DEF Room
    <2> QED BY <1>2, <2>1, <2>2 DEF Tight
  <1>4. /\ w \in Vectors /\ w.size = v.size - 1 /\ Agree(u, w, v.size - 1)
        /\ Room(w) /\ Tight(w)
        /\ Capacity(w) < Capacity(v) => 2 * w.size < Capacity(w)
    BY <1>2, <1>3, ShrinkFacts
  <1> QED BY <1>2, <1>4 DEF Agree

(* The vectors with no element.                                            *)
LEMMA EmptyFacts ==
  /\ Made \in Vectors /\ Made.size = 0 /\ Room(Made) /\ Tight(Made)
  /\ \A v \in Vectors :
       LET w == Cleared(v)
       IN  w \in Vectors /\ w.size = 0 /\ Room(w) /\ Tight(w) /\ Capacity(w) = Start
  <1>0. Start \in Nat /\ ~(Start < Start) /\ Start >= Start
    BY StartAssumption
  <1>1. Made \in Vectors /\ Made.size = 0 /\ Capacity(Made) = Start
    <2> DEFINE s == [p \in 1..Start |-> Null]
    <2>1. s \in [1..Start -> Slots]
      BY DEF Slots, Null
    <2>2. s \in Seq(Slots) /\ Len(s) = Start
      BY <1>0, <2>1, IsASeq
    <2>3. Made = [size |-> 0, slots |-> s]
      BY DEF Made
    <2> HIDE DEF s
    <2> QED BY <2>2, <2>3 DEF Vectors, Capacity
  <1>2. ASSUME NEW v \in Vectors
        PROVE  Cleared(v) \in Vectors /\ Cleared(v).size = 0 /\ Capacity(Cleared(v)) = Start
    <2> DEFINE u == [v EXCEPT !.size = 0]
    <2>1. u \in Vectors /\ u.size = 0
      BY DEF Vectors
    <2>2. Cleared(v) = Resize(u, Start)
      BY DEF Cleared
    <2> HIDE DEF u
    <2> QED BY <1>0, <2>1, <2>2, ResizeFacts
  <1>3. ASSUME NEW w \in Vectors, w.size = 0, Capacity(w) = Start
        PROVE  Room(w) /\ Tight(w)
    BY <1>0, <1>3 DEF Room, Tight
  <1> QED BY <1>1, <1>2, <1>3
=============================================================================
