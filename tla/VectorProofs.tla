---------------------------- MODULE VectorProofs ----------------------------
(***************************************************************************)
(* What holds of the vector for every starting capacity, every number of   *)
(* blocks and all contents.                                                *)
(***************************************************************************)
EXTENDS Vector, VectorOpsProofs

-----------------------------------------------------------------------------
(* The invariant                                                           *)

Sized == IF phase = "made" THEN Room(vec) /\ Tight(vec) ELSE vec.size = 0

VInv == TypeOK /\ OneOwner /\ PointersStable /\ Sized

(* What the invariant says of the array and its blocks.                    *)
LEMMA VecFacts ==
  ASSUME VInv
  PROVE  /\ vec \in Vectors /\ vec.size \in Nat
         /\ \A p \in 1..vec.size : vec.slots[p] \in Live /\ vec.slots[p] \in Blocks
         /\ Live \subseteq Blocks /\ Null \notin Blocks
         /\ InUse => Room(vec) /\ Tight(vec)
  BY DEF VInv, TypeOK, OneOwner, Used, Vectors, Sized, InUse, Blocks, Null

(* Without its last element the vector uses one block less.                *)
LEMMA RemovalKeeps ==
  ASSUME VInv, InUse, vec.size # 0, vec' = Popped(vec) \/ vec' = Dropped(vec), KeepRef(vec'),
         phase' = phase, content' \in [Live' -> Values],
         \/ popped' = popped /\ Live' = Live \ {Back(vec)}
         \/ popped = Null /\ popped' = Back(vec) /\ Live' = Live
  PROVE  VInv'
  <1>1. /\ vec \in Vectors /\ vec.size \in Nat
        /\ \A p \in 1..vec.size : vec.slots[p] \in Live /\ vec.slots[p] \in Blocks
        /\ Live \subseteq Blocks /\ Null \notin Blocks /\ Room(vec) /\ Tight(vec)
    BY VecFacts
  <1>2. /\ vec' \in Vectors /\ vec'.size = vec.size - 1
        /\ Agree(vec, vec', vec.size - 1) /\ Room(vec') /\ Tight(vec')
    BY <1>1, RemovedFacts
  <1>3. /\ vec.size \in 1..vec.size /\ Back(vec) = vec.slots[vec.size]
        /\ \A p \in 1..(vec.size - 1) : p \in 1..vec.size /\ p # vec.size
    BY <1>1 DEF Back
  <1>4. Distinct(vec) /\ popped \notin Used(vec) /\ Live = Used(vec) \cup ({popped} \ {Null})
    BY DEF VInv, OneOwner
  <1>5. Used(vec') = Used(vec) \ {Back(vec)}
    BY <1>1, <1>2, <1>3, <1>4 DEF Used, Distinct, Agree
  <1>6. Distinct(vec')
    BY <1>2, <1>3, <1>4 DEF Distinct, Agree
  <1>7. OneOwner'
    BY <1>1, <1>3, <1>4, <1>5, <1>6 DEF OneOwner, Used
  <1>8. TypeOK'
    <2>1. popped' \in Blocks \cup {Null} /\ ref' \in [pos : Nat, block : Slots]
      BY <1>1, <1>3 DEF VInv, TypeOK, KeepRef, NoRef, Slots, Blocks, Null
    <2>2. phase' \in {"made", "destroyed"} /\ Live' \subseteq Blocks
      BY <1>1 DEF VInv, TypeOK
    <2> QED BY <1>2, <2>1, <2>2 DEF TypeOK, Vectors, Live
  <1>9. PointersStable'
    <2> SUFFICES ASSUME ref' # NoRef
                 PROVE  ref'.pos \in 1..vec'.size /\ vec'.slots[ref'.pos] = ref'.block
                        /\ ref'.block \in Live'
      BY DEF PointersStable
    <2>1. ref' = ref /\ ~(ref.pos > vec.size - 1) /\ ref # NoRef
      BY <1>2 DEF KeepRef
    <2>2. ref.pos \in 1..vec.size /\ vec.slots[ref.pos] = ref.block /\ ref.block \in Live
      BY <2>1 DEF VInv, PointersStable
    <2>3. ref.pos \in 1..(vec.size - 1)
      BY <1>1, <2>1, <2>2
    <2>4. ref.block # Back(vec)
      BY <1>3, <1>4, <2>2, <2>3 DEF Distinct
    <2> QED BY <1>2, <2>1, <2>2, <2>3, <2>4 DEF Agree
  <1>10. Sized'
    BY <1>2 DEF Sized, InUse
  <1> QED BY <1>7, <1>8, <1>9, <1>10 DEF VInv

(* Clearing frees the blocks of the elements and no other.                 *)
LEMMA ClearingKeeps ==
  ASSUME VInv, vec' \in Vectors, vec'.size = 0, KeepRef(vec'), popped' = popped,
         content' = Freed(Used(vec)), phase' \in {"made", "destroyed"}, Sized'
  PROVE  VInv'
  <1>1. Live' = Live \ Used(vec) /\ content' \in [Live' -> Values] /\ Live \subseteq Blocks
    BY DEF VInv, TypeOK, Freed, Live
  <1>2. Used(vec') = {} /\ Distinct(vec')
    BY DEF Used, Distinct
  <1>3. ref' = NoRef
    BY DEF VInv, TypeOK, PointersStable, KeepRef, NoRef
  <1>4. TypeOK'
    BY <1>1, <1>3 DEF VInv, TypeOK, Vectors, Live, NoRef, Slots, Null
  <1>5. OneOwner'
    BY <1>1, <1>2 DEF VInv, OneOwner
  <1>6. PointersStable'
    BY <1>3 DEF PointersStable
  <1> QED BY <1>4, <1>5, <1>6 DEF VInv

(* A push takes a block that is free for the new last element.             *)
LEMMA PushKeeps ==
  ASSUME VInv, NEW v \in Values, Push(v)
  PROVE  VInv' /\ Fresh \in Blocks \ Live /\ vec'.size = vec.size + 1
         /\ vec'.slots[vec.size + 1] = Fresh /\ Agree(vec, vec', vec.size)
         /\ Capacity(vec) <= Capacity(vec')
  <1>1. /\ vec \in Vectors /\ vec.size \in Nat
        /\ \A p \in 1..vec.size : vec.slots[p] \in Live /\ vec.slots[p] \in Blocks
        /\ Live \subseteq Blocks /\ Null \notin Blocks /\ Room(vec) /\ Tight(vec)
    BY VecFacts DEF Push
  <1>2. Fresh \in Blocks \ Live
    <2>1. \E b \in Blocks : b \notin Live
      BY <1>1 DEF Push
    <2> QED BY <2>1 DEF Fresh
  <1>3. Fresh \in Slots
    BY <1>2 DEF Slots, Blocks
  <1> DEFINE n == vec.size + 1
  <1>4. /\ vec' \in Vectors /\ vec'.size = n /\ vec'.slots[n] = Fresh
        /\ Agree(vec, vec', vec.size) /\ Room(vec') /\ Tight(vec')
        /\ Capacity(vec) <= Capacity(vec')
    <2>1. vec' = Pushed(vec, Fresh)
      BY DEF Push
    <2> QED BY <1>1, <1>3, <2>1, PushedFacts
  <1>5. /\ content' = [b \in Live \cup {Fresh} |-> IF b = Fresh THEN v ELSE content[b]]
        /\ popped' = popped /\ ref' = ref /\ phase' = phase /\ phase = "made"
    BY DEF Push, InUse
  <1>6. Live' = Live \cup {Fresh} /\ content' \in [Live' -> Values]
    BY <1>5 DEF Live, VInv, TypeOK
  <1>7. n \in 1..n /\ \A p \in 1..n : p \in 1..vec.size \/ p = n
    BY <1>1
  <1>8. Distinct(vec) /\ popped \notin Used(vec) /\ Live = Used(vec) \cup ({popped} \ {Null})
    BY DEF VInv, OneOwner
  <1>9. \A p \in 1..vec.size : p \in 1..n
    BY <1>1
  <1> HIDE DEF n
  <1>10. Used(vec') = Used(vec) \cup {Fresh}
    BY <1>4, <1>7, <1>9 DEF Used, Agree
  <1>11. Distinct(vec')
    BY <1>1, <1>2, <1>4, <1>7, <1>8 DEF Distinct, Agree
  <1>12. OneOwner'
    <2>1. popped # Fresh
      BY <1>1, <1>2, <1>8
    <2> QED BY <1>5, <1>6, <1>8, <1>10, <1>11, <2>1 DEF OneOwner
  <1>13. TypeOK'
    BY <1>2, <1>4, <1>5, <1>6 DEF VInv, TypeOK, Vectors
  <1>14. PointersStable'
    <2> SUFFICES ASSUME ref # NoRef
                 PROVE  ref.pos \in 1..vec'.size /\ vec'.slots[ref.pos] = ref.block
                        /\ ref.block \in Live'
      BY <1>5 DEF PointersStable, NoRef
    <2>1. ref.pos \in 1..vec.size /\ vec.slots[ref.pos] = ref.block /\ ref.block \in Live
      BY DEF VInv, PointersStable
    <2> QED BY <1>4, <1>6, <1>9, <2>1 DEF Agree
  <1>15. Sized'
    BY <1>4, <1>5 DEF Sized
  <1> QED BY <1>2, <1>4, <1>12, <1>13, <1>14, <1>15 DEF VInv, n

(* Every step keeps the invariant.                                         *)
LEMMA VInvStep == VInv /\ [Next]_vars => VInv'
  <1> SUFFICES ASSUME VInv, [Next]_vars PROVE VInv'
    OBVIOUS
  <1>1. ASSUME NEW v \in Values, Push(v) PROVE VInv'
    BY <1>1, PushKeeps
  <1>2. ASSUME NEW v \in Values, Write(v) PROVE VInv'
    <2>1. Live' = Live /\ content' \in [Live' -> Values]
      BY <1>2 DEF Write, Live, VInv, TypeOK
    <2>2. UNCHANGED <<vec, popped, ref, phase>>
      BY <1>2 DEF Write
    <2> QED BY <2>1, <2>2 DEF VInv, TypeOK, OneOwner, Used, Distinct, PointersStable, NoRef,
         Sized, Room, Tight, Capacity
  <1>3. ASSUME NEW p \in 1..vec.size, Swapback(p) PROVE VInv'
    <2>1. /\ InUse /\ {vec.slots[p], Back(vec)} \subseteq Live /\ vec' = Dropped(vec)
          /\ content' = [b \in Live \ {Back(vec)} |->
                           content[IF b = vec.slots[p] THEN Back(vec) ELSE b]]
          /\ KeepRef(vec') /\ popped' = popped /\ phase' = phase
      BY <1>3 DEF Swapback
    <2>2. Live' = Live \ {Back(vec)}
      BY <2>1 DEF Live
    <2>3. content' \in [Live' -> Values]
      BY <2>1, <2>2 DEF VInv, TypeOK
    <2>4. vec.size # 0
      BY VecFacts
    <2> QED BY <2>1, <2>2, <2>3, <2>4, RemovalKeeps
  <1>4. ASSUME NEW p \in 1..vec.size, Get(p) PROVE VInv'
    <2>1. /\ ref' = [pos |-> p, block |-> vec.slots[p]]
          /\ UNCHANGED <<vec, content, popped, phase>>
      BY <1>4 DEF Get
    <2>2. vec.slots[p] \in Live /\ vec.slots[p] \in Slots /\ p \in Nat
      BY VecFacts DEF Slots, Blocks
    <2>3. TypeOK' /\ PointersStable'
      BY <2>1, <2>2 DEF VInv, TypeOK, PointersStable, Live
    <2> QED BY <2>1, <2>3 DEF VInv, OneOwner, Used, Distinct, Live,
         Sized, Room, Tight, Capacity
  <1>5. CASE Pop
    <2>1. /\ InUse /\ vec.size # 0 /\ popped = Null /\ popped' = Back(vec)
          /\ vec' = Popped(vec) /\ KeepRef(vec') /\ UNCHANGED <<content, phase>>
      BY <1>5 DEF Pop
    <2>2. Live' = Live /\ content' \in [Live' -> Values]
      BY <2>1 DEF VInv, TypeOK, Live
    <2> QED BY <2>1, <2>2, RemovalKeeps
  <1>6. CASE Release
    <2>1. /\ popped \in Live /\ content' = Freed({popped}) /\ popped' = Null
          /\ UNCHANGED <<vec, ref, phase>>
      BY <1>6 DEF Release
    <2>2. Live' = Live \ {popped} /\ content' \in [Live' -> Values]
      BY <2>1 DEF VInv, TypeOK, Freed, Live
    <2>3. TypeOK'
      BY <2>1, <2>2 DEF VInv, TypeOK
    <2>4. OneOwner'
      <3>1. Used(vec') = Used(vec) /\ (Distinct(vec) => Distinct(vec'))
        BY <2>1 DEF Used, Distinct
      <3>2. Null \notin Used(vec)
        BY VecFacts DEF Used
      <3> QED BY <2>1, <2>2, <3>1, <3>2 DEF VInv, OneOwner
    <2>5. PointersStable'
      <3>1. ref # NoRef => ref.pos \in 1..vec.size /\ vec.slots[ref.pos] = ref.block
                           /\ ref.block \in Live /\ ref.block # popped
        BY DEF VInv, PointersStable, OneOwner, Used
      <3> QED BY <2>1, <2>2, <3>1 DEF PointersStable, NoRef
    <2> QED BY <2>1, <2>3, <2>4, <2>5 DEF VInv, Sized, Room, Tight, Capacity
  <1>7. CASE PopBack
    <2>1. /\ InUse /\ vec.size # 0 /\ content' = Freed({Back(vec)})
          /\ vec' = Popped(vec) /\ KeepRef(vec') /\ UNCHANGED <<popped, phase>>
      BY <1>7 DEF PopBack
    <2>2. Live' = Live \ {Back(vec)} /\ content' \in [Live' -> Values]
      BY <2>1 DEF VInv, TypeOK, Freed, Live
    <2> QED BY <2>1, <2>2, RemovalKeeps
  <1>8. CASE Clear
    <2>1. /\ phase = "made" /\ content' = Freed(Used(vec)) /\ vec' = Cleared(vec)
          /\ KeepRef(vec') /\ UNCHANGED <<popped, phase>>
      BY <1>8 DEF Clear, InUse
    <2>2. vec' \in Vectors /\ vec'.size = 0 /\ Room(vec') /\ Tight(vec')
      BY <2>1, VecFacts, EmptyFacts
    <2>3. Sized'
      BY <2>1, <2>2 DEF Sized
    <2> QED BY <2>1, <2>2, <2>3, ClearingKeeps
  <1>9. CASE Destroy
    <2>1. /\ content' = Freed(Used(vec)) /\ vec' = [size |-> 0, slots |-> <<>>]
          /\ KeepRef(vec') /\ phase' = "destroyed" /\ popped' = popped
      BY <1>9 DEF Destroy
    <2>2. vec' \in Vectors /\ vec'.size = 0
      BY <2>1, EmptySeq DEF Vectors
    <2>3. Sized'
      BY <2>1, <2>2 DEF Sized
    <2> QED BY <2>1, <2>2, <2>3, ClearingKeeps
  <1>10. CASE Make
    <2>1. /\ phase = "destroyed" /\ vec' = Made /\ phase' = "made"
          /\ UNCHANGED <<content, popped, ref>>
      BY <1>10 DEF Make
    <2>2. vec.size = 0 /\ Used(vec) = {} /\ ref = NoRef
      <3>1. vec.size = 0
        BY <2>1 DEF VInv, Sized
      <3> QED BY <3>1 DEF Used, VInv, PointersStable
    <2>3. vec' \in Vectors /\ vec'.size = 0 /\ Room(vec') /\ Tight(vec')
      BY <2>1, EmptyFacts
    <2>4. Used(vec') = {} /\ Distinct(vec') /\ Live' = Live
      BY <2>1, <2>3 DEF Used, Distinct, Live
    <2>5. TypeOK'
      BY <2>1, <2>3, <2>4 DEF VInv, TypeOK, Vectors
    <2>6. OneOwner'
      BY <2>1, <2>2, <2>4 DEF VInv, OneOwner
    <2>7. PointersStable' /\ Sized'
      BY <2>1, <2>2, <2>3 DEF PointersStable, NoRef, Sized
    <2> QED BY <2>5, <2>6, <2>7 DEF VInv
  <1>11. CASE UNCHANGED vars
    BY <1>11 DEF vars, VInv, TypeOK, OneOwner, PointersStable, NoRef, Used, Distinct, Live,
       Sized, Room, Tight, Capacity
  <1> QED BY <1>1, <1>2, <1>3, <1>4, <1>5, <1>6, <1>7, <1>8, <1>9, <1>10, <1>11 DEF Next

(* The invariant holds of every behaviour.                                 *)
THEOREM VInvariance == Spec => []VInv
  <1>1. Init => VInv
    <2> SUFFICES ASSUME Init PROVE VInv
      OBVIOUS
    <2>1. vec \in Vectors /\ vec.size = 0 /\ Room(vec) /\ Tight(vec)
      BY EmptyFacts DEF Init
    <2>2. Live = {} /\ content \in [Live -> Values]
      BY DEF Init, Live
    <2>3. Used(vec) = {} /\ Distinct(vec)
      BY <2>1 DEF Used, Distinct
    <2>4. TypeOK
      BY <2>1, <2>2 DEF Init, TypeOK, Vectors, NoRef, Slots, Null
    <2> QED BY <2>1, <2>2, <2>3, <2>4
         DEF Init, VInv, OneOwner, PointersStable, Sized
  <1> QED BY <1>1, VInvStep, PTL DEF Spec

(* Every variable has its type.                                            *)
THEOREM TypeCorrect == Spec => []TypeOK
  <1>1. VInv => TypeOK
    BY DEF VInv
  <1> QED BY <1>1, VInvariance, PTL

(* For every starting capacity and every number of blocks: each allocated  *)
(* block has one owner, so that no element is leaked or freed twice.       *)
THEOREM BlocksOwned == Spec => []OneOwner
  <1>1. VInv => OneOwner
    BY DEF VInv
  <1> QED BY <1>1, VInvariance, PTL

(* Pointers to elements stay valid however often the array moves.          *)
THEOREM PointersKept == Spec => []PointersStable
  <1>1. VInv => PointersStable
    BY DEF VInv
  <1> QED BY <1>1, VInvariance, PTL

(* For every starting capacity the array has room for its elements and for *)
(* a push, and above the starting capacity it is at least a quarter full.  *)
THEOREM ArrayFits == Spec => []CapacityFits
  <1>1. VInv => CapacityFits
    <2> SUFFICES ASSUME VInv, phase = "made" PROVE CapacityFits
      BY DEF CapacityFits
    <2>1. vec \in Vectors /\ Room(vec) /\ Tight(vec)
      BY VecFacts DEF InUse
    <2>2. vec.size < Capacity(Grown(vec))
      BY <2>1, GrownFacts
    <2> QED BY <2>1, <2>2 DEF CapacityFits, Room, Tight
  <1> QED BY <1>1, VInvariance, PTL

(* For every starting capacity an array that has just shrunk is less than  *)
(* half full.                                                              *)
THEOREM NeverThrashes == Spec => NoThrash
  <1> DEFINE Step == phase' = "made" /\ Capacity(vec') < Capacity(vec)
                       => 2 * vec'.size < Capacity(vec')
  <1>1. ASSUME VInv, Next PROVE Step
    <2> SUFFICES ASSUME phase' = "made", Capacity(vec') < Capacity(vec)
                 PROVE  2 * vec'.size < Capacity(vec')
      OBVIOUS
    <2>0. vec \in Vectors /\ Capacity(vec) \in Nat
      BY <1>1, VecFacts DEF Vectors, Capacity
    <2>1. vec' # vec
      BY <2>0
    <2>2. ASSUME NEW v \in Values, Push(v) PROVE FALSE
      <3>1. Capacity(vec) <= Capacity(vec') /\ VInv'
        BY <1>1, <2>2, PushKeeps
      <3>2. Capacity(vec') \in Nat
        BY <3>1 DEF VInv, TypeOK, Capacity
      <3> QED BY <2>0, <3>1, <3>2
    <2>3. ASSUME InUse, vec.size # 0, vec' = Popped(vec) \/ vec' = Dropped(vec)
          PROVE  2 * vec'.size < Capacity(vec')
      <3>1. Room(vec) /\ Tight(vec)
        BY <1>1, <2>3, VecFacts
      <3> QED BY <2>0, <2>3, <3>1, RemovedFacts
    <2>4. ASSUME NEW p \in 1..vec.size, Swapback(p) PROVE vec.size # 0
      BY <1>1, VecFacts
    <2>5. ASSUME vec' = Made \/ vec' = Cleared(vec) PROVE 2 * vec'.size < Capacity(vec')
      <3>1. vec'.size = 0 /\ Capacity(vec') = Start
        <4>1. Room(Made) /\ Made.size = 0 /\ Capacity(Made) = Start
          <5>1. DOMAIN [p \in 1..Start |-> Null] = 1..Start
            OBVIOUS
          <5> QED BY <5>1, EmptyFacts, StartAssumption DEF Made, Capacity
        <4> QED BY <2>0, <2>5, <4>1, EmptyFacts
      <3> QED BY <3>1, StartAssumption
    <2> QED BY <1>1, <2>1, <2>2, <2>3, <2>4, <2>5
         DEF Next, Write, Get, Swapback, Pop, Release, PopBack, Clear, Destroy, Make
  <1>2. VInv /\ [Next]_vars => [Step]_vars
    BY <1>1
  <1> QED BY <1>2, VInvariance, PTL DEF Spec, NoThrash

-----------------------------------------------------------------------------
(* The vector as a sequence                                                *)

(* The front of a sequence is it without its last position.                *)
LEMMA FrontFacts ==
  ASSUME NEW T, NEW s \in Seq(T), s # <<>>
  PROVE  /\ SubSeq(s, 1, Len(s) - 1) \in Seq(T)
         /\ Len(SubSeq(s, 1, Len(s) - 1)) = Len(s) - 1
         /\ \A p \in 1..(Len(s) - 1) : SubSeq(s, 1, Len(s) - 1)[p] = s[p]
  <1>1. Len(s) \in Nat /\ Len(s) # 0
    OBVIOUS
  <1>2. \A p \in 1..(Len(s) - 1) : s[p] \in T
    BY <1>1, ElementOfSeq
  <1>3. /\ SubSeq(s, 1, Len(s) - 1) \in Seq(T)
        /\ Len(SubSeq(s, 1, Len(s) - 1)) = IF 1 <= Len(s) - 1 THEN Len(s) - 1 - 1 + 1 ELSE 0
        /\ \A p \in 1..(Len(s) - 1 - 1 + 1) : SubSeq(s, 1, Len(s) - 1)[p] = s[1 + p - 1]
    <2>1. 1 \in Int /\ Len(s) - 1 \in Int
      BY <1>1
    <2> QED BY <1>2, <2>1, SubSeqProperties
  <1>4. Len(s) - 1 - 1 + 1 = Len(s) - 1 /\ \A p \in 1..(Len(s) - 1) : 1 + p - 1 = p
    BY <1>1
  <1> QED BY <1>1, <1>3, <1>4

ItemsOK ==
  /\ Items \in Seq(Values) /\ Len(Items) = vec.size /\ DOMAIN Items = 1..vec.size
  /\ \A p \in 1..vec.size : Items[p] = content[vec.slots[p]]

(* The elements of the vector are a sequence of values.                    *)
LEMMA ItemsFacts == VInv => ItemsOK
  <1> SUFFICES ASSUME VInv PROVE ItemsOK
    OBVIOUS
  <1>1. vec.size \in Nat /\ \A p \in 1..vec.size : content[vec.slots[p]] \in Values
    BY VecFacts DEF VInv, TypeOK
  <1>2. Items = [p \in 1..vec.size |-> content[vec.slots[p]]]
    BY DEF Items
  <1>3. Items \in [1..vec.size -> Values]
    BY <1>1, <1>2
  <1> QED BY <1>1, <1>2, <1>3, IsASeq DEF ItemsOK

(* What the steps have in common: the vector and the caller use different  *)
(* blocks, and no two elements use the same one.                           *)
LEMMA OwnerFacts ==
  ASSUME VInv
  PROVE  /\ vec.size \in Nat
         /\ popped # Null => popped \in Live
         /\ \A p \in 1..vec.size : vec.slots[p] \in Live /\ vec.slots[p] # popped
         /\ \A p, q \in 1..vec.size : vec.slots[p] = vec.slots[q] => p = q
  BY VecFacts DEF VInv, OneOwner, Used, Distinct

(* vec_push appends.                                                       *)
LEMMA PushMaps ==
  ASSUME VInv, ItemsOK, ItemsOK', NEW v \in Values, Push(v)
  PROVE  S!Push(v)
  <1>1. /\ Fresh \notin Live /\ vec'.size = vec.size + 1
        /\ vec'.slots[vec.size + 1] = Fresh
        /\ \A p \in 1..vec.size : vec'.slots[p] = vec.slots[p]
    BY PushKeeps DEF Agree
  <1>2. /\ content' = [b \in Live \cup {Fresh} |-> IF b = Fresh THEN v ELSE content[b]]
        /\ popped' = popped
    BY DEF Push
  <1>3. \A b \in Live : content'[b] = content[b]
    BY <1>1, <1>2
  <1>4. vec.size \in Nat /\ vec.size + 1 \in 1..(vec.size + 1)
    BY OwnerFacts
  <1>5. \A p \in 1..vec.size : Items'[p] = Items[p]
    BY <1>1, <1>3, <1>4, OwnerFacts DEF ItemsOK
  <1>6. Items'[vec.size + 1] = v
    BY <1>1, <1>2, <1>4 DEF ItemsOK
  <1>7. Items' = Append(Items, v)
    <2>1. /\ Append(Items, v) \in Seq(Values) /\ Len(Append(Items, v)) = vec.size + 1
          /\ \A p \in 1..vec.size : Append(Items, v)[p] = Items[p]
          /\ Append(Items, v)[vec.size + 1] = v
      BY AppendProperties DEF ItemsOK
    <2>2. \A p \in 1..(vec.size + 1) : Items'[p] = Append(Items, v)[p]
      BY <1>4, <1>5, <1>6, <2>1
    <2> QED BY <1>1, <2>1, <2>2, SeqEqual DEF ItemsOK
  <1>8. Out' = Out
    BY <1>2, <1>3, OwnerFacts DEF Out
  <1> QED BY <1>7, <1>8 DEF S!Push

(* A write through the caller's pointer changes that element only.         *)
LEMMA WriteMaps ==
  ASSUME VInv, ItemsOK, ItemsOK', NEW v \in Values, Write(v)
  PROVE  ref.pos \in 1..vec.size /\ S!Write(ref.pos, v)
  <1>1. /\ ref.block \in Live /\ content' = [content EXCEPT ![ref.block] = v]
        /\ vec' = vec /\ popped' = popped
    BY DEF Write
  <1>2. ref # NoRef
    BY <1>1, VecFacts DEF NoRef
  <1>3. ref.pos \in 1..vec.size /\ vec.slots[ref.pos] = ref.block
    BY <1>2 DEF VInv, PointersStable
  <1>4. \A b \in Live : content'[b] = IF b = ref.block THEN v ELSE content[b]
    BY <1>1 DEF VInv, TypeOK
  <1>5. \A p \in 1..vec.size : Items'[p] = IF p = ref.pos THEN v ELSE Items[p]
    BY <1>1, <1>3, <1>4, OwnerFacts DEF ItemsOK
  <1>6. Items' = [Items EXCEPT ![ref.pos] = v]
    <2>1. /\ [Items EXCEPT ![ref.pos] = v] \in Seq(Values)
          /\ Len([Items EXCEPT ![ref.pos] = v]) = vec.size
          /\ \A p \in 1..vec.size :
               [Items EXCEPT ![ref.pos] = v][p] = IF p = ref.pos THEN v ELSE Items[p]
      BY <1>3, ExceptSeq DEF ItemsOK
    <2> QED BY <1>1, <1>5, <2>1, SeqEqual DEF ItemsOK
  <1>7. Out' = Out
    BY <1>1, <1>3, <1>4, OwnerFacts DEF Out
  <1> QED BY <1>3, <1>6, <1>7 DEF S!Write, ItemsOK

(* Removing the last element; PopBack frees it and Pop hands it over.      *)
LEMMA RemoveMaps ==
  ASSUME VInv, ItemsOK, ItemsOK', InUse, vec.size # 0, vec' = Popped(vec),
         \A b \in Live \ {Back(vec)} : content'[b] = content[b]
  PROVE  Items # <<>> /\ Items' = SubSeq(Items, 1, Len(Items) - 1)
  <1>1. vec.size \in Nat /\ Back(vec) = vec.slots[vec.size] /\ vec.size \in 1..vec.size
    BY OwnerFacts DEF Back
  <1>2. vec'.size = vec.size - 1 /\ \A p \in 1..(vec.size - 1) : vec'.slots[p] = vec.slots[p]
    BY VecFacts, RemovedFacts DEF Agree
  <1>3. Items # <<>>
    BY <1>1 DEF ItemsOK
  <1>4. \A p \in 1..(vec.size - 1) : Items'[p] = Items[p]
    <2> TAKE p \in 1..(vec.size - 1)
    <2>1. p \in 1..vec.size /\ p # vec.size
      BY <1>1
    <2>2. vec.slots[p] \in Live \ {Back(vec)}
      BY <1>1, <2>1, OwnerFacts
    <2> QED BY <1>2, <2>1, <2>2 DEF ItemsOK
  <1>5. LET f == SubSeq(Items, 1, Len(Items) - 1)
        IN  f \in Seq(Values) /\ Len(f) = vec.size - 1
            /\ \A p \in 1..(vec.size - 1) : f[p] = Items[p]
    BY <1>3, FrontFacts DEF ItemsOK
  <1> QED BY <1>2, <1>3, <1>4, <1>5, SeqEqual DEF ItemsOK

(* vec_swapback: the last element takes the place of the one removed.      *)
LEMMA SwapbackMaps ==
  ASSUME VInv, ItemsOK, ItemsOK', NEW p \in 1..vec.size, Swapback(p)
  PROVE  S!Swapback(p)
  <1> DEFINE n == vec.size
             r == [Items EXCEPT ![p] = Items[n]]
             f == SubSeq(r, 1, Len(r) - 1)
  <1>1. /\ InUse /\ vec' = Dropped(vec) /\ popped' = popped
        /\ content' = [b \in Live \ {Back(vec)} |->
                         content[IF b = vec.slots[p] THEN Back(vec) ELSE b]]
    BY DEF Swapback
  <1>2. n \in Nat /\ n # 0 /\ Back(vec) = vec.slots[n] /\ n \in 1..n
    BY OwnerFacts DEF Back
  <1>3. vec'.size = n - 1 /\ \A q \in 1..(n - 1) : vec'.slots[q] = vec.slots[q]
    BY <1>1, <1>2, VecFacts, RemovedFacts DEF Agree
  <1>4. \A b \in Live \ {Back(vec)} :
          content'[b] = IF b = vec.slots[p] THEN content[Back(vec)] ELSE content[b]
    BY <1>1
  <1>5. \A q \in 1..(n - 1) : Items'[q] = IF q = p THEN Items[n] ELSE Items[q]
    <2> TAKE q \in 1..(n - 1)
    <2>1. q \in 1..n /\ q # n
      BY <1>2
    <2>2. vec.slots[q] \in Live \ {Back(vec)} /\ (vec.slots[q] = vec.slots[p] <=> q = p)
      BY <1>2, <2>1, OwnerFacts
    <2>3. Items'[q] = content'[vec.slots[q]]
      BY <1>3 DEF ItemsOK
    <2> QED BY <1>2, <1>4, <2>1, <2>2, <2>3 DEF ItemsOK
  <1>6. /\ r \in Seq(Values) /\ Len(r) = n
        /\ \A q \in 1..n : r[q] = IF q = p THEN Items[n] ELSE Items[q]
    <2>1. Items[n] \in Values
      BY <1>2, ElementOfSeq DEF ItemsOK
    <2> QED BY <2>1, ExceptSeq DEF ItemsOK
  <1> HIDE DEF r
  <1>7. f \in Seq(Values) /\ Len(f) = n - 1 /\ \A q \in 1..(n - 1) : f[q] = r[q]
    <2>1. r # <<>>
      BY <1>2, <1>6
    <2> QED BY <1>6, <2>1, FrontFacts
  <1>8. Items' = f
    <2>1. \A q \in 1..(n - 1) : q \in 1..n
      BY <1>2
    <2>2. \A q \in 1..(n - 1) : Items'[q] = f[q]
      BY <1>5, <1>6, <1>7, <2>1
    <2> HIDE DEF f
    <2> QED BY <1>3, <1>7, <2>2, SeqEqual DEF ItemsOK
  <1>9. Out' = Out
    BY <1>1, <1>2, <1>4, OwnerFacts DEF Out
  <1>10. p \in DOMAIN Items /\ S!Last(Items) = Items[n]
    BY DEF ItemsOK, S!Last
  <1> QED BY <1>8, <1>9, <1>10 DEF S!Swapback, S!Front, f, r

(* An operation on an empty or emptied vector leaves no items.             *)
LEMMA EmptyItems ==
  ASSUME VInv', ItemsOK', vec'.size = 0
  PROVE  Items' = <<>>
  BY DEF ItemsOK

(* Every operation is the one of Stack, or a stutter.                      *)
LEMMA StackStep ==
  ASSUME VInv, VInv', ItemsOK, ItemsOK', [Next]_vars
  PROVE  [S!Next]_S!vars /\ OperationsAgree
  <1> USE DEF S!vars
  <1> SUFFICES OperationsAgree /\ (S!Next \/ UNCHANGED <<Items, Out>>)
    BY Zenon
  <1>1. ASSUME NEW v \in Values, Push(v) PROVE S!Push(v)
    BY <1>1, PushMaps
  <1>2. ASSUME NEW v \in Values, Write(v) PROVE ref.pos \in DOMAIN Items /\ S!Write(ref.pos, v)
    BY <1>2, WriteMaps DEF ItemsOK
  <1>3. ASSUME NEW p \in 1..vec.size, Swapback(p) PROVE p \in DOMAIN Items /\ S!Swapback(p)
    BY <1>3, SwapbackMaps DEF ItemsOK
  <1>4. ASSUME Pop PROVE S!Pop
    <2>1. /\ InUse /\ vec.size # 0 /\ vec' = Popped(vec) /\ content' = content
          /\ popped' = Back(vec)
      BY <1>4 DEF Pop
    <2>2. Items # <<>> /\ Items' = SubSeq(Items, 1, Len(Items) - 1)
      BY <2>1, RemoveMaps
    <2>3. Out' = Items[Len(Items)]
      <3>1. vec.size \in 1..vec.size /\ Back(vec) = vec.slots[vec.size] /\ Back(vec) # Null
        BY <2>1, VecFacts DEF Back
      <3> QED BY <2>1, <3>1 DEF Out, ItemsOK
    <2> QED BY <2>2, <2>3 DEF S!Pop, S!Front, S!Last
  <1>5. ASSUME PopBack PROVE S!PopBack
    <2>1. /\ InUse /\ vec.size # 0 /\ vec' = Popped(vec) /\ popped' = popped
          /\ content' = Freed({Back(vec)})
      BY <1>5 DEF PopBack
    <2>2. \A b \in Live \ {Back(vec)} : content'[b] = content[b]
      BY <2>1 DEF Freed
    <2>3. Items # <<>> /\ Items' = SubSeq(Items, 1, Len(Items) - 1)
      BY <2>1, <2>2, RemoveMaps
    <2>4. Out' = Out
      <3>1. vec.size \in 1..vec.size /\ Back(vec) = vec.slots[vec.size]
        BY <2>1, VecFacts DEF Back
      <3> QED BY <2>1, <2>2, <3>1, OwnerFacts DEF Out
    <2> QED BY <2>3, <2>4 DEF S!PopBack, S!Front
  <1>6. ASSUME Release PROVE S!Release
    <2>1. vec' = vec /\ content' = Freed({popped}) /\ popped' = Null
      BY <1>6 DEF Release
    <2>2. \A b \in Live \ {popped} : content'[b] = content[b]
      BY <2>1 DEF Freed
    <2>3. \A p \in 1..vec.size : Items'[p] = Items[p]
      <3>1. \A p \in 1..vec.size : vec.slots[p] \in Live \ {popped}
        BY OwnerFacts
      <3>2. vec' = vec
        BY <2>1
      <3> QED BY <2>2, <3>1, <3>2 DEF ItemsOK
    <2>4. Items' = Items
      BY <2>1, <2>3, SeqEqual DEF ItemsOK
    <2> QED BY <2>1, <2>4 DEF S!Release, Out
  <1>7. ASSUME Clear \/ Destroy PROVE S!Clear
    <2>1. vec'.size = 0 /\ content' = Freed(Used(vec)) /\ popped' = popped
      BY <1>7, VecFacts, EmptyFacts DEF Clear, Destroy
    <2>2. \A b \in Live \ Used(vec) : content'[b] = content[b]
      BY <2>1 DEF Freed
    <2>3. Out' = Out
      BY <2>1, <2>2, OwnerFacts DEF Out, VInv, OneOwner
    <2>4. Items' = <<>>
      BY <2>1, EmptyItems
    <2> QED BY <2>3, <2>4 DEF S!Clear
  <1>8. ASSUME UNCHANGED <<vec, content, popped>> PROVE UNCHANGED <<Items, Out>>
    BY <1>8 DEF Items, Out
  <1>9. ASSUME Make PROVE UNCHANGED <<Items, Out>>
    <2>1. vec.size = 0 /\ vec'.size = 0 /\ content' = content /\ popped' = popped
      BY <1>9, EmptyFacts DEF Make, VInv, Sized
    <2>2. Items' = <<>> /\ Items = <<>>
      BY <2>1, EmptyItems DEF ItemsOK
    <2> QED BY <2>1, <2>2 DEF Out
  <1>10. OperationsAgree
    <2>1. ASSUME NEW p \in 1..vec.size, Get(p) PROVE UNCHANGED <<Items, Out>>
      BY <1>8, <2>1 DEF Get
    <2> QED BY <1>1, <1>2, <1>3, <1>4, <1>5, <1>6, <1>7, <1>9, <2>1 DEF OperationsAgree
  <1>11. CASE UNCHANGED vars
    BY <1>8, <1>10, <1>11 DEF vars
  <1>12. ASSUME Next PROVE S!Next \/ UNCHANGED <<Items, Out>>
    <2>1. CASE \E v \in Values : Push(v) \/ Write(v)
      BY <1>1, <1>2, <2>1 DEF S!Next
    <2>2. CASE \E p \in 1..vec.size : Swapback(p)
      BY <1>3, <2>2 DEF S!Next
    <2>3. CASE \E p \in 1..vec.size : Get(p)
      BY <1>8, <2>3 DEF Get
    <2>4. CASE Pop \/ Release \/ PopBack \/ Clear \/ Destroy
      BY <1>4, <1>5, <1>6, <1>7, <2>4 DEF S!Next
    <2> QED BY <1>9, <1>12, <2>1, <2>2, <2>3, <2>4 DEF Next
  <1> QED BY <1>10, <1>11, <1>12

(* For every starting capacity, every number of blocks and all contents    *)
(* the vector is a sequence that grows and shrinks at its end, and each    *)
(* operation is the one of that name on it.                                *)
THEOREM StackImplemented == Spec => ImplementsStack
  <1>1. Init => S!Init
    <2> SUFFICES ASSUME Init PROVE S!Init
      OBVIOUS
    <2>1. Items = <<>> /\ Out = NoValue
      BY EmptyFacts DEF Init, Items, Out
    <2> QED BY <2>1 DEF S!Init
  <1>2. VInv => ItemsOK
    BY ItemsFacts
  <1>3. VInv /\ VInv' /\ ItemsOK /\ ItemsOK' /\ [Next]_vars
          => [[S!Next]_S!vars /\ OperationsAgree]_vars
    BY StackStep
  <1> QED BY VInvariance, <1>1, <1>2, <1>3, PTL DEF Spec, ImplementsStack
=============================================================================
