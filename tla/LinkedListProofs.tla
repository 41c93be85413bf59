-------------------------- MODULE LinkedListProofs --------------------------
(***************************************************************************)
(* What holds of the linked list for every number of nodes, all contents   *)
(* and every width of size.                                                *)
(***************************************************************************)
EXTENDS LinkedList, SequenceTheorems, TLAPS

-----------------------------------------------------------------------------
(* Deleting from a sequence                                                *)

(* Removing position p moves what is behind it one forward.                *)
LEMMA RemoveAtFacts ==
  ASSUME NEW S, NEW s \in Seq(S), NEW p \in 1..Len(s)
  PROVE  /\ RemoveAt(s, p) \in Seq(S) /\ Len(RemoveAt(s, p)) = Len(s) - 1
         /\ \A q \in 1..(Len(s) - 1) :
              RemoveAt(s, p)[q] = IF q < p THEN s[q] ELSE s[q + 1]
  <1> DEFINE a == SubSeq(s, 1, p - 1)
             b == SubSeq(s, p + 1, Len(s))
  <1>0. Len(s) \in Nat
    OBVIOUS
  <1>1. /\ a \in Seq(S) /\ Len(a) = p - 1
        /\ \A q \in 1..(p - 1) : a[q] = s[q]
    <2>1. \A i \in 1..(p - 1) : i \in 1..Len(s)
      BY <1>0
    <2> QED BY <1>0, <2>1
  <1>2. /\ b \in Seq(S) /\ Len(b) = Len(s) - p
        /\ \A q \in 1..(Len(s) - p) : b[q] = s[p + q]
    <2>1. \A i \in (p + 1)..Len(s) : i \in 1..Len(s)
      BY <1>0
    <2> QED BY <1>0, <2>1
  <1> HIDE DEF a, b
  <1>3. /\ a \o b \in Seq(S) /\ Len(a \o b) = Len(s) - 1
        /\ \A q \in 1..(Len(s) - 1) :
             (a \o b)[q] = IF q <= Len(a) THEN a[q] ELSE b[q - Len(a)]
    <2>1. /\ a \o b \in Seq(S) /\ Len(a \o b) = Len(a) + Len(b)
          /\ \A q \in 1..(Len(a) + Len(b)) :
               (a \o b)[q] = IF q <= Len(a) THEN a[q] ELSE b[q - Len(a)]
      BY <1>1, <1>2, ConcatProperties
    <2>2. Len(a) + Len(b) = Len(s) - 1
      BY <1>0, <1>1, <1>2
    <2> QED BY <2>1, <2>2
  <1>4. ASSUME NEW q \in 1..(Len(s) - 1)
        PROVE  (a \o b)[q] = IF q < p THEN s[q] ELSE s[q + 1]
    <2>1. CASE q < p
      BY <1>0, <1>1, <1>3, <2>1
    <2>2. CASE ~(q < p)
      <3>1. q - Len(a) \in 1..(Len(s) - p) /\ p + (q - Len(a)) = q + 1 /\ ~(q <= Len(a))
        BY <1>0, <1>1, <2>2
      <3> QED BY <1>2, <1>3, <2>2, <3>1
    <2> QED BY <2>1, <2>2
  <1>5. RemoveAt(s, p) = a \o b
    BY DEF RemoveAt, a, b
  <1> QED BY <1>3, <1>4, <1>5

(* The tail of a sequence is it without its first position.                *)
LEMMA TailFacts ==
  ASSUME NEW S, NEW s \in Seq(S), s # <<>>
  PROVE  /\ Tail(s) \in Seq(S) /\ Len(Tail(s)) = Len(s) - 1
         /\ \A q \in 1..(Len(s) - 1) : Tail(s)[q] = s[q + 1]
  OBVIOUS

(* What list_delete leaves when the caller does not delete the last of     *)
(* several elements: the path without the node at p.                       *)
LEMMA DeleteAtFacts ==
  ASSUME NEW S, NEW s \in Seq(S), NEW sz \in Nat, Len(s) = sz + 1,
         NEW p \in 1..sz, p = 1 \/ p < sz
  PROVE  /\ DeleteAt(s, sz, p) \in Seq(S) /\ Len(DeleteAt(s, sz, p)) = sz
         /\ \A q \in 1..sz : DeleteAt(s, sz, p)[q] = IF q < p THEN s[q] ELSE s[q + 1]
  <1>1. CASE p = 1
    <2>1. s # <<>>
      OBVIOUS
    <2>2. DeleteAt(s, sz, p) = Tail(s)
      BY <1>1 DEF DeleteAt
    <2>3. /\ Tail(s) \in Seq(S) /\ Len(Tail(s)) = sz
          /\ \A q \in 1..sz : Tail(s)[q] = s[q + 1]
      BY <2>1, TailFacts
    <2> QED BY <1>1, <2>2, <2>3
  <1>2. CASE p # 1
    <2>1. DeleteAt(s, sz, p) = RemoveAt(s, p)
      BY <1>2 DEF DeleteAt
    <2>2. p \in 1..Len(s) /\ Len(s) - 1 = sz
      OBVIOUS
    <2>3. /\ RemoveAt(s, p) \in Seq(S) /\ Len(RemoveAt(s, p)) = sz
          /\ \A q \in 1..sz : RemoveAt(s, p)[q] = IF q < p THEN s[q] ELSE s[q + 1]
      BY <2>2, RemoveAtFacts
    <2> QED BY <2>1, <2>3
  <1> QED BY <1>1, <1>2

(* For any caller the path stays a path.                                   *)
LEMMA DeleteAtType ==
  ASSUME NEW S, NEW s \in Seq(S), NEW sz, NEW p \in 1..Len(s)
  PROVE  DeleteAt(s, sz, p) \in Seq(S)
  <1>1. s # <<>> /\ Len(s) \in Nat
    OBVIOUS
  <1>2. Tail(s) \in Seq(S)
    BY <1>1, TailFacts
  <1>3. RemoveAt(s, p) \in Seq(S)
    BY RemoveAtFacts
  <1>4. SubSeq(s, 1, p - 1) \in Seq(S)
    <2>1. \A i \in 1..(p - 1) : i \in 1..Len(s)
      BY <1>1
    <2> QED BY <1>1, <2>1
  <1> QED BY <1>2, <1>3, <1>4 DEF DeleteAt

(* The last element of a sequence that is not empty.                       *)
LEMMA LastFacts ==
  ASSUME NEW S, NEW s \in Seq(S), s # <<>>
  PROVE  Len(s) \in Nat \ {0} /\ Last(s) = s[Len(s)] /\ Last(s) \in S
  BY DEF Last

(* Linking a node behind the tail appends it to the path.                  *)
LEMMA LinkFacts ==
  ASSUME NEW S, NEW s \in Seq(S), s # <<>>, NEW n \in S
  PROVE  /\ LinkBehind(s, Last(s), n) \in Seq(S)
         /\ Len(LinkBehind(s, Last(s), n)) = Len(s) + 1
         /\ \A q \in 1..Len(s) : LinkBehind(s, Last(s), n)[q] = s[q]
         /\ LinkBehind(s, Last(s), n)[Len(s) + 1] = n
  <1>1. LinkBehind(s, Last(s), n) = Append(s, n)
    BY DEF LinkBehind
  <1> QED BY <1>1, AppendProperties

-----------------------------------------------------------------------------
(* The invariant                                                           *)

(* The counters fit: every listed element and the sentinel has its node.   *)
CountInv == phase = "use" => size + 1 <= used

(* The list of a caller that keeps to the range: as many elements as size  *)
(* says and the sentinel behind them, every node once, nothing set in the  *)
(* sentinel and the nodes to come, and the iterator where the caller has   *)
(* counted it to be.                                                       *)
Shape ==
  /\ phase = "use" /\ ~fault
  /\ Len(chain) = size + 1
  /\ \A p, q \in 1..(size + 1) : chain[p] = chain[q] => p = q
  /\ \A p \in 1..(size + 1) : chain[p] <= used
  /\ \A p \in 1..size : elem[chain[p]] \in Values
  /\ elem[chain[size + 1]] = Unset /\ \A n \in Nodes : n > used => elem[n] = Unset
  /\ cursor # 0 => cursor \in 1..(size + 1) /\ it = chain[cursor]

LInv == TypeOK /\ CountInv /\ (sound => Shape)

(* list_make establishes the invariant.                                    *)
LEMMA LInitially == Init => LInv
  <1> SUFFICES ASSUME Init PROVE LInv
    OBVIOUS
  <1> USE LinkedListAssumption DEF Nodes, Null, Unset
  <1>1. TypeOK
    <2>1. chain \in Seq(Nodes) /\ 1 \in Nodes
      BY DEF Init
    <2>2. 0 \in 0..(SizeMod - 1) /\ 1 \in 0..MaxNodes /\ 0 \in Int
      OBVIOUS
    <2> QED BY <2>1, <2>2 DEF Init, TypeOK
  <1>2. CountInv /\ Shape
    BY DEF Init, CountInv, Shape
  <1> QED BY <1>1, <1>2 DEF LInv

(* One lemma per operation that changes the list.                          *)

(* list_append keeps the shape of the list.                                *)
LEMMA AddKeeps ==
  ASSUME LInv, NEW v \in Values, Add(v)
  PROVE  LInv'
  <1> USE LinkedListAssumption DEF Nodes, Null
  <1>0. /\ chain \in Seq(Nodes) /\ chain # <<>> /\ used \in Nat /\ size \in Nat
        /\ used < MaxNodes /\ used + 1 \in Nodes /\ size + 1 <= used
        /\ elem \in [Nodes -> Values \cup {Unset}]
    BY DEF LInv, TypeOK, Add, InUse, CountInv
  <1>1. /\ Len(chain) \in Nat \ {0} /\ Last(chain) = chain[Len(chain)]
        /\ Last(chain) \in Nodes
    BY <1>0, LastFacts
  <1>2. /\ chain' \in Seq(Nodes) /\ Len(chain') = Len(chain) + 1
        /\ \A q \in 1..Len(chain) : chain'[q] = chain[q]
        /\ chain'[Len(chain) + 1] = used + 1
    <2>1. chain' = LinkBehind(chain, Last(chain), used + 1)
      BY DEF Add
    <2> HIDE DEF Nodes
    <2>2. \A n \in Nodes :
            /\ LinkBehind(chain, Last(chain), n) \in Seq(Nodes)
            /\ Len(LinkBehind(chain, Last(chain), n)) = Len(chain) + 1
            /\ \A q \in 1..Len(chain) : LinkBehind(chain, Last(chain), n)[q] = chain[q]
            /\ LinkBehind(chain, Last(chain), n)[Len(chain) + 1] = n
      BY <1>0, LinkFacts, Zenon
    <2> QED BY <1>0, <2>1, <2>2
  <1>3. /\ elem' = [elem EXCEPT ![Last(chain)] = v] /\ used' = used + 1
        /\ size' = size + 1
        /\ UNCHANGED <<it, cursor, ret, sound, phase, fault>>
    BY DEF Add
  <1>4. TypeOK'
    <2>1. elem' \in [Nodes -> Values \cup {Unset}]
      BY <1>0, <1>1, <1>3
    <2>2. size' \in 0..(SizeMod - 1) /\ used' \in Nodes
      BY <1>0, <1>3
    <2> QED BY <1>2, <1>3, <2>1, <2>2 DEF LInv, TypeOK
  <1>5. CountInv'
    BY <1>0, <1>3 DEF CountInv
  <1>6. ASSUME sound' PROVE Shape'
    <2>1. Shape
      BY <1>3, <1>6 DEF LInv
    <2>2. Len(chain) = size + 1 /\ Last(chain) = chain[size + 1]
      BY <1>1, <2>1 DEF Shape
    <2>3. \A p \in 1..(size + 1) : chain'[p] = chain[p] /\ chain'[p] <= used
      BY <1>2, <2>1, <2>2 DEF Shape
    <2>4. chain'[size + 2] = used + 1
      BY <1>0, <1>2, <2>2
    <2>5. \A p, q \in 1..(size + 2) : chain'[p] = chain'[q] => p = q
      <3> TAKE p, q \in 1..(size + 2)
      <3>1. CASE p = size + 2 \/ q = size + 2
        BY <1>0, <2>3, <2>4, <3>1
      <3>2. CASE p # size + 2 /\ q # size + 2
        <4>1. p \in 1..(size + 1) /\ q \in 1..(size + 1)
          BY <1>0, <3>2
        <4> QED BY <2>1, <2>3, <4>1 DEF Shape
      <3> QED BY <3>1, <3>2
    <2>6. \A p \in 1..(size + 2) : chain'[p] <= used + 1
      <3> TAKE p \in 1..(size + 2)
      <3>1. p # size + 2 => p \in 1..(size + 1)
        BY <1>0
      <3>2. p \in 1..Len(chain')  /\ chain'[p] \in Nodes
        BY <1>0, <1>2, <2>2, ElementOfSeq
      <3> QED BY <1>0, <2>3, <2>4, <3>1, <3>2
    <2>7. \A p \in 1..(size + 1) : elem'[chain'[p]] \in Values
      <3> TAKE p \in 1..(size + 1)
      <3>1. CASE p = size + 1
        BY <1>0, <1>1, <1>3, <2>2, <2>3, <3>1
      <3>2. CASE p # size + 1
        <4>1. p \in 1..size /\ size + 1 \in 1..(size + 1)
          BY <1>0, <3>2
        <4>2. chain[p] # Last(chain) /\ chain[p] \in Nodes
          BY <1>0, <2>1, <2>2, <3>2, <4>1, ElementOfSeq DEF Shape
        <4>3. elem'[chain[p]] = elem[chain[p]]
          BY <1>0, <1>3, <4>2
        <4> QED BY <2>1, <2>3, <4>1, <4>3 DEF Shape
      <3> QED BY <3>1, <3>2
    <2>8. cursor' # 0 => cursor' \in 1..(size' + 1) /\ it' = chain'[cursor']
      BY <1>0, <1>3, <2>1, <2>3 DEF Shape
    <2>10. \A n \in Nodes : n > used => elem'[n] = Unset
      <3> TAKE n \in Nodes
      <3>1. Last(chain) <= used
        BY <1>0, <2>1, <2>2 DEF Shape
      <3> QED BY <1>0, <1>1, <1>3, <2>1, <3>1 DEF Shape
    <2>11. elem'[chain'[size + 2]] = Unset /\ \A n \in Nodes : n > used + 1 => elem'[n] = Unset
      BY <1>0, <2>4, <2>10
    <2>9. phase' = "use" /\ ~fault' /\ Len(chain') = size' + 1 /\ size' + 1 = size + 2
      BY <1>0, <1>2, <1>3, <2>1, <2>2 DEF Shape
    <2> QED BY <1>3, <2>5, <2>6, <2>7, <2>8, <2>9, <2>11 DEF Shape
  <1> QED BY <1>4, <1>5, <1>6 DEF LInv

(* list_delete keeps the shape of the list while the caller keeps to the   *)
(* range.                                                                  *)
LEMMA DeleteKeeps ==
  ASSUME LInv, NEW p \in 1..Len(chain), Delete(p)
  PROVE  LInv'
  <1> USE LinkedListAssumption DEF Nodes, Null
  <1>0. /\ chain \in Seq(Nodes) /\ used \in Nat /\ size \in Nat /\ p \in 1..size
        /\ size < SizeMod /\ phase = "use" /\ size + 1 <= used
    BY DEF LInv, TypeOK, Delete, InUse, CountInv
  <1>1. /\ chain' = DeleteAt(chain, size, p) /\ size' = size - 1 /\ cursor' = 0
        /\ sound' = (sound /\ (p = 1 \/ p < size))
        /\ UNCHANGED <<elem, used, it, ret, phase, fault>>
    BY DEF Delete, Caller
  <1>2. chain' \in Seq(Nodes)
    BY <1>0, <1>1, DeleteAtType
  <1>3. TypeOK'
    <2>1. sound' \in BOOLEAN
      BY Zenon, <1>1
    <2>2. size' \in 0..(SizeMod - 1) /\ cursor' \in 0..MaxNodes
      BY <1>0, <1>1
    <2> QED BY <1>1, <1>2, <2>1, <2>2 DEF LInv, TypeOK
  <1>4. CountInv'
    BY <1>0, <1>1 DEF CountInv
  <1>5. ASSUME sound' PROVE Shape'
    <2>1. Shape /\ (p = 1 \/ p < size)
      BY <1>1, <1>5 DEF LInv
    <2>2. /\ Len(chain') = size
          /\ \A q \in 1..size : chain'[q] = IF q < p THEN chain[q] ELSE chain[q + 1]
      <3>1. Len(chain) = size + 1
        BY <2>1 DEF Shape
      <3> HIDE DEF Nodes
      <3> QED BY <1>0, <1>1, <2>1, <3>1, DeleteAtFacts
    <2>3. \A q, r \in 1..size : chain'[q] = chain'[r] => q = r
      <3> TAKE q, r \in 1..size
      <3> DEFINE f(x) == IF x < p THEN x ELSE x + 1
      <3>1. f(q) \in 1..(size + 1) /\ f(r) \in 1..(size + 1) /\ (f(q) = f(r) => q = r)
        BY <1>0
      <3>2. chain'[q] = chain[f(q)] /\ chain'[r] = chain[f(r)]
        BY <2>2
      <3> HIDE DEF f
      <3>3. chain[f(q)] = chain[f(r)] => f(q) = f(r)
        BY <2>1, <3>1 DEF Shape
      <3> QED BY <3>1, <3>2, <3>3
    <2>4. \A q \in 1..size : chain'[q] <= used
      <3> TAKE q \in 1..size
      <3>1. q \in 1..(size + 1) /\ q + 1 \in 1..(size + 1)
        BY <1>0
      <3> QED BY <2>1, <2>2, <3>1 DEF Shape
    <2>5. \A q \in 1..(size - 1) : elem[chain'[q]] \in Values
      <3> TAKE q \in 1..(size - 1)
      <3>1. q \in 1..size /\ q + 1 \in 1..size
        BY <1>0
      <3> QED BY <2>1, <2>2, <3>1 DEF Shape
    <2>6. size' + 1 = size /\ Len(chain') = size' + 1
      BY <1>0, <1>1, <2>2
    <2>7. elem[chain'[size]] = Unset
      <3>1. size \in 1..size /\ size + 1 \in 1..(size + 1) /\ ~(size < p)
        BY <1>0
      <3> QED BY <2>1, <2>2, <3>1 DEF Shape
    <2> QED BY <1>1, <2>1, <2>3, <2>4, <2>5, <2>6, <2>7 DEF Shape
  <1> QED BY <1>3, <1>4, <1>5 DEF LInv

(* The iterator.                                                           *)

(* What follows a node is a node or NULL.                                  *)
LEMMA NextNodeFacts ==
  ASSUME TypeOK, NEW n \in Nodes
  PROVE  NextNode(n) \in Nodes \cup {Null}
  <1> USE DEF Null
  <1>1. CASE ~OnList(n) \/ n = Last(chain)
    BY <1>1 DEF NextNode
  <1>2. CASE OnList(n) /\ n # Last(chain)
    <2> DEFINE P(p) == p \in DOMAIN chain /\ chain[p] = n
               at == CHOOSE p \in DOMAIN chain : chain[p] = n
    <2>1. chain \in Seq(Nodes) /\ DOMAIN chain = 1..Len(chain) /\ Len(chain) \in Nat
      BY DEF TypeOK
    <2>2. \E p \in DOMAIN chain : chain[p] = n
      BY <1>2 DEF OnList, Range
    <2>3. at \in DOMAIN chain /\ chain[at] = n
      BY <2>2
    <2>4. chain # <<>> /\ Last(chain) = chain[Len(chain)]
      BY <2>1, <2>2 DEF Last
    <2> HIDE DEF at
    <2>5. 1 + at \in 1..Len(chain)
      BY <1>2, <2>1, <2>3, <2>4
    <2>6. chain[1 + at] \in Nodes
      BY <2>1, <2>5, ElementOfSeq
    <2> QED BY <1>2, <2>6 DEF NextNode, at
  <1> QED BY <1>1, <1>2

(* list_it_increment keeps the iterator at the position the caller counts. *)
LEMMA AdvanceKeeps ==
  ASSUME LInv, Advance
  PROVE  LInv'
  <1> USE LinkedListAssumption DEF Nodes, Null
  <1>0. /\ chain \in Seq(Nodes) /\ size \in Nat /\ it \in Nodes
        /\ cursor \in 0..MaxNodes /\ size + 1 <= used /\ used \in Nodes
    BY DEF LInv, TypeOK, Advance, InUse, CountInv
  <1>1. /\ it' = NextNode(it)
        /\ cursor' = IF cursor \in 1..size /\ cursor < MaxNodes THEN cursor + 1 ELSE 0
        /\ sound' = (sound /\ cursor \in 1..size)
        /\ UNCHANGED <<chain, elem, size, used, ret, phase, fault>>
    BY DEF Advance, Caller, listVars
  <1>2. TypeOK'
    <2>1. sound' \in BOOLEAN
      BY Zenon, <1>1
    <2>2. cursor' \in 0..MaxNodes
      BY <1>0, <1>1
    <2>3. it' \in Nodes \cup {Null}
      BY <1>0, <1>1, NextNodeFacts DEF LInv
    <2> QED BY <1>1, <2>1, <2>2, <2>3 DEF LInv, TypeOK
  <1>3. CountInv'
    BY <1>1 DEF LInv, CountInv
  <1>4. ASSUME sound' PROVE Shape'
    <2>1. Shape /\ cursor \in 1..size
      BY <1>1, <1>4 DEF LInv
    <2>2. cursor' = cursor + 1 /\ cursor' \in 1..(size + 1)
      BY <1>0, <1>1, <2>1
    <2>3. it = chain[cursor] /\ Len(chain) = size + 1 /\ DOMAIN chain = 1..(size + 1)
          /\ cursor \in 1..(size + 1)
      BY <1>0, <2>1 DEF Shape
    <2>4. \A p, q \in 1..(size + 1) : chain[p] = chain[q] => p = q
      BY <2>1 DEF Shape
    <2>5. OnList(it)
      BY <2>3 DEF OnList, Range
    <2>6. it # Last(chain)
      <3>1. Last(chain) = chain[size + 1] /\ size + 1 \in 1..(size + 1) /\ cursor # size + 1
        BY <1>0, <2>1, <2>3 DEF Last
      <3> QED BY <2>3, <2>4, <3>1
    <2>7. (CHOOSE p \in DOMAIN chain : chain[p] = it) = cursor
      BY <2>3, <2>4
    <2>8. it' = chain[cursor + 1]
      <3>1. it' = chain[1 + CHOOSE p \in DOMAIN chain : chain[p] = it]
        BY Zenon, <1>1, <2>5, <2>6 DEF NextNode
      <3>2. it' = chain[1 + cursor]
        BY Zenon, <2>7, <3>1
      <3>3. 1 + cursor = cursor + 1
        BY <1>0
      <3> QED BY <3>2, <3>3
    <2> QED BY <1>1, <2>1, <2>2, <2>8 DEF Shape
  <1> QED BY <1>2, <1>3, <1>4 DEF LInv

(* The operations that leave the list and the iterator alone, or only      *)
(* write into an element.                                                  *)
LEMMA OthersKeep ==
  ASSUME LInv, [Next]_vars,
         ~ \E v \in Values : Add(v), ~ \E p \in 1..Len(chain) : Delete(p), ~Advance
  PROVE  LInv'
  <1> USE LinkedListAssumption DEF Nodes, Null
  <1>0. /\ TypeOK /\ CountInv /\ (sound => Shape) /\ sound \in BOOLEAN
        /\ chain \in Seq(Nodes) /\ size \in Nat /\ Len(chain) \in Nat
        /\ elem \in [Nodes -> Values \cup {Unset}]
    BY DEF LInv, TypeOK
  <1>1. ASSUME NEW p \in 1..Len(chain), Read(p) PROVE LInv'
    <2>1. ret' \in Values \cup Int
      <3>1. chain[p] \in Nodes
        BY <1>0, ElementOfSeq
      <3>2. elem[chain[p]] \in Values \cup {0}
        BY <1>0, <3>1 DEF Unset
      <3> QED BY <1>1, <3>2 DEF Read
    <2> QED BY <1>0, <1>1, <2>1 DEF Read, listVars, LInv, TypeOK, CountInv, Shape
  <1>2. ASSUME NEW p \in 1..Len(chain), NEW v \in Values, Write(p, v) PROVE LInv'
    <2>1. chain[p] \in Nodes
      BY <1>0, ElementOfSeq
    <2>2. elem' = [elem EXCEPT ![chain[p]] = v]
          /\ UNCHANGED <<chain, size, used, it, cursor, ret, sound, phase, fault>>
      BY <1>2 DEF Write
    <2>3. elem' \in [Nodes -> Values \cup {Unset}]
      BY <1>0, <2>1, <2>2
    <2>4. TypeOK' /\ CountInv'
      BY <1>0, <2>2, <2>3 DEF TypeOK, CountInv
    <2>5. Shape => Shape'
      <3> SUFFICES ASSUME Shape PROVE Shape'
        OBVIOUS
      <3>1. \A q \in 1..size : elem'[chain[q]] \in Values
        <4> TAKE q \in 1..size
        <4>1. q \in 1..Len(chain)
          BY <1>0 DEF Shape
        <4>2. chain[q] \in Nodes
          BY <1>0, <4>1, ElementOfSeq
        <4>3. elem[chain[q]] \in Values
          BY DEF Shape
        <4> QED BY <1>0, <2>2, <4>2, <4>3
      <3>2. p \in 1..(size + 1) /\ p \in 1..size /\ size + 1 \in 1..(size + 1)
            /\ p # size + 1
        BY <1>0, <1>2 DEF Write, Shape
      <3>3. chain[p] # chain[size + 1] /\ chain[p] <= used /\ chain[size + 1] \in Nodes
        BY <1>0, <3>2, ElementOfSeq DEF Shape
      <3>4. elem'[chain[size + 1]] = Unset
        BY <1>0, <2>2, <3>3 DEF Shape
      <3>5. \A n \in Nodes : n > used => elem'[n] = Unset
        <4> TAKE n \in Nodes
        <4>1. n > used => n # chain[p]
          BY <2>1, <3>3 DEF LInv, TypeOK
        <4> QED BY <1>0, <2>2, <4>1 DEF Shape
      <3> QED BY <2>2, <3>1, <3>4, <3>5 DEF Shape
    <2> QED BY <1>0, <2>2, <2>4, <2>5 DEF LInv
  <1>3. CASE ReadNothing
    BY <1>0, <1>3 DEF ReadNothing, listVars, LInv, TypeOK, CountInv, Shape
  <1>4. ASSUME NEW v \in Values, Search(v) PROVE LInv'
    <2>1. ret' \in Values \cup Int
      <3>1. PICK p \in DOMAIN chain : ret' = p - 1 /\ elem[chain[p]] = v
        BY <1>4 DEF Search
      <3>2. p - 1 \in Int
        BY <1>0
      <3> QED BY Zenon, <3>1, <3>2
    <2> QED BY <1>0, <1>4, <2>1 DEF Search, listVars, LInv, TypeOK, CountInv, Shape
  <1>5. ASSUME NEW v \in Values, SearchMissing(v) PROVE LInv'
    <2>1. /\ ret' \in Values \cup Int /\ fault' \in BOOLEAN /\ sound' = FALSE
          /\ UNCHANGED <<listVars, it, cursor, phase>>
      <3>1. ret' \in {-1, Len(chain) - 1}
        BY <1>5 DEF SearchMissing
      <3>2. fault' \in BOOLEAN
        <4>1. fault \in BOOLEAN
          BY <1>0 DEF TypeOK
        <4> QED BY <1>5, <4>1 DEF SearchMissing
      <3>3. sound' = FALSE /\ UNCHANGED <<listVars, it, cursor, phase>>
        BY <1>5 DEF SearchMissing, Caller
      <3> QED BY <1>0, <3>1, <3>2, <3>3
    <2> QED BY <1>0, <2>1 DEF listVars, LInv, TypeOK, CountInv
  <1>6. CASE Reset
    <2>1. /\ it' = IF chain = <<>> THEN Null ELSE Head(chain)
          /\ cursor' = 1 /\ UNCHANGED <<listVars, ret, sound, phase, fault>>
      BY <1>6 DEF Reset
    <2>2. chain # <<>> => Head(chain) = chain[1] /\ Head(chain) \in Nodes
      BY <1>0
    <2>3. TypeOK' /\ CountInv'
      BY <1>0, <2>1, <2>2 DEF listVars, TypeOK, CountInv
    <2>4. Shape => Shape'
      <3>1. Shape => chain # <<>>
        BY <1>0 DEF Shape
      <3> QED BY <1>0, <2>1, <2>2, <3>1 DEF listVars, Shape
    <2> QED BY <1>0, <2>1, <2>3, <2>4 DEF LInv
  <1>7. CASE ReadIterator
    <2>1. /\ ret' = elem[it] /\ it \in Nodes
          /\ sound' = (sound /\ cursor \in 1..size)
          /\ UNCHANGED <<listVars, it, cursor, phase, fault>>
      <3>1. it \in Range(chain)
        BY <1>7 DEF ReadIterator, OnList
      <3>2. it \in Nodes
        BY <1>0, <3>1, ElementOfSeq DEF Range
      <3> QED BY <1>7, <3>2 DEF ReadIterator, Caller
    <2>2. ret' \in Values \cup Int
      BY <1>0, <2>1 DEF Unset
    <2>3. sound' \in BOOLEAN /\ (sound' => sound)
      BY Zenon, <2>1
    <2>4. TypeOK' /\ CountInv'
      BY <1>0, <2>1, <2>2, <2>3 DEF listVars, TypeOK, CountInv
    <2>5. Shape => Shape'
      BY <2>1 DEF listVars, Shape
    <2> QED BY <1>0, <2>3, <2>4, <2>5 DEF LInv
  <1>8. CASE Clear
    BY <1>0, <1>8 DEF Clear, Caller, listVars, LInv, TypeOK, CountInv
  <1>9. CASE ClearStep
    <2>1. phase = "clearing" /\ size # 1 /\ ~sound
      BY <1>0, <1>9 DEF ClearStep, Shape
    <2>2. chain' \in Seq(Nodes)
      BY <1>0, <1>9, TailFacts DEF ClearStep
    <2>3. size' \in 0..(SizeMod - 1)
      <3>1. size \in 0..(SizeMod - 1)
        BY <1>0 DEF TypeOK
      <3> QED BY <1>9, <2>1, <3>1 DEF ClearStep
    <2> QED BY <1>0, <1>9, <2>1, <2>2, <2>3 DEF ClearStep, LInv, TypeOK, CountInv
  <1>10. CASE ClearHead
    <2>1. chain' \in Seq(Nodes) /\ ~sound
      BY <1>0, <1>10, TailFacts DEF ClearHead, Shape
    <2> QED BY <1>0, <1>10, <2>1 DEF ClearHead, LInv, TypeOK, CountInv
  <1>11. CASE Strays
    <2>1. /\ fault' = TRUE /\ UNCHANGED <<listVars, it, cursor, ret, phase>>
      BY <1>11 DEF Strays
    <2>2. ~sound'
      <3> SUFFICES ASSUME sound' PROVE FALSE
        OBVIOUS
      <3>1. sound
        BY <1>11 DEF Strays, Caller
      <3>2. Shape /\ Len(chain) = size + 1
        BY <1>0, <3>1 DEF Shape
      <3>3. chain # <<>> /\ ~(size > Len(chain)) /\ InUse
        BY <1>0, <3>2 DEF Shape, InUse
      <3>4. \A p \in 1..size : IsSet(p)
        BY <3>2, LinkedListAssumption DEF Shape, IsSet, Unset
      <3>5. CASE cursor \in 1..size
        <4>1. it = chain[cursor] /\ cursor \in 1..Len(chain)
          BY <1>0, <3>2, <3>5 DEF Shape
        <4>2. it \in Nodes /\ OnList(it) /\ elem[it] # Unset
          <5>1. it \in Nodes
            BY <1>0, <4>1, ElementOfSeq
          <5>2. OnList(it)
            BY <1>0, <4>1 DEF OnList, Range
          <5>3. elem[it] # Unset
            BY <3>4, <3>5, <4>1 DEF IsSet
          <5> QED BY <5>1, <5>2, <5>3
        <4>3. it # 0 /\ ~NodeFreed(it)
          BY <4>2 DEF NodeFreed
        <4>4. ~(it # Null => NodeFreed(it) \/ elem[it] = Unset)
          BY <4>2, <4>3
        <4>5. phase # "clearing" /\ ~(chain = <<>> \/ size > Len(chain))
          BY <3>2, <3>3 DEF Shape
        <4> HIDE DEF Null
        <4> QED BY Zenon, <1>11, <3>4, <4>4, <4>5 DEF Strays
      <3>6. CASE cursor \notin 1..size
        BY <1>11, <3>2, <3>3, <3>4, <3>6 DEF Strays, Shape, Caller
      <3> QED BY <3>5, <3>6
    <2>3. sound' \in BOOLEAN
      BY Zenon, <1>11 DEF Strays, Caller
    <2> QED BY <1>0, <2>1, <2>2, <2>3 DEF listVars, LInv, TypeOK, CountInv
  <1>12. CASE DeleteFromEmpty \/ UNCHANGED vars
    <2>1. UNCHANGED vars
      BY <1>12 DEF DeleteFromEmpty
    <2>2. TypeOK' /\ CountInv' /\ sound' = sound
      BY <1>0, <2>1 DEF vars, listVars, TypeOK, CountInv
    <2>3. Shape => Shape'
      BY <2>1 DEF vars, listVars, Shape
    <2> QED BY <1>0, <2>2, <2>3 DEF LInv
  <1>13. CASE DeleteOutside
    <2>1. /\ phase = "use" /\ size # 0 /\ cursor' = 0 /\ sound' = FALSE
          /\ UNCHANGED <<elem, used, it, ret, phase>>
      BY <1>13 DEF DeleteOutside, InUse, Caller
    <2>2. chain' \in Seq(Nodes) /\ size' \in 0..(SizeMod - 1) /\ size' <= size
      <3>1. size \in 0..(SizeMod - 1)
        BY <1>0 DEF TypeOK
      <3>2. CASE size < Len(chain) /\ chain' = DeleteAt(chain, size, size + 1) /\ size' = size - 1
        <4>1. size + 1 \in 1..Len(chain)
          BY <1>0, <3>2
        <4>2. chain' \in Seq(Nodes)
          BY <1>0, <3>2, <4>1, DeleteAtType
        <4>3. size' \in 0..(SizeMod - 1) /\ size' <= size
          BY <2>1, <3>1, <3>2
        <4> QED BY <4>2, <4>3
      <3>3. CASE UNCHANGED <<chain, size>>
        BY <1>0, <3>1, <3>3
      <3> QED BY <1>13, <3>2, <3>3 DEF DeleteOutside
    <2>3. fault' \in BOOLEAN
      <3>1. fault \in BOOLEAN
        BY <1>0 DEF TypeOK
      <3>2. fault' \in BOOLEAN \/ fault' = fault \/ fault' = TRUE
        BY <1>13 DEF DeleteOutside
      <3> QED BY <3>1, <3>2
    <2>4. TypeOK'
      <3>0. 0 \in 0..MaxNodes
        BY LinkedListAssumption
      <3>1. cursor' \in 0..MaxNodes /\ sound' \in BOOLEAN
        BY Zenon, <2>1, <3>0
      <3>2. /\ elem' \in [Nodes -> Values \cup {Unset}] /\ it' \in Nodes \cup {Null}
            /\ used' \in Nodes /\ ret' \in Values \cup Int
            /\ phase' \in {"use", "clearing", "destroyed"}
        BY <1>0, <2>1 DEF TypeOK
      <3> QED BY <2>2, <2>3, <3>1, <3>2 DEF TypeOK
    <2>5. CountInv'
      <3>0. size \in Nat
        BY <1>0
      <3>1. used \in Nat
        BY <1>0 DEF TypeOK
      <3>2. size + 1 <= used
        BY <1>0, <2>1 DEF CountInv
      <3>3. size' \in Nat /\ size' <= size
        BY <2>2
      <3>4. size' + 1 <= used
        <4>1. \A a, b, c \in Nat : a + 1 <= b /\ c <= a => c + 1 <= b
          OBVIOUS
        <4> QED BY Zenon, <3>0, <3>1, <3>2, <3>3, <4>1
      <3>5. used' = used
        BY <2>1
      <3>6. size' + 1 <= used'
        BY <3>4, <3>5
      <3> QED BY <3>6 DEF CountInv
    <2> QED BY <2>1, <2>4, <2>5 DEF LInv
  <1> QED BY <1>1, <1>2, <1>3, <1>4, <1>5, <1>6, <1>7, <1>8, <1>9, <1>10, <1>11,
             <1>12, <1>13 DEF Next

(* Every operation keeps the invariant.                                    *)
LEMMA LInductive == LInv /\ [Next]_vars => LInv'
  BY AddKeeps, DeleteKeeps, AdvanceKeeps, OthersKeep

(* The list keeps its shape as long as the caller keeps to the range, and  *)
(* the variables their types whatever the caller does.                     *)
THEOREM LInvariance == Spec => []LInv
  BY LInitially, LInductive, PTL DEF Spec

(* Every variable keeps its type; size never leaves the range of a usize.  *)
THEOREM LTypeCorrect == Spec => []TypeOK
  <1>1. LInv => TypeOK
    BY DEF LInv
  <1> QED BY LInvariance, <1>1, PTL

(* A caller that keeps to the range never makes list.c touch freed or      *)
(* never-set memory.                                                       *)
THEOREM NoFaultInRange == Spec => []NoFault
  <1>1. LInv => NoFault
    BY DEF LInv, Shape, NoFault
  <1> QED BY LInvariance, <1>1, PTL

-----------------------------------------------------------------------------
(* The list implements Elements                                            *)

ItemsOK ==
  /\ Items \in Seq(Values) /\ Len(Items) = size
  /\ \A p \in 1..size : Items[p] = elem[chain[p]]

(* For a caller in the range the elements of the list are a sequence of    *)
(* values.                                                                 *)
LEMMA ItemsFacts == LInv /\ sound => ItemsOK
  <1> SUFFICES ASSUME LInv, sound PROVE ItemsOK
    OBVIOUS
  <1>1. size \in Nat /\ \A p \in 1..size : elem[chain[p]] \in Values
    BY LinkedListAssumption DEF LInv, TypeOK, Shape
  <1>2. Items = [p \in 1..size |-> elem[chain[p]]]
    BY DEF Items
  <1>3. Items \in [1..size -> Values]
    BY <1>1, <1>2
  <1> QED BY <1>1, <1>2, <1>3 DEF ItemsOK

(* For a caller in the range the path holds the elements and one sentinel. *)
LEMMA SoundFacts ==
  ASSUME LInv, sound
  PROVE  /\ Shape /\ chain \in Seq(Nodes) /\ size \in Nat /\ Len(chain) = size + 1
         /\ chain # <<>> /\ Last(chain) = chain[size + 1]
         /\ elem \in [Nodes -> Values \cup {Unset}]
         /\ \A p \in 1..(size + 1) : chain[p] \in Nodes
  <1>1. Shape /\ chain \in Seq(Nodes) /\ size \in Nat /\ Len(chain) = size + 1
        /\ elem \in [Nodes -> Values \cup {Unset}]
    BY LinkedListAssumption DEF LInv, TypeOK, Shape
  <1>2. chain # <<>> /\ Last(chain) = chain[size + 1]
    BY <1>1 DEF Last
  <1> QED BY <1>1, <1>2, ElementOfSeq

(* list_append appends an element.                                         *)
LEMMA AddMaps ==
  ASSUME LInv, sound, ItemsOK, ItemsOK', NEW v \in Values, Add(v)
  PROVE  E!Add(v)
  <1>0. /\ elem' = [elem EXCEPT ![Last(chain)] = v] /\ used' = used + 1
        /\ cursor' = cursor /\ ret' = ret /\ size' = size + 1
        /\ chain' = LinkBehind(chain, Last(chain), used + 1)
    BY DEF Add
  <1>1. /\ Shape /\ chain \in Seq(Nodes) /\ size \in Nat /\ Len(chain) = size + 1
        /\ chain # <<>> /\ Last(chain) = chain[size + 1]
        /\ elem \in [Nodes -> Values \cup {Unset}]
        /\ \A p \in 1..(size + 1) : chain[p] \in Nodes
    BY SoundFacts
  <1>2. chain' = Append(chain, used + 1)
    BY <1>0, <1>1 DEF LinkBehind
  <1>3. \A p \in 1..(size + 1) : chain'[p] = chain[p]
    BY <1>1, <1>2
  <1>4. \A p \in 1..size : Items'[p] = Items[p]
    <2> TAKE p \in 1..size
    <2>1. p \in 1..(size + 1) /\ size + 1 \in 1..(size + 1) /\ p # size + 1
      BY <1>1
    <2>2. chain[p] # Last(chain)
      BY <1>1, <2>1 DEF Shape
    <2>3. elem'[chain'[p]] = elem[chain[p]]
      BY <1>0, <1>1, <1>3, <2>1, <2>2
    <2> QED BY <1>0, <2>1, <2>3 DEF ItemsOK
  <1>5. Items'[size + 1] = v
    <2>1. size + 1 \in 1..(size + 1)
      BY <1>1
    <2> QED BY <1>0, <1>1, <1>3, <2>1 DEF ItemsOK
  <1>6. Items' = Append(Items, v)
    <2>1. /\ Append(Items, v) \in Seq(Values) /\ Len(Append(Items, v)) = size + 1
          /\ \A p \in 1..size : Append(Items, v)[p] = Items[p]
          /\ Append(Items, v)[size + 1] = v
      BY AppendProperties DEF ItemsOK
    <2>2. \A p \in 1..(size + 1) : Items'[p] = Append(Items, v)[p]
      BY <1>1, <1>4, <1>5, <2>1
    <2> QED BY <1>0, <2>1, <2>2, SeqEqual DEF ItemsOK
  <1> QED BY <1>0, <1>6 DEF E!Add

(* list_delete removes the element at its index.                           *)
LEMMA DeleteMaps ==
  ASSUME LInv, sound, sound', ItemsOK, ItemsOK', NEW p \in 1..size, Delete(p)
  PROVE  E!Delete(p)
  <1>0. /\ chain' = DeleteAt(chain, size, p) /\ elem' = elem /\ size' = size - 1
        /\ cursor' = 0 /\ ret' = ret /\ (p = 1 \/ p < size)
    BY DEF Delete, Caller
  <1>1. /\ Shape /\ chain \in Seq(Nodes) /\ size \in Nat /\ Len(chain) = size + 1
    BY SoundFacts
  <1>2. \A q \in 1..size : chain'[q] = IF q < p THEN chain[q] ELSE chain[q + 1]
    BY SMTT(30), <1>0, <1>1, DeleteAtFacts
  <1>3. /\ RemoveAt(Items, p) \in Seq(Values) /\ Len(RemoveAt(Items, p)) = size - 1
        /\ \A q \in 1..(size - 1) :
             RemoveAt(Items, p)[q] = IF q < p THEN Items[q] ELSE Items[q + 1]
    BY RemoveAtFacts DEF ItemsOK
  <1>4. \A q \in 1..(size - 1) : Items'[q] = RemoveAt(Items, p)[q]
    <2> TAKE q \in 1..(size - 1)
    <2>1. q \in 1..size /\ q + 1 \in 1..size
      BY <1>1
    <2>2. Items'[q] = elem[chain'[q]]
      BY <1>0 DEF ItemsOK
    <2> QED BY <1>2, <1>3, <2>1, <2>2 DEF ItemsOK
  <1>5. Items' = RemoveAt(Items, p)
    BY <1>0, <1>3, <1>4, SeqEqual DEF ItemsOK
  <1> QED BY <1>0, <1>5 DEF E!Delete, E!RemoveAt, RemoveAt

(* A write through list_access changes that element only.                  *)
LEMMA WriteMaps ==
  ASSUME LInv, sound, ItemsOK, ItemsOK', NEW p \in 1..size, NEW v \in Values,
         Write(p, v)
  PROVE  E!Write(p, v)
  <1>0. /\ elem' = [elem EXCEPT ![chain[p]] = v]
        /\ UNCHANGED <<chain, size, cursor, ret>>
    BY DEF Write
  <1>1. /\ Shape /\ size \in Nat
        /\ elem \in [Nodes -> Values \cup {Unset}]
        /\ \A q \in 1..(size + 1) : chain[q] \in Nodes
    BY SoundFacts
  <1>2. \A q \in 1..size : Items'[q] = IF q = p THEN v ELSE Items[q]
    <2> TAKE q \in 1..size
    <2>1. q \in 1..(size + 1) /\ p \in 1..(size + 1)
      BY <1>1
    <2>2. q # p => chain[q] # chain[p]
      BY <1>1, <2>1 DEF Shape
    <2>3. elem'[chain[q]] = IF q = p THEN v ELSE elem[chain[q]]
      BY <1>0, <1>1, <2>1, <2>2
    <2> QED BY <1>0, <2>3 DEF ItemsOK
  <1>3. /\ [Items EXCEPT ![p] = v] \in Seq(Values)
        /\ Len([Items EXCEPT ![p] = v]) = size
        /\ \A q \in 1..size :
             [Items EXCEPT ![p] = v][q] = IF q = p THEN v ELSE Items[q]
    BY DEF ItemsOK
  <1>4. Items' = [Items EXCEPT ![p] = v]
    BY <1>0, <1>2, <1>3, SeqEqual DEF ItemsOK
  <1> QED BY <1>0, <1>4 DEF E!Write

(* list_search returns the index of the first equal element.               *)
LEMMA SearchMaps ==
  ASSUME LInv, sound, ItemsOK, Items' = Items, NEW v \in Values, Search(v)
  PROVE  E!Search(v)
  <1>1. PICK p \in DOMAIN chain :
          /\ elem[chain[p]] = v /\ ret' = p - 1
          /\ \A q \in 1..(p - 1) : elem[chain[q]] # v
    BY DEF Search
  <1>2. Shape /\ size \in Nat /\ DOMAIN chain = 1..(size + 1)
    BY SoundFacts
  <1>3. v # Unset
    BY LinkedListAssumption DEF Unset
  <1>4. p \in 1..size /\ \A q \in 1..(p - 1) : q \in 1..size
    BY <1>1, <1>2, <1>3 DEF Shape
  <1>5. Items[p] = v /\ \A q \in 1..(p - 1) : Items[q] # v
    BY <1>1, <1>4 DEF ItemsOK
  <1>6. p \in DOMAIN Items
    BY <1>4 DEF ItemsOK
  <1>7. cursor' = cursor
    BY DEF Search
  <1> QED BY <1>1, <1>5, <1>6, <1>7 DEF E!Search

(* A step that leaves the list alone leaves the elements alone.            *)
LEMMA SameItems ==
  ASSUME sound' = sound, UNCHANGED listVars
  PROVE  Items' = Items
  BY DEF Items, listVars

(* Every operation of a caller in the range is the one of Elements, or a   *)
(* stutter.                                                                *)
LEMMA ElementsStep ==
  ASSUME LInv, LInv', [Next]_vars, ItemsOK \/ ~sound, ItemsOK' \/ ~sound'
  PROVE  sound' => [E!Next]_E!vars /\ OperationsAgree
  <1> USE DEF E!vars
  <1> SUFFICES ASSUME sound'
               PROVE  OperationsAgree /\ (E!Next \/ UNCHANGED <<Items, cursor, ret>>)
    BY Zenon
  <1>1. sound
    <2>1. CASE UNCHANGED vars
      BY <2>1 DEF vars
    <2>2. CASE Next
      BY Zenon, <2>2 DEF Next, Add, Search, SearchMissing, Read, Delete, Write, ReadNothing,
         DeleteOutside, DeleteFromEmpty, vars, Reset, Advance, ReadIterator, Clear, ClearStep, ClearHead,
         Strays, Caller
    <2> QED BY <2>1, <2>2
  <1>2. ItemsOK /\ ItemsOK' /\ sound' = sound
    BY <1>1 DEF LInv, TypeOK
  <1>3. DOMAIN Items = 1..size
    BY <1>2 DEF ItemsOK
  <1>4. ASSUME NEW v \in Values, Add(v) PROVE E!Add(v)
    BY <1>1, <1>2, <1>4, AddMaps
  <1>5. ASSUME NEW v \in Values, Search(v) PROVE E!Search(v)
    <2>1. Items' = Items
      BY <1>2, <1>5, SameItems DEF Search
    <2> QED BY <1>1, <1>2, <1>5, <2>1, SearchMaps
  <1>6. ASSUME NEW p, Read(p) PROVE p \in 1..size /\ E!Read(p)
    <2>1. Items' = Items /\ cursor' = cursor /\ p \in 1..size
      BY <1>2, <1>6, SameItems DEF Read
    <2>2. ret' = Items[p]
      BY <1>2, <1>6, <2>1 DEF Read, ItemsOK
    <2> QED BY <2>1, <2>2 DEF E!Read
  <1>7. ASSUME NEW p, Delete(p) PROVE p \in 1..size /\ E!Delete(p)
    <2>1. p \in 1..size
      BY <1>7 DEF Delete
    <2> QED BY <1>1, <1>2, <1>7, <2>1, DeleteMaps
  <1>8. ASSUME NEW p, NEW v \in Values, Write(p, v) PROVE p \in 1..size /\ E!Write(p, v)
    <2>1. p \in 1..size
      BY <1>8 DEF Write
    <2> QED BY <1>1, <1>2, <1>8, <2>1, WriteMaps
  <1>9. ASSUME ReadNothing PROVE E!ReadNothing
    <2>1. Items' = Items /\ cursor' = cursor /\ ret' = 0
      BY <1>2, <1>9, SameItems DEF ReadNothing
    <2> QED BY <2>1 DEF E!ReadNothing
  <1>10. ASSUME Reset PROVE E!Reset
    <2>1. Items' = Items /\ cursor' = 1 /\ ret' = ret
      BY <1>2, <1>10, SameItems DEF Reset
    <2> QED BY <2>1 DEF E!Reset
  <1>11. ASSUME Advance PROVE E!Advance
    <2>1. Items' = Items /\ ret' = ret
      BY <1>2, <1>11, SameItems DEF Advance
    <2>2. cursor \in 1..size /\ cursor' = cursor + 1
      <3>1. cursor \in 1..size
        BY <1>11 DEF Advance, Caller
      <3>2. cursor < MaxNodes
        BY <1>1, <3>1, LinkedListAssumption DEF LInv, TypeOK, CountInv, Shape, Nodes
      <3> QED BY <1>11, <3>1, <3>2 DEF Advance
    <2> QED BY <1>3, <2>1, <2>2 DEF E!Advance
  <1>12. ASSUME ReadIterator PROVE cursor \in 1..size /\ E!Read(cursor)
    <2>1. Items' = Items /\ cursor' = cursor /\ cursor \in 1..size
      BY <1>2, <1>12, SameItems DEF ReadIterator, Caller
    <2>2. ret' = Items[cursor]
      <3>1. it = chain[cursor]
        BY <1>1, <2>1 DEF LInv, Shape
      <3> QED BY <1>2, <1>12, <2>1, <3>1 DEF ReadIterator, ItemsOK
    <2> QED BY <2>1, <2>2 DEF E!Read
  <1>13. ASSUME UNCHANGED vars PROVE UNCHANGED <<Items, cursor, ret>>
    BY <1>2, <1>13, SameItems DEF vars
  <1>14. ~Strays /\ ~ClearStep /\ ~ClearHead /\ ~Clear /\ ~DeleteOutside
         /\ ~ \E v \in Values : SearchMissing(v)
    <2>1. phase = "use" /\ phase' = "use" /\ ~fault'
      BY <1>1 DEF LInv, Shape
    <2> QED BY <2>1 DEF Strays, ClearStep, ClearHead, Clear, SearchMissing, DeleteOutside, Caller
  <1>15. OperationsAgree
    <2>1. DeleteFromEmpty => UNCHANGED <<Items, cursor, ret>>
      BY <1>13 DEF DeleteFromEmpty
    <2> QED BY <1>4, <1>5, <1>6, <1>7, <1>8, <1>9, <1>10, <1>11, <1>12, <2>1
               DEF OperationsAgree
  <1>16. CASE UNCHANGED vars
    BY <1>13, <1>15, <1>16
  <1>17. ASSUME Next PROVE E!Next \/ UNCHANGED <<Items, cursor, ret>>
    <2>1. CASE \E v \in Values : Add(v) \/ Search(v)
      BY <1>4, <1>5, <2>1 DEF E!Next
    <2>2. CASE \E p \in 1..Len(chain) : Read(p) \/ Delete(p) \/ \E v \in Values : Write(p, v)
      BY <1>3, <1>6, <1>7, <1>8, <2>2 DEF E!Next
    <2>3. CASE ReadNothing \/ Reset \/ Advance \/ ReadIterator
      BY <1>3, <1>9, <1>10, <1>11, <1>12, <2>3 DEF E!Next
    <2>4. CASE DeleteFromEmpty
      BY <1>13, <2>4 DEF DeleteFromEmpty
    <2> QED BY <1>14, <1>17, <2>1, <2>2, <2>3, <2>4 DEF Next
  <1> QED BY <1>15, <1>16, <1>17

(* For every number of nodes, all contents and every width of size: while  *)
(* the caller keeps to the range the list is a sequence of elements, and    *)
(* each operation is the one of that name on it.                           *)
THEOREM ElementsImplemented == Spec => ImplementsElements
  <1>1. Init => E!Init
    <2> SUFFICES ASSUME Init PROVE E!Init
      OBVIOUS
    <2>1. Items = <<>>
      BY DEF Init, Items
    <2> QED BY <2>1 DEF Init, E!Init
  <1>2. LInv => ItemsOK \/ ~sound
    BY ItemsFacts
  <1>3. LInv /\ LInv' /\ [Next]_vars /\ (ItemsOK \/ ~sound) /\ (ItemsOK \/ ~sound)'
          => [sound' => [E!Next]_E!vars /\ OperationsAgree]_vars
    BY ElementsStep
  <1> QED BY LInvariance, <1>1, <1>2, <1>3, PTL DEF Spec, ImplementsElements
=============================================================================
