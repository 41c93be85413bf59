------------------------------ MODULE Elements ------------------------------
(***************************************************************************)
(* What the linked list promises: a sequence of elements with an iterator, *)
(* which a deletion takes away until the next reset.                       *)
(***************************************************************************)
EXTENDS Integers, SequencesExt

CONSTANT Values  \* the contents of an element

VARIABLES
  items,   \* the elements
  cursor,  \* the position of the iterator, 0 after a deletion
  ret      \* what the last operation that returns something returned

vars == <<items, cursor, ret>>

Init == items = <<>> /\ cursor = 1 /\ ret = 0

Add(v) == items' = Append(items, v) /\ UNCHANGED <<cursor, ret>>

Write(i, v) == items' = [items EXCEPT ![i] = v] /\ UNCHANGED <<cursor, ret>>

Delete(i) == items' = RemoveAt(items, i) /\ cursor' = 0 /\ UNCHANGED ret

Read(i) == ret' = items[i] /\ UNCHANGED <<items, cursor>>

(* An index outside the list.                                              *)
ReadNothing == ret' = 0 /\ UNCHANGED <<items, cursor>>

(* The index, from 0, of the first element that equals v.                  *)
Search(v) ==
  /\ \E i \in DOMAIN items :
       items[i] = v /\ ret' = i - 1 /\ \A j \in 1..(i - 1) : items[j] # v
  /\ UNCHANGED <<items, cursor>>

Reset == cursor' = 1 /\ UNCHANGED <<items, ret>>

Advance == cursor \in DOMAIN items /\ cursor' = cursor + 1 /\ UNCHANGED <<items, ret>>

Next ==
  \/ \E v \in Values : Add(v) \/ Search(v)
  \/ \E i \in DOMAIN items : Delete(i) \/ Read(i) \/ \E v \in Values : Write(i, v)
  \/ ReadNothing \/ Reset \/ Advance
=============================================================================
