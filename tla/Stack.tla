------------------------------- MODULE Stack -------------------------------
(***************************************************************************)
(* What the vector of include/vector.c promises: a sequence that grows and *)
(* shrinks at its end, whose elements can be read and written in place and *)
(* from whose middle an element is removed by moving the last one there.   *)
(***************************************************************************)
EXTENDS SequencesExt

CONSTANTS Values, NoValue

VARIABLES
  items,  \* the elements
  out     \* the element the caller has taken out of the vector, or NoValue

vars == <<items, out>>

Init == items = <<>> /\ out = NoValue

Push(v) == items' = Append(items, v) /\ UNCHANGED out
Pop == items # <<>> /\ items' = Front(items) /\ out' = Last(items)
PopBack == items # <<>> /\ items' = Front(items) /\ UNCHANGED out
Swapback(p) ==
  /\ p \in DOMAIN items
  /\ items' = Front([items EXCEPT ![p] = Last(items)])
  /\ UNCHANGED out
Write(p, v) == p \in DOMAIN items /\ items' = [items EXCEPT ![p] = v] /\ UNCHANGED out
Release == out' = NoValue /\ UNCHANGED items
Clear == items' = <<>> /\ UNCHANGED out

Next ==
  \/ \E v \in Values : Push(v) \/ \E p \in DOMAIN items : Write(p, v)
  \/ \E p \in DOMAIN items : Swapback(p)
  \/ Pop \/ PopBack \/ Release \/ Clear
=============================================================================
