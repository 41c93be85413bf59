-------------------------------- MODULE Text --------------------------------
(***************************************************************************)
(* What the string types promise: a text that is set, changed in one       *)
(* place, extended, filled and cleared.                                    *)
(***************************************************************************)
EXTENDS Naturals, Sequences

CONSTANTS Chars, Sources  \* the characters, and the texts callers pass

VARIABLE text

vars == <<text>>

Init == text = <<>>

Set(src) == text' = src
SetI(i, c) == i \in DOMAIN text /\ text' = [text EXCEPT ![i] = c]
Cat(src) == text' = text \o src
Fill(n, c) == text' = [i \in 1..n |-> c]
Clear == text' = <<>>
Same == UNCHANGED vars

Next ==
  \/ \E src \in Sources : Set(src) \/ Cat(src)
  \/ \E c \in Chars : Fill(Len(text'), c) \/ \E i \in DOMAIN text : SetI(i, c)
  \/ Clear

Spec == Init /\ [][Next]_vars
=============================================================================
