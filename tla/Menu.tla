-------------------------------- MODULE Menu --------------------------------
(***************************************************************************)
(* What the menu of src/gui promises: a stack of the containers the user   *)
(* has entered, each with the number, from 0, of its selected option, and  *)
(* a key that the user has pressed and that waits to be handled.  A key is *)
(* handled once.  The options are added before the first container opens.  *)
(***************************************************************************)
EXTENDS Integers, SequencesExt

CONSTANTS
  Containers,
  NoTarget,    \* the target of an option that enters nothing
  Keys         \* the keys the user may press; "none" is not one

VARIABLES
  stack,
  targets,  \* for each container, what its options enter
  input     \* the key that waits, or "none"

vars == <<stack, targets, input>>

Init == stack = <<>> /\ targets = [c \in Containers |-> <<>>] /\ input = "none"

AddOption(c, t) ==
  /\ stack = <<>>
  /\ targets' = [targets EXCEPT ![c] = Append(@, t)] /\ UNCHANGED <<stack, input>>
Open(main) ==
  /\ stack = <<>>
  /\ stack' = <<[con |-> main, on |-> 0]>> /\ UNCHANGED <<targets, input>>

Press(k) ==
  stack # <<>> /\ input = "none" /\ input' = k /\ UNCHANGED <<stack, targets>>

Handled(k) == stack # <<>> /\ input = k /\ input' = "none" /\ UNCHANGED targets

Top == Last(stack)
Select(n) == stack' = [stack EXCEPT ![Len(stack)].on = n]

Up == Handled("w") /\ Select(IF Top.on = 0 THEN 0 ELSE Top.on - 1)
Down ==
  /\ Handled("s")
  /\ Select(IF Top.on + 1 < Len(targets[Top.con]) THEN Top.on + 1 ELSE Top.on)
Enter ==
  LET t == targets[Top.con][Top.on + 1]
  IN  /\ Handled("e") /\ Top.on < Len(targets[Top.con])
      /\ stack' = IF t = NoTarget THEN stack ELSE Append(stack, [con |-> t, on |-> 0])
Return ==
  Handled("r") /\ stack' = (IF Len(stack) = 1 THEN stack ELSE Front(stack))

(* A key the menu has no use for, now or ever, is dropped.                 *)
Drop ==
  /\ \E k \in Keys \ {"w", "r"} : Handled(k)
  /\ input \in {"s", "e"} => targets[Top.con] = <<>>
  /\ UNCHANGED stack

Next ==
  \/ \E c \in Containers, t \in Containers \cup {NoTarget} : AddOption(c, t) \/ Open(c)
  \/ \E k \in Keys : Press(k)
  \/ Up \/ Down \/ Enter \/ Return \/ Drop
=============================================================================
