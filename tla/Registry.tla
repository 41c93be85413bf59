------------------------------ MODULE Registry ------------------------------
(***************************************************************************)
(* What the server promises about its clients: whoever connects is         *)
(* registered in the same step, stays registered as long as it does not    *)
(* hang up, and is removed, once, some time after it did.                  *)
(***************************************************************************)
EXTENDS Naturals

CONSTANT Conns  \* the connections that may be made

VARIABLES
  peer,     \* the client's end of each connection
  present   \* the connections that are registered

vars == <<peer, present>>

TypeOK ==
  /\ peer \in [Conns -> {"away", "open", "gone"}]
  /\ present \subseteq Conns

Init ==
  /\ peer = [k \in Conns |-> "away"]
  /\ present = {}

Connect(k) ==
  /\ peer[k] = "away"
  /\ peer' = [peer EXCEPT ![k] = "open"]
  /\ present' = present \cup {k}

HangUp(k) ==
  /\ peer[k] = "open"
  /\ peer' = [peer EXCEPT ![k] = "gone"]
  /\ UNCHANGED present

Remove(k) ==
  /\ peer[k] = "gone" /\ k \in present
  /\ present' = present \ {k}
  /\ UNCHANGED peer

Next == \E k \in Conns : Connect(k) \/ HangUp(k) \/ Remove(k)

Spec == Init /\ [][Next]_vars /\ \A k \in Conns : WF_vars(Remove(k))

(* A client that has not hung up is registered.                            *)
OpenArePresent == \A k \in Conns : peer[k] = "open" => k \in present
=============================================================================
