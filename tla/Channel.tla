------------------------------ MODULE Channel ------------------------------
(***************************************************************************)
(* What a session promises: the packets of a client reach its handler      *)
(* whole, once and in the order in which they were sent, and the handler   *)
(* notices the end: after the last packet when the client closes, at any   *)
(* point when the connection is reset.                                     *)
(***************************************************************************)
EXTENDS Naturals, Sequences

VARIABLES
  sent, got,  \* the packets sent and received
  line,       \* "open", "closed" by the client, or "reset"
  over        \* the handler has noticed the end

vars == <<sent, got, line, over>>

Init == sent = <<>> /\ got = <<>> /\ line = "open" /\ over = FALSE

Send(m) == line = "open" /\ sent' = Append(sent, m) /\ UNCHANGED <<got, line, over>>

HangUp == line = "open" /\ line' \in {"closed", "reset"} /\ UNCHANGED <<sent, got, over>>

Deliver ==
  /\ ~over /\ Len(got) < Len(sent)
  /\ got' = Append(got, sent[Len(got) + 1])
  /\ UNCHANGED <<sent, line, over>>

NoticeEnd ==
  /\ line # "open" /\ (line = "closed" => got = sent)
  /\ over' = TRUE
  /\ UNCHANGED <<sent, got, line>>
=============================================================================
