------------------------------ MODULE ListOps ------------------------------
(***************************************************************************)
(* The node chain of the linked list in include/list.c.                    *)
(*                                                                         *)
(* The next pointers are kept as the path they spell: chain is the         *)
(* sequence of the nodes reachable from list->head, so that following      *)
(* next k times from the head reaches chain[k+1], and an empty chain is a  *)
(* NULL head.  A list of n elements made by list_make and the appends has  *)
(* n+1 nodes: the elem pointer of the last one, the sentinel, is not yet   *)
(* set, and the next append fills it and links a new sentinel behind it.   *)
(* Positions are those of TLA+ (1 is the head); the C index is one less.   *)
(***************************************************************************)
EXTENDS Integers, SequencesExt

(* The elem pointer of a sentinel, which nothing has set.                  *)
Unset == 0

(* tail->next = malloc(NODE_SIZE), where tail was found by an earlier      *)
(* traverse_till_tail.  A tail cut off the list meanwhile takes the new    *)
(* node with it: the path from the head does not change.                   *)
LinkBehind(chain, tail, node) ==
  IF chain # <<>> /\ Last(chain) = tail THEN Append(chain, node) ELSE chain

(* Mutants of DeleteAt: the test for the head, or that for the tail, is    *)
(* off by one.                                                             *)
DeleteAtHeadLate(chain, sz, p) ==
  IF p <= 2 THEN Tail(chain)
  ELSE IF p = sz THEN SubSeq(chain, 1, p - 1)
  ELSE RemoveAt(chain, p)

DeleteAtTailEarly(chain, sz, p) ==
  IF p = 1 THEN Tail(chain)
  ELSE IF p = sz - 1 THEN SubSeq(chain, 1, p - 1)
  ELSE RemoveAt(chain, p)

(* The path after list_delete at position p of a list whose size field is  *)
(* sz.  The test for the head comes first.  The last element is unlinked   *)
(* by clearing the next pointer before it, which drops the sentinel too.   *)
DeleteAt(chain, sz, p) ==
  IF p = 1 THEN Tail(chain)
  ELSE IF p = sz THEN SubSeq(chain, 1, p - 1)
  ELSE RemoveAt(chain, p)

(* handle_delete_head frees the node and not its element; the two other    *)
(* branches of list_delete free both.                                      *)
FreesElement(p) == p # 1
=============================================================================
