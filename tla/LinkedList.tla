----------------------------- MODULE LinkedList -----------------------------
(***************************************************************************)
(* The linked list of include/list.c as a caller of its own uses it, one   *)
(* operation after the other (Server has the interleavings).               *)
(*                                                                         *)
(* The list works for a caller that never deletes the last of several      *)
(* elements, nor at an index behind them, looks only for elements that are *)
(* there, uses the iterator after a reset and before the next deletion,    *)
(* and does not call list_delete_all.  The operations outside that range   *)
(* are here too, with what they do: the variable sound says that no one    *)
(* has been called yet.                                                    *)
(***************************************************************************)
EXTENDS ListOps

CONSTANTS
  Values,    \* the contents of an element
  MaxNodes,  \* how many nodes are ever allocated (bound)
  SizeMod    \* size is a usize: arithmetic on it is modulo SizeMod

ASSUME LinkedListAssumption ==
  /\ Values \cap Int = {} /\ Values # {}
  /\ MaxNodes \in Nat \ {0} /\ SizeMod \in Nat /\ SizeMod > 2 * MaxNodes

Nodes == 1..MaxNodes
Null == 0        \* the NULL node

VARIABLES
  chain, elem, size, it,  \* the list: path, elements, size, iterator
  used,                   \* how many nodes have been allocated
  cursor,                 \* the caller: the position of its iterator, or 0
  ret,                    \* what the last operation returned
  sound,                  \* the caller has kept to the range above
  phase,                  \* "use"; in or after list_delete_all
  fault                   \* freed or never-set memory has been accessed

listVars == <<chain, elem, size, used>>
vars == <<listVars, it, cursor, ret, sound, phase, fault>>

TypeOK ==
  /\ chain \in Seq(Nodes) /\ elem \in [Nodes -> Values \cup {Unset}]
  /\ size \in 0..(SizeMod - 1) /\ it \in Nodes \cup {Null}
  /\ used \in Nodes /\ cursor \in 0..MaxNodes
  /\ ret \in Values \cup Int
  /\ sound \in BOOLEAN /\ phase \in {"use", "clearing", "destroyed"}
  /\ fault \in BOOLEAN

(* list_make                                                               *)
Init ==
  /\ chain = <<1>> /\ elem = [n \in Nodes |-> Unset] /\ size = 0 /\ it = 1
  /\ used = 1 /\ cursor = 1 /\ ret = 0
  /\ sound = TRUE /\ phase = "use" /\ fault = FALSE

-----------------------------------------------------------------------------
(* A node off the path was freed when it held an element; else it is a     *)
(* sentinel that was cut off, and its next pointer reads as NULL.          *)
OnList(n) == n \in Range(chain)
NodeFreed(n) == ~OnList(n) /\ elem[n] # Unset
IsSet(p) == elem[chain[p]] # Unset
InUse == phase = "use" /\ ~fault
Caller(keeps) == sound' = (sound /\ keeps)

NextNode(n) ==
  IF ~OnList(n) \/ n = Last(chain) THEN Null
  ELSE chain[1 + CHOOSE p \in DOMAIN chain : chain[p] = n]

(* Mutant of Add: the sentinel is not linked.                              *)
AddUnlinked(v) ==
  /\ InUse /\ used < MaxNodes /\ chain # <<>>
  /\ elem' = [elem EXCEPT ![Last(chain)] = v]
  /\ used' = used + 1 /\ size' = size + 1
  /\ UNCHANGED <<chain, it, cursor, ret, sound, phase, fault>>

(* list_append; list_append_none leaves in the element what malloc found.  *)
Add(v) ==
  /\ InUse /\ used < MaxNodes /\ chain # <<>>
  /\ elem' = [elem EXCEPT ![Last(chain)] = v]
  /\ chain' = LinkBehind(chain, Last(chain), used + 1)
  /\ used' = used + 1 /\ size' = size + 1
  /\ UNCHANGED <<it, cursor, ret, sound, phase, fault>>

(* The caller writes through the pointer of list_access.                   *)
Write(p, v) ==
  /\ InUse /\ p \in 1..size /\ p <= Len(chain) /\ IsSet(p)
  /\ elem' = [elem EXCEPT ![chain[p]] = v]
  /\ UNCHANGED <<chain, size, used, it, cursor, ret, sound, phase, fault>>

(* list_access                                                             *)
Read(p) ==
  /\ InUse /\ p \in 1..size /\ p <= Len(chain)
  /\ ret' = elem[chain[p]]
  /\ UNCHANGED <<listVars, it, cursor, sound, phase, fault>>

ReadNothing ==
  /\ InUse
  /\ ret' = 0
  /\ UNCHANGED <<listVars, it, cursor, sound, phase, fault>>

(* list_search                                                             *)
Search(v) ==
  /\ InUse
  /\ \E p \in DOMAIN chain :
       /\ elem[chain[p]] = v
       /\ \A q \in 1..(p - 1) : IsSet(q) /\ elem[chain[q]] # v
       /\ ret' = p - 1
  /\ UNCHANGED <<listVars, it, cursor, sound, phase, fault>>

(* The element is not there: the search compares the sentinel's too, whose *)
(* pointer is not set.                                                     *)
SearchMissing(v) ==
  /\ InUse /\ chain # <<>>
  /\ \A p \in DOMAIN chain : elem[chain[p]] # v
  /\ IF IsSet(Len(chain)) THEN ret' = -1 /\ UNCHANGED fault
     ELSE ret' \in {-1, Len(chain) - 1} /\ fault' \in BOOLEAN
  /\ Caller(FALSE)
  /\ UNCHANGED <<listVars, it, cursor, phase>>

(* Mutant of Delete: size is decremented twice.                            *)
DeleteTwice(p) ==
  /\ InUse /\ p \in 1..size /\ p <= Len(chain) /\ (p # 1 => IsSet(p))
  /\ chain' = DeleteAt(chain, size, p)
  /\ size' = size - 2
  /\ cursor' = 0
  /\ Caller(p = 1 \/ p < size)
  /\ UNCHANGED <<elem, used, it, ret, phase, fault>>

(* list_delete                                                             *)
Delete(p) ==
  /\ InUse /\ p \in 1..size /\ p <= Len(chain) /\ (p # 1 => IsSet(p))
  /\ chain' = DeleteAt(chain, size, p)
  /\ size' = size - 1
  /\ cursor' = 0
  /\ Caller(p = 1 \/ p < size)
  /\ UNCHANGED <<elem, used, it, ret, phase, fault>>

(* An index behind the last element: that of the sentinel, which is freed  *)
(* with whatever its pointer is, or one behind a NULL node.                *)
DeleteOutside ==
  /\ InUse /\ size # 0
  /\ \/ /\ size < Len(chain)
        /\ chain' = DeleteAt(chain, size, size + 1) /\ size' = size - 1
        /\ IF IsSet(size + 1) THEN UNCHANGED fault ELSE fault' \in BOOLEAN
     \/ fault' = TRUE /\ UNCHANGED <<chain, size>>
  /\ cursor' = 0 /\ Caller(FALSE)
  /\ UNCHANGED <<elem, used, it, ret, phase>>

DeleteFromEmpty == InUse /\ size = 0 /\ UNCHANGED vars

(* list_it_reset, list_it_increment, list_it_access                        *)
Reset ==
  /\ InUse
  /\ it' = IF chain = <<>> THEN Null ELSE Head(chain)
  /\ cursor' = 1
  /\ UNCHANGED <<listVars, ret, sound, phase, fault>>

Advance ==
  /\ InUse /\ it # Null /\ ~NodeFreed(it)
  /\ it' = NextNode(it)
  /\ cursor' = IF cursor \in 1..size /\ cursor < MaxNodes THEN cursor + 1 ELSE 0
  /\ Caller(cursor \in 1..size)
  /\ UNCHANGED <<listVars, ret, phase, fault>>

ReadIterator ==
  /\ InUse /\ OnList(it) /\ elem[it] # Unset
  /\ ret' = elem[it]
  /\ Caller(cursor \in 1..size)
  /\ UNCHANGED <<listVars, it, cursor, phase, fault>>

-----------------------------------------------------------------------------
(* list_delete_all                                                         *)

Clear ==
  /\ InUse /\ phase' = "clearing"
  /\ Caller(FALSE)
  /\ UNCHANGED <<listVars, it, cursor, ret, fault>>

(* list_delete(list, 0), which does nothing when size is 0, and size--.    *)
ClearStep ==
  /\ phase = "clearing" /\ ~fault /\ size # 1
  /\ \/ size = 0 /\ UNCHANGED chain /\ size' = SizeMod - 1
     \/ size # 0 /\ chain # <<>> /\ chain' = Tail(chain) /\ size' = size - 2
  /\ UNCHANGED <<elem, used, it, cursor, ret, sound, phase, fault>>

ClearHead ==
  /\ phase = "clearing" /\ ~fault /\ size = 1 /\ chain # <<>> /\ IsSet(1)
  /\ chain' = Tail(chain)
  /\ phase' = "destroyed"
  /\ UNCHANGED <<elem, size, used, it, cursor, ret, sound, fault>>

-----------------------------------------------------------------------------
(* The operations that meet freed or never-set memory, or a NULL node.     *)
Strays ==
  /\ ~fault /\ fault' = TRUE
  /\ \/ /\ InUse /\ Caller(TRUE)
        /\ \/ chain = <<>>
           \/ size > Len(chain)
     \/ /\ InUse
        /\ \E p \in 1..size :
             /\ p <= Len(chain) /\ p # 1 /\ ~IsSet(p)
             /\ Caller(p < size)
     \/ /\ InUse /\ (it # Null => NodeFreed(it) \/ elem[it] = Unset)
        /\ Caller(cursor \in 1..size)
     \/ /\ phase = "clearing" /\ Caller(FALSE)
        /\ \/ size # 0 /\ chain = <<>>
           \/ size = 1 /\ chain # <<>> /\ ~IsSet(1)
  /\ UNCHANGED <<listVars, it, cursor, ret, phase>>

Next ==
  \/ \E v \in Values : Add(v) \/ Search(v) \/ SearchMissing(v)
  \/ \E p \in 1..Len(chain) :
       \/ Read(p) \/ Delete(p)
       \/ \E v \in Values : Write(p, v)
  \/ ReadNothing \/ DeleteOutside \/ DeleteFromEmpty \/ Reset \/ Advance \/ ReadIterator
  \/ Clear \/ ClearStep \/ ClearHead \/ Strays

Spec == Init /\ [][Next]_vars

-----------------------------------------------------------------------------
(* Properties                                                              *)

(* A caller that keeps to the range never makes list.c touch freed or      *)
(* never-set memory, through the iterator either.                          *)
NoFault == sound => ~fault

(* For that caller the list is a sequence: every operation does to it, and *)
(* returns, what the operation of Elements of that name and with those     *)
(* arguments does and returns, and nothing else changes it.                *)
Items == IF sound THEN [p \in 1..size |-> elem[chain[p]]] ELSE <<>>
E == INSTANCE Elements WITH items <- Items
OperationsAgree ==
  /\ \A v \in Values : (Add(v) => E!Add(v)) /\ (Search(v) => E!Search(v))
  /\ \A p \in 1..size :
       /\ (Read(p) => E!Read(p)) /\ (Delete(p) => E!Delete(p))
       /\ \A v \in Values : Write(p, v) => E!Write(p, v)
  /\ (ReadNothing => E!ReadNothing) /\ (DeleteFromEmpty => UNCHANGED E!vars)
  /\ (Reset => E!Reset) /\ (Advance => E!Advance) /\ (ReadIterator => E!Read(cursor))
ImplementsElements == E!Init /\ [][sound' => [E!Next]_E!vars /\ OperationsAgree]_vars

=============================================================================
