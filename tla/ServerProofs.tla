---------------------------- MODULE ServerProofs ----------------------------
(***************************************************************************)
(* What holds of the server for any number of clients, however the threads *)
(* interleave, clients come and go and calls fail; and, in the second half, *)
(* what holds in a calm environment, where no call fails and no client     *)
(* comes while another one comes or leaves.                                *)
(***************************************************************************)
EXTENDS Server, FiniteSetTheorems, SequenceTheorems, TLAPS

USE DEF Unset, Null, NoSocket, ListTypeOK, HeapTypeOK, MainTypeOK, ThreadTypeOK

(* Where main is tells how far appends can be: the bound MaxConn is checked *)
(* by Accept and AcceptFails, and no create_new_client begins before.  Only *)
(* the threads of earlier calls exist before accept returns.               *)
AppendInv ==
  /\ mpc \notin {"listen", "traverse", "link"} => appends >= 1
  /\ mpc \in {"spin", "report", "listen", "traverse", "link"} => appends <= MaxConn
  /\ \A k \in Conns : tpc[k] # "none" =>
       k <= appends /\ (mpc \in {"store", "locate", "accept"} => k < appends)

(* A starting thread is the last one created, main waits for it, and the   *)
(* flag it waits for is not yet set.                                       *)
StartInv ==
  \A k \in Conns : tpc[k] = "start" =>
    /\ mpc = "spin" /\ k = appends
    /\ arg = mcli /\ arg \in Records
    /\ rec[arg].thread = k /\ ~rec[arg].created

(* The thread inside list_delete has found an element that main's unlocked *)
(* append cannot take away; the size main is about to store exceeds the    *)
(* one in the list; and neither half-done update makes size negative.      *)
DeleteInv ==
  /\ mpc = "store" => size <= mreg
  /\ \A k \in Conns : tpc[k] = "unlink" =>
       tpos[k] \in 1..Len(chain) /\ tpos[k] <= size /\ elem[chain[tpos[k]]] # Unset
  /\ \A k \in Conns : tpc[k] = "store" =>
       /\ treg[k] >= 1 /\ treg[k] <= size + 1
       /\ mpc = "store" => treg[k] <= mreg + 1

IInv == TypeOK /\ AppendInv /\ StartInv /\ DeleteExclusive /\ DeleteInv

-----------------------------------------------------------------------------
(* What the helpers return                                                 *)

(* Linking the new node keeps every position of the path and adds at most  *)
(* one.                                                                    *)
LEMMA LinkBehindType ==
  ASSUME NEW S, NEW c \in Seq(S), NEW t, NEW n \in S
  PROVE  /\ LinkBehind(c, t, n) \in Seq(S)
         /\ Len(c) <= Len(LinkBehind(c, t, n))
         /\ \A p \in 1..Len(c) : LinkBehind(c, t, n)[p] = c[p]
  BY DEF LinkBehind

(* Deleting at a position of the path leaves a path.                       *)
LEMMA DeleteAtType ==
  ASSUME NEW S, NEW c \in Seq(S), NEW z, NEW p \in 1..Len(c)
  PROVE  DeleteAt(c, z, p) \in Seq(S)
  <1>1. Tail(c) \in Seq(S)
    OBVIOUS
  <1>2. SubSeq(c, 1, p - 1) \in Seq(S)
    BY SubSeqProperties
  <1>3. RemoveAt(c, p) \in Seq(S)
    BY SubSeqProperties DEF RemoveAt
  <1> QED BY <1>1, <1>2, <1>3 DEF DeleteAt

(* Every position of the path holds a node.                                *)
LEMMA PathNodes ==
  ASSUME chain \in Seq(Nodes)
  PROVE  \A i \in 1..Len(chain) : chain[i] \in Nodes
  BY ElementOfSeq

(* A node on the list is at some position of the path.                     *)
LEMMA OnListNode ==
  ASSUME chain \in Seq(Nodes), NEW n, OnList(n)
  PROVE  n \in Nodes
  BY PathNodes DEF OnList, Range

(* Overwriting one record.                                                 *)
LEMMA RecordUpdate ==
  ASSUME rec \in [Records -> Client], NEW r \in Records, NEW c \in Client
  PROVE  [rec EXCEPT ![r] = c] \in [Records -> Client]
  OBVIOUS

(* A client record and its fields.                                         *)
LEMMA ClientFields ==
  ASSUME NEW c \in Client
  PROVE  /\ [c EXCEPT !.connected = FALSE] \in Client
         /\ [c EXCEPT !.created = TRUE] \in Client
         /\ c.sock \in Conns \cup {NoSocket}
  BY DEF Client

(* The successor of a node of the path is a node or NULL.                  *)
LEMMA NextNodeType ==
  ASSUME chain \in Seq(Nodes), NEW n, OnList(n)
  PROVE  NextNode(n) \in Nodes \cup {Null}
  <1>1. \E p \in DOMAIN chain : chain[p] = n
    BY DEF OnList, Range
  <1> DEFINE p == CHOOSE p \in DOMAIN chain : chain[p] = n
  <1>2. p \in 1..Len(chain) /\ chain[p] = n
    BY <1>1
  <1>3. n # Last(chain) => p # Len(chain)
    BY <1>2 DEF Last
  <1>4. n # Last(chain) => 1 + p \in 1..Len(chain)
    BY <1>2, <1>3
  <1>5. \A i \in 1..Len(chain) : chain[i] \in Nodes
    BY PathNodes
  <1> HIDE DEF p
  <1>6. n # Last(chain) => chain[1 + p] \in Nodes
    BY <1>4, <1>5
  <1> QED BY <1>6 DEF NextNode, p

(* deinit counts closes in natural numbers and leaves `it` on a node or at *)
(* the end.                                                                *)
LEMMA DeinitType ==
  ASSUME TypeOK, NEW rc, Deinit(rc)
  PROVE  closed' \in [Conns -> Nat] /\ it' \in Nodes \cup {Null} /\ listening' \in BOOLEAN
  <1> DEFINE n(s) == Cardinality({p \in 1..size : rc[elem[chain[p]]].sock = s})
  <1>1. ASSUME NEW s \in Conns PROVE n(s) \in Nat
    <2>1. IsFiniteSet(1..size)
      BY FS_Interval DEF TypeOK
    <2>2. IsFiniteSet({p \in 1..size : rc[elem[chain[p]]].sock = s})
      BY <2>1, FS_Subset
    <2> QED BY <2>2, FS_CardinalityType
  <1>2. closed' = [s \in Conns |-> closed[s] + n(s)]
    BY DEF Deinit
  <1> HIDE DEF n
  <1>3. closed' \in [Conns -> Nat]
    BY <1>1, <1>2 DEF TypeOK
  <1>4. \A i \in 1..Len(chain) : chain[i] \in Nodes
    BY PathNodes DEF TypeOK
  <1>5. size < Len(chain) => chain[size + 1] \in Nodes
    BY <1>4 DEF TypeOK
  <1> QED BY <1>3, <1>5 DEF Deinit, TypeOK
-----------------------------------------------------------------------------
(* The five parts of the invariant are preserved by every step.            *)

USE DEF vars, listVars, heapVars, mainVars, servVars, threadVars, sockVars

(* Every variable keeps its type.  DeleteInv is what keeps size a natural   *)
(* number and what list_delete frees a record.                             *)
LEMMA TypeStep ==
  ASSUME TypeOK, AppendInv, DeleteInv, [Next]_vars
  PROVE  TypeOK'
  <1>1. ASSUME Listen PROVE TypeOK'
    BY <1>1 DEF Listen, TypeOK
  <1>2. ASSUME ListenFails PROVE TypeOK'
    <2>1. closed' \in [Conns -> Nat] /\ it' \in Nodes \cup {Null} /\ listening' \in BOOLEAN
      BY <1>2, DeinitType DEF ListenFails
    <2> QED BY <1>2, <2>1 DEF ListenFails, TypeOK
  <1>3. ASSUME AppendTraverse PROVE TypeOK'
    <2>1. Last(chain) \in Nodes
      BY <1>3, PathNodes, EmptySeq DEF AppendTraverse, TypeOK, Last
    <2> QED BY <1>3, <2>1 DEF AppendTraverse, TypeOK
  <1>4. ASSUME AppendLink PROVE TypeOK'
    <2>1. appends + 1 \in Records /\ appends + 2 \in Nodes
      BY <1>4, ServerAssumption DEF AppendLink, TypeOK, AppendInv, Records, Nodes
    <2>2. chain' \in Seq(Nodes)
      BY <1>4, <2>1, LinkBehindType DEF AppendLink, TypeOK
    <2>3. elem' \in [Nodes -> Records \cup {Unset}]
      BY <1>4, <2>1 DEF AppendLink, TypeOK
    <2>4. appends + 1 \in 0..(MaxConn + 1)
      BY <2>1 DEF Records
    <2> QED BY <1>4, <2>2, <2>3, <2>4 DEF AppendLink, TypeOK
  <1>5. ASSUME AppendStore PROVE TypeOK'
    BY <1>5 DEF AppendStore, TypeOK
  <1>6. ASSUME LocateTail PROVE TypeOK'
    <2>1. size # 0 => chain[size] \in Nodes
      BY <1>6, PathNodes DEF LocateTail, TypeOK
    <2> QED BY <1>6, <2>1 DEF LocateTail, TypeOK
  <1>7. ASSUME Accept PROVE TypeOK'
    <2>1. appends \in Conns /\ mcli \in Records
      BY <1>7, ServerAssumption DEF Accept, Valid, TypeOK, AppendInv, Conns
    <2>2. rec' \in [Records -> Client]
      <3>1. [sock |-> appends, id |-> size, connected |-> TRUE,
             created |-> FALSE, thread |-> appends] \in Client
        BY <2>1 DEF TypeOK, Client
      <3> QED BY <1>7, <2>1, <3>1, RecordUpdate DEF Accept, StartHandler, TypeOK
    <2> QED BY <1>7, <2>1, <2>2 DEF Accept, StartHandler, TypeOK
  <1>8. ASSUME AcceptFails PROVE TypeOK'
    <2>1. appends \in Conns /\ mcli \in Records
      BY <1>8, ServerAssumption DEF AcceptFails, Valid, TypeOK, AppendInv, Conns
    <2>2. rec' \in [Records -> Client]
      <3>1. [sock |-> NoSocket, id |-> size, connected |-> TRUE,
             created |-> FALSE, thread |-> appends] \in Client
        BY <2>1 DEF TypeOK, Client
      <3> QED BY <1>8, <2>1, <3>1, RecordUpdate DEF AcceptFails, StartHandler, TypeOK
    <2>3. closed' \in [Conns -> Nat] /\ it' \in Nodes \cup {Null} /\ listening' \in BOOLEAN
      BY <1>8, DeinitType DEF AcceptFails
    <2> QED BY <1>8, <2>1, <2>2, <2>3 DEF AcceptFails, StartHandler, TypeOK
  <1>24. ASSUME Spin PROVE TypeOK'
    BY <1>24 DEF Spin, TypeOK
  <1>9. ASSUME Report PROVE TypeOK'
    <2>1. chain # <<>> => Head(chain) \in Nodes
      BY PathNodes, EmptySeq DEF TypeOK
    <2>2. ListTypeOK' /\ MainTypeOK'
      BY <1>9, <2>1 DEF Report, TypeOK
    <2> QED BY <1>9, <2>2 DEF Report, TypeOK
  <1>10. ASSUME PickThread PROVE TypeOK'
    <2>1. it \in Nodes
      BY <1>10, OnListNode DEF PickThread, TypeOK
    <2>2. MainTypeOK'
      BY <1>10, <2>1 DEF PickThread, TypeOK
    <2> QED BY <1>10, <2>2 DEF PickThread, TypeOK
  <1>11. ASSUME JoinThread PROVE TypeOK'
    <2>1. it' \in Nodes \cup {Null}
      BY <1>11, NextNodeType DEF JoinThread, TypeOK
    <2> QED BY <1>11, <2>1 DEF JoinThread, TypeOK
  <1>12. ASSUME Exit PROVE TypeOK'
    <2>1. closed' \in [Conns -> Nat] /\ it' \in Nodes \cup {Null} /\ listening' \in BOOLEAN
      BY <1>12, DeinitType DEF Exit
    <2> QED BY <1>12, <2>1 DEF Exit, TypeOK
  <1>13. ASSUME NEW why \in {"memory", "assert"}, Die(why) PROVE TypeOK'
    BY <1>13 DEF Die, TypeOK
  <1>14. ASSUME NEW k \in Conns, HandlerStart(k) PROVE TypeOK'
    <2>1. arg \in Records
      BY <1>14 DEF HandlerStart, Valid, TypeOK
    <2>2. rec' \in [Records -> Client]
      <3>1. [rec[arg] EXCEPT !.created = TRUE] \in Client
        BY <2>1, ClientFields DEF TypeOK
      <3>2. rec' = [rec EXCEPT ![arg] = [rec[arg] EXCEPT !.created = TRUE]]
        BY <1>14 DEF HandlerStart
      <3> QED BY <2>1, <3>1, <3>2, RecordUpdate DEF TypeOK
    <2> QED BY SMTT(30), <1>14, <2>1, <2>2 DEF HandlerStart, TypeOK
  <1>15. ASSUME NEW k \in Conns, HandlerLoop(k) PROVE TypeOK'
    <2>1. tcli[k] \in Records
      BY <1>15 DEF HandlerLoop, Valid, TypeOK
    <2>2. rec[tcli[k]].sock \in Conns \cup {NoSocket}
      BY <2>1, ClientFields DEF TypeOK
    <2>3. tsock' \in [Conns -> Conns \cup {NoSocket}]
      BY <1>15, <2>2 DEF HandlerLoop, TypeOK
    <2>4. tpc' \in [Conns -> {"none", "start", "loop", "recv", "close", "lock",
                               "unlink", "store", "done"}]
      BY <1>15 DEF HandlerLoop, TypeOK
    <2>5. UNCHANGED <<listVars, heapVars, lock, servVars, mainVars, tcli, tpos, treg,
                      sockVars, fault>>
      BY <1>15 DEF HandlerLoop
    <2> QED BY SMTT(30), <2>3, <2>4, <2>5 DEF TypeOK
  <1>16. ASSUME NEW k \in Conns, RecvPacket(k) PROVE TypeOK'
    BY SMTT(30), <1>16 DEF RecvPacket, TypeOK
  <1>17. ASSUME NEW k \in Conns, RecvFails(k) PROVE TypeOK'
    <2>1. tcli[k] \in Records
      BY <1>17 DEF RecvFails, Valid, TypeOK
    <2>2. rec' \in [Records -> Client]
      <3>1. [rec[tcli[k]] EXCEPT !.connected = FALSE] \in Client
        BY <2>1, ClientFields DEF TypeOK
      <3>2. rec' = [rec EXCEPT ![tcli[k]] = [rec[tcli[k]] EXCEPT !.connected = FALSE]]
        BY <1>17 DEF RecvFails
      <3> QED BY <2>1, <3>1, <3>2, RecordUpdate DEF TypeOK
    <2> QED BY SMTT(30), <1>17, <2>2 DEF RecvFails, TypeOK
  <1>18. ASSUME NEW k \in Conns, DisconnectCli(k) PROVE TypeOK'
    <2>1. tcli[k] \in Records
      BY <1>18 DEF DisconnectCli, Valid, TypeOK
    <2>2. rec' \in [Records -> Client]
      <3>1. [rec[tcli[k]] EXCEPT !.connected = FALSE] \in Client
        BY <2>1, ClientFields DEF TypeOK
      <3>2. rec' = [rec EXCEPT ![tcli[k]] = [rec[tcli[k]] EXCEPT !.connected = FALSE]]
        BY <1>18 DEF DisconnectCli
      <3> QED BY <2>1, <3>1, <3>2, RecordUpdate DEF TypeOK
    <2>3. closed' \in [Conns -> Nat]
      BY SMTT(30), <1>18 DEF DisconnectCli, TypeOK
    <2> QED BY <1>18, <2>2, <2>3 DEF DisconnectCli, TypeOK
  <1>19. ASSUME NEW k \in Conns, DeleteFind(k) PROVE TypeOK'
    <2>1. PICK p \in 1..size : FoundAt(k, p) /\ it' = chain[p]
                              /\ tpos' = [tpos EXCEPT ![k] = p]
      BY <1>19 DEF DeleteFind
    <2>2. p \in 1..Len(chain)
      BY <2>1 DEF FoundAt, Walkable, TypeOK
    <2>3. it' \in Nodes
      BY <2>1, <2>2, PathNodes DEF TypeOK
    <2> QED BY SMTT(30), <1>19, <2>1, <2>3 DEF DeleteFind, TypeOK
  <1>20. ASSUME NEW k \in Conns, DeleteUnlink(k) PROVE TypeOK'
    <2>1. tpos[k] \in 1..Len(chain) /\ elem[chain[tpos[k]]] # Unset
      BY <1>20 DEF DeleteUnlink, DeleteInv
    <2>2. chain' \in Seq(Nodes)
      BY <1>20, <2>1, DeleteAtType DEF DeleteUnlink, TypeOK
    <2>3. elem[chain[tpos[k]]] \in Records
      BY <2>1, PathNodes DEF TypeOK
    <2>4. freed' \subseteq Records
      BY <1>20, <2>3 DEF DeleteUnlink, TypeOK
    <2>5. treg' \in [Conns -> Nat]
      BY <1>20 DEF DeleteUnlink, TypeOK
    <2>6. UNCHANGED <<elem, size, it, rec, lock, servVars, mainVars, tcli, tsock, tpos,
                      sockVars, fault>>
      BY <1>20 DEF DeleteUnlink
    <2>7. ListTypeOK' /\ HeapTypeOK' /\ MainTypeOK'
      BY <2>2, <2>4, <2>6 DEF TypeOK
    <2>8. ThreadTypeOK'
      BY <1>20, <2>5 DEF DeleteUnlink, TypeOK
    <2> QED BY <2>6, <2>7, <2>8 DEF TypeOK
  <1>21. ASSUME NEW k \in Conns, DeleteStore(k) PROVE TypeOK'
    <2>1. treg[k] - 1 \in Nat
      <3>1. treg[k] \in Nat
        BY DEF TypeOK
      <3>2. treg[k] >= 1
        BY <1>21 DEF DeleteStore, DeleteInv
      <3> QED BY <3>1, <3>2
    <2>2. /\ UNCHANGED <<chain, elem, it, heapVars, servVars, mainVars, tcli, tsock,
                         tpos, treg, sockVars, fault>>
          /\ size' = treg[k] - 1 /\ lock' = 0
      BY <1>21 DEF DeleteStore
    <2>3. ListTypeOK' /\ HeapTypeOK' /\ MainTypeOK'
      BY <2>1, <2>2 DEF TypeOK
    <2>4. ThreadTypeOK'
      BY <1>21 DEF DeleteStore, TypeOK
    <2> QED BY <2>2, <2>3, <2>4 DEF TypeOK
  <1>22. ASSUME NEW k \in Conns, HangUp(k) PROVE TypeOK'
    BY <1>22 DEF HangUp, TypeOK
  <1>23. ASSUME UNCHANGED vars PROVE TypeOK'
    BY <1>23 DEF TypeOK
  <1> QED
    BY <1>1, <1>2, <1>3, <1>4, <1>5, <1>6, <1>7, <1>8, <1>9, <1>10, <1>11, <1>12, <1>13, <1>14, <1>15, <1>16, <1>17, <1>18, <1>19, <1>20, <1>21, <1>22, <1>23, <1>24
       DEF Next, MainStep, HandlerStep, Halted

(* A call of create_new_client begins within the bound.                    *)
LEMMA AppendStep ==
  ASSUME TypeOK, AppendInv, [Next]_vars
  PROVE  AppendInv'
  <1>1. ASSUME Listen PROVE AppendInv'
    BY <1>1 DEF Listen, TypeOK, AppendInv
  <1>2. ASSUME ListenFails PROVE AppendInv'
    BY <1>2 DEF ListenFails, TypeOK, AppendInv
  <1>3. ASSUME AppendTraverse PROVE AppendInv'
    BY <1>3 DEF AppendTraverse, TypeOK, AppendInv
  <1>4. ASSUME AppendLink PROVE AppendInv'
    BY <1>4 DEF AppendLink, TypeOK, AppendInv, Conns
  <1>5. ASSUME AppendStore PROVE AppendInv'
    BY <1>5 DEF AppendStore, TypeOK, AppendInv
  <1>6. ASSUME LocateTail PROVE AppendInv'
    BY <1>6 DEF LocateTail, TypeOK, AppendInv
  <1>7. ASSUME Accept PROVE AppendInv'
    <2>1. tpc' = [tpc EXCEPT ![appends] = "start"]
          /\ mpc' = "spin" /\ mpc = "accept" /\ appends' = appends /\ appends <= MaxConn
      BY <1>7 DEF Accept, StartHandler
    <2> QED BY <2>1 DEF TypeOK, AppendInv, Conns
  <1>8. ASSUME AcceptFails PROVE AppendInv'
    <2>1. tpc' = [tpc EXCEPT ![appends] = "start"]
          /\ mpc' = "spin" /\ mpc = "accept" /\ appends' = appends /\ appends <= MaxConn
      BY <1>8 DEF AcceptFails, StartHandler
    <2> QED BY <2>1 DEF TypeOK, AppendInv, Conns
  <1>24. ASSUME Spin PROVE AppendInv'
    BY <1>24 DEF Spin, TypeOK, AppendInv
  <1>9. ASSUME Report PROVE AppendInv'
    BY <1>9 DEF Report, TypeOK, AppendInv
  <1>10. ASSUME PickThread PROVE AppendInv'
    BY <1>10 DEF PickThread, TypeOK, AppendInv
  <1>11. ASSUME JoinThread PROVE AppendInv'
    BY <1>11 DEF JoinThread, TypeOK, AppendInv
  <1>12. ASSUME Exit PROVE AppendInv'
    BY <1>12 DEF Exit, TypeOK, AppendInv
  <1>13. ASSUME NEW why \in {"memory", "assert"}, Die(why) PROVE AppendInv'
    BY <1>13 DEF Die, TypeOK, AppendInv
  <1>14. ASSUME NEW k \in Conns, HandlerStart(k) PROVE AppendInv'
    BY <1>14 DEF HandlerStart, TypeOK, AppendInv
  <1>15. ASSUME NEW k \in Conns, HandlerLoop(k) PROVE AppendInv'
    BY <1>15 DEF HandlerLoop, TypeOK, AppendInv
  <1>16. ASSUME NEW k \in Conns, RecvPacket(k) PROVE AppendInv'
    BY <1>16 DEF RecvPacket, TypeOK, AppendInv
  <1>17. ASSUME NEW k \in Conns, RecvFails(k) PROVE AppendInv'
    BY <1>17 DEF RecvFails, TypeOK, AppendInv
  <1>18. ASSUME NEW k \in Conns, DisconnectCli(k) PROVE AppendInv'
    BY <1>18 DEF DisconnectCli, TypeOK, AppendInv
  <1>19. ASSUME NEW k \in Conns, DeleteFind(k) PROVE AppendInv'
    BY <1>19 DEF DeleteFind, TypeOK, AppendInv
  <1>20. ASSUME NEW k \in Conns, DeleteUnlink(k) PROVE AppendInv'
    BY <1>20 DEF DeleteUnlink, TypeOK, AppendInv
  <1>21. ASSUME NEW k \in Conns, DeleteStore(k) PROVE AppendInv'
    BY <1>21 DEF DeleteStore, TypeOK, AppendInv
  <1>22. ASSUME NEW k \in Conns, HangUp(k) PROVE AppendInv'
    BY <1>22 DEF HangUp, TypeOK, AppendInv
  <1>23. ASSUME UNCHANGED vars PROVE AppendInv'
    BY <1>23 DEF TypeOK, AppendInv
  <1> QED
    BY <1>1, <1>2, <1>3, <1>4, <1>5, <1>6, <1>7, <1>8, <1>9, <1>10, <1>11, <1>12, <1>13, <1>14, <1>15, <1>16, <1>17, <1>18, <1>19, <1>20, <1>21, <1>22, <1>23, <1>24
       DEF Next, MainStep, HandlerStep, Halted

(* main stays in create_new_client, with the argument in place, until the  *)
(* thread has read it.                                                     *)
LEMMA StartStep ==
  ASSUME TypeOK, AppendInv, StartInv, [Next]_vars
  PROVE  StartInv'
  <1>1. ASSUME Listen PROVE StartInv'
    BY <1>1 DEF Listen, TypeOK, StartInv
  <1>2. ASSUME ListenFails PROVE StartInv'
    BY <1>2 DEF ListenFails, TypeOK, StartInv
  <1>3. ASSUME AppendTraverse PROVE StartInv'
    BY <1>3 DEF AppendTraverse, TypeOK, StartInv
  <1>4. ASSUME AppendLink PROVE StartInv'
    BY <1>4 DEF AppendLink, TypeOK, StartInv
  <1>5. ASSUME AppendStore PROVE StartInv'
    BY <1>5 DEF AppendStore, TypeOK, StartInv
  <1>6. ASSUME LocateTail PROVE StartInv'
    BY <1>6 DEF LocateTail, TypeOK, StartInv
  <1>7. ASSUME Accept PROVE StartInv'
    <2>1. appends \in Conns /\ mcli \in Records
      BY <1>7, ServerAssumption DEF Accept, Valid, TypeOK, AppendInv, Conns
    <2>2. \A k \in Conns : tpc[k] # "start"
      BY <1>7 DEF Accept, StartInv
    <2>3. /\ arg' = mcli /\ mpc' = "spin" /\ appends' = appends /\ mcli' = mcli
          /\ rec'[mcli].thread = appends /\ ~rec'[mcli].created
          /\ tpc' = [tpc EXCEPT ![appends] = "start"]
      BY <1>7, <2>1 DEF Accept, StartHandler, TypeOK
    <2> QED BY <2>1, <2>2, <2>3 DEF StartInv, TypeOK
  <1>8. ASSUME AcceptFails PROVE StartInv'
    <2>1. appends \in Conns /\ mcli \in Records
      BY <1>8, ServerAssumption DEF AcceptFails, Valid, TypeOK, AppendInv, Conns
    <2>2. \A k \in Conns : tpc[k] # "start"
      BY <1>8 DEF AcceptFails, StartInv
    <2>3. /\ arg' = mcli /\ mpc' = "spin" /\ appends' = appends /\ mcli' = mcli
          /\ rec'[mcli].thread = appends /\ ~rec'[mcli].created
          /\ tpc' = [tpc EXCEPT ![appends] = "start"]
      BY <1>8, <2>1 DEF AcceptFails, StartHandler, TypeOK
    <2> QED BY <2>1, <2>2, <2>3 DEF StartInv, TypeOK
  <1>24. ASSUME Spin PROVE StartInv'
    <2>1. \A j \in Conns : tpc[j] # "start"
      BY <1>24 DEF Spin, StartInv
    <2> QED BY <1>24, <2>1 DEF Spin, StartInv
  <1>9. ASSUME Report PROVE StartInv'
    <2>1. \A j \in Conns : tpc[j] # "start"
      BY <1>9 DEF Report, StartInv
    <2> QED BY <1>9, <2>1 DEF Report, StartInv
  <1>10. ASSUME PickThread PROVE StartInv'
    BY <1>10 DEF PickThread, TypeOK, StartInv
  <1>11. ASSUME JoinThread PROVE StartInv'
    BY <1>11 DEF JoinThread, TypeOK, StartInv
  <1>12. ASSUME Exit PROVE StartInv'
    BY <1>12 DEF Exit, TypeOK, StartInv
  <1>13. ASSUME NEW why \in {"memory", "assert"}, Die(why) PROVE StartInv'
    BY <1>13 DEF Die, TypeOK, StartInv
  <1>14. ASSUME NEW k \in Conns, HandlerStart(k) PROVE StartInv'
    <2>1. \A j \in Conns : tpc'[j] = "start" => tpc[j] = "start" /\ j # k
      BY <1>14 DEF HandlerStart, TypeOK
    <2>2. \A j \in Conns : tpc[j] = "start" => j = k
      BY <1>14 DEF HandlerStart, StartInv
    <2> QED BY <2>1, <2>2 DEF StartInv
  <1>15. ASSUME NEW k \in Conns, HandlerLoop(k) PROVE StartInv'
    BY <1>15 DEF HandlerLoop, TypeOK, StartInv
  <1>16. ASSUME NEW k \in Conns, RecvPacket(k) PROVE StartInv'
    BY <1>16 DEF RecvPacket, TypeOK, StartInv
  <1>17. ASSUME NEW k \in Conns, RecvFails(k) PROVE StartInv'
    <2>1. \A j \in Conns : tpc'[j] = "start" => tpc[j] = "start"
      BY <1>17 DEF RecvFails, TypeOK
    <2>2. tcli[k] \in Records
      BY <1>17 DEF RecvFails, Valid, TypeOK
    <2>3. \A r \in Records : /\ rec'[r].thread = rec[r].thread
                             /\ rec'[r].created = rec[r].created
      BY <1>17, <2>2 DEF RecvFails, TypeOK, Client
    <2>4. UNCHANGED mainVars
      BY <1>17 DEF RecvFails
    <2> QED BY <2>1, <2>3, <2>4 DEF StartInv
  <1>18. ASSUME NEW k \in Conns, DisconnectCli(k) PROVE StartInv'
    <2>1. \A j \in Conns : tpc'[j] = "start" => tpc[j] = "start"
      BY <1>18 DEF DisconnectCli, TypeOK
    <2>2. tcli[k] \in Records
      BY <1>18 DEF DisconnectCli, Valid, TypeOK
    <2>3. \A r \in Records : /\ rec'[r].thread = rec[r].thread
                             /\ rec'[r].created = rec[r].created
      BY <1>18, <2>2 DEF DisconnectCli, TypeOK, Client
    <2>4. UNCHANGED mainVars
      BY <1>18 DEF DisconnectCli
    <2> QED BY <2>1, <2>3, <2>4 DEF StartInv
  <1>19. ASSUME NEW k \in Conns, DeleteFind(k) PROVE StartInv'
    BY <1>19 DEF DeleteFind, TypeOK, StartInv
  <1>20. ASSUME NEW k \in Conns, DeleteUnlink(k) PROVE StartInv'
    BY <1>20 DEF DeleteUnlink, TypeOK, StartInv
  <1>21. ASSUME NEW k \in Conns, DeleteStore(k) PROVE StartInv'
    BY <1>21 DEF DeleteStore, TypeOK, StartInv
  <1>22. ASSUME NEW k \in Conns, HangUp(k) PROVE StartInv'
    BY <1>22 DEF HangUp, TypeOK, StartInv
  <1>23. ASSUME UNCHANGED vars PROVE StartInv'
    BY <1>23 DEF TypeOK, StartInv
  <1> QED
    BY <1>1, <1>2, <1>3, <1>4, <1>5, <1>6, <1>7, <1>8, <1>9, <1>10, <1>11, <1>12, <1>13, <1>14, <1>15, <1>16, <1>17, <1>18, <1>19, <1>20, <1>21, <1>22, <1>23, <1>24
       DEF Next, MainStep, HandlerStep, Halted

(* The lock is held exactly from the search to the store of size.          *)
LEMMA ExclusiveStep ==
  ASSUME TypeOK, AppendInv, DeleteExclusive, [Next]_vars
  PROVE  DeleteExclusive'
  <1>1. ASSUME Listen PROVE DeleteExclusive'
    BY <1>1 DEF Listen, TypeOK, DeleteExclusive
  <1>2. ASSUME ListenFails PROVE DeleteExclusive'
    BY <1>2 DEF ListenFails, TypeOK, DeleteExclusive
  <1>3. ASSUME AppendTraverse PROVE DeleteExclusive'
    BY <1>3 DEF AppendTraverse, TypeOK, DeleteExclusive
  <1>4. ASSUME AppendLink PROVE DeleteExclusive'
    BY <1>4 DEF AppendLink, TypeOK, DeleteExclusive
  <1>5. ASSUME AppendStore PROVE DeleteExclusive'
    BY <1>5 DEF AppendStore, TypeOK, DeleteExclusive
  <1>6. ASSUME LocateTail PROVE DeleteExclusive'
    BY <1>6 DEF LocateTail, TypeOK, DeleteExclusive
  <1>7. ASSUME Accept PROVE DeleteExclusive'
    <2>1. tpc' = [tpc EXCEPT ![appends] = "start"] /\ lock' = lock /\ mpc = "accept"
      BY <1>7 DEF Accept, StartHandler
    <2>2. appends \in Conns => tpc[appends] = "none"
      BY <2>1 DEF AppendInv, TypeOK, Conns
    <2> QED BY <2>1, <2>2 DEF TypeOK, DeleteExclusive
  <1>8. ASSUME AcceptFails PROVE DeleteExclusive'
    <2>1. tpc' = [tpc EXCEPT ![appends] = "start"] /\ lock' = lock /\ mpc = "accept"
      BY <1>8 DEF AcceptFails, StartHandler
    <2>2. appends \in Conns => tpc[appends] = "none"
      BY <2>1 DEF AppendInv, TypeOK, Conns
    <2> QED BY <2>1, <2>2 DEF TypeOK, DeleteExclusive
  <1>24. ASSUME Spin PROVE DeleteExclusive'
    BY <1>24 DEF Spin, TypeOK, DeleteExclusive
  <1>9. ASSUME Report PROVE DeleteExclusive'
    BY <1>9 DEF Report, TypeOK, DeleteExclusive
  <1>10. ASSUME PickThread PROVE DeleteExclusive'
    BY <1>10 DEF PickThread, TypeOK, DeleteExclusive
  <1>11. ASSUME JoinThread PROVE DeleteExclusive'
    BY <1>11 DEF JoinThread, TypeOK, DeleteExclusive
  <1>12. ASSUME Exit PROVE DeleteExclusive'
    BY <1>12 DEF Exit, TypeOK, DeleteExclusive
  <1>13. ASSUME NEW why \in {"memory", "assert"}, Die(why) PROVE DeleteExclusive'
    BY <1>13 DEF Die, TypeOK, DeleteExclusive
  <1>14. ASSUME NEW k \in Conns, HandlerStart(k) PROVE DeleteExclusive'
    BY <1>14 DEF HandlerStart, TypeOK, DeleteExclusive
  <1>15. ASSUME NEW k \in Conns, HandlerLoop(k) PROVE DeleteExclusive'
    BY <1>15 DEF HandlerLoop, TypeOK, DeleteExclusive
  <1>16. ASSUME NEW k \in Conns, RecvPacket(k) PROVE DeleteExclusive'
    BY <1>16 DEF RecvPacket, TypeOK, DeleteExclusive
  <1>17. ASSUME NEW k \in Conns, RecvFails(k) PROVE DeleteExclusive'
    BY <1>17 DEF RecvFails, TypeOK, DeleteExclusive
  <1>18. ASSUME NEW k \in Conns, DisconnectCli(k) PROVE DeleteExclusive'
    BY <1>18 DEF DisconnectCli, TypeOK, DeleteExclusive
  <1>19. ASSUME NEW k \in Conns, DeleteFind(k) PROVE DeleteExclusive'
    <2>1. tpc' = [tpc EXCEPT ![k] = "unlink"] /\ lock' = k /\ lock = 0
      BY <1>19 DEF DeleteFind
    <2>2. \A j \in Conns : tpc[j] \notin {"unlink", "store"}
      BY <2>1 DEF DeleteExclusive, Conns
    <2> QED BY <2>1, <2>2 DEF TypeOK, DeleteExclusive
  <1>20. ASSUME NEW k \in Conns, DeleteUnlink(k) PROVE DeleteExclusive'
    BY <1>20 DEF DeleteUnlink, TypeOK, DeleteExclusive
  <1>21. ASSUME NEW k \in Conns, DeleteStore(k) PROVE DeleteExclusive'
    <2>1. tpc' = [tpc EXCEPT ![k] = "done"] /\ lock' = 0 /\ tpc[k] = "store"
      BY <1>21 DEF DeleteStore
    <2>2. \A j \in Conns : tpc[j] \in {"unlink", "store"} => j = k
      BY <2>1 DEF DeleteExclusive
    <2> QED BY <2>1, <2>2 DEF TypeOK, DeleteExclusive, Conns
  <1>22. ASSUME NEW k \in Conns, HangUp(k) PROVE DeleteExclusive'
    BY <1>22 DEF HangUp, TypeOK, DeleteExclusive
  <1>23. ASSUME UNCHANGED vars PROVE DeleteExclusive'
    BY <1>23 DEF TypeOK, DeleteExclusive
  <1> QED
    BY <1>1, <1>2, <1>3, <1>4, <1>5, <1>6, <1>7, <1>8, <1>9, <1>10, <1>11, <1>12, <1>13, <1>14, <1>15, <1>16, <1>17, <1>18, <1>19, <1>20, <1>21, <1>22, <1>23, <1>24
       DEF Next, MainStep, HandlerStep, Halted

(* main's append, which takes no lock, cannot take away the element that    *)
(* the thread in list_delete has found; of the two updates of size, main's  *)
(* never stores less than it finds.                                        *)
LEMMA DeleteStep ==
  ASSUME TypeOK, AppendInv, DeleteExclusive, DeleteInv, [Next]_vars
  PROVE  DeleteInv'
  <1>1. ASSUME Listen PROVE DeleteInv'
    BY <1>1 DEF Listen, TypeOK, DeleteInv
  <1>2. ASSUME ListenFails PROVE DeleteInv'
    BY <1>2 DEF ListenFails, TypeOK, DeleteInv
  <1>3. ASSUME AppendTraverse PROVE DeleteInv'
    BY <1>3 DEF AppendTraverse, TypeOK, DeleteInv
  <1>4. ASSUME AppendLink PROVE DeleteInv'
    <2>1. /\ chain' \in Seq(Nodes) /\ Len(chain) <= Len(chain')
          /\ \A p \in 1..Len(chain) : chain'[p] = chain[p]
      <3>1. appends + 2 \in Nodes
        BY <1>4, ServerAssumption DEF AppendLink, TypeOK, AppendInv, Nodes
      <3> QED BY <1>4, <3>1, LinkBehindType DEF AppendLink, TypeOK
    <2>2. \A n \in Nodes : elem[n] # Unset => elem'[n] # Unset
      BY <1>4 DEF AppendLink, TypeOK
    <2>3. \A p \in 1..Len(chain) : chain[p] \in Nodes
      BY PathNodes DEF TypeOK
    <2>4. \A k \in Conns : tpc[k] = "unlink" =>
            /\ tpos[k] \in 1..Len(chain') /\ tpos[k] <= size
            /\ elem'[chain'[tpos[k]]] # Unset
      <3> SUFFICES ASSUME NEW k \in Conns, tpc[k] = "unlink"
                   PROVE  /\ tpos[k] \in 1..Len(chain') /\ tpos[k] <= size
                          /\ elem'[chain'[tpos[k]]] # Unset
        OBVIOUS
      <3>1. /\ tpos[k] \in 1..Len(chain) /\ tpos[k] <= size
            /\ elem[chain[tpos[k]]] # Unset
        BY DEF DeleteInv
      <3>2. chain'[tpos[k]] = chain[tpos[k]] /\ chain[tpos[k]] \in Nodes
        BY <3>1, <2>1, <2>3
      <3>3. Len(chain) \in Nat /\ Len(chain') \in Nat
        BY <2>1 DEF TypeOK
      <3> QED BY <3>1, <3>2, <3>3, <2>1, <2>2
    <2>5. /\ mpc' = "store" /\ mreg' = size
          /\ UNCHANGED <<tpc, tpos, treg, size>>
      BY <1>4 DEF AppendLink
    <2>6. \A k \in Conns : tpc[k] = "store" => treg[k] >= 1 /\ treg[k] <= size + 1
      BY DEF DeleteInv
    <2> QED BY <2>4, <2>5, <2>6 DEF DeleteInv, TypeOK
  <1>5. ASSUME AppendStore PROVE DeleteInv'
    BY <1>5 DEF AppendStore, TypeOK, DeleteInv
  <1>6. ASSUME LocateTail PROVE DeleteInv'
    BY <1>6 DEF LocateTail, TypeOK, DeleteInv
  <1>7. ASSUME Accept PROVE DeleteInv'
    <2>1. tpc' = [tpc EXCEPT ![appends] = "start"] /\ mpc' = "spin" /\ mpc = "accept"
          /\ UNCHANGED <<chain, elem, size, mreg, tpos, treg>>
      BY <1>7 DEF Accept, StartHandler
    <2> QED BY <2>1 DEF TypeOK, DeleteInv
  <1>8. ASSUME AcceptFails PROVE DeleteInv'
    <2>1. tpc' = [tpc EXCEPT ![appends] = "start"] /\ mpc' = "spin" /\ mpc = "accept"
          /\ UNCHANGED <<chain, elem, size, mreg, tpos, treg>>
      BY <1>8 DEF AcceptFails, StartHandler
    <2> QED BY <2>1 DEF TypeOK, DeleteInv
  <1>24. ASSUME Spin PROVE DeleteInv'
    BY <1>24 DEF Spin, TypeOK, DeleteInv
  <1>9. ASSUME Report PROVE DeleteInv'
    BY <1>9 DEF Report, TypeOK, DeleteInv
  <1>10. ASSUME PickThread PROVE DeleteInv'
    BY <1>10 DEF PickThread, TypeOK, DeleteInv
  <1>11. ASSUME JoinThread PROVE DeleteInv'
    BY <1>11 DEF JoinThread, TypeOK, DeleteInv
  <1>12. ASSUME Exit PROVE DeleteInv'
    BY <1>12 DEF Exit, TypeOK, DeleteInv
  <1>13. ASSUME NEW why \in {"memory", "assert"}, Die(why) PROVE DeleteInv'
    BY <1>13 DEF Die, TypeOK, DeleteInv
  <1>14. ASSUME NEW k \in Conns, HandlerStart(k) PROVE DeleteInv'
    BY <1>14 DEF HandlerStart, TypeOK, DeleteInv
  <1>15. ASSUME NEW k \in Conns, HandlerLoop(k) PROVE DeleteInv'
    BY <1>15 DEF HandlerLoop, TypeOK, DeleteInv
  <1>16. ASSUME NEW k \in Conns, RecvPacket(k) PROVE DeleteInv'
    BY <1>16 DEF RecvPacket, TypeOK, DeleteInv
  <1>17. ASSUME NEW k \in Conns, RecvFails(k) PROVE DeleteInv'
    BY <1>17 DEF RecvFails, TypeOK, DeleteInv
  <1>18. ASSUME NEW k \in Conns, DisconnectCli(k) PROVE DeleteInv'
    BY <1>18 DEF DisconnectCli, TypeOK, DeleteInv
  <1>19. ASSUME NEW k \in Conns, DeleteFind(k) PROVE DeleteInv'
    <2>1. PICK p \in 1..size : FoundAt(k, p) /\ tpos' = [tpos EXCEPT ![k] = p]
      BY <1>19 DEF DeleteFind
    <2>2. p \in 1..Len(chain) /\ p <= size /\ elem[chain[p]] # Unset
      BY <2>1 DEF FoundAt, Walkable, Valid, TypeOK
    <2>3. tpc' = [tpc EXCEPT ![k] = "unlink"]
          /\ UNCHANGED <<chain, elem, size, mpc, mreg, treg>>
      BY <1>19 DEF DeleteFind
    <2> QED BY <2>1, <2>2, <2>3 DEF TypeOK, DeleteInv
  <1>20. ASSUME NEW k \in Conns, DeleteUnlink(k) PROVE DeleteInv'
    <2>1. \A j \in Conns : tpc[j] \in {"unlink", "store"} => j = k
      BY <1>20 DEF DeleteUnlink, DeleteExclusive
    <2>2. size >= 1 /\ (mpc = "store" => size <= mreg)
      BY <1>20 DEF DeleteUnlink, DeleteInv, TypeOK
    <2>3. /\ treg' = [treg EXCEPT ![k] = size] /\ tpc' = [tpc EXCEPT ![k] = "store"]
          /\ UNCHANGED <<size, mpc, mreg>>
      BY <1>20 DEF DeleteUnlink
    <2>4. \A j \in Conns : tpc'[j] # "unlink"
      BY <2>1, <2>3 DEF TypeOK
    <2>5. \A j \in Conns : tpc'[j] = "store" => treg'[j] = size
      BY <2>1, <2>3 DEF TypeOK
    <2> QED BY <2>2, <2>3, <2>4, <2>5 DEF TypeOK, DeleteInv
  <1>21. ASSUME NEW k \in Conns, DeleteStore(k) PROVE DeleteInv'
    <2>1. \A j \in Conns : tpc[j] \in {"unlink", "store"} => j = k
      BY <1>21 DEF DeleteStore, DeleteExclusive
    <2>2. mpc = "store" => treg[k] <= mreg + 1
      BY <1>21 DEF DeleteStore, DeleteInv
    <2>3. /\ size' = treg[k] - 1 /\ tpc' = [tpc EXCEPT ![k] = "done"]
          /\ UNCHANGED <<mpc, mreg, treg>>
      BY <1>21 DEF DeleteStore
    <2>4. \A j \in Conns : tpc'[j] \notin {"unlink", "store"}
      BY <2>1, <2>3 DEF TypeOK
    <2>5. mpc = "store" => size' <= mreg
      BY <2>2, <2>3 DEF TypeOK
    <2> QED BY <2>3, <2>4, <2>5 DEF DeleteInv
  <1>22. ASSUME NEW k \in Conns, HangUp(k) PROVE DeleteInv'
    BY <1>22 DEF HangUp, TypeOK, DeleteInv
  <1>23. ASSUME UNCHANGED vars PROVE DeleteInv'
    BY <1>23 DEF TypeOK, DeleteInv
  <1> QED
    BY <1>1, <1>2, <1>3, <1>4, <1>5, <1>6, <1>7, <1>8, <1>9, <1>10, <1>11, <1>12, <1>13, <1>14, <1>15, <1>16, <1>17, <1>18, <1>19, <1>20, <1>21, <1>22, <1>23, <1>24
       DEF Next, MainStep, HandlerStep, Halted

-----------------------------------------------------------------------------
(* The theorems                                                            *)

(* serv_main starts in the invariant.                                      *)
LEMMA Initially == Init => IInv
  <1> SUFFICES ASSUME Init PROVE IInv
    OBVIOUS
  <1>1. 1 \in Nodes /\ 0 \in 0..(MaxConn + 1) /\ MaxConn >= 1
    BY ServerAssumption DEF Nodes
  <1>2. <<1>> \in Seq(Nodes)
    BY <1>1
  <1>3. rec \in [Records -> Client]
    BY ServerAssumption DEF Init, Client
  <1>4. TypeOK
    BY <1>1, <1>2, <1>3 DEF Init, TypeOK
  <1>5. DeleteExclusive
    BY DEF Init, DeleteExclusive, Conns
  <1>6. AppendInv
    BY <1>1, ServerAssumption DEF Init, AppendInv
  <1>7. StartInv /\ DeleteInv
    BY DEF Init, StartInv, DeleteInv
  <1> QED
    BY <1>4, <1>5, <1>6, <1>7 DEF IInv

(* Every step of main, of a handler and of a client keeps the invariant.   *)
LEMMA Inductive == IInv /\ [Next]_vars => IInv'
  BY TypeStep, AppendStep, StartStep, ExclusiveStep, DeleteStep DEF IInv

(* The inductive invariant of the accept loop and the handlers: types,     *)
(* what is left of the bound, the argument block of a starting thread, the *)
(* lock, and that the element a handler has found stays in the list until  *)
(* it is deleted.                                                          *)
THEOREM Invariance == Spec => []IInv
  <1> QED BY Initially, Inductive, PTL DEF Spec

(* Every variable keeps its type; in particular the two unsynchronised     *)
(* updates of list->size never take it below zero.                         *)
THEOREM TypeCorrect == Spec => []TypeOK
  <1>1. IInv => TypeOK
    BY DEF IInv
  <1> QED BY Invariance, <1>1, PTL

(* cli_list_lock keeps two handlers from being inside list_delete at once. *)
THEOREM MutualExclusion == Spec => []DeleteExclusive
  <1>1. IInv => DeleteExclusive
    BY DEF IInv
  <1> QED BY Invariance, <1>1, PTL

(* Every starting thread gets its own client: main's spin on               *)
(* thread_created protects the argument block on its stack.                *)
THEOREM Handshake == Spec => []ThreadGetsItsClient
  <1>1. IInv => ThreadGetsItsClient
    BY DEF IInv, StartInv, ThreadGetsItsClient, Records
  <1> QED BY Invariance, <1>1, PTL

-----------------------------------------------------------------------------
(* The calm environments: no call fails, and no client comes while another *)
(* comes or leaves.  The clients leave oldest first, one at a time, or     *)
(* newest first, any number at once.                                       *)
Calm == Failures = {} /\ "any" \notin Worlds

(* c is the members of S in ascending order.                               *)
Ascending(c, S) ==
  /\ \A p, q \in 1..Len(c) : p < q => c[p] < c[q]
  /\ Range(c) = S

(* The threads whose record is on the list, those that have yet to end     *)
(* after their client has, and the record that main prepares.              *)
Listed == {k \in Conns : tpc[k] \notin {"none", "store", "done"}}
Leaving == {k \in Conns : peer[k] = "gone" /\ tpc[k] # "done"}
Pending == IF mpc \in {"store", "locate", "accept"} THEN {appends} ELSE {}

(* The path is the listed records, the pending one and the sentinel, in    *)
(* the order of their arrival: record k is the element of node k.          *)
PathInv ==
  /\ Ascending(chain, Listed \cup Pending \cup {appends + 1})
  /\ elem = [n \in Nodes |-> IF n <= appends THEN n ELSE Unset]
  /\ \A r \in freed : r \in Conns /\ tpc[r] \in {"store", "done"}

(* size counts the path without its sentinel, except between the two       *)
(* halves of size++ and size--.                                            *)
SizeInv ==
  /\ mpc = "store" => mreg = size /\ size = Len(chain) - 2
  /\ \A k \in Conns : tpc[k] = "store" => treg[k] = size /\ size = Len(chain)
  /\ mpc # "store" /\ (\A k \in Conns : tpc[k] # "store") => size = Len(chain) - 1

(* Main never fails, and is not appending while a client leaves.           *)
MainInv ==
  /\ fault = "none" /\ running /\ listening /\ mpc \notin {"wait", "join", "exit"}
  /\ mpc = "link" => mtail = appends + 1
  /\ mpc \in {"accept", "spin", "report"} => mcli = appends
  /\ mpc \in {"spin", "report"} => peer[appends] = "open"
  /\ mpc # "accept" => Leaving = {}

(* Thread k handles record k and connection k, which it closes once, when  *)
(* its client has gone, and deletes what it has found: its own record.     *)
ThreadInv ==
  \A k \in Conns :
    /\ peer[k] = "away" <=> tpc[k] = "none"
    /\ tpc[k] \in {"close", "lock", "unlink", "store", "done"} => peer[k] = "gone"
    /\ tpc[k] \notin {"none", "start"} => tcli[k] = k
    /\ tpc[k] = "recv" => tsock[k] = k
    /\ k \in Listed => rec[k].sock = k /\ rec[k].thread = k
    /\ k \in Listed /\ ~rec[k].connected => peer[k] = "gone"
    /\ closed[k] = IF tpc[k] \in {"lock", "unlink", "store", "done"} THEN 1 ELSE 0
    /\ tpc[k] = "unlink" => chain[tpos[k]] = k

(* A record belongs to no thread before its client is accepted.            *)
UnusedInv ==
  \A r \in Records : (r \in Conns => tpc[r] = "none") => rec[r].thread = 0

(* Whoever leaves is found by its id: because it is the first on the list, *)
(* or because the ids on the list are different.  They are as long as      *)
(* those that stay, which precede the others, have their positions for     *)
(* ids; so the next id, the size of the list, is a new one.                *)
LeaveInv ==
  /\ world = "oldest" =>
       \A j \in Leaving : \A k \in Conns \ {j} :
         tpc[k] \notin {"none", "done"} => j < k /\ peer[k] = "open"
  /\ world = "newest" =>
       /\ \A j, k \in Listed : j < k => rec[j].id < rec[k].id
       /\ \A j, k \in Listed : j < k /\ peer[k] = "open" => peer[j] = "open"
       /\ \A p \in 1..Len(chain) :
            chain[p] \in Listed /\ peer[chain[p]] = "open" => rec[chain[p]].id = p

CalmInv == PathInv /\ SizeInv /\ MainInv /\ ThreadInv /\ UnusedInv /\ LeaveInv

-----------------------------------------------------------------------------
(* Ascending sequences                                                     *)

(* A greater element appended keeps it ascending.                          *)
LEMMA AscendingAppend ==
  ASSUME NEW c \in Seq(Nat), NEW S, Ascending(c, S), NEW n \in Nat, \A x \in S : x < n
  PROVE  Ascending(Append(c, n), S \cup {n})
  <1>1. /\ Len(Append(c, n)) = Len(c) + 1 /\ Append(c, n)[Len(c) + 1] = n
        /\ \A p \in 1..Len(c) : Append(c, n)[p] = c[p]
        /\ DOMAIN Append(c, n) = 1..(Len(c) + 1) /\ DOMAIN c = 1..Len(c) /\ Len(c) \in Nat
    BY AppendProperties
  <1> DEFINE d == Append(c, n)
  <1> HIDE DEF d
  <1>2. \A p \in 1..Len(c) : c[p] < n
    BY <1>1 DEF Ascending, Range
  <1>3. \A p \in 1..Len(d) : p = Len(c) + 1 \/ p \in 1..Len(c)
    BY <1>1 DEF d
  <1>4. Range(d) = S \cup {n}
    <2>1. \A x \in Range(d) : x \in S \cup {n}
      BY <1>1, <1>3 DEF Ascending, Range, d
    <2>2. \A x \in S : x \in Range(d)
      <3> SUFFICES ASSUME NEW x \in S PROVE x \in Range(d)
        OBVIOUS
      <3>1. PICK p \in 1..Len(c) : c[p] = x
        BY <1>1 DEF Ascending, Range
      <3>2. p \in DOMAIN d /\ d[p] = x
        BY <1>1, <3>1 DEF d
      <3> QED BY <3>2 DEF Range
    <2>3. n \in Range(d)
      <3>1. Len(c) + 1 \in DOMAIN d /\ d[Len(c) + 1] = n
        BY <1>1 DEF d
      <3> QED BY <3>1 DEF Range
    <2> QED BY <2>1, <2>2, <2>3
  <1>5. \A p, q \in 1..Len(d) : p < q => d[p] < d[q]
    BY <1>1, <1>2, <1>3 DEF Ascending, d
  <1> QED BY <1>4, <1>5 DEF Ascending, d

(* A sequence without its element at position p.                           *)
LEMMA RemoveAtFacts ==
  ASSUME NEW c \in Seq(Nat), NEW p \in 1..Len(c)
  PROVE  /\ RemoveAt(c, p) \in Seq(Nat) /\ Len(RemoveAt(c, p)) = Len(c) - 1
         /\ \A q \in 1..(Len(c) - 1) :
              RemoveAt(c, p)[q] = IF q < p THEN c[q] ELSE c[q + 1]
  <1> DEFINE a == SubSeq(c, 1, p - 1)
             b == SubSeq(c, p + 1, Len(c))
             d == a \o b
  <1>0. RemoveAt(c, p) = d
    BY DEF RemoveAt
  <1>1. Len(c) \in Nat /\ DOMAIN c = 1..Len(c) /\ p \in Nat /\ \A q \in 1..Len(c) : c[q] \in Nat
    BY ElementOfSeq
  <1>2. a \in Seq(Nat) /\ Len(a) = p - 1 /\ \A q \in 1..(p - 1) : a[q] = c[q]
    BY <1>1, SubSeqProperties
  <1>3. b \in Seq(Nat) /\ Len(b) = Len(c) - p /\ \A q \in 1..(Len(c) - p) : b[q] = c[p + q]
    <2>0. p + 1 \in Int /\ Len(c) \in Int /\ \A q \in (p + 1)..Len(c) : c[q] \in Nat
      BY <1>1
    <2>1. /\ b \in Seq(Nat)
          /\ Len(b) = IF p + 1 <= Len(c) THEN Len(c) - (p + 1) + 1 ELSE 0
          /\ \A q \in 1..(Len(c) - (p + 1) + 1) : b[q] = c[(p + 1) + q - 1]
      BY <2>0, SubSeqProperties
    <2> HIDE DEF b
    <2>2. Len(c) - (p + 1) + 1 = Len(c) - p /\ Len(c) - p >= 0
      BY <1>1
    <2>3. \A q \in 1..(Len(c) - p) : (p + 1) + q - 1 = p + q
      BY <1>1
    <2>4. \A q \in 1..(Len(c) - p) : b[q] = c[p + q]
      BY <2>1, <2>2, <2>3
    <2>5. Len(b) = Len(c) - p
      <3>1. Len(c) \in Nat /\ p \in Nat /\ p <= Len(c)
        BY <1>1
      <3>2. p + 1 <= Len(c) \/ p = Len(c)
        BY <3>1
      <3>3. p = Len(c) => Len(b) = 0
        BY <2>1, <3>1
      <3>4. p + 1 <= Len(c) => Len(b) = Len(c) - (p + 1) + 1
        BY <2>1
      <3>5. p = Len(c) => Len(c) - p = 0
        BY <3>1
      <3> QED BY <2>2, <3>2, <3>3, <3>4, <3>5
    <2> QED BY <2>1, <2>4, <2>5
  <1> HIDE DEF a, b
  <1>4. /\ d \in Seq(Nat) /\ Len(d) = Len(a) + Len(b)
        /\ \A q \in 1..Len(d) : d[q] = IF q <= Len(a) THEN a[q] ELSE b[q - Len(a)]
    <2>1. a \in Seq(Nat) /\ b \in Seq(Nat)
      BY <1>2, <1>3
    <2>2. /\ d \in Seq(Nat) /\ Len(d) = Len(a) + Len(b)
          /\ \A q \in 1..(Len(a) + Len(b)) :
               d[q] = IF q <= Len(a) THEN a[q] ELSE b[q - Len(a)]
      BY <2>1, ConcatProperties
    <2> QED BY <2>2
  <1> HIDE DEF d
  <1>5. Len(d) = Len(c) - 1
    BY <1>1, <1>2, <1>3, <1>4
  <1>6. \A q \in 1..Len(d) : d[q] = IF q < p THEN c[q] ELSE c[q + 1]
    <2> SUFFICES ASSUME NEW q \in 1..Len(d) PROVE d[q] = IF q < p THEN c[q] ELSE c[q + 1]
      OBVIOUS
    <2>1. CASE q < p
      BY <1>1, <1>2, <1>4, <2>1
    <2>2. CASE ~(q < p)
      <3>1. q - (p - 1) \in 1..(Len(c) - p) /\ ~(q <= p - 1)
        BY <1>1, <1>5, <2>2
      <3>2. b[q - (p - 1)] = c[p + (q - (p - 1))] /\ p + (q - (p - 1)) = q + 1
        BY <1>1, <1>3, <3>1
      <3> QED BY <1>2, <1>4, <2>2, <3>1, <3>2
    <2> QED BY <2>1, <2>2
  <1> QED BY <1>0, <1>4, <1>5, <1>6

(* list_delete at index 0 is the same removal.                             *)
LEMMA RemoveHead ==
  ASSUME NEW c \in Seq(Nat), 1 \in 1..Len(c)
  PROVE  Tail(c) = RemoveAt(c, 1)
  <1>1. Len(c) \in Nat /\ c # <<>>
    OBVIOUS
  <1>2. /\ Tail(c) \in Seq(Nat) /\ Len(Tail(c)) = Len(c) - 1
        /\ \A q \in 1..Len(Tail(c)) : Tail(c)[q] = c[q + 1]
    BY <1>1, HeadTailProperties
  <1>3. /\ RemoveAt(c, 1) \in Seq(Nat) /\ Len(RemoveAt(c, 1)) = Len(c) - 1
        /\ \A q \in 1..(Len(c) - 1) :
             RemoveAt(c, 1)[q] = IF q < 1 THEN c[q] ELSE c[q + 1]
    BY RemoveAtFacts
  <1>4. \A q \in 1..(Len(c) - 1) : ~(q < 1)
    BY <1>1
  <1> DEFINE t == Tail(c)
             r == RemoveAt(c, 1)
  <1>5. t \in Seq(Nat) /\ r \in Seq(Nat) /\ Len(t) = Len(r)
    BY <1>2, <1>3
  <1>6. \A q \in 1..Len(t) : t[q] = r[q]
    BY <1>2, <1>3, <1>4
  <1> HIDE DEF t, r
  <1>7. t = r
    BY <1>5, <1>6, SeqEqual
  <1> QED BY <1>7 DEF t, r

(* Without its member at position p.                                       *)
LEMMA AscendingRemove ==
  ASSUME NEW c \in Seq(Nat), NEW S, Ascending(c, S), NEW p \in 1..Len(c)
  PROVE  Ascending(RemoveAt(c, p), S \ {c[p]})
  <1> DEFINE d == RemoveAt(c, p)
  <1>1. Len(c) \in Nat /\ DOMAIN c = 1..Len(c) /\ p \in Nat /\ \A q \in 1..Len(c) : c[q] \in Nat
    BY ElementOfSeq
  <1>4. d \in Seq(Nat)
    BY RemoveAtFacts
  <1>5. Len(d) = Len(c) - 1
    BY RemoveAtFacts
  <1>6. \A q \in 1..Len(d) : d[q] = IF q < p THEN c[q] ELSE c[q + 1]
    BY <1>5, RemoveAtFacts
  <1> HIDE DEF d
  <1>7. \A q, r \in 1..Len(d) : q < r => d[q] < d[r]
    <2> SUFFICES ASSUME NEW q \in 1..Len(d), NEW r \in 1..Len(d), q < r PROVE d[q] < d[r]
      OBVIOUS
    <2> DEFINE f(n) == IF n < p THEN n ELSE n + 1
    <2>1. f(q) \in 1..Len(c) /\ f(r) \in 1..Len(c) /\ f(q) < f(r)
      BY <1>1, <1>5
    <2>2. d[q] = c[f(q)] /\ d[r] = c[f(r)]
      BY <1>6
    <2> HIDE DEF f
    <2> QED BY <2>1, <2>2 DEF Ascending
  <1>8. DOMAIN d = 1..Len(d)
    BY <1>4
  <1>9. Range(d) = S \ {c[p]}
    <2>1. ASSUME NEW q \in 1..Len(d) PROVE d[q] \in S \ {c[p]}
      <3>1. CASE q < p
        <4>1. q \in 1..Len(c) /\ d[q] = c[q] /\ c[q] < c[p]
          BY <1>1, <1>6, <3>1 DEF Ascending
        <4> QED BY <1>1, <4>1 DEF Ascending, Range
      <3>2. CASE ~(q < p)
        <4>1. q + 1 \in 1..Len(c) /\ d[q] = c[q + 1] /\ p < q + 1
          BY <1>1, <1>5, <1>6, <3>2
        <4>2. c[p] < c[q + 1] /\ c[q + 1] \in S
          BY <1>1, <4>1 DEF Ascending, Range
        <4>3. c[p] # c[q + 1]
          BY <1>1, <4>1, <4>2
        <4> QED BY <4>1, <4>2, <4>3
      <3> QED BY <3>1, <3>2
    <2>2. ASSUME NEW x \in S, x # c[p] PROVE x \in Range(d)
      <3>1. PICK q \in 1..Len(c) : c[q] = x
        BY <1>1 DEF Ascending, Range
      <3>2. CASE q < p
        <4>1. q \in 1..Len(d) /\ d[q] = x
          BY <1>1, <1>5, <1>6, <3>1, <3>2
        <4> QED BY <1>8, <4>1 DEF Range
      <3>3. CASE ~(q < p)
        <4>1. q # p
          BY <2>2, <3>1
        <4>2. q - 1 \in 1..Len(d) /\ ~(q - 1 < p) /\ (q - 1) + 1 = q
          BY <1>1, <1>5, <3>3, <4>1
        <4>3. d[q - 1] = x
          BY <1>6, <3>1, <4>2
        <4> QED BY <1>8, <4>2, <4>3 DEF Range
      <3> QED BY <3>2, <3>3
    <2> QED BY <1>8, <2>1, <2>2 DEF Range
  <1> QED BY <1>7, <1>9 DEF Ascending, d

(* Its greatest member is the last one, and the second greatest is before. *)
LEMMA AscendingLast ==
  ASSUME NEW c \in Seq(Nat), NEW S, Ascending(c, S), NEW m \in S, \A x \in S : x <= m
  PROVE  /\ Len(c) \in 1..Len(c) /\ c[Len(c)] = m
         /\ \A p \in 1..(Len(c) - 1) : c[p] < m
  <1>1. Len(c) \in Nat /\ DOMAIN c = 1..Len(c) /\ \A q \in 1..Len(c) : c[q] \in Nat
    BY ElementOfSeq
  <1>2. PICK p \in 1..Len(c) : c[p] = m
    BY <1>1 DEF Ascending, Range
  <1>3. Len(c) \in 1..Len(c)
    BY <1>1, <1>2
  <1>4. c[Len(c)] <= m
    BY <1>1, <1>3 DEF Ascending, Range
  <1>5. p = Len(c)
    <2>1. p < Len(c) => c[p] < c[Len(c)]
      BY <1>2, <1>3 DEF Ascending
    <2>2. c[Len(c)] \in Nat /\ m \in Nat
      BY <1>1, <1>2, <1>3
    <2>3. p < Len(c) => c[p] < m /\ c[Len(c)] = m
      BY <1>1, <1>2, <1>4, <2>1, <2>2
    <2>4. ~(p < Len(c))
      BY <1>2, <2>2, <2>3
    <2>5. Len(c) \in Nat
      BY <1>1
    <2> QED BY <2>4, <2>5
  <1> QED BY <1>1, <1>2, <1>3, <1>5 DEF Ascending

(* If the greatest are m and m + 1, m is the last but one.                 *)
LEMMA AscendingSecond ==
  ASSUME NEW c \in Seq(Nat), NEW S, Ascending(c, S), NEW m \in Nat, m \in S, m + 1 \in S,
         \A x \in S : x <= m + 1
  PROVE  /\ Len(c) - 1 \in 1..Len(c) /\ c[Len(c) - 1] = m
         /\ \A p \in 1..(Len(c) - 2) : c[p] < m
  <1>1. Len(c) \in Nat /\ DOMAIN c = 1..Len(c) /\ \A q \in 1..Len(c) : c[q] \in Nat
    BY ElementOfSeq
  <1>2. PICK p \in 1..Len(c) : c[p] = m
    BY <1>1 DEF Ascending, Range
  <1>3. Len(c) \in 1..Len(c) /\ c[Len(c)] = m + 1
    BY AscendingLast
  <1>4. p # Len(c)
    BY <1>2, <1>3
  <1>5. ~(p < Len(c) - 1)
    <2> SUFFICES ASSUME p < Len(c) - 1 PROVE FALSE
      OBVIOUS
    <2>1. Len(c) - 1 \in 1..Len(c) /\ Len(c) - 1 < Len(c)
      BY <1>1, <1>2
    <2>2. c[p] < c[Len(c) - 1] /\ c[Len(c) - 1] < c[Len(c)]
      BY <1>2, <1>3, <2>1 DEF Ascending
    <2> QED BY <1>1, <1>2, <1>3, <2>1, <2>2
  <1>6. p = Len(c) - 1
    <2>1. p \in Nat /\ p <= Len(c)
      BY <1>2
    <2>2. Len(c) \in Nat
      BY <1>1
    <2> QED BY <1>4, <1>5, <2>1, <2>2
  <1>7. \A q \in 1..(Len(c) - 2) : q \in 1..Len(c) /\ q < Len(c) - 1
    BY <1>1
  <1>8. \A q, r \in 1..Len(c) : q < r => c[q] < c[r]
    BY DEF Ascending
  <1> QED BY <1>2, <1>6, <1>7, <1>8

-----------------------------------------------------------------------------
(* What the invariant says of the list, the threads and the search         *)

Appended == {"store", "locate", "accept"}

(* What is where on the path: the sentinel last, the pending record before *)
(* it while main prepares one, and listed records everywhere else.         *)
LEMMA PathFacts ==
  ASSUME IInv, CalmInv
  PROVE  /\ chain \in Seq(Nat) /\ Len(chain) \in Nat /\ appends \in Nat /\ size \in Nat
         /\ \A p \in 1..Len(chain) : chain[p] \in Nodes /\ chain[p] \in Nat
         /\ \A k \in Listed : k \in Conns /\ k \in Nat /\ k <= appends
                              /\ (mpc \in Appended => k < appends)
         /\ \A k \in Listed : \E p \in 1..Len(chain) : chain[p] = k
         /\ \A p, q \in 1..Len(chain) : p < q => chain[p] < chain[q]
         /\ \A p \in 1..Len(chain) : chain[p] \in Listed \cup Pending \cup {appends + 1}
         /\ Len(chain) \in 1..Len(chain) /\ chain[Len(chain)] = appends + 1
         /\ mpc \notin Appended => \A p \in 1..(Len(chain) - 1) : chain[p] \in Listed
         /\ mpc \in Appended =>
              /\ Len(chain) - 1 \in 1..Len(chain) /\ chain[Len(chain) - 1] = appends
              /\ \A p \in 1..(Len(chain) - 2) : chain[p] \in Listed
  <1> DEFINE S == Listed \cup Pending \cup {appends + 1}
  <1>1. chain \in Seq(Nodes) /\ appends \in Nat /\ size \in Nat
    BY DEF IInv, TypeOK
  <1>2. Nodes \subseteq Nat /\ Conns \subseteq Nat
    BY ServerAssumption DEF Nodes, Conns
  <1>3. chain \in Seq(Nat) /\ \A p \in 1..Len(chain) : chain[p] \in Nodes /\ chain[p] \in Nat
    <2>1. \A p \in 1..Len(chain) : chain[p] \in Nodes
      BY <1>1, ElementOfSeq
    <2>2. chain \in Seq(Nat)
      <3>1. chain \in [1..Len(chain) -> Nodes] /\ Len(chain) \in Nat
        BY <1>1, LenProperties
      <3>2. chain \in [1..Len(chain) -> Nat]
        BY <1>2, <3>1
      <3> QED BY <3>1, <3>2, SeqDef
    <2> QED BY <1>2, <2>1, <2>2
  <1>4. Len(chain) \in Nat /\ DOMAIN chain = 1..Len(chain)
    BY <1>1
  <1>5. \A k \in Listed : k \in Conns /\ k \in Nat /\ k <= appends
                          /\ (mpc \in Appended => k < appends)
    BY <1>2 DEF IInv, AppendInv, Listed, Appended
  <1>6. Ascending(chain, S)
    BY DEF CalmInv, PathInv
  <1>7. Pending = IF mpc \in Appended THEN {appends} ELSE {}
    BY DEF Pending, Appended
  <1>8. appends + 1 \in S /\ \A x \in S : x <= appends + 1
    BY <1>1, <1>5, <1>7
  <1>9. \A p \in 1..Len(chain) : chain[p] \in S
    BY <1>4, <1>6 DEF Ascending, Range
  <1>10. \A x \in S : \E p \in 1..Len(chain) : chain[p] = x
    BY <1>4, <1>6 DEF Ascending, Range
  <1>11. /\ Len(chain) \in 1..Len(chain) /\ chain[Len(chain)] = appends + 1
         /\ \A p \in 1..(Len(chain) - 1) : chain[p] < appends + 1
    BY <1>3, <1>6, <1>8, AscendingLast
  <1>12. mpc \notin Appended => \A p \in 1..(Len(chain) - 1) : chain[p] \in Listed
    <2> SUFFICES ASSUME mpc \notin Appended, NEW p \in 1..(Len(chain) - 1)
                 PROVE  chain[p] \in Listed
      OBVIOUS
    <2>1. p \in 1..Len(chain)
      BY <1>4
    <2>2. chain[p] # appends + 1
      BY <1>1, <1>3, <1>11, <2>1
    <2> QED BY <1>7, <1>9, <2>1, <2>2
  <1>13. mpc \in Appended =>
              /\ Len(chain) - 1 \in 1..Len(chain) /\ chain[Len(chain) - 1] = appends
              /\ \A p \in 1..(Len(chain) - 2) : chain[p] \in Listed
    <2> SUFFICES ASSUME mpc \in Appended
                 PROVE  /\ Len(chain) - 1 \in 1..Len(chain) /\ chain[Len(chain) - 1] = appends
                        /\ \A p \in 1..(Len(chain) - 2) : chain[p] \in Listed
      OBVIOUS
    <2>1. appends \in S
      BY <1>7
    <2>2. /\ Len(chain) - 1 \in 1..Len(chain) /\ chain[Len(chain) - 1] = appends
          /\ \A p \in 1..(Len(chain) - 2) : chain[p] < appends
      <3> HIDE DEF S
      <3> QED BY <1>1, <1>3, <1>6, <1>8, <2>1, AscendingSecond
    <2>3. ASSUME NEW p \in 1..(Len(chain) - 2) PROVE chain[p] \in Listed
      <3>1. p \in 1..Len(chain)
        BY <1>4
      <3>2. chain[p] < appends /\ chain[p] \in Nat
        BY <1>3, <2>2, <3>1
      <3>3. chain[p] # appends + 1 /\ chain[p] # appends
        BY <1>1, <3>2
      <3> QED BY <1>7, <1>9, <3>1, <3>3
    <2> QED BY <2>2, <2>3
  <1>14. \A k \in Listed : \E p \in 1..Len(chain) : chain[p] = k
    BY <1>10
  <1>15. \A p, q \in 1..Len(chain) : p < q => chain[p] < chain[q]
    BY <1>6 DEF Ascending
  <1> QED BY <1>1, <1>3, <1>4, <1>5, <1>9, <1>11, <1>12, <1>13, <1>14, <1>15

(* While main does not wait in accept, every thread is new, serves a       *)
(* client or has ended, and nobody changes the list but main.              *)
LEMMA Settled ==
  ASSUME IInv, CalmInv, mpc # "accept"
  PROVE  /\ \A k \in Conns : tpc[k] \in {"none", "start", "loop", "recv", "done"}
         /\ \A k \in Conns : tpc[k] \notin {"none", "done"} => peer[k] = "open"
         /\ Len(chain) >= 1 /\ Len(chain) \in Nat
         /\ size = Len(chain) - IF mpc = "store" THEN 2 ELSE 1
         /\ lock = 0
  <1>1. \A k \in Conns : peer[k] = "gone" => tpc[k] = "done"
    BY DEF CalmInv, MainInv, Leaving
  <1>2. \A k \in Conns : tpc[k] \in {"none", "start", "loop", "recv", "close", "lock",
                                     "unlink", "store", "done"}
    BY DEF IInv, TypeOK
  <1>3. \A k \in Conns : tpc[k] \in {"none", "start", "loop", "recv", "done"}
    BY <1>1, <1>2 DEF CalmInv, ThreadInv
  <1>4. \A k \in Conns : tpc[k] \notin {"none", "done"} => peer[k] = "open"
    <2>1. \A k \in Conns : peer[k] \in {"away", "open", "gone"}
      BY DEF IInv, TypeOK
    <2> QED BY <1>1, <2>1 DEF CalmInv, ThreadInv
  <1>5. size = Len(chain) - IF mpc = "store" THEN 2 ELSE 1
    BY <1>3 DEF CalmInv, SizeInv
  <1>6. Len(chain) >= 1 /\ Len(chain) \in Nat
    BY PathFacts
  <1>7. lock = 0
    <2>1. \A k \in Conns : lock # k
      BY <1>3 DEF IInv, DeleteExclusive
    <2>2. lock \in Conns \cup {0}
      BY DEF IInv, TypeOK
    <2> QED BY <2>1, <2>2
  <1> QED BY <1>3, <1>4, <1>5, <1>6, <1>7

(* A record that is listed or pending is not freed, and is the element of  *)
(* its node.                                                               *)
LEMMA RecordFacts ==
  ASSUME IInv, CalmInv
  PROVE  /\ \A k \in Listed : elem[k] = k /\ Valid(k)
         /\ appends >= 1 /\ mpc \in Appended \cup {"spin", "report"} =>
              elem[appends] = appends /\ Valid(appends)
         /\ \A n \in Nodes : n > appends => elem[n] = Unset
         /\ \A n \in Nodes : n <= appends => elem[n] = n
  <1>1. elem = [n \in Nodes |-> IF n <= appends THEN n ELSE Unset]
    BY DEF CalmInv, PathInv
  <1>2. \A r \in freed : r \in Conns /\ tpc[r] \in {"store", "done"}
    BY DEF CalmInv, PathInv
  <1>3. Conns \subseteq Nodes /\ appends \in Nat /\ Nodes \subseteq Nat /\ 0 \notin Nodes
    BY ServerAssumption DEF Conns, Nodes, IInv, TypeOK
  <1>4. ASSUME NEW k \in Listed PROVE elem[k] = k /\ Valid(k)
    <2>1. k \in Conns /\ k <= appends /\ tpc[k] \notin {"store", "done"}
      BY PathFacts DEF Listed
    <2> QED BY <1>1, <1>2, <1>3, <2>1 DEF Valid
  <1>5. ASSUME appends >= 1, mpc \in Appended \cup {"spin", "report"}
        PROVE  elem[appends] = appends /\ Valid(appends)
    <2>1. appends \in Nodes
      BY <1>5, ServerAssumption DEF IInv, TypeOK, Nodes
    <2>2. elem[appends] = appends
      BY <1>1, <1>3, <2>1
    <2>3. appends \notin freed
      <3> SUFFICES ASSUME appends \in freed PROVE FALSE
        OBVIOUS
      <3>1. appends \in Conns /\ tpc[appends] \in {"store", "done"}
        BY <1>2
      <3>2. mpc \in {"spin", "report"}
        BY <1>3, <1>5, <3>1 DEF IInv, AppendInv, Appended
      <3>3. peer[appends] = "gone" /\ peer[appends] = "open"
        BY <3>1, <3>2 DEF CalmInv, MainInv, ThreadInv
      <3> QED BY <3>3
    <2> QED BY <1>3, <2>1, <2>2, <2>3 DEF Valid
  <1>6. \A n \in Nodes : n > appends => elem[n] = Unset
    BY <1>1, <1>3
  <1>7. \A n \in Nodes : n <= appends => elem[n] = n
    BY <1>1, <1>3
  <1> QED BY <1>4, <1>5, <1>6, <1>7

(* When every thread is blocked, those on the list serve a client.         *)
LEMMA QuietFacts ==
  ASSUME IInv, CalmInv, Quiet
  PROVE  /\ mpc = "accept" /\ \A k \in Conns : tpc[k] \in {"none", "recv", "done"}
         /\ \A k \in Listed : peer[k] = "open"
         /\ Leaving = {} /\ size = Len(chain) - 1
  <1>1. mpc = "accept" /\ \A k \in Conns : tpc[k] \in {"none", "recv", "done"}
    BY DEF Quiet
  <1>2. \A k \in Conns : tpc[k] = "recv" => peer[k] = "open"
    BY DEF Quiet, CalmInv, ThreadInv
  <1>3. \A k \in Listed : peer[k] = "open"
    BY <1>1, <1>2 DEF Listed
  <1>4. Leaving = {}
    BY <1>1, <1>2 DEF Leaving, CalmInv, ThreadInv
  <1>5. size = Len(chain) - 1
    BY <1>1 DEF CalmInv, SizeInv
  <1> QED BY <1>1, <1>3, <1>4, <1>5

(* The walk over the listed records and the pending one is safe.           *)
LEMMA WalkFacts ==
  ASSUME IInv, CalmInv, size = Len(chain) - 1, mpc \in Appended
  PROVE  /\ Walkable(size)
         /\ \A p \in 1..size : elem[chain[p]] = chain[p] /\ Valid(chain[p])
  <1>1. \A p \in 1..size : chain[p] \in Listed \/ chain[p] = appends
    <2> SUFFICES ASSUME NEW p \in 1..size, p \notin 1..(Len(chain) - 2)
                 PROVE  chain[p] = appends
      BY PathFacts
    <2>1. Len(chain) \in Nat /\ chain[Len(chain) - 1] = appends
      BY PathFacts
    <2>2. p = Len(chain) - 1
      BY <2>1
    <2> QED BY <2>1, <2>2
  <1>2. appends >= 1
    BY DEF IInv, AppendInv, Appended
  <1>3. \A p \in 1..size : elem[chain[p]] = chain[p] /\ Valid(chain[p])
    BY <1>1, <1>2, RecordFacts
  <1>4. size <= Len(chain)
    BY PathFacts
  <1> QED BY <1>3, <1>4 DEF Walkable

(* The id of a client's record is a number.                                *)
LEMMA IdIsNat ==
  ASSUME IInv, NEW k \in Conns
  PROVE  k \in Records /\ rec[k] \in Client /\ rec[k].id \in Nat
  <1>1. k \in Records
    BY ServerAssumption DEF Conns, Records
  <1>2. rec[k] \in Client
    BY <1>1 DEF IInv, TypeOK
  <1> QED BY <1>1, <1>2 DEF Client

(* The search of a handler ends at its own record.                         *)
LEMMA SearchFacts ==
  ASSUME Calm, IInv, CalmInv, NEW k \in Conns, tpc[k] = "lock", lock = 0
  PROVE  /\ mpc = "accept" /\ size = Len(chain) - 1 /\ Walkable(size) /\ Valid(tcli[k])
         /\ \E p \in 1..size : FoundAt(k, p)
         /\ \A p \in 1..size : FoundAt(k, p) => chain[p] = k
  <1>1. /\ peer[k] = "gone" /\ k \in Leaving /\ k \in Listed /\ tcli[k] = k
        /\ mpc = "accept"
    BY DEF CalmInv, ThreadInv, MainInv, Leaving, Listed
  <1>2. size = Len(chain) - 1
    <2>1. \A j \in Conns : tpc[j] # "store"
      BY ServerAssumption DEF IInv, DeleteExclusive, Conns
    <2> QED BY <1>1, <2>1 DEF CalmInv, SizeInv
  <1>3. /\ Walkable(size) /\ Valid(tcli[k])
        /\ \A p \in 1..size : elem[chain[p]] = chain[p] /\ Valid(chain[p])
    BY <1>1, <1>2, WalkFacts, RecordFacts DEF Appended
  <1>4. Len(chain) \in Nat /\ size \in Nat /\ k \in Nat
    BY <1>1, PathFacts
  <1>5. PICK w \in 1..Len(chain) : chain[w] = k
    BY <1>1, PathFacts
  <1>6. /\ w \in 1..(Len(chain) - 2) /\ w \in 1..size /\ w \in Nat
        /\ \A q \in 1..(w - 1) : q \in 1..size /\ chain[q] \in Listed /\ chain[q] < k
    <2>1. k < appends /\ appends \in Nat
      BY <1>1, PathFacts DEF Appended
    <2>2. w # Len(chain) /\ w # Len(chain) - 1
      <3>1. chain[Len(chain)] = appends + 1 /\ chain[Len(chain) - 1] = appends
        BY <1>1, PathFacts DEF Appended
      <3> QED BY <1>5, <2>1, <3>1
    <2>3. w \in 1..(Len(chain) - 2) /\ w \in 1..size /\ w \in Nat
      BY <1>2, <1>4, <2>2
    <2>4. ASSUME NEW q \in 1..(w - 1)
          PROVE  q \in 1..size /\ chain[q] \in Listed /\ chain[q] < k
      <3>1. q \in 1..(Len(chain) - 2) /\ q \in 1..size /\ q \in 1..Len(chain) /\ q < w
        BY <1>2, <1>4, <2>3, <2>4
      <3> QED BY <1>1, <1>5, <3>1, PathFacts DEF Appended
    <2> QED BY <2>3, <2>4
  <1>7. \A q \in 1..(w - 1) : rec[chain[q]].id # rec[k].id
    <2> SUFFICES ASSUME NEW q \in 1..(w - 1) PROVE rec[chain[q]].id # rec[k].id
      OBVIOUS
    <2>1. chain[q] \in Listed /\ chain[q] < k /\ chain[q] \in Nat /\ chain[q] \in Conns
      BY <1>6, PathFacts
    <2>2. CASE world = "oldest"
      <3>1. tpc[chain[q]] \notin {"none", "done"} /\ chain[q] # k
        BY <1>4, <2>1 DEF Listed
      <3>2. k < chain[q]
        BY <1>1, <2>1, <2>2, <3>1 DEF CalmInv, LeaveInv
      <3> QED BY <1>4, <2>1, <3>2
    <2>3. CASE world = "newest"
      <3>1. rec[chain[q]].id < rec[k].id
        BY <1>1, <2>1, <2>3 DEF CalmInv, LeaveInv
      <3>2. rec[chain[q]].id \in Nat /\ rec[k].id \in Nat
        BY <2>1, IdIsNat
      <3> QED BY <3>1, <3>2
    <2>4. world \in {"oldest", "newest"}
      BY ServerAssumption DEF Calm, IInv, TypeOK
    <2> QED BY <2>2, <2>3, <2>4
  <1>8. FoundAt(k, w)
    <2>1. Walkable(w)
      BY <1>3, <1>4, <1>6 DEF Walkable
    <2> QED BY <1>1, <1>3, <1>5, <1>6, <1>7, <2>1 DEF FoundAt
  <1>9. ASSUME NEW p \in 1..size, FoundAt(k, p) PROVE chain[p] = k
    <2>1. ~(p < w)
      <3>1. p < w => p \in 1..(w - 1)
        BY <1>4, <1>6
      <3> QED BY <1>1, <1>3, <1>7, <1>9, <3>1 DEF FoundAt
    <2>2. ~(w < p)
      <3>1. w < p => w \in 1..(p - 1)
        BY <1>4, <1>6
      <3> QED BY <1>1, <1>3, <1>5, <1>6, <1>9, <3>1 DEF FoundAt
    <2>3. p = w
      BY <1>4, <1>6, <2>1, <2>2
    <2> QED BY <1>5, <2>3
  <1> QED BY <1>1, <1>2, <1>3, <1>6, <1>8, <1>9

(* The steps that are left: no call fails and nothing goes wrong.          *)
CalmStep ==
  \/ Listen \/ AppendTraverse \/ AppendLink \/ AppendStore \/ LocateTail \/ Accept
  \/ Spin \/ Report
  \/ \E k \in Conns : HandlerStep(k) \/ HangUp(k)

(* In a calm environment no step of a failed call, of the shutdown or of an *)
(* access to freed memory is possible.                                     *)
LEMMA OnlyCalmSteps ==
  ASSUME Calm, IInv, CalmInv, [Next]_vars
  PROVE  CalmStep \/ UNCHANGED vars
  <1>0. mpc \notin {"wait", "join", "exit"} /\ listening
    BY DEF CalmInv, MainInv
  <1>1. ~ListenFails /\ ~AcceptFails /\ ~PickThread /\ ~JoinThread /\ ~Exit
    BY <1>0 DEF Calm, ListenFails, AcceptFails, PickThread, JoinThread, Exit
  <1>2. ~MainStrays
    <2>1. mpc \in {"accept", "spin", "report"} => Valid(mcli)
      <3>1. mpc = "accept" => appends >= 1
        BY DEF IInv, AppendInv
      <3>2. mpc \in {"spin", "report"} => appends >= 1
        BY DEF IInv, AppendInv
      <3> QED BY <3>1, <3>2, RecordFacts DEF CalmInv, MainInv, Appended
    <2>2. chain # <<>>
      BY PathFacts
    <2>3. mpc = "link" => ~NodeFreed(mtail)
      <3> SUFFICES ASSUME mpc = "link" PROVE ~NodeFreed(mtail)
        OBVIOUS
      <3>1. mtail = chain[Len(chain)] /\ Len(chain) \in DOMAIN chain
        BY PathFacts DEF CalmInv, MainInv
      <3> QED BY <3>1 DEF NodeFreed, OnList, Range
    <2>4. mpc = "locate" => ~(size > Len(chain))
      BY Settled
    <2> QED BY <1>0, <2>1, <2>2, <2>3, <2>4 DEF MainStrays, Calm
  <1>3. ASSUME NEW k \in Conns PROVE ~HandlerStrays(k) /\ ~NotFound(k)
    <2>1. tpc[k] = "start" => Valid(arg)
      <3> SUFFICES ASSUME tpc[k] = "start" PROVE Valid(arg)
        OBVIOUS
      <3>1. arg = k /\ k \in Listed
        BY DEF IInv, StartInv, CalmInv, MainInv, Listed
      <3> QED BY <3>1, RecordFacts
    <2>2. tpc[k] \in {"loop", "recv", "close", "lock"} => Valid(tcli[k])
      <3> SUFFICES ASSUME tpc[k] \in {"loop", "recv", "close", "lock"} PROVE Valid(tcli[k])
        OBVIOUS
      <3>1. tcli[k] = k /\ k \in Listed
        BY DEF CalmInv, ThreadInv, Listed
      <3> QED BY <3>1, RecordFacts
    <2>3. tpc[k] = "lock" /\ lock = 0 =>
            Walkable(size) /\ \E p \in 1..size : FoundAt(k, p)
      BY SearchFacts
    <2>4. ~HandlerStrays(k)
      BY <2>1, <2>2, <2>3 DEF HandlerStrays
    <2>5. ~NotFound(k)
      BY <2>3 DEF NotFound
    <2> QED BY <2>4, <2>5
  <1> QED BY <1>1, <1>2, <1>3 DEF Next, MainStep, Halted, CalmStep

-----------------------------------------------------------------------------
(* What a step of handler k changes                                        *)

(* A handler works on its own record, connection and local variables.      *)
LEMMA HandlerFrame ==
  ASSUME IInv, CalmInv, NEW k \in Conns, HandlerStep(k)
  PROVE  /\ UNCHANGED <<elem, mainVars, servVars, peer, fault>>
         /\ tpc[k] \notin {"none", "done"}
         /\ \A j \in Conns \ {k} :
              /\ tpc'[j] = tpc[j] /\ tcli'[j] = tcli[j] /\ tsock'[j] = tsock[j]
              /\ tpos'[j] = tpos[j] /\ treg'[j] = treg[j] /\ closed'[j] = closed[j]
         /\ \A r \in Records :
              /\ rec'[r].sock = rec[r].sock /\ rec'[r].id = rec[r].id
              /\ rec'[r].thread = rec[r].thread
              /\ r # k => rec'[r].connected = rec[r].connected
  <1>1. tpc[k] \notin {"none", "start"} => tcli[k] = k
    BY DEF CalmInv, ThreadInv
  <1>2. k \in Records /\ rec[k] \in Client /\ rec \in [Records -> Client]
    BY IdIsNat DEF IInv, TypeOK
  <1>3. tpc[k] = "start" => arg = k
    BY DEF IInv, StartInv, CalmInv, MainInv
  <1>4. /\ tpc \in [Conns -> {"none", "start", "loop", "recv", "close", "lock",
                              "unlink", "store", "done"}]
        /\ tcli \in [Conns -> Records \cup {Unset}]
        /\ tsock \in [Conns -> Conns \cup {NoSocket}]
        /\ tpos \in [Conns -> Nat] /\ treg \in [Conns -> Nat]
        /\ closed \in [Conns -> Nat]
    BY DEF IInv, TypeOK
  <1>5. ASSUME rec' = [rec EXCEPT ![k].connected = FALSE] \/ rec' = [rec EXCEPT ![k].created = TRUE]
               \/ rec' = rec
        PROVE  \A r \in Records :
              /\ rec'[r].sock = rec[r].sock /\ rec'[r].id = rec[r].id
              /\ rec'[r].thread = rec[r].thread
              /\ r # k => rec'[r].connected = rec[r].connected
    BY <1>2, <1>5 DEF Client
  <1>6. CASE HandlerStart(k)
    <2>1. rec' = [rec EXCEPT ![k].created = TRUE]
      BY <1>3, <1>6 DEF HandlerStart
    <2>2. /\ tpc[k] = "start" /\ tpc' = [tpc EXCEPT ![k] = "loop"]
          /\ tcli' = [tcli EXCEPT ![k] = arg]
          /\ UNCHANGED <<elem, mainVars, servVars, peer, fault, tsock, tpos, treg, closed>>
      BY <1>6 DEF HandlerStart
    <2> QED BY <1>4, <1>5, <2>1, <2>2
  <1>7. CASE HandlerLoop(k)
    <2>1. /\ tpc[k] = "loop" /\ \A j \in Conns \ {k} : tpc'[j] = tpc[j] /\ tsock'[j] = tsock[j]
          /\ UNCHANGED <<elem, mainVars, servVars, peer, fault, rec, tcli, tpos, treg, closed>>
      BY <1>4, <1>7 DEF HandlerLoop
    <2> QED BY <2>1
  <1>8. CASE RecvPacket(k)
    <2>1. /\ tpc[k] = "recv" /\ \A j \in Conns \ {k} : tpc'[j] = tpc[j]
          /\ UNCHANGED <<elem, mainVars, servVars, peer, fault, rec, tcli, tsock, tpos, treg, closed>>
      BY <1>4, <1>8 DEF RecvPacket
    <2> QED BY <2>1
  <1>9. CASE RecvFails(k)
    <2>1. rec' = [rec EXCEPT ![k].connected = FALSE]
      BY <1>1, <1>9 DEF RecvFails
    <2>2. /\ tpc[k] = "recv" /\ \A j \in Conns \ {k} : tpc'[j] = tpc[j]
          /\ UNCHANGED <<elem, mainVars, servVars, peer, fault, tcli, tsock, tpos, treg, closed>>
      BY <1>4, <1>9 DEF RecvFails
    <2> QED BY <1>5, <2>1, <2>2
  <1>10. CASE DisconnectCli(k)
    <2>1. rec' = [rec EXCEPT ![k].connected = FALSE]
      BY <1>1, <1>10 DEF DisconnectCli
    <2>2. /\ tpc[k] = "close" /\ \A j \in Conns \ {k} : tpc'[j] = tpc[j]
          /\ UNCHANGED <<elem, mainVars, servVars, peer, fault, tcli, tsock, tpos, treg>>
      BY <1>4, <1>10 DEF DisconnectCli
    <2>3. \A j \in Conns \ {k} : closed'[j] = closed[j]
      <3>1. rec[tcli[k]].sock = k
        BY <1>1, <2>2 DEF CalmInv, ThreadInv, Listed
      <3>2. closed' = [s \in Conns |-> closed[s] + (IF s = k THEN 1 ELSE 0)]
        BY <1>10, <3>1 DEF DisconnectCli
      <3> QED BY <1>4, <3>2
    <2> QED BY <1>5, <2>1, <2>2, <2>3
  <1>11. CASE DeleteFind(k)
    <2>1. /\ tpc[k] = "lock" /\ \A j \in Conns \ {k} : tpc'[j] = tpc[j] /\ tpos'[j] = tpos[j]
          /\ UNCHANGED <<elem, mainVars, servVars, peer, fault, rec, tcli, tsock, treg, closed>>
      BY <1>4, <1>11 DEF DeleteFind
    <2> QED BY <2>1
  <1>12. CASE DeleteUnlink(k)
    <2>1. /\ tpc[k] = "unlink" /\ \A j \in Conns \ {k} : tpc'[j] = tpc[j] /\ treg'[j] = treg[j]
          /\ UNCHANGED <<elem, mainVars, servVars, peer, fault, rec, tcli, tsock, tpos, closed>>
      BY <1>4, <1>12 DEF DeleteUnlink
    <2> QED BY <2>1
  <1>13. CASE DeleteStore(k)
    <2>1. /\ tpc[k] = "store" /\ \A j \in Conns \ {k} : tpc'[j] = tpc[j]
          /\ UNCHANGED <<elem, mainVars, servVars, peer, fault, rec, tcli, tsock, tpos, treg, closed>>
      BY <1>4, <1>13 DEF DeleteStore
    <2> QED BY <2>1
  <1> QED BY <1>6, <1>7, <1>8, <1>9, <1>10, <1>11, <1>12, <1>13 DEF HandlerStep

(* Where handler k goes, and what it knows when it gets there.             *)
LEMMA HandlerMoves ==
  ASSUME Calm, IInv, CalmInv, NEW k \in Conns, HandlerStep(k)
  PROVE  \/ /\ tpc[k] \in {"start", "recv"} /\ tpc'[k] = "loop" /\ tcli'[k] = k
            /\ rec'[k].connected \/ peer[k] = "gone"
            /\ closed'[k] = closed[k]
         \/ /\ tpc[k] = "loop" /\ tpc'[k] = "recv" /\ tcli'[k] = k /\ tsock'[k] = k
            /\ rec'[k].connected /\ closed'[k] = closed[k]
         \/ /\ tpc[k] = "loop" /\ tpc'[k] = "close" /\ tcli'[k] = k /\ peer[k] = "gone"
            /\ closed'[k] = closed[k]
         \/ /\ tpc[k] = "close" /\ tpc'[k] = "lock" /\ tcli'[k] = k
            /\ closed'[k] = closed[k] + 1
         \/ /\ tpc[k] = "lock" /\ tpc'[k] = "unlink" /\ tcli'[k] = k
            /\ closed'[k] = closed[k] /\ tpos'[k] \in 1..Len(chain) /\ chain[tpos'[k]] = k
         \/ /\ tpc[k] \in {"unlink", "store"} /\ tcli'[k] = k /\ closed'[k] = closed[k]
            /\ tpc'[k] = IF tpc[k] = "unlink" THEN "store" ELSE "done"
  <1>0. /\ tpc \in [Conns -> {"none", "start", "loop", "recv", "close", "lock",
                              "unlink", "store", "done"}]
        /\ tcli \in [Conns -> Records \cup {Unset}]
        /\ tsock \in [Conns -> Conns \cup {NoSocket}]
        /\ tpos \in [Conns -> Nat] /\ closed \in [Conns -> Nat]
        /\ k \in Records /\ rec[k] \in Client /\ rec \in [Records -> Client]
    BY IdIsNat DEF IInv, TypeOK
  <1>1. tpc[k] \notin {"none", "start"} => tcli[k] = k
    BY DEF CalmInv, ThreadInv
  <1>2. k \in Listed => rec[k].sock = k /\ (rec[k].connected \/ peer[k] = "gone")
    BY DEF CalmInv, ThreadInv
  <1>3. tpc[k] = "recv" => tsock[k] = k /\ closed[k] = 0
    BY DEF CalmInv, ThreadInv
  <1>6. CASE HandlerStart(k)
    <2>1. arg = k /\ tpc[k] = "start" /\ k \in Listed
      BY <1>6 DEF HandlerStart, IInv, StartInv, CalmInv, MainInv, Listed
    <2>2. /\ rec' = [rec EXCEPT ![k].created = TRUE] /\ tpc' = [tpc EXCEPT ![k] = "loop"]
          /\ tcli' = [tcli EXCEPT ![k] = k] /\ closed' = closed
      BY <1>6, <2>1 DEF HandlerStart
    <2>3. rec'[k].connected = rec[k].connected
      BY <1>0, <2>2 DEF Client
    <2> QED BY <1>0, <1>2, <2>1, <2>2, <2>3
  <1>7. CASE HandlerLoop(k)
    <2>1. tpc[k] = "loop" /\ k \in Listed /\ tcli[k] = k
      BY <1>1, <1>7 DEF HandlerLoop, Listed
    <2>2. /\ rec' = rec /\ tcli' = tcli /\ closed' = closed
          /\ \/ ~rec[k].connected /\ tpc' = [tpc EXCEPT ![k] = "close"]
             \/ rec[k].connected /\ tpc' = [tpc EXCEPT ![k] = "recv"]
                /\ tsock' = [tsock EXCEPT ![k] = k]
      BY <1>2, <1>7, <2>1 DEF HandlerLoop
    <2> QED BY <1>0, <1>2, <2>1, <2>2
  <1>8. CASE RecvPacket(k)
    <2>1. /\ tpc[k] = "recv" /\ k \in Listed /\ tcli[k] = k
          /\ rec' = rec /\ tcli' = tcli /\ closed' = closed /\ tpc' = [tpc EXCEPT ![k] = "loop"]
      BY <1>1, <1>8 DEF RecvPacket, Listed
    <2> QED BY <1>0, <1>2, <2>1
  <1>9. CASE RecvFails(k)
    <2>1. /\ tpc[k] = "recv" /\ tcli[k] = k
          /\ tcli' = tcli /\ closed' = closed /\ tpc' = [tpc EXCEPT ![k] = "loop"]
      BY <1>1, <1>9 DEF RecvFails
    <2>2. peer[k] = "gone"
      BY <1>3, <1>9, <2>1, ServerAssumption DEF RecvFails, Conns
    <2> QED BY <1>0, <2>1, <2>2
  <1>10. CASE DisconnectCli(k)
    <2>1. /\ tpc[k] = "close" /\ tcli[k] = k /\ k \in Listed
          /\ tcli' = tcli /\ tpc' = [tpc EXCEPT ![k] = "lock"]
      BY <1>1, <1>10 DEF DisconnectCli, Listed
    <2>2. closed' = [s \in Conns |-> closed[s] + (IF s = k THEN 1 ELSE 0)]
      BY <1>2, <1>10, <2>1 DEF DisconnectCli
    <2>3. closed'[k] = closed[k] + 1
      BY <2>2
    <2> QED BY <1>0, <2>1, <2>3
  <1>11. CASE DeleteFind(k)
    <2>1. /\ tpc[k] = "lock" /\ lock = 0 /\ tcli[k] = k
          /\ tcli' = tcli /\ closed' = closed /\ tpc' = [tpc EXCEPT ![k] = "unlink"]
      BY <1>1, <1>11 DEF DeleteFind
    <2>2. PICK p \in 1..size : FoundAt(k, p) /\ tpos' = [tpos EXCEPT ![k] = p]
      BY <1>11 DEF DeleteFind
    <2>3. chain[p] = k /\ p \in 1..Len(chain)
      <3>1. size = Len(chain) - 1 /\ Len(chain) \in Nat /\ size \in Nat
        BY <2>1, SearchFacts, PathFacts
      <3> QED BY <2>1, <2>2, <3>1, SearchFacts
    <2> QED BY <1>0, <2>1, <2>2, <2>3
  <1>12. CASE DeleteUnlink(k)
    <2>1. /\ tpc[k] = "unlink" /\ tcli[k] = k
          /\ tcli' = tcli /\ closed' = closed /\ tpc' = [tpc EXCEPT ![k] = "store"]
      BY <1>1, <1>12 DEF DeleteUnlink
    <2> QED BY <1>0, <2>1
  <1>13. CASE DeleteStore(k)
    <2>1. /\ tpc[k] = "store" /\ tcli[k] = k
          /\ tcli' = tcli /\ closed' = closed /\ tpc' = [tpc EXCEPT ![k] = "done"]
      BY <1>1, <1>13 DEF DeleteStore
    <2> QED BY <1>0, <2>1
  <1> QED BY <1>6, <1>7, <1>8, <1>9, <1>10, <1>11, <1>12, <1>13 DEF HandlerStep

(* What handler k makes of the list: it takes its record off it, and only  *)
(* between accept and the next client.                                     *)
LEMMA HandlerList ==
  ASSUME Calm, IInv, CalmInv, NEW k \in Conns, HandlerStep(k)
  PROVE  \/ /\ UNCHANGED <<chain, freed>> /\ tpc[k] # "unlink"
            /\ \/ size' = size /\ tpc[k] # "store" /\ treg'[k] = treg[k]
               \/ tpc[k] = "store" /\ size' = treg[k] - 1
         \/ /\ tpc[k] = "unlink" /\ mpc = "accept" /\ k \in Listed
            /\ tpos[k] \in 1..Len(chain) /\ chain[tpos[k]] = k
            /\ chain' = RemoveAt(chain, tpos[k])
            /\ size' = size /\ treg'[k] = size
            /\ freed' \subseteq freed \cup {k}
  <1>1. CASE tpc[k] # "unlink"
    <2>1. ~DeleteUnlink(k)
      BY <1>1 DEF DeleteUnlink
    <2>2. CASE DeleteStore(k)
      BY <1>1, <2>2 DEF DeleteStore
    <2>3. CASE ~DeleteStore(k)
      BY <1>1, <2>1, <2>3 DEF HandlerStep, HandlerStart, HandlerLoop, RecvPacket, RecvFails,
                              DisconnectCli, DeleteFind
    <2> QED BY <2>2, <2>3
  <1>2. CASE tpc[k] = "unlink"
    <2>1. DeleteUnlink(k)
      BY <1>2 DEF HandlerStep, HandlerStart, HandlerLoop, RecvPacket, RecvFails,
                  DisconnectCli, DeleteFind, DeleteStore
    <2>2. /\ k \in Listed /\ peer[k] = "gone" /\ k \in Leaving /\ mpc = "accept"
          /\ chain[tpos[k]] = k
      BY <1>2 DEF CalmInv, ThreadInv, MainInv, Leaving, Listed
    <2>3. tpos[k] \in 1..Len(chain) /\ elem[k] = k
      BY <1>2, <2>2, RecordFacts DEF IInv, DeleteInv
    <2>4. size = Len(chain) - 1
      <3>1. \A j \in Conns : tpc[j] # "store"
        BY <1>2 DEF IInv, DeleteExclusive
      <3> QED BY <2>2, <3>1 DEF CalmInv, SizeInv
    <2>5. chain' = RemoveAt(chain, tpos[k])
      <3>1. tpos[k] # size
        <4>1. chain[Len(chain) - 1] = appends /\ k < appends /\ appends \in Nat /\ k \in Nat
          BY <2>2, PathFacts DEF Appended
        <4> QED BY <2>2, <2>4, <4>1
      <3>2. chain' = DeleteAt(chain, size, tpos[k])
        BY <2>1 DEF DeleteUnlink
      <3>3. CASE tpos[k] = 1
        <4>1. chain' = Tail(chain)
          BY <3>2, <3>3 DEF DeleteAt
        <4>2. Tail(chain) = RemoveAt(chain, 1)
          <5>1. chain \in Seq(Nat) /\ 1 \in 1..Len(chain)
            BY <2>3, <3>3, PathFacts
          <5> QED BY <5>1, RemoveHead
        <4> QED BY <3>3, <4>1, <4>2
      <3>4. CASE tpos[k] # 1
        BY <3>1, <3>2, <3>4 DEF DeleteAt
      <3> QED BY <3>3, <3>4
    <2>6. size' = size /\ treg'[k] = size
      BY <2>1 DEF DeleteUnlink, IInv, TypeOK
    <2>7. freed' \subseteq freed \cup {k}
      BY <2>1, <2>2, <2>3 DEF DeleteUnlink
    <2> QED BY <1>2, <2>2, <2>3, <2>5, <2>6, <2>7
  <1> QED BY <1>1, <1>2

-----------------------------------------------------------------------------
(* The parts of the invariant are preserved by every step.                 *)

(* What the invariant says of the types; the variables one by one.         *)
LEMMA CalmTypes ==
  ASSUME IInv
  PROVE  /\ tpc \in [Conns -> {"none", "start", "loop", "recv", "close", "lock",
                               "unlink", "store", "done"}]
         /\ tcli \in [Conns -> Records \cup {Unset}]
         /\ tsock \in [Conns -> Conns \cup {NoSocket}]
         /\ tpos \in [Conns -> Nat] /\ treg \in [Conns -> Nat]
         /\ closed \in [Conns -> Nat] /\ peer \in [Conns -> {"away", "open", "gone"}]
         /\ rec \in [Records -> Client] /\ Conns \subseteq Records
  BY IdIsNat DEF IInv, TypeOK

(* The new client finds every thread blocked.                              *)
LEMMA AcceptFacts ==
  ASSUME Calm, IInv, CalmInv, Accept
  PROVE  /\ Quiet /\ appends \in Conns /\ appends \in Records /\ mcli = appends
         /\ mpc = "accept" /\ mpc' = "spin"
         /\ tpc[appends] = "none" /\ tpc' = [tpc EXCEPT ![appends] = "start"]
         /\ peer' = [peer EXCEPT ![appends] = "open"]
         /\ rec' = [rec EXCEPT ![appends] = [sock |-> appends, id |-> size,
                      connected |-> TRUE, created |-> FALSE, thread |-> appends]]
         /\ UNCHANGED <<listVars, freed, lock, servVars, mtail, mreg, mcli, joinAt,
                        appends, tcli, tsock, tpos, treg, closed, fault>>
  <1>1. mpc = "accept" /\ mcli = appends /\ appends <= MaxConn
    BY DEF Accept, CalmInv, MainInv
  <1>2. Quiet
    BY DEF Accept, Calm, IInv, TypeOK
  <1>3. appends \in Conns
    BY <1>1, ServerAssumption DEF IInv, TypeOK, AppendInv, Conns
  <1>4. appends \in Records
    BY <1>3, IdIsNat
  <1>5. tpc[appends] = "none"
    BY <1>1, <1>3, ServerAssumption DEF IInv, AppendInv, Conns
  <1> QED BY <1>1, <1>2, <1>3, <1>4, <1>5 DEF Accept, StartHandler

(* Main locates the record it has just appended, and waits for its thread *)
(* while no other client leaves.                                           *)
LEMMA MainCalm ==
  ASSUME Calm, IInv, CalmInv, CalmStep
  PROVE  MainInv'
  <1>0. /\ fault = "none" /\ running /\ listening /\ mpc \notin {"wait", "join", "exit"}
        /\ mpc = "link" => mtail = appends + 1
        /\ mpc \in {"accept", "spin", "report"} => mcli = appends
        /\ mpc \in {"spin", "report"} => peer[appends] = "open"
        /\ mpc # "accept" => Leaving = {}
    BY DEF CalmInv, MainInv
  <1>1. CASE Listen
    BY <1>0, <1>1 DEF Listen, MainInv, Leaving
  <1>2. CASE AppendTraverse
    <2>1. Last(chain) = appends + 1
      BY PathFacts DEF Last
    <2> QED BY <1>0, <1>2, <2>1 DEF AppendTraverse, MainInv, Leaving
  <1>3. CASE AppendLink
    BY <1>0, <1>3 DEF AppendLink, MainInv, Leaving
  <1>4. CASE AppendStore
    BY <1>0, <1>4 DEF AppendStore, MainInv, Leaving
  <1>5. CASE LocateTail
    <2>1. mpc = "locate" /\ size = Len(chain) - 1
      BY <1>5, Settled DEF LocateTail
    <2>2. /\ size \in 1..Len(chain) /\ chain[size] = appends /\ appends \in Nat
          /\ size \in Nat
      BY <2>1, PathFacts DEF Appended
    <2>3. elem[appends] = appends
      <3>1. appends >= 1
        BY <2>1 DEF IInv, AppendInv
      <3> QED BY <2>1, <3>1, RecordFacts DEF Appended
    <2>4. mcli' = appends
      BY <1>5, <2>2, <2>3 DEF LocateTail
    <2> QED BY <1>0, <1>5, <2>4 DEF LocateTail, MainInv, Leaving
  <1>6. CASE Accept
    <2>1. Leaving = {}
      BY <1>6, AcceptFacts, QuietFacts
    <2>2. Leaving' = {}
      BY <1>6, <2>1, AcceptFacts, CalmTypes DEF Leaving
    <2>3. peer'[appends] = "open"
      BY <1>6, AcceptFacts, CalmTypes
    <2> QED BY <1>0, <1>6, <2>2, <2>3, AcceptFacts DEF MainInv
  <1>7. CASE Spin \/ Report
    BY <1>0, <1>7 DEF Spin, Report, MainInv, Leaving
  <1>8. CASE \E k \in Conns : HandlerStep(k)
    <2>1. PICK k \in Conns : HandlerStep(k)
      BY <1>8
    <2>2. Leaving = {} => Leaving' = {}
      BY <2>1, HandlerFrame DEF Leaving
    <2>3. UNCHANGED <<mainVars, servVars, peer, fault>>
      BY <2>1, HandlerFrame
    <2> QED BY <1>0, <2>2, <2>3 DEF MainInv
  <1>9. CASE \E k \in Conns : HangUp(k)
    <2>1. mpc = "accept"
      <3>1. world \in {"oldest", "newest"}
        BY ServerAssumption DEF Calm, IInv, TypeOK
      <3> QED BY <1>9, <3>1 DEF HangUp, Quiet
    <2> QED BY <1>0, <1>9, <2>1 DEF HangUp, MainInv
  <1> QED BY <1>1, <1>2, <1>3, <1>4, <1>5, <1>6, <1>7, <1>8, <1>9 DEF CalmStep

(* Main and the handlers never update size at the same time.               *)
LEMMA SizeCalm ==
  ASSUME Calm, IInv, CalmInv, CalmStep
  PROVE  SizeInv'
  <1>0. /\ mpc = "store" => mreg = size /\ size = Len(chain) - 2
        /\ \A k \in Conns : tpc[k] = "store" => treg[k] = size /\ size = Len(chain)
        /\ mpc # "store" /\ (\A k \in Conns : tpc[k] # "store") => size = Len(chain) - 1
    BY DEF CalmInv, SizeInv
  <1>1. CASE Listen
    BY <1>0, <1>1 DEF Listen, SizeInv
  <1>2. CASE AppendTraverse
    BY <1>0, <1>2 DEF AppendTraverse, SizeInv
  <1>3. CASE AppendLink
    <2>1. mpc = "link" /\ mtail = chain[Len(chain)] /\ chain # <<>>
      BY <1>3, PathFacts DEF AppendLink, CalmInv, MainInv
    <2>2. chain' = Append(chain, appends + 2)
      BY <1>3, <2>1 DEF AppendLink, LinkBehind, Last
    <2>3. Len(chain') = Len(chain) + 1 /\ Len(chain) \in Nat
      BY <2>2, PathFacts
    <2>4. \A k \in Conns : tpc[k] # "store"
      BY <2>1, Settled
    <2>5. size = Len(chain) - 1
      BY <2>1, Settled
    <2> QED BY <1>3, <2>3, <2>4, <2>5 DEF AppendLink, SizeInv
  <1>4. CASE AppendStore
    <2>1. \A k \in Conns : tpc[k] # "store"
      BY <1>4, Settled DEF AppendStore
    <2>2. size' = size + 1 /\ size = Len(chain) - 2 /\ Len(chain) \in Nat
      BY <1>0, <1>4, PathFacts DEF AppendStore
    <2> QED BY <1>4, <2>1, <2>2 DEF AppendStore, SizeInv
  <1>5. CASE LocateTail
    BY <1>0, <1>5 DEF LocateTail, SizeInv
  <1>6. CASE Accept
    <2>1. /\ \A k \in Conns : tpc[k] # "store" /\ tpc'[k] # "store"
          /\ size = Len(chain) - 1
      BY <1>6, AcceptFacts, QuietFacts, CalmTypes
    <2> QED BY <1>6, <2>1, AcceptFacts DEF SizeInv
  <1>7. CASE Spin \/ Report
    BY <1>0, <1>7 DEF Spin, Report, SizeInv
  <1>8. CASE \E k \in Conns : HandlerStep(k)
    <2>1. PICK k \in Conns : HandlerStep(k)
      BY <1>8
    <2>2. /\ UNCHANGED mainVars
          /\ \A j \in Conns \ {k} : tpc'[j] = tpc[j] /\ treg'[j] = treg[j]
      BY <2>1, HandlerFrame
    <2>3. mpc = "store" => tpc[k] \in {"none", "start", "loop", "recv", "done"}
      BY Settled
    <2>4. tpc[k] \in {"unlink", "store"} => \A j \in Conns \ {k} : tpc[j] # "store"
      BY DEF IInv, DeleteExclusive
    <2>5. Len(chain) \in Nat /\ size \in Nat
      BY PathFacts
    <2>6. CASE tpc[k] = "unlink"
      <3>1. size' = size /\ treg'[k] = size /\ chain' = RemoveAt(chain, tpos[k])
            /\ tpos[k] \in 1..Len(chain) /\ mpc = "accept"
        BY <2>1, <2>6, HandlerList
      <3>2. Len(chain') = Len(chain) - 1
        BY <3>1, RemoveAtFacts, PathFacts
      <3>3. size = Len(chain) - 1
        BY <1>0, <2>4, <2>6, <3>1
      <3>4. tpc'[k] = "store"
        BY <2>1, <2>6, HandlerMoves
      <3> QED BY <2>2, <2>4, <2>6, <3>1, <3>2, <3>3, <3>4 DEF SizeInv
    <2>7. CASE tpc[k] = "store"
      <3>1. chain' = chain /\ size' = treg[k] - 1 /\ tpc'[k] = "done"
        BY <2>1, <2>7, HandlerList, HandlerMoves
      <3>2. treg[k] = size /\ size = Len(chain)
        BY <1>0, <2>7
      <3> QED BY <2>2, <2>3, <2>4, <2>5, <2>7, <3>1, <3>2 DEF SizeInv
    <2>8. CASE tpc[k] \notin {"unlink", "store"}
      <3>1. chain' = chain /\ size' = size /\ tpc'[k] # "store"
        BY <2>1, <2>8, HandlerList, HandlerMoves
      <3> QED BY <1>0, <2>2, <2>8, <3>1 DEF SizeInv
    <2> QED BY <2>6, <2>7, <2>8
  <1>9. CASE \E k \in Conns : HangUp(k)
    BY <1>0, <1>9 DEF HangUp, SizeInv
  <1> QED BY <1>1, <1>2, <1>3, <1>4, <1>5, <1>6, <1>7, <1>8, <1>9 DEF CalmStep

(* The thread of handler k moves on, and those of the others do not.       *)
LEMMA ThreadCalm ==
  ASSUME Calm, IInv, CalmInv, CalmStep
  PROVE  ThreadInv'
  <1>0. ThreadInv
    BY DEF CalmInv
  <1>1. CASE UNCHANGED <<chain, tpc, tcli, tsock, tpos, peer, closed, rec>>
    BY <1>0, <1>1 DEF ThreadInv, Listed
  <1>2. CASE AppendLink
    <2>1. /\ UNCHANGED <<tpc, tcli, tsock, tpos, peer, closed, rec>>
          /\ \A k \in Conns : tpc[k] # "unlink"
      BY <1>2, Settled DEF AppendLink
    <2> QED BY <1>0, <2>1 DEF ThreadInv, Listed
  <1>3. CASE Accept
    <2>1. \A k \in Conns : tpc'[k] = (IF k = appends THEN "start" ELSE tpc[k])
      BY <1>3, AcceptFacts, CalmTypes
    <2>2. \A k \in Conns : peer'[k] = (IF k = appends THEN "open" ELSE peer[k])
      BY <1>3, AcceptFacts, CalmTypes
    <2>3. \A k \in Conns : k # appends => rec'[k] = rec[k]
      BY <1>3, AcceptFacts, CalmTypes
    <2>4. /\ rec'[appends].sock = appends /\ rec'[appends].thread = appends
          /\ rec'[appends].connected
      BY <1>3, AcceptFacts, CalmTypes
    <2>5. UNCHANGED <<chain, tcli, tsock, tpos, closed>> /\ appends \in Conns
          /\ tpc[appends] = "none"
      BY <1>3, AcceptFacts
    <2>6. ASSUME NEW k \in Conns, k # appends
          PROVE  /\ tpc'[k] = tpc[k] /\ peer'[k] = peer[k] /\ rec'[k] = rec[k]
                 /\ k \in Listed' <=> k \in Listed
      BY <2>1, <2>2, <2>3, <2>6 DEF Listed
    <2>7. closed[appends] = 0
      BY <1>0, <2>5 DEF ThreadInv
    <2> QED BY <1>0, <2>1, <2>2, <2>4, <2>5, <2>6, <2>7 DEF ThreadInv
  <1>4. CASE \E k \in Conns : HandlerStep(k)
    <2>1. PICK k \in Conns : HandlerStep(k)
      BY <1>4
    <2>2. /\ peer' = peer
          /\ \A j \in Conns \ {k} :
              /\ tpc'[j] = tpc[j] /\ tcli'[j] = tcli[j] /\ tsock'[j] = tsock[j]
              /\ tpos'[j] = tpos[j] /\ closed'[j] = closed[j]
      BY <2>1, HandlerFrame
    <2>3. \A j \in Conns :
              /\ rec'[j].sock = rec[j].sock /\ rec'[j].thread = rec[j].thread
              /\ j # k => rec'[j].connected = rec[j].connected
      BY <2>1, HandlerFrame, CalmTypes
    <2>4. \A j \in Conns \ {k} : tpc[j] = "unlink" => chain' = chain
      <3>1. \A j \in Conns \ {k} : tpc[j] = "unlink" => tpc[k] # "unlink"
        BY DEF IInv, DeleteExclusive
      <3> QED BY <2>1, <3>1, HandlerList
    <2>5. ASSUME NEW j \in Conns, j # k
          PROVE  j \in Listed' <=> j \in Listed
      BY <2>2, <2>5 DEF Listed
    <2>6. tpc[k] # "unlink" => chain' = chain
      BY <2>1, HandlerList
    <2>7. k \in Listed' => k \in Listed
      BY <2>1, HandlerFrame, HandlerMoves DEF Listed
    <2>8. ASSUME NEW j \in Conns, j # k
          PROVE  /\ peer'[j] = "away" <=> tpc'[j] = "none"
                 /\ tpc'[j] \in {"close", "lock", "unlink", "store", "done"} => peer'[j] = "gone"
                 /\ tpc'[j] \notin {"none", "start"} => tcli'[j] = j
                 /\ tpc'[j] = "recv" => tsock'[j] = j
                 /\ j \in Listed' => rec'[j].sock = j /\ rec'[j].thread = j
                 /\ j \in Listed' /\ ~rec'[j].connected => peer'[j] = "gone"
                 /\ closed'[j] = IF tpc'[j] \in {"lock", "unlink", "store", "done"} THEN 1 ELSE 0
                 /\ tpc'[j] = "unlink" => chain'[tpos'[j]] = j
      BY <1>0, <2>2, <2>3, <2>4, <2>5, <2>8 DEF ThreadInv
    <2>9. /\ peer'[k] = "away" <=> tpc'[k] = "none"
          /\ tpc'[k] \in {"close", "lock", "unlink", "store", "done"} => peer'[k] = "gone"
          /\ tpc'[k] \notin {"none", "start"} => tcli'[k] = k
          /\ tpc'[k] = "recv" => tsock'[k] = k
          /\ closed'[k] = IF tpc'[k] \in {"lock", "unlink", "store", "done"} THEN 1 ELSE 0
          /\ tpc'[k] = "unlink" => chain'[tpos'[k]] = k
      <3>1. /\ peer[k] = "away" <=> tpc[k] = "none"
            /\ tpc[k] \in {"close", "lock", "unlink", "store", "done"} => peer[k] = "gone"
            /\ closed[k] = IF tpc[k] \in {"lock", "unlink", "store", "done"} THEN 1 ELSE 0
            /\ tpc[k] # "none"
        BY <1>0, <2>1, HandlerFrame DEF ThreadInv
      <3> QED BY <2>1, <2>2, <2>6, <3>1, HandlerMoves
    <2>10. k \in Listed' => rec'[k].sock = k /\ rec'[k].thread = k
      BY <1>0, <2>3, <2>7 DEF ThreadInv
    <2>11. k \in Listed' /\ ~rec'[k].connected => peer'[k] = "gone"
      <3>1. tpc[k] \in {"close", "lock", "unlink", "store", "done"} => peer[k] = "gone"
        BY <1>0 DEF ThreadInv
      <3>2. k \in Listed' => tpc'[k] \notin {"store", "done"}
        BY DEF Listed
      <3> QED BY <2>1, <2>2, <3>1, <3>2, HandlerMoves
    <2> QED BY <2>8, <2>9, <2>10, <2>11 DEF ThreadInv
  <1>5. CASE \E k \in Conns : HangUp(k)
    <2>1. PICK k \in Conns : HangUp(k)
      BY <1>5
    <2>2. /\ peer[k] = "open" /\ peer' = [peer EXCEPT ![k] = "gone"]
          /\ UNCHANGED <<chain, tpc, tcli, tsock, tpos, closed, rec>>
      BY <2>1 DEF HangUp
    <2>3. \A j \in Conns : /\ peer'[j] = "away" <=> peer[j] = "away"
                           /\ peer[j] = "gone" => peer'[j] = "gone"
      BY <2>2, CalmTypes
    <2> QED BY <1>0, <2>2, <2>3 DEF ThreadInv, Listed
  <1>6. Listen \/ AppendTraverse \/ AppendStore \/ LocateTail \/ Spin \/ Report =>
          UNCHANGED <<chain, tpc, tcli, tsock, tpos, peer, closed, rec>>
    BY DEF Listen, AppendTraverse, AppendStore, LocateTail, Spin, Report
  <1> QED BY <1>1, <1>2, <1>3, <1>4, <1>5, <1>6 DEF CalmStep

(* Only accept gives a record to a thread.                                 *)
LEMMA UnusedCalm ==
  ASSUME Calm, IInv, CalmInv, CalmStep
  PROVE  UnusedInv'
  <1>0. \A r \in Records : (r \in Conns => tpc[r] = "none") => rec[r].thread = 0
    BY DEF CalmInv, UnusedInv
  <1>1. CASE UNCHANGED <<tpc, rec>>
    BY <1>0, <1>1 DEF UnusedInv
  <1>2. CASE Accept
    <2>1. tpc'[appends] = "start" /\ appends \in Conns
          /\ \A r \in Records : r # appends => rec'[r] = rec[r]
          /\ \A j \in Conns : j # appends => tpc'[j] = tpc[j]
      BY <1>2, AcceptFacts, CalmTypes
    <2> QED BY <1>0, <2>1 DEF UnusedInv
  <1>3. CASE \E k \in Conns : HandlerStep(k)
    <2>1. PICK k \in Conns : HandlerStep(k)
      BY <1>3
    <2>2. /\ \A r \in Records : rec'[r].thread = rec[r].thread
          /\ \A j \in Conns : tpc'[j] = "none" => tpc[j] = "none"
      BY <2>1, HandlerFrame, HandlerMoves
    <2> QED BY <1>0, <2>2 DEF UnusedInv
  <1>4. Listen \/ AppendTraverse \/ AppendLink \/ AppendStore \/ LocateTail \/ Spin \/ Report =>
          UNCHANGED <<tpc, rec>>
    BY DEF Listen, AppendTraverse, AppendLink, AppendStore, LocateTail, Spin, Report
  <1>5. (\E k \in Conns : HangUp(k)) => UNCHANGED <<tpc, rec>>
    BY DEF HangUp
  <1> QED BY <1>1, <1>2, <1>3, <1>4, <1>5 DEF CalmStep

(* Main appends the sentinel's successor, a handler takes its record off.  *)
LEMMA PathCalm ==
  ASSUME Calm, IInv, CalmInv, CalmStep
  PROVE  PathInv'
  <1> DEFINE S == Listed \cup Pending \cup {appends + 1}
  <1>0. /\ Ascending(chain, S)
        /\ elem = [n \in Nodes |-> IF n <= appends THEN n ELSE Unset]
        /\ \A r \in freed : r \in Conns /\ tpc[r] \in {"store", "done"}
    BY DEF CalmInv, PathInv
  <1>1. ASSUME UNCHANGED <<chain, elem, freed, appends>>, S' = S,
               \A j \in Conns : tpc[j] \in {"store", "done"} => tpc'[j] \in {"store", "done"}
        PROVE  PathInv'
    BY <1>0, <1>1 DEF PathInv
  <1>2. CASE Listen \/ AppendTraverse \/ AppendStore \/ LocateTail \/ Spin \/ Report
    <2>1. UNCHANGED <<chain, elem, freed, appends, tpc>>
      BY <1>2 DEF Listen, AppendTraverse, AppendStore, LocateTail, Spin, Report
    <2>2. Pending' = Pending
      BY <1>2 DEF Listen, AppendTraverse, AppendStore, LocateTail, Spin, Report, Pending
    <2>3. S' = S
      BY <2>1, <2>2 DEF Listed
    <2> QED BY <1>1, <2>1, <2>3
  <1>3. CASE AppendLink
    <2>1. mpc = "link" /\ mpc' = "store" /\ mtail = chain[Len(chain)] /\ chain # <<>>
          /\ mtail = appends + 1 /\ mtail \in Nodes /\ appends \in Nat
      BY <1>3, PathFacts DEF AppendLink, CalmInv, MainInv
    <2>2. /\ chain' = Append(chain, appends + 2) /\ appends' = appends + 1
          /\ elem' = [elem EXCEPT ![mtail] = appends + 1]
          /\ UNCHANGED <<freed, tpc>>
      BY <1>3, <2>1 DEF AppendLink, LinkBehind, Last
    <2>3. S = Listed \cup {appends + 1} /\ S' = S \cup {appends + 2}
      BY <2>1, <2>2 DEF Listed, Pending
    <2>4. \A x \in S : x < appends + 2
      BY <2>1, <2>3, PathFacts
    <2>5. Ascending(chain', S')
      <3>1. chain \in Seq(Nat) /\ appends + 2 \in Nat
        BY <2>1, PathFacts
      <3> HIDE DEF S
      <3> QED BY <1>0, <2>2, <2>3, <2>4, <3>1, AscendingAppend
    <2>6. elem' = [n \in Nodes |-> IF n <= appends + 1 THEN n ELSE Unset]
      <3>1. ASSUME NEW n \in Nodes
            PROVE  elem'[n] = IF n <= appends + 1 THEN n ELSE Unset
        <4>1. n \in Nat
          BY DEF Nodes
        <4>2. elem[n] = IF n <= appends THEN n ELSE Unset
          BY <1>0
        <4>3. elem'[n] = IF n = appends + 1 THEN appends + 1 ELSE elem[n]
          BY <1>0, <2>1, <2>2
        <4> QED BY <2>1, <4>1, <4>2, <4>3
      <3>2. elem' \in [Nodes -> Nodes \cup {Unset}]
        BY <1>0, <2>1, <2>2
      <3> QED BY <3>1, <3>2
    <2> QED BY <1>0, <2>2, <2>5, <2>6 DEF PathInv
  <1>4. CASE Accept
    <2>1. /\ UNCHANGED <<chain, elem, freed, appends>> /\ mpc = "accept" /\ mpc' = "spin"
          /\ tpc[appends] = "none" /\ tpc'[appends] = "start" /\ appends \in Conns
          /\ \A j \in Conns : j # appends => tpc'[j] = tpc[j]
      BY <1>4, AcceptFacts, CalmTypes
    <2>2. S' = S
      BY <2>1 DEF Listed, Pending
    <2> QED BY <1>1, <2>1, <2>2
  <1>5. CASE \E k \in Conns : HandlerStep(k)
    <2>1. PICK k \in Conns : HandlerStep(k)
      BY <1>5
    <2>2. /\ UNCHANGED <<elem, appends, mpc>> /\ Pending' = Pending
          /\ \A j \in Conns \ {k} : tpc'[j] = tpc[j]
      BY <2>1, HandlerFrame DEF Pending
    <2>3. tpc[k] = "store" => tpc'[k] = "done"
      BY <2>1, HandlerMoves
    <2>4. CASE tpc[k] # "unlink"
      <3>1. Listed' = Listed
        <4>1. k \in Listed' <=> k \in Listed
          BY <2>1, <2>4, HandlerFrame, HandlerMoves DEF Listed
        <4> QED BY <2>2, <4>1 DEF Listed
      <3>2. UNCHANGED <<chain, freed>>
        BY <2>1, <2>4, HandlerList
      <3>3. \A j \in Conns : tpc[j] \in {"store", "done"} => tpc'[j] \in {"store", "done"}
        BY <2>1, <2>2, <2>3, HandlerFrame
      <3> QED BY <1>1, <2>2, <3>1, <3>2, <3>3
    <2>5. CASE tpc[k] = "unlink"
      <3>1. /\ mpc = "accept" /\ k \in Listed
            /\ tpos[k] \in 1..Len(chain) /\ chain[tpos[k]] = k
            /\ chain' = RemoveAt(chain, tpos[k]) /\ freed' \subseteq freed \cup {k}
            /\ tpc'[k] = "store"
        BY <2>1, <2>5, HandlerList, HandlerMoves
      <3>2. S' = S \ {k}
        <4>1. Listed' = Listed \ {k}
          BY <2>2, <3>1 DEF Listed
        <4>2. k \notin Pending /\ k # appends + 1
          <5>1. k < appends /\ k \in Nat /\ appends \in Nat
            BY <3>1, PathFacts DEF Appended
          <5> QED BY <5>1 DEF Pending
        <4> QED BY <2>2, <4>1, <4>2
      <3>3. Ascending(chain', S')
        <4>1. chain \in Seq(Nat)
          BY PathFacts
        <4> HIDE DEF S
        <4> QED BY <1>0, <3>1, <3>2, <4>1, AscendingRemove
      <3>4. \A r \in freed' : r \in Conns /\ tpc'[r] \in {"store", "done"}
        BY <1>0, <2>2, <3>1
      <3> QED BY <1>0, <2>2, <3>3, <3>4 DEF PathInv
    <2> QED BY <2>4, <2>5
  <1>6. CASE \E k \in Conns : HangUp(k)
    <2>1. UNCHANGED <<chain, elem, freed, appends, tpc, mpc>>
      BY <1>6 DEF HangUp
    <2>2. S' = S
      BY <2>1 DEF Listed, Pending
    <2> QED BY <1>1, <2>1, <2>2
  <1> QED BY <1>2, <1>3, <1>4, <1>5, <1>6 DEF CalmStep

(* An id is given when the list is settled, and positions of those who     *)
(* stay do not change.                                                     *)
LEMMA LeaveCalm ==
  ASSUME Calm, IInv, CalmInv, CalmStep
  PROVE  LeaveInv'
  <1>0. /\ world = "oldest" =>
             \A j \in Leaving : \A k \in Conns \ {j} :
               tpc[k] \notin {"none", "done"} => j < k /\ peer[k] = "open"
        /\ world = "newest" =>
             /\ \A j, k \in Listed : j < k => rec[j].id < rec[k].id
             /\ \A j, k \in Listed : j < k /\ peer[k] = "open" => peer[j] = "open"
             /\ \A p \in 1..Len(chain) :
                  chain[p] \in Listed /\ peer[chain[p]] = "open" => rec[chain[p]].id = p
    BY DEF CalmInv, LeaveInv
  <1>1. CASE UNCHANGED <<world, chain, tpc, peer, rec>>
    BY <1>0, <1>1 DEF LeaveInv, Listed, Leaving
  <1>2. CASE AppendLink
    <2>1. UNCHANGED <<world, tpc, peer, rec>> /\ Listed' = Listed /\ Leaving' = Leaving
      BY <1>2 DEF AppendLink, Listed, Leaving
    <2>2. mpc = "link" /\ mtail = chain[Len(chain)] /\ chain # <<>>
      BY <1>2, PathFacts DEF AppendLink, CalmInv, MainInv
    <2>3. chain' = Append(chain, appends + 2)
      BY <1>2, <2>2 DEF AppendLink, LinkBehind, Last
    <2>4. /\ Len(chain') = Len(chain) + 1 /\ Len(chain) \in Nat /\ appends \in Nat
          /\ \A p \in 1..Len(chain) : chain'[p] = chain[p]
          /\ chain'[Len(chain) + 1] = appends + 2
      BY <2>3, PathFacts
    <2>5. appends + 2 \notin Listed
      BY <2>4, PathFacts
    <2>6. \A p \in 1..Len(chain') : chain'[p] \in Listed => p \in 1..Len(chain)
      BY <2>4, <2>5
    <2> QED BY <1>0, <2>1, <2>4, <2>6 DEF LeaveInv
  <1>3. CASE Accept
    <2>1. /\ appends \in Conns /\ mpc = "accept" /\ UNCHANGED <<world, chain>>
          /\ \A k \in Conns : k # appends =>
               tpc'[k] = tpc[k] /\ peer'[k] = peer[k] /\ rec'[k] = rec[k]
          /\ peer'[appends] = "open" /\ rec'[appends].id = size /\ tpc'[appends] = "start"
      BY <1>3, AcceptFacts, CalmTypes
    <2>2. Leaving = {} /\ size = Len(chain) - 1 /\ \A k \in Listed : peer[k] = "open"
      BY <1>3, AcceptFacts, QuietFacts
    <2>3. Leaving' = {}
      BY <2>1, <2>2 DEF Leaving
    <2>4. Listed' = Listed \cup {appends} /\ Listed \subseteq Conns
      BY <2>1 DEF Listed
    <2>5. /\ \A k \in Listed : k < appends /\ k \in Nat
          /\ appends \in Nat /\ Len(chain) \in Nat /\ size \in 1..Len(chain)
          /\ chain[size] = appends
          /\ \A p, q \in 1..Len(chain) : p < q => chain[p] < chain[q]
      BY <2>1, <2>2, PathFacts DEF Appended
    <2>6. \A k \in Listed' : peer'[k] = "open"
      BY <2>1, <2>2, <2>4
    <2>7. CASE world = "oldest"
      BY <2>1, <2>3, <2>7 DEF LeaveInv
    <2>8. CASE world = "newest"
      <3>1. ASSUME NEW k \in Listed
            PROVE  rec'[k] = rec[k] /\ \E p \in 1..(size - 1) : rec[k].id = p
        <4>1. PICK p \in 1..Len(chain) : chain[p] = k
          BY PathFacts
        <4>2. k < appends /\ k \in Nat /\ k # appends
          BY <2>5
        <4>3. ~(size < p) /\ p # size
          BY <2>5, <4>1, <4>2
        <4>4. p \in 1..(size - 1)
          BY <2>5, <4>1, <4>3
        <4>5. rec[k].id = p
          BY <1>0, <2>2, <2>8, <4>1
        <4> QED BY <2>1, <2>4, <4>2, <4>4, <4>5
      <3>2. \A j, k \in Listed' : j < k => rec'[j].id < rec'[k].id
        <4> SUFFICES ASSUME NEW j \in Listed', NEW k \in Listed', j < k
                     PROVE  rec'[j].id < rec'[k].id
          OBVIOUS
        <4>1. j \in Listed
          BY <2>4, <2>5
        <4>2. CASE k = appends
          BY <2>1, <2>5, <3>1, <4>1, <4>2
        <4>3. CASE k \in Listed
          BY <1>0, <2>8, <3>1, <4>1, <4>3
        <4> QED BY <2>4, <4>2, <4>3
      <3>3. ASSUME NEW p \in 1..Len(chain), chain[p] \in Listed'
            PROVE  rec'[chain[p]].id = p
        <4>1. CASE chain[p] = appends
          <5>1. ~(p < size) /\ ~(size < p)
            BY <2>5, <4>1
          <5>2. p = size
            BY <2>5, <5>1
          <5> QED BY <2>1, <4>1, <5>2
        <4>2. CASE chain[p] \in Listed
          BY <1>0, <2>2, <2>8, <3>1, <4>2
        <4> QED BY <2>4, <3>3, <4>1, <4>2
      <3> QED BY <2>1, <2>6, <2>8, <3>2, <3>3 DEF LeaveInv
    <2>9. world \in {"oldest", "newest"}
      BY ServerAssumption DEF Calm, IInv, TypeOK
    <2> QED BY <2>7, <2>8, <2>9
  <1>4. CASE \E k \in Conns : HandlerStep(k)
    <2>1. PICK k \in Conns : HandlerStep(k)
      BY <1>4
    <2>2. /\ UNCHANGED <<world, peer>> /\ \A j \in Conns \ {k} : tpc'[j] = tpc[j]
          /\ tpc[k] \notin {"none", "done"}
      BY <2>1, HandlerFrame
    <2>3. \A j \in Conns : rec'[j].id = rec[j].id
      BY <2>1, HandlerFrame, CalmTypes
    <2>4. Leaving' \subseteq Leaving /\ Listed' \subseteq Listed /\ Listed \subseteq Conns
      <3>1. k \in Listed' => k \in Listed
        BY <2>1, <2>2, HandlerMoves DEF Listed
      <3> QED BY <2>2, <3>1 DEF Leaving, Listed
    <2>5. \A j \in Conns : tpc'[j] \notin {"none", "done"} => tpc[j] \notin {"none", "done"}
      BY <2>2
    <2>6. CASE world = "oldest"
      BY <1>0, <2>2, <2>4, <2>5, <2>6 DEF LeaveInv
    <2>7. CASE world = "newest"
      <3>1. /\ \A j, i \in Listed' : j < i => rec'[j].id < rec'[i].id
            /\ \A j, i \in Listed' : j < i /\ peer'[i] = "open" => peer'[j] = "open"
        BY <1>0, <2>2, <2>3, <2>4, <2>7
      <3>2. ASSUME NEW p \in 1..Len(chain'), chain'[p] \in Listed', peer'[chain'[p]] = "open"
            PROVE  rec'[chain'[p]].id = p
        <4>1. CASE chain' = chain
          BY <1>0, <2>2, <2>3, <2>4, <2>7, <3>2, <4>1
        <4>2. CASE chain' # chain
          <5>1. /\ tpc[k] = "unlink" /\ k \in Listed
                /\ tpos[k] \in 1..Len(chain) /\ chain[tpos[k]] = k
                /\ chain' = RemoveAt(chain, tpos[k])
            BY <2>1, <4>2, HandlerList
          <5>2. chain \in Seq(Nat) /\ Len(chain) \in Nat
            BY PathFacts
          <5>3. /\ Len(chain') = Len(chain) - 1
                /\ chain'[p] = IF p < tpos[k] THEN chain[p] ELSE chain[p + 1]
            BY <3>2, <5>1, <5>2, RemoveAtFacts
          <5>4. peer[k] = "gone"
            BY <5>1 DEF CalmInv, ThreadInv
          <5>5. CASE p < tpos[k]
            <6>1. p \in 1..Len(chain) /\ chain'[p] = chain[p]
              BY <5>2, <5>3, <5>5
            <6> QED BY <1>0, <2>2, <2>3, <2>4, <2>7, <3>2, <6>1
          <5>6. CASE ~(p < tpos[k])
            <6>1. p + 1 \in 1..Len(chain) /\ tpos[k] < p + 1 /\ chain'[p] = chain[p + 1]
              BY <5>1, <5>2, <5>3, <5>6
            <6>2. k < chain[p + 1]
              BY <5>1, <6>1, PathFacts
            <6>3. chain[p + 1] \in Listed /\ peer[chain[p + 1]] = "open"
              BY <2>2, <2>4, <3>2, <6>1
            <6>4. peer[k] = "open"
              BY <1>0, <2>7, <5>1, <6>2, <6>3
            <6> QED BY <5>4, <6>4
          <5> QED BY <5>5, <5>6
        <4> QED BY <4>1, <4>2
      <3> QED BY <2>2, <2>7, <3>1, <3>2 DEF LeaveInv
    <2>8. world \in {"oldest", "newest"}
      BY ServerAssumption DEF Calm, IInv, TypeOK
    <2> QED BY <2>6, <2>7, <2>8
  <1>5. CASE \E k \in Conns : HangUp(k)
    <2>1. PICK k \in Conns : HangUp(k)
      BY <1>5
    <2>2. /\ peer[k] = "open" /\ UNCHANGED <<world, chain, tpc, rec>>
          /\ \A j \in Conns : peer'[j] = IF j = k THEN "gone" ELSE peer[j]
          /\ Listed' = Listed /\ Listed \subseteq Conns
      BY <2>1, CalmTypes DEF HangUp, Listed
    <2>3. CASE world = "oldest"
      <3>1. Quiet /\ \A j \in 1..(k - 1) : peer[j] # "open"
        BY <2>1, <2>3 DEF HangUp
      <3>2. Leaving = {} /\ \A j \in Listed : peer[j] = "open"
        BY <3>1, QuietFacts
      <3>3. Leaving' \subseteq {k}
        BY <2>2, <3>2 DEF Leaving
      <3>4. ASSUME NEW j \in Conns, j # k, tpc[j] \notin {"none", "done"}
            PROVE  k < j /\ peer'[j] = "open"
        <4>1. j \in Listed
          BY <3>1, <3>4, QuietFacts DEF Listed
        <4>2. j \notin 1..(k - 1)
          BY <3>1, <3>2, <4>1
        <4>3. k < j
          BY <3>4, <4>2, ServerAssumption DEF Conns
        <4> QED BY <2>2, <3>2, <3>4, <4>1, <4>3
      <3> QED BY <2>2, <2>3, <3>3, <3>4 DEF LeaveInv
    <2>4. CASE world = "newest"
      <3>1. \A j \in (k + 1)..MaxConn : peer[j] # "open"
        BY <2>1, <2>4 DEF HangUp
      <3>2. \A j \in Conns : k < j => peer[j] # "open"
        BY <3>1, ServerAssumption DEF Conns
      <3>3. \A j, i \in Listed : j < i /\ peer'[i] = "open" => peer'[j] = "open"
        <4> SUFFICES ASSUME NEW j \in Listed, NEW i \in Listed, j < i, peer'[i] = "open"
                     PROVE  peer'[j] = "open"
          OBVIOUS
        <4>1. peer[i] = "open" /\ i # k
          BY <2>2
        <4>2. j # k
          BY <2>2, <3>2, <4>1
        <4>3. peer[j] = "open"
          BY <1>0, <2>4, <4>1
        <4> QED BY <2>2, <4>2, <4>3
      <3>4. \A j \in Conns : peer'[j] = "open" => peer[j] = "open"
        BY <2>2
      <3> QED BY <1>0, <2>2, <2>4, <3>3, <3>4 DEF LeaveInv
    <2>5. world \in {"oldest", "newest"}
      BY ServerAssumption DEF Calm, IInv, TypeOK
    <2> QED BY <2>3, <2>4, <2>5
  <1>6. Listen \/ AppendTraverse \/ AppendStore \/ LocateTail \/ Spin \/ Report =>
          UNCHANGED <<world, chain, tpc, peer, rec>>
    BY DEF Listen, AppendTraverse, AppendStore, LocateTail, Spin, Report
  <1> QED BY <1>1, <1>2, <1>3, <1>4, <1>5, <1>6 DEF CalmStep

-----------------------------------------------------------------------------
(* The three facts that make CalmInv an invariant.                         *)
LEMMA CalmStutter ==
  ASSUME CalmInv, UNCHANGED vars
  PROVE  CalmInv'
  <1>1. Listed' = Listed /\ Leaving' = Leaving /\ Pending' = Pending
    BY DEF Listed, Leaving, Pending
  <1>2. PathInv'
    BY <1>1 DEF CalmInv, PathInv
  <1>3. SizeInv' /\ MainInv'
    BY <1>1 DEF CalmInv, SizeInv, MainInv
  <1>4. ThreadInv' /\ UnusedInv'
    BY <1>1 DEF CalmInv, ThreadInv, UnusedInv
  <1>5. LeaveInv'
    BY <1>1 DEF CalmInv, LeaveInv
  <1> QED BY <1>2, <1>3, <1>4, <1>5 DEF CalmInv

(* The empty list after init_serv.                                         *)
LEMMA CalmInitially ==
  ASSUME Calm, Init
  PROVE  CalmInv
  <1>1. \A k \in Conns : tpc[k] = "none" /\ peer[k] = "away" /\ closed[k] = 0
    BY DEF Init
  <1>2. Listed = {} /\ Leaving = {} /\ Pending = {}
    BY <1>1 DEF Listed, Leaving, Pending, Init
  <1>3. PathInv
    <2>1. chain = <<1>> /\ appends = 0 /\ freed = {}
      BY DEF Init
    <2>2. Len(chain) = 1 /\ Range(chain) = {1}
      BY <2>1 DEF Range
    <2>3. Ascending(chain, Listed \cup Pending \cup {appends + 1})
      BY <1>2, <2>1, <2>2 DEF Ascending
    <2>4. \A n \in Nodes : ~(n <= 0)
      BY ServerAssumption DEF Nodes
    <2>5. elem = [n \in Nodes |-> IF n <= appends THEN n ELSE Unset]
      BY <2>1, <2>4 DEF Init
    <2> QED BY <2>1, <2>3, <2>5 DEF PathInv
  <1>4. SizeInv
    <2>1. size = 0 /\ Len(chain) = 1 /\ mpc = "listen"
      BY DEF Init
    <2> QED BY <1>1, <2>1 DEF SizeInv
  <1>5. MainInv
    BY <1>2 DEF MainInv, Init
  <1>6. ThreadInv
    BY <1>1, <1>2 DEF ThreadInv
  <1>7. UnusedInv
    BY DEF Init, UnusedInv
  <1>8. LeaveInv
    <2>1. \A p \in 1..Len(chain) : chain[p] \notin Listed
      BY <1>2
    <2> QED BY <1>2, <2>1 DEF LeaveInv
  <1> QED BY <1>3, <1>4, <1>5, <1>6, <1>7, <1>8 DEF CalmInv

(* Every step keeps the six parts.                                         *)
LEMMA CalmInductive ==
  ASSUME Calm, IInv, CalmInv, [Next]_vars
  PROVE  CalmInv'
  <1>1. CASE CalmStep
    BY <1>1, PathCalm, SizeCalm, MainCalm, ThreadCalm, UnusedCalm, LeaveCalm DEF CalmInv
  <1>2. CASE UNCHANGED vars
    BY <1>2, CalmStutter
  <1> QED BY <1>1, <1>2, OnlyCalmSteps

(* In a calm environment, the list is the clients that are connected or    *)
(* leaving, in the order of their arrival, at every step of every thread.  *)
THEOREM CalmInvariance ==
  ASSUME Calm
  PROVE  Spec => []CalmInv
  <1>1. Init => CalmInv
    BY CalmInitially
  <1>2. IInv /\ CalmInv /\ [Next]_vars => CalmInv'
    BY CalmInductive
  <1> QED BY Invariance, <1>1, <1>2, PTL DEF Spec

-----------------------------------------------------------------------------
(* What follows from it                                                    *)

(* In a calm environment no thread ever reads or writes memory that was    *)
(* freed or not yet set, and delete_client always finds its client.        *)
THEOREM NothingGoesWrong ==
  ASSUME Calm
  PROVE  Spec => []NoFault
  <1>1. CalmInv => NoFault
    BY DEF CalmInv, MainInv, NoFault
  <1> QED BY CalmInvariance, <1>1, PTL

(* In a calm environment a handler closes the socket of its own client,    *)
(* after that client has hung up, and no other thread ever closes it.      *)
THEOREM OneClose ==
  ASSUME Calm
  PROVE  Spec => []ClosedOnce
  <1>1. CalmInv => ClosedOnce
    BY DEF CalmInv, ThreadInv, ClosedOnce
  <1> QED BY CalmInvariance, <1>1, PTL

(* When every thread waits, the path is the connected clients, the empty   *)
(* record and the sentinel.                                                *)
LEMMA QuietList ==
  ASSUME IInv, CalmInv, Quiet
  PROVE  ListMirrorsClients
  <1> DEFINE n == size - 1
             own(p) == rec[elem[chain[p]]].thread
  <1>1. /\ mpc = "accept" /\ size = Len(chain) - 1
        /\ \A k \in Conns : tpc[k] \in {"none", "recv", "done"}
        /\ \A k \in Listed : peer[k] = "open"
    BY QuietFacts
  <1>2. Listed = Connected
    <2>1. \A k \in Conns : tpc[k] = "done" => peer[k] # "open"
      <3>1. \A k \in Conns : tpc[k] = "done" => peer[k] = "gone"
        BY DEF CalmInv, ThreadInv
      <3> QED BY <3>1
    <2>2. \A k \in Conns : tpc[k] = "none" => peer[k] # "open"
      <3>1. \A k \in Conns : tpc[k] = "none" => peer[k] = "away"
        BY DEF CalmInv, ThreadInv
      <3> QED BY <3>1
    <2> QED BY <1>1, <2>1, <2>2 DEF Listed, Connected
  <1>3. Walkable(size) /\ \A p \in 1..size : elem[chain[p]] = chain[p]
    BY <1>1, WalkFacts DEF Appended
  <1>4. /\ Len(chain) \in Nat /\ size \in Nat
        /\ Len(chain) - 1 \in 1..Len(chain) /\ chain[Len(chain) - 1] = appends
        /\ chain[Len(chain)] = appends + 1
        /\ \A p \in 1..(Len(chain) - 2) : chain[p] \in Listed
        /\ \A p, q \in 1..Len(chain) : p < q => chain[p] < chain[q]
    BY <1>1, PathFacts DEF Appended
  <1>5. /\ size >= 1 /\ n \in Nat /\ Len(chain) = size + 1
        /\ \A p \in 1..n : p \in 1..size /\ p \in 1..Len(chain) /\ p \in 1..(Len(chain) - 2)
    BY <1>1, <1>4
  <1>6. ASSUME NEW p \in 1..n PROVE own(p) = chain[p] /\ chain[p] \in Connected
    <2>1. elem[chain[p]] = chain[p] /\ chain[p] \in Listed
      BY <1>3, <1>4, <1>5
    <2>2. rec[chain[p]].thread = chain[p]
      BY <2>1 DEF CalmInv, ThreadInv, Listed
    <2> QED BY <1>2, <2>1, <2>2
  <1>7. ASSUME NEW k \in Connected PROVE \E p \in 1..n : chain[p] = k
    <2>1. k \in Listed /\ k \in Nat /\ k < appends
      BY <1>1, <1>2, PathFacts DEF Appended
    <2>2. PICK p \in 1..Len(chain) : chain[p] = k
      BY <2>1, PathFacts
    <2>3. appends \in Nat
      BY PathFacts
    <2>4. p # Len(chain) /\ p # Len(chain) - 1
      BY <1>4, <2>1, <2>2, <2>3
    <2>5. p \in Nat /\ p >= 1 /\ p <= Len(chain) - 2
      BY <1>4, <2>4
    <2>6. n \in Nat /\ n = Len(chain) - 2
      BY <1>4, <1>5
    <2> HIDE DEF n
    <2>7. p \in 1..n
      BY <2>5, <2>6
    <2> QED BY <2>2, <2>7
  <1>8. elem[chain[size]] = mcli
    <2>1. size \in 1..size /\ chain[size] = appends
      BY <1>1, <1>4, <1>5
    <2>2. elem[chain[size]] = appends
      BY <1>3, <2>1
    <2> QED BY <1>1, <2>2 DEF CalmInv, MainInv
  <1>9. \A p, q \in 1..n : p < q => chain[p] < chain[q]
    BY <1>4, <1>5
  <1>10. \A k \in Connected : k \in Nat
    BY <1>2, PathFacts
  <1> HIDE DEF n, own
  <1>11. Cardinality(Connected) = n
    <2> DEFINE f == [p \in 1..n |-> chain[p]]
    <2>1. f \in [1..n -> Connected]
      BY <1>6
    <2>2. \A p, q \in 1..n : f[p] = f[q] => p = q
      <3>1. \A p, q \in 1..n : p < q => f[p] # f[q]
        BY <1>6, <1>9, <1>10
      <3>2. \A p, q \in 1..n : p < q \/ q < p \/ p = q
        BY <1>5
      <3> QED BY <3>1, <3>2
    <2>3. \A k \in Connected : \E p \in 1..n : f[p] = k
      BY <1>7
    <2> HIDE DEF f
    <2>4. f \in Bijection(1..n, Connected)
      BY <2>1, <2>2, <2>3 DEF Bijection, Injection, Surjection, IsInjective
    <2>5. ExistsBijection(1..n, Connected)
      BY <2>4 DEF ExistsBijection
    <2> QED BY <1>5, <2>5, FS_CountingElements
  <1>12. size = Cardinality(Connected) + 1
    BY <1>4, <1>11 DEF n
  <1>13. {own(p) : p \in 1..n} = Connected
    BY <1>6, <1>7
  <1>14. \A p, q \in 1..n : p < q => own(p) < own(q)
    BY <1>6, <1>9
  <1> QED BY <1>3, <1>5, <1>8, <1>12, <1>13, <1>14 DEF ListMirrorsClients, n, own

(* In a calm environment, whenever every thread waits, the client list is  *)
(* the connected clients in the order of their arrival, and the record     *)
(* that accept_and_create_client has prepared for the next one.            *)
THEOREM ListIsClients ==
  ASSUME Calm
  PROVE  Spec => []ListMirrorsClients
  <1>1. IInv /\ CalmInv => ListMirrorsClients
    BY QuietList DEF ListMirrorsClients
  <1> QED BY Invariance, CalmInvariance, <1>1, PTL

(* What the registry sees of the list: the path without the pending record *)
(* and the sentinel.                                                       *)
LEMMA PresentListed ==
  ASSUME IInv, CalmInv
  PROVE  Present = Listed
  <1>1. /\ \A k \in Listed : elem[k] = k
        /\ \A m \in Nodes : m > appends => elem[m] = Unset
        /\ \A m \in Nodes : m <= appends => elem[m] = m
    BY RecordFacts
  <1>2. Range(chain) = Listed \cup Pending \cup {appends + 1}
    BY DEF CalmInv, PathInv, Ascending
  <1>3. appends \in Nat /\ \A k \in Listed : k \in Conns /\ k \in Nat
    BY PathFacts
  <1>4. elem[appends + 1] = Unset
    <2>1. appends + 1 \in Nodes
      BY ServerAssumption DEF IInv, TypeOK, Nodes
    <2> QED BY <1>1, <1>3, <2>1
  <1>5. \A k \in Listed : elem[k] # Unset /\ rec[elem[k]].thread = k /\ k # 0
    <2>1. \A k \in Listed : rec[k].thread = k
      BY DEF CalmInv, ThreadInv, Listed
    <2>2. \A k \in Listed : k # 0
      BY ServerAssumption, <1>3 DEF Conns
    <2>3. \A k \in Listed : Valid(k)
      BY RecordFacts
    <2> QED BY <1>1, <2>1, <2>2, <2>3 DEF Valid
  <1>6. \A m \in Pending : rec[elem[m]].thread = 0
    <2> SUFFICES ASSUME NEW m \in Pending PROVE rec[elem[m]].thread = 0
      OBVIOUS
    <2>1. m = appends /\ mpc \in Appended
      BY DEF Pending, Appended
    <2>2. appends >= 1 /\ appends \in Records
      BY <1>3, <2>1, ServerAssumption DEF IInv, AppendInv, TypeOK, Records, Appended
    <2>3. elem[appends] = appends
      BY <2>1, <2>2, RecordFacts
    <2>4. appends \in Conns => tpc[appends] = "none"
      BY <1>3, <2>1 DEF IInv, AppendInv, Appended
    <2> QED BY <2>1, <2>2, <2>3, <2>4 DEF CalmInv, UnusedInv
  <1>7. Listed \subseteq Present
    <2>1. \A k \in Listed : k \in Range(chain)
      BY <1>2
    <2> QED BY <1>5, <2>1 DEF Present
  <1>8. Present \subseteq Listed
    <2> SUFFICES ASSUME NEW m \in Range(chain), elem[m] # Unset, rec[elem[m]].thread # 0
                 PROVE  rec[elem[m]].thread \in Listed
      BY DEF Present
    <2>1. m \in Listed
      BY <1>2, <1>4, <1>6
    <2> QED BY <1>5, <2>1
  <1> QED BY <1>7, <1>8

(* A step of the server is a step of the registry or none: accept connects *)
(* and registers, the unlinking of a record removes its client.            *)
LEMMA RegistryStep ==
  ASSUME Calm, IInv, CalmInv, [Next]_vars, Present = Listed, Present' = Listed'
  PROVE  [R!Next]_R!vars
  <1>1. CASE UNCHANGED vars
    <2>1. peer' = peer /\ Listed' = Listed
      BY <1>1 DEF Listed
    <2> QED BY <2>1 DEF R!vars
  <1>2. CASE Listen \/ AppendTraverse \/ AppendLink \/ AppendStore \/ LocateTail \/ Spin \/ Report
    <2>1. peer' = peer /\ tpc' = tpc
      BY <1>2 DEF Listen, AppendTraverse, AppendLink, AppendStore, LocateTail, Spin, Report
    <2>2. Listed' = Listed
      BY <2>1 DEF Listed
    <2> QED BY <2>1, <2>2 DEF R!vars
  <1>3. CASE Accept
    <2>1. /\ appends \in Conns /\ tpc[appends] = "none"
          /\ tpc' = [tpc EXCEPT ![appends] = "start"]
          /\ peer' = [peer EXCEPT ![appends] = "open"]
      BY <1>3, AcceptFacts
    <2>2. peer[appends] = "away"
      BY <2>1 DEF CalmInv, ThreadInv
    <2>3. Listed' = Listed \cup {appends}
      BY <2>1, CalmTypes DEF Listed
    <2>4. R!Connect(appends)
      BY <2>1, <2>2, <2>3 DEF R!Connect
    <2> QED BY <2>1, <2>4 DEF R!Next
  <1>4. CASE \E k \in Conns : HangUp(k)
    <2>1. PICK k \in Conns : HangUp(k)
      BY <1>4
    <2>2. Listed' = Listed
      BY <2>1 DEF HangUp, Listed
    <2>3. R!HangUp(k)
      BY <2>1, <2>2 DEF HangUp, R!HangUp
    <2> QED BY <2>3 DEF R!Next
  <1>5. CASE \E k \in Conns : HandlerStep(k)
    <2>1. PICK k \in Conns : HandlerStep(k)
      BY <1>5
    <2>2. peer' = peer /\ \A j \in Conns \ {k} : tpc'[j] = tpc[j]
      BY <2>1, HandlerFrame
    <2>3. \/ tpc[k] = "unlink" /\ tpc'[k] = "store"
          \/ tpc[k] = "store" /\ tpc'[k] = "done"
          \/ /\ tpc[k] \in {"start", "loop", "recv", "close", "lock"}
             /\ tpc'[k] \in {"loop", "recv", "close", "lock", "unlink"}
      BY <2>1, HandlerMoves
    <2>4. CASE tpc[k] = "unlink" /\ tpc'[k] = "store"
      <3>1. Listed' = Listed \ {k} /\ k \in Listed
        BY <2>2, <2>4 DEF Listed
      <3>2. peer[k] = "gone"
        BY <2>4 DEF CalmInv, ThreadInv
      <3>3. R!Remove(k)
        BY <2>2, <3>1, <3>2 DEF R!Remove
      <3> QED BY <3>3 DEF R!Next
    <2>5. CASE tpc[k] # "unlink"
      <3>1. Listed' = Listed
        BY <2>2, <2>3, <2>5 DEF Listed
      <3> QED BY <2>2, <3>1 DEF R!vars
    <2> QED BY <2>3, <2>4, <2>5
  <1> QED BY <1>1, <1>2, <1>3, <1>4, <1>5, OnlyCalmSteps DEF CalmStep

(* In a calm environment the list keeps the registry's promise: whoever    *)
(* connects is listed in the step of accept that lets it in, stays listed  *)
(* until it hangs up, and a departure takes away the record of the client  *)
(* that left and of no other.  (That it does so in the end is left to TLC.) *)
THEOREM RegistrySteps ==
  ASSUME Calm
  PROVE  Spec => R!Init /\ [][R!Next]_R!vars
  <1> DEFINE Same == Present = Listed
  <1>1. IInv /\ CalmInv => Same
    BY PresentListed
  <1>2. Init /\ Same => R!Init
    BY DEF Init, R!Init, Listed
  <1>3. IInv /\ CalmInv /\ Same /\ Same' /\ [Next]_vars => [R!Next]_R!vars
    BY RegistryStep
  <1> HIDE DEF Same
  <1> QED BY Invariance, CalmInvariance, <1>1, <1>2, <1>3, PTL DEF Spec

(* In a calm environment every connected client is listed, whatever the    *)
(* threads are in the middle of.                                           *)
THEOREM ConnectedAreListed ==
  ASSUME Calm
  PROVE  Spec => []R!OpenArePresent
  <1>1. IInv /\ CalmInv => R!OpenArePresent
    <2> SUFFICES ASSUME IInv, CalmInv PROVE R!OpenArePresent
      OBVIOUS
    <2>1. \A k \in Conns : peer[k] = "open" => k \in Listed
      <3> SUFFICES ASSUME NEW k \in Conns, peer[k] = "open" PROVE k \in Listed
        OBVIOUS
      <3>1. /\ peer[k] = "away" <=> tpc[k] = "none"
            /\ tpc[k] \in {"close", "lock", "unlink", "store", "done"} => peer[k] = "gone"
        BY DEF CalmInv, ThreadInv
      <3> QED BY <3>1 DEF Listed
    <2> QED BY <2>1, PresentListed DEF R!OpenArePresent
  <1> QED BY Invariance, CalmInvariance, <1>1, PTL
=============================================================================
