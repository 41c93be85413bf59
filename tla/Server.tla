------------------------------- MODULE Server -------------------------------
(***************************************************************************)
(* The accept loop and the handler threads of src/network/server/server.c. *)
(*                                                                         *)
(* The main thread runs serv_main: it appends an empty client record to    *)
(* the client list, blocks in accept, fills the record, starts a handler   *)
(* thread and spins until the thread has started.  A handler receives      *)
(* until its peer hangs up, closes the socket and deletes its record from  *)
(* the list under cli_list_lock.  Main appends WITHOUT that lock, so the   *)
(* two are modelled at the grain at which they touch the list: traversal,  *)
(* linking and the two halves of size++ and size-- are steps of their own. *)
(*                                                                         *)
(* The k-th call of create_new_client allocates record k and list node     *)
(* k+1, accepts connection k and starts thread k.  The first access to     *)
(* freed or never-set memory and the failed ASSERT stop the process        *)
(* (fault): what undefined behaviour does afterwards is not modelled.      *)
(***************************************************************************)
EXTENDS ListOps, FiniteSets

CONSTANTS
  MaxConn,   \* how many clients arrive in a behaviour (bound)
  StaleIds,  \* what the id field of a record may hold before it is set
  Worlds,    \* how the clients of a behaviour may come and go: in "any" way;
             \* one event after the other, the "oldest" client leaving first;
             \* the "newest" first, leaving together but not while one arrives
  Failures   \* the calls that may fail: "listen", "accept"

ASSUME ServerAssumption ==
  /\ MaxConn \in Nat \ {0}
  /\ StaleIds \subseteq Nat /\ StaleIds # {}
  /\ Worlds \subseteq {"any", "oldest", "newest"}
  /\ Failures \subseteq {"listen", "accept"}

Conns == 1..MaxConn          \* connections, and the threads that handle them
Records == 1..(MaxConn + 1)  \* client_t blocks, in the order of allocation
Nodes == 1..(MaxConn + 2)    \* list nodes, in the order of allocation
NoSocket == 0                \* sockfd -1, or a descriptor that is not open
Null == 0                    \* the NULL node

VARIABLES
  chain, elem, size, it,  \* serv.cli: list path, elem pointers, size, iterator
  rec,                    \* the client_t records
  freed,                  \* the records that list_delete has freed
  lock,                   \* cli_list_lock: the thread that holds it, or 0
  running, listening,     \* serv.running; the listening socket is open
  mpc, mtail, mreg, mcli, \* main: program counter, tail, loaded size, cli
  joinAt,                 \* main: the loop counter of wait_for_all_thread
  arg,                    \* the argument block on main's stack (its cli)
  appends,                \* how often main has appended
  tpc, tcli, tsock,       \* handlers: program counter, cli, socket received on
  tpos, treg,             \* handlers: position found, loaded size
  peer,                   \* the client's end of each connection
  closed,                 \* how often the server closed each connection
  world,                  \* the way of this behaviour's clients; never changes
  fault                   \* "none", or why the process has stopped

listVars == <<chain, elem, size, it>>
heapVars == <<rec, freed>>
mainVars == <<mpc, mtail, mreg, mcli, joinAt, arg, appends>>
servVars == <<running, listening, world>>
threadVars == <<tpc, tcli, tsock, tpos, treg>>
sockVars == <<peer, closed>>
vars == <<listVars, heapVars, lock, mainVars, servVars, threadVars, sockVars, fault>>

Client == [sock : Conns \cup {NoSocket}, id : Nat, connected : BOOLEAN,
           created : BOOLEAN, thread : Conns \cup {0}]

ListTypeOK ==
  /\ chain \in Seq(Nodes) /\ elem \in [Nodes -> Records \cup {Unset}]
  /\ size \in Nat /\ it \in Nodes \cup {Null}

HeapTypeOK == rec \in [Records -> Client] /\ freed \subseteq Records

MainTypeOK ==
  /\ running \in BOOLEAN /\ listening \in BOOLEAN
  /\ mpc \in {"listen", "traverse", "link", "store", "locate", "accept", "spin",
              "report", "wait", "join", "exit"}
  /\ mtail \in Nodes \cup {Null} /\ mreg \in Nat /\ joinAt \in Nat
  /\ mcli \in Records \cup {Unset} /\ arg \in Records \cup {Unset}
  /\ appends \in 0..(MaxConn + 1)

ThreadTypeOK ==
  /\ lock \in Conns \cup {0}
  /\ tpc \in [Conns -> {"none", "start", "loop", "recv", "close", "lock",
                        "unlink", "store", "done"}]
  /\ tcli \in [Conns -> Records \cup {Unset}]
  /\ tsock \in [Conns -> Conns \cup {NoSocket}]
  /\ tpos \in [Conns -> Nat] /\ treg \in [Conns -> Nat]

TypeOK ==
  /\ ListTypeOK /\ HeapTypeOK /\ MainTypeOK /\ ThreadTypeOK
  /\ peer \in [Conns -> {"away", "open", "gone"}]
  /\ closed \in [Conns -> Nat] /\ world \in Worlds
  /\ fault \in {"none", "memory", "assert"}

(* serv_main after init_serv (LIST_MAKE, the spinlock) and init_db.        *)
Init ==
  /\ chain = <<1>> /\ elem = [n \in Nodes |-> Unset] /\ size = 0 /\ it = 1
  /\ rec \in [Records -> [sock : {NoSocket}, id : StaleIds, connected : {FALSE},
                          created : {FALSE}, thread : {0}]]
  /\ freed = {} /\ lock = 0 /\ running = TRUE /\ listening = TRUE
  /\ mpc = "listen" /\ mtail = Null /\ mreg = 0 /\ mcli = Unset /\ joinAt = 0
  /\ arg = Unset /\ appends = 0
  /\ tpc = [k \in Conns |-> "none"] /\ tcli = [k \in Conns |-> Unset]
  /\ tsock = [k \in Conns |-> NoSocket]
  /\ tpos = [k \in Conns |-> 0] /\ treg = [k \in Conns |-> 0]
  /\ peer = [k \in Conns |-> "away"] /\ closed = [k \in Conns |-> 0]
  /\ world \in Worlds /\ fault = "none"

-----------------------------------------------------------------------------
(* Helpers                                                                 *)

(* A record that can be read and written.                                  *)
Valid(r) == r # Unset /\ r \notin freed

(* A node that is reachable from the head; the others were freed (when they *)
(* held an element) or leaked (a sentinel cut off the list).               *)
OnList(n) == n \in Range(chain)
NodeFreed(n) == ~OnList(n) /\ elem[n] # Unset

NextNode(n) ==
  IF n = Last(chain) THEN Null
  ELSE chain[1 + CHOOSE p \in DOMAIN chain : chain[p] = n]

(* A loop over the first n elements finds every node and every record.     *)
Walkable(n) == n <= Len(chain) /\ \A p \in 1..n : Valid(elem[chain[p]])

(* Every thread is blocked: main in accept, the handlers in recv.          *)
Quiet ==
  /\ mpc = "accept"
  /\ \A k \in Conns :
        \/ tpc[k] \in {"none", "done"}
        \/ tpc[k] = "recv" /\ tsock[k] # NoSocket /\ peer[tsock[k]] = "open"

(* deinit: close the sockets of the listed clients, whose records are rc,  *)
(* and the listening socket.  The iterator ends behind the last of them.   *)
Deinit(rc) ==
  /\ closed' = [s \in Conns |-> closed[s] +
                  Cardinality({p \in 1..size : rc[elem[chain[p]]].sock = s})]
  /\ it' = IF size < Len(chain) THEN chain[size + 1] ELSE Null
  /\ listening' = FALSE

-----------------------------------------------------------------------------
(* Main: accept_and_create_client                                          *)

(* listen succeeds, or the socket is as it was from an earlier call.       *)
Listen ==
  /\ mpc = "listen"
  /\ mpc' = "traverse"
  /\ UNCHANGED <<listVars, heapVars, lock, servVars, mtail, mreg, mcli, joinAt,
                 arg, appends, threadVars, sockVars, fault>>

(* After handle_err the code goes on to create a client all the same.      *)
ListenFails ==
  /\ mpc = "listen" /\ "listen" \in Failures /\ appends < MaxConn /\ Walkable(size)
  /\ Deinit(rec)
  /\ running' = FALSE
  /\ mpc' = "traverse"
  /\ UNCHANGED <<chain, elem, size, heapVars, lock, mtail, mreg, mcli, joinAt,
                 arg, appends, threadVars, peer, world, fault>>

(* list_append_none, without cli_list_lock, in three steps.                *)
AppendTraverse ==
  /\ mpc = "traverse" /\ chain # <<>>
  /\ mtail' = Last(chain)
  /\ mpc' = "link"
  /\ UNCHANGED <<listVars, heapVars, lock, servVars, mreg, mcli, joinAt, arg,
                 appends, threadVars, sockVars, fault>>

AppendLink ==
  /\ mpc = "link" /\ ~NodeFreed(mtail)
  /\ elem' = [elem EXCEPT ![mtail] = appends + 1]
  /\ chain' = LinkBehind(chain, mtail, appends + 2)
  /\ appends' = appends + 1
  /\ mreg' = size
  /\ mpc' = "store"
  /\ UNCHANGED <<size, it, heapVars, lock, servVars, mtail, mcli, joinAt, arg,
                 threadVars, sockVars, fault>>

AppendStore ==
  /\ mpc = "store"
  /\ size' = mreg + 1
  /\ mpc' = "locate"
  /\ UNCHANGED <<chain, elem, it, heapVars, lock, servVars, mtail, mreg, mcli,
                 joinAt, arg, appends, threadVars, sockVars, fault>>

(* Mutant of LocateTail: the index is size.                                *)
LocateBehindTail ==
  /\ mpc = "locate" /\ size + 1 <= Len(chain)
  /\ mcli' = elem[chain[size + 1]]
  /\ mpc' = "accept"
  /\ UNCHANGED <<listVars, heapVars, lock, servVars, mtail, mreg, joinAt, arg,
                 appends, threadVars, sockVars, fault>>

(* LIST_TAIL: the elem pointer at index size - 1, NULL if size is 0.       *)
LocateTail ==
  /\ mpc = "locate" /\ size <= Len(chain)
  /\ mcli' = IF size = 0 THEN Unset ELSE elem[chain[size]]
  /\ mpc' = "accept"
  /\ UNCHANGED <<listVars, heapVars, lock, servVars, mtail, mreg, joinAt, arg,
                 appends, threadVars, sockVars, fault>>

(* Mutant of StartHandler: the id is not set.                              *)
StartWithoutId(sock) ==
  /\ rec' = [rec EXCEPT ![mcli] = [sock |-> sock, id |-> rec[mcli].id,
                                   connected |-> TRUE, created |-> FALSE,
                                   thread |-> appends]]
  /\ arg' = mcli
  /\ tpc' = [tpc EXCEPT ![appends] = "start"]
  /\ mpc' = "spin"

(* The record of a new client, and its thread.  The id is the length of    *)
(* the list at this moment.                                                *)
StartHandler(sock) ==
  /\ rec' = [rec EXCEPT ![mcli] = [sock |-> sock, id |-> size, connected |-> TRUE,
                                   created |-> FALSE, thread |-> appends]]
  /\ arg' = mcli
  /\ tpc' = [tpc EXCEPT ![appends] = "start"]
  /\ mpc' = "spin"

Accept ==
  /\ mpc = "accept" /\ appends <= MaxConn /\ listening /\ Valid(mcli)
  /\ world # "any" => Quiet
  /\ peer' = [peer EXCEPT ![appends] = "open"]
  /\ StartHandler(appends)
  /\ UNCHANGED <<listVars, freed, lock, servVars, mtail, mreg, mcli, joinAt,
                 appends, tcli, tsock, tpos, treg, closed, fault>>

(* After handle_err the code starts a thread for the failed socket.        *)
AcceptFails ==
  /\ mpc = "accept" /\ appends <= MaxConn /\ Valid(mcli)
  /\ "accept" \in Failures \/ ~listening
  /\ Walkable(size)
  /\ Deinit([rec EXCEPT ![mcli].sock = NoSocket])
  /\ running' = FALSE
  /\ StartHandler(NoSocket)
  /\ UNCHANGED <<chain, elem, size, freed, lock, mtail, mreg, mcli, joinAt,
                 appends, tcli, tsock, tpos, treg, peer, world, fault>>

(* Mutant of Spin: main does not wait for the thread.                      *)
SpinTooShort ==
  /\ mpc = "spin" /\ Valid(mcli)
  /\ mpc' = "report"
  /\ UNCHANGED <<listVars, heapVars, lock, servVars, mtail, mreg, mcli, joinAt,
                 arg, appends, threadVars, sockVars, fault>>

(* while (!cli->thread_created)                                            *)
Spin ==
  /\ mpc = "spin" /\ Valid(mcli) /\ rec[mcli].created
  /\ mpc' = "report"
  /\ UNCHANGED <<listVars, heapVars, lock, servVars, mtail, mreg, mcli, joinAt,
                 arg, appends, threadVars, sockVars, fault>>

(* cli->id is printed: the record is read once more, and its thread may    *)
(* have freed it by now.  Then the frame with arg is gone.                 *)
Report ==
  /\ mpc = "report" /\ Valid(mcli)
  /\ arg' = Unset
  /\ \/ running /\ mpc' = "listen" /\ UNCHANGED <<it, joinAt>>
     \/ ~running /\ mpc' = "wait" /\ joinAt' = 1
        /\ it' = IF chain = <<>> THEN Null ELSE Head(chain)
  /\ UNCHANGED <<chain, elem, size, heapVars, lock, servVars, mtail, mreg, mcli,
                 appends, threadVars, sockVars, fault>>

-----------------------------------------------------------------------------
(* Main: wait_for_all_thread and the final deinit                          *)

PickThread ==
  /\ mpc = "wait" /\ joinAt < size /\ OnList(it) /\ Valid(elem[it])
  /\ mcli' = elem[it]
  /\ mpc' = "join"
  /\ UNCHANGED <<listVars, heapVars, lock, servVars, mtail, mreg, joinAt, arg,
                 appends, threadVars, sockVars, fault>>

(* pthread_join returns, and the iterator moves on from where it is NOW.   *)
JoinThread ==
  /\ mpc = "join" /\ tpc[rec[mcli].thread] = "done" /\ OnList(it)
  /\ it' = NextNode(it)
  /\ joinAt' = joinAt + 1
  /\ mpc' = "wait"
  /\ UNCHANGED <<chain, elem, size, heapVars, lock, servVars, mtail, mreg, mcli,
                 arg, appends, threadVars, sockVars, fault>>

Exit ==
  /\ mpc = "wait" /\ joinAt >= size /\ Walkable(size)
  /\ Deinit(rec)
  /\ mpc' = "exit"
  /\ UNCHANGED <<chain, elem, size, heapVars, lock, running, mtail, mreg, mcli,
                 joinAt, arg, appends, threadVars, peer, world, fault>>

-----------------------------------------------------------------------------
(* Handler thread k: handle_client_thread_func                             *)

(* It reads its argument from main's stack.                                *)
HandlerStart(k) ==
  /\ tpc[k] = "start" /\ Valid(arg)
  /\ tcli' = [tcli EXCEPT ![k] = arg]
  /\ rec' = [rec EXCEPT ![arg].created = TRUE]
  /\ tpc' = [tpc EXCEPT ![k] = "loop"]
  /\ UNCHANGED <<listVars, freed, lock, servVars, mainVars, tsock, tpos, treg,
                 sockVars, fault>>

(* while (cli->connected), and cli->sockfd is passed to packet_recv.       *)
HandlerLoop(k) ==
  /\ tpc[k] = "loop" /\ Valid(tcli[k])
  /\ \/ ~rec[tcli[k]].connected
        /\ tpc' = [tpc EXCEPT ![k] = "close"] /\ UNCHANGED tsock
     \/ rec[tcli[k]].connected
        /\ tpc' = [tpc EXCEPT ![k] = "recv"]
        /\ tsock' = [tsock EXCEPT ![k] = rec[tcli[k]].sock]
  /\ UNCHANGED <<listVars, heapVars, lock, servVars, mainVars, tcli, tpos, treg,
                 sockVars, fault>>

(* A packet arrives from the client.                                       *)
RecvPacket(k) ==
  /\ tpc[k] = "recv" /\ tsock[k] # NoSocket /\ peer[tsock[k]] = "open"
  /\ closed[tsock[k]] = 0
  /\ tpc' = [tpc EXCEPT ![k] = "loop"]
  /\ UNCHANGED <<listVars, heapVars, lock, servVars, mainVars, tcli, tsock, tpos,
                 treg, sockVars, fault>>

(* Mutant of RecvFails: connected stays set.                               *)
RecvKeepsConnected(k) ==
  /\ tpc[k] = "recv" /\ Valid(tcli[k])
  /\ tsock[k] # NoSocket => peer[tsock[k]] = "gone" \/ closed[tsock[k]] > 0
  /\ tpc' = [tpc EXCEPT ![k] = "loop"]
  /\ UNCHANGED <<listVars, heapVars, lock, servVars, mainVars, tcli, tsock, tpos,
                 treg, sockVars, fault>>

(* Mutant of RecvFails: the socket is closed here as well.                 *)
RecvCloses(k) ==
  /\ tpc[k] = "recv" /\ Valid(tcli[k])
  /\ tsock[k] # NoSocket /\ peer[tsock[k]] = "gone"
  /\ rec' = [rec EXCEPT ![tcli[k]].connected = FALSE]
  /\ closed' = [closed EXCEPT ![tsock[k]] = @ + 1]
  /\ tpc' = [tpc EXCEPT ![k] = "loop"]
  /\ UNCHANGED <<listVars, freed, lock, servVars, mainVars, tcli, tsock, tpos,
                 treg, peer, fault>>

(* The peer has hung up, or the descriptor is not one.                     *)
RecvFails(k) ==
  /\ tpc[k] = "recv" /\ Valid(tcli[k])
  /\ tsock[k] # NoSocket => peer[tsock[k]] = "gone" \/ closed[tsock[k]] > 0
  /\ rec' = [rec EXCEPT ![tcli[k]].connected = FALSE]
  /\ tpc' = [tpc EXCEPT ![k] = "loop"]
  /\ UNCHANGED <<listVars, freed, lock, servVars, mainVars, tcli, tsock, tpos,
                 treg, sockVars, fault>>

DisconnectCli(k) ==
  /\ tpc[k] = "close" /\ Valid(tcli[k])
  /\ rec' = [rec EXCEPT ![tcli[k]].connected = FALSE]
  /\ closed' = [s \in Conns |->
                  closed[s] + (IF s = rec[tcli[k]].sock THEN 1 ELSE 0)]
  /\ tpc' = [tpc EXCEPT ![k] = "lock"]
  /\ UNCHANGED <<listVars, freed, lock, servVars, mainVars, tcli, tsock, tpos,
                 treg, peer, fault>>

(* Mutant of FoundAt: any record with the id will do.                      *)
FoundAnywhere(k, p) ==
  /\ p \in 1..size /\ Walkable(p)
  /\ rec[elem[chain[p]]].id = rec[tcli[k]].id

(* Position p is where get_cli_index_by_id stops for thread k: the first   *)
(* listed record with the id of k's record.                                *)
FoundAt(k, p) ==
  /\ p \in 1..size /\ Walkable(p)
  /\ rec[elem[chain[p]]].id = rec[tcli[k]].id
  /\ \A q \in 1..(p - 1) : rec[elem[chain[q]]].id # rec[tcli[k]].id

(* Mutant of DeleteFind: it does not wait for the lock.                    *)
DeleteFindUnlocked(k) ==
  /\ tpc[k] = "lock" /\ Valid(tcli[k])
  /\ \E p \in 1..size :
       /\ FoundAt(k, p)
       /\ tpos' = [tpos EXCEPT ![k] = p]
       /\ it' = chain[p]
  /\ lock' = k
  /\ tpc' = [tpc EXCEPT ![k] = "unlink"]
  /\ UNCHANGED <<chain, elem, size, heapVars, servVars, mainVars, tcli, tsock,
                 treg, sockVars, fault>>

(* pthread_spin_lock, then the search of delete_client.                    *)
DeleteFind(k) ==
  /\ tpc[k] = "lock" /\ lock = 0 /\ Valid(tcli[k])
  /\ \E p \in 1..size :
       /\ FoundAt(k, p)
       /\ tpos' = [tpos EXCEPT ![k] = p]
       /\ it' = chain[p]
  /\ lock' = k
  /\ tpc' = [tpc EXCEPT ![k] = "unlink"]
  /\ UNCHANGED <<chain, elem, size, heapVars, servVars, mainVars, tcli, tsock,
                 treg, sockVars, fault>>

(* list_delete up to list->size--, whose two halves straddle this step and *)
(* the next.  It is not reached with size 0: main only adds to size after  *)
(* the search, and the branch for size 0 is in LinkedList.                 *)
DeleteUnlink(k) ==
  /\ tpc[k] = "unlink"
  /\ LET p == tpos[k]
     IN  /\ chain' = DeleteAt(chain, size, p)
         /\ freed' = IF FreesElement(p) THEN freed \cup {elem[chain[p]]} ELSE freed
  /\ treg' = [treg EXCEPT ![k] = size]
  /\ tpc' = [tpc EXCEPT ![k] = "store"]
  /\ UNCHANGED <<elem, size, it, rec, lock, servVars, mainVars, tcli, tsock, tpos,
                 sockVars, fault>>

(* Mutants of DeleteStore: size is decremented twice (as list_delete_all   *)
(* does), not at all, or the lock is not released.                         *)
DeleteStoreSize(k, n) ==
  /\ tpc[k] = "store"
  /\ size' = n
  /\ lock' = 0
  /\ tpc' = [tpc EXCEPT ![k] = "done"]
  /\ UNCHANGED <<chain, elem, it, heapVars, servVars, mainVars, tcli, tsock, tpos,
                 treg, sockVars, fault>>
DeleteStoreTwice(k) == DeleteStoreSize(k, treg[k] - 2)
DeleteStoreNothing(k) == DeleteStoreSize(k, treg[k])
DeleteStoreLocked(k) ==
  /\ tpc[k] = "store"
  /\ size' = treg[k] - 1
  /\ tpc' = [tpc EXCEPT ![k] = "done"]
  /\ UNCHANGED <<chain, elem, it, heapVars, lock, servVars, mainVars, tcli, tsock,
                 tpos, treg, sockVars, fault>>

(* size is stored; pthread_spin_unlock; the thread ends.                   *)
DeleteStore(k) ==
  /\ tpc[k] = "store"
  /\ size' = treg[k] - 1
  /\ lock' = 0
  /\ tpc' = [tpc EXCEPT ![k] = "done"]
  /\ UNCHANGED <<chain, elem, it, heapVars, servVars, mainVars, tcli, tsock, tpos,
                 treg, sockVars, fault>>

-----------------------------------------------------------------------------
(* The end of the process                                                  *)

(* The next step of main reads or writes memory that was freed or never    *)
(* set (a NULL or garbage pointer).                                        *)
MainStrays ==
  \/ mpc = "listen" /\ "listen" \in Failures /\ ~Walkable(size)
  \/ mpc = "traverse" /\ chain = <<>>
  \/ mpc = "link" /\ NodeFreed(mtail)
  \/ mpc = "locate" /\ size > Len(chain)
  \/ mpc = "accept" /\ appends <= MaxConn /\ ~Valid(mcli)
  \/ mpc = "accept" /\ ~listening /\ ~Walkable(size)
  \/ mpc \in {"spin", "report"} /\ ~Valid(mcli)
  \/ mpc = "wait" /\ joinAt < size /\ (~OnList(it) \/ ~Valid(elem[it]))
  \/ mpc = "wait" /\ joinAt >= size /\ ~Walkable(size)
  \/ mpc = "join" /\ tpc[rec[mcli].thread] = "done" /\ ~OnList(it)

(* The same for handler k: its own record, or the list it searches.        *)
HandlerStrays(k) ==
  \/ tpc[k] = "start" /\ ~Valid(arg)
  \/ tpc[k] \in {"loop", "close"} /\ ~Valid(tcli[k])
  \/ tpc[k] = "recv" /\ ~Valid(tcli[k])
     /\ (tsock[k] # NoSocket => peer[tsock[k]] = "gone" \/ closed[tsock[k]] > 0)
  \/ tpc[k] = "lock" /\ lock = 0
     /\ \/ ~Valid(tcli[k])
        \/ ~Walkable(size) /\ \A p \in 1..size : ~FoundAt(k, p)

(* ASSERT(cli_index != UINT32_MAX): the search of the whole list failed.   *)
NotFound(k) ==
  /\ tpc[k] = "lock" /\ lock = 0 /\ Valid(tcli[k]) /\ Walkable(size)
  /\ \A p \in 1..size : ~FoundAt(k, p)

Die(why) ==
  /\ fault' = why
  /\ UNCHANGED <<listVars, heapVars, lock, mainVars, servVars, threadVars, sockVars>>

-----------------------------------------------------------------------------
(* The clients                                                             *)

(* The client of connection k hangs up.                                    *)
HangUp(k) ==
  /\ peer[k] = "open"
  /\ world = "oldest" => Quiet /\ \A j \in 1..(k - 1) : peer[j] # "open"
  /\ world = "newest" =>
       mpc = "accept" /\ \A j \in (k + 1)..MaxConn : peer[j] # "open"
  /\ peer' = [peer EXCEPT ![k] = "gone"]
  /\ UNCHANGED <<listVars, heapVars, lock, mainVars, servVars, threadVars, closed,
                 fault>>

-----------------------------------------------------------------------------
MainStep ==
  \/ Listen \/ ListenFails \/ AppendTraverse \/ AppendLink \/ AppendStore
  \/ LocateTail \/ Accept \/ AcceptFails \/ Spin \/ Report
  \/ PickThread \/ JoinThread \/ Exit

HandlerStep(k) ==
  \/ HandlerStart(k) \/ HandlerLoop(k) \/ RecvPacket(k) \/ RecvFails(k)
  \/ DisconnectCli(k) \/ DeleteFind(k) \/ DeleteUnlink(k) \/ DeleteStore(k)

(* The process has stopped, or every thread waits for a client beyond the  *)
(* bound MaxConn.                                                          *)
Halted ==
  /\ \/ fault # "none" \/ mpc = "exit"
     \/ mpc = "accept" /\ appends > MaxConn /\ \A k \in Conns : tpc[k] \in {"none", "done"}
  /\ UNCHANGED vars

Running == fault = "none" /\ mpc # "exit"

Next ==
  \/ Running /\ MainStep
  \/ Running /\ MainStrays /\ Die("memory")
  \/ \E k \in Conns :
       \/ Running /\ HandlerStep(k)
       \/ Running /\ HandlerStrays(k) /\ Die("memory")
       \/ Running /\ NotFound(k) /\ Die("assert")
       \/ Running /\ HangUp(k)
  \/ Halted

Spec == Init /\ [][Next]_vars

(* Fairness: a thread that can run is scheduled in the end, and waits for  *)
(* nothing but a client, another thread's end or the lock.  No client has  *)
(* to come, to send or to leave, and no call has to fail.                  *)
MainRuns ==
  /\ Running
  /\ \/ Listen \/ AppendTraverse \/ AppendLink \/ AppendStore \/ LocateTail
     \/ Spin \/ Report \/ PickThread \/ JoinThread \/ Exit
     \/ ~listening /\ AcceptFails
     \/ MainStrays /\ Die("memory")

HandlerRuns(k) ==
  /\ Running
  /\ \/ HandlerStart(k) \/ HandlerLoop(k) \/ RecvFails(k) \/ DisconnectCli(k)
     \/ DeleteFind(k) \/ DeleteUnlink(k) \/ DeleteStore(k)
     \/ HandlerStrays(k) /\ Die("memory")
     \/ NotFound(k) /\ Die("assert")

FairSpec ==
  Spec /\ WF_vars(MainRuns) /\ \A k \in Conns : WF_vars(HandlerRuns(k))

-----------------------------------------------------------------------------
(* Properties of every environment                                         *)

(* A starting thread finds its own client in the argument block: main does *)
(* not leave or reuse that frame (create_new_client, lines 208-217) before *)
(* the thread has read it.                                                 *)
ThreadGetsItsClient ==
  \A k \in Conns : tpc[k] = "start" => arg # Unset /\ rec[arg].thread = k

(* One thread at a time is inside list_delete, and it holds cli_list_lock. *)
DeleteExclusive ==
  \A k \in Conns : tpc[k] \in {"unlink", "store"} <=> lock = k

(* Whoever takes the lock gives it back, unless the process dies.          *)
LockReleased ==
  \A k \in Conns : (lock = k) ~> (lock = 0 \/ ~Running)

(* The assertion of delete_client, "Client not found": a handler always    *)
(* finds a record with the id of its own in the list.                      *)
ClientFound == fault # "assert"

(* After a failed call the server stops once the last client has left: no  *)
(* thread it waits for is stuck (wait_for_all_thread), unless it dies.     *)
Connected == {k \in Conns : peer[k] = "open"}
Shutdown == <>[](~running /\ Connected = {}) => <>~Running

-----------------------------------------------------------------------------
(* Properties of an environment in which no client comes while another one *)
(* is coming or leaving and no call fails.  When clients leave oldest first *)
(* they do it one at a time; when they leave newest first, any number of   *)
(* them may be leaving at once.                                            *)

(* No thread reads or writes freed or unset memory and no assertion fails. *)
NoFault == fault = "none"

(* Between events the list is exactly the clients that are connected, in   *)
(* the order of their arrival, and the empty record of the next one.       *)
ListMirrorsClients ==
  Quiet =>
    /\ size = Cardinality(Connected) + 1 /\ Walkable(size)
    /\ Len(chain) = size + 1
    /\ elem[chain[size]] = mcli
    /\ {rec[elem[chain[p]]].thread : p \in 1..(size - 1)} = Connected
    /\ \A p, q \in 1..(size - 1) :
         p < q => rec[elem[chain[p]]].thread < rec[elem[chain[q]]].thread

(* A connection is closed once: by then its client has hung up, and when   *)
(* its thread ends it has been.  (A second close would hit whatever        *)
(* connection has been given the same descriptor meanwhile.)               *)
ClosedOnce ==
  \A k \in Conns :
    /\ closed[k] <= 1
    /\ closed[k] = 1 => peer[k] = "gone"
    /\ tpc[k] = "done" => closed[k] = 1

(* The records that can be reached from the head and belong to a client    *)
(* that was accepted are the registered clients of Registry: a departure   *)
(* removes the record of the client that left and of no other, and every   *)
(* departure is noticed in the end.                                        *)
Present == {rec[elem[n]].thread : n \in {m \in Range(chain) : elem[m] # Unset}} \ {0}
R == INSTANCE Registry WITH present <- Present
ImplementsRegistry == R!Spec
=============================================================================
