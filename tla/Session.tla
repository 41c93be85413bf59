------------------------------ MODULE Session ------------------------------
(***************************************************************************)
(* One connection: a client that sends packets with packet_send, the TCP   *)
(* stream, and the handler thread that receives them with packet_recv      *)
(* (src/network/packet.c, networkio.c, client/client.c and handle_client   *)
(* of server/server.c).                                                    *)
(*                                                                         *)
(* A packet is HdrLen cells with its size and that many cells of data; the *)
(* cell <<k, i>> is the i-th of packet k.  TCP keeps the cells and their   *)
(* order but not the packets: what has arrived may end anywhere, and recv  *)
(* returns what is there, up to the length it was asked for.  The code     *)
(* takes that for all of it, so it works as long as every packet arrives   *)
(* whole; the variable whole says that this has been so.                   *)
(***************************************************************************)
EXTENDS Integers, SequencesExt

CONSTANTS
  HdrLen,      \* cells of packet_t.size
  Sizes,       \* the sizes of data that the client may send
  MaxPackets,  \* how many packets it sends at most (bound)
  Garbage,     \* what a size that is not read as it was sent may hold
  MaxAlloc     \* malloc fails above this size

ASSUME SessionAssumption ==
  /\ HdrLen \in Nat \ {0} /\ MaxPackets \in Nat /\ MaxAlloc \in Nat
  /\ Sizes \subseteq 0..MaxAlloc /\ Garbage \subseteq Nat

Uninit == <<0, 0>>   \* a cell of a buffer that nothing was read into

VARIABLES
  peer,      \* the client: "start", "open", "closed" or "reset"
  sizes,     \* the sizes of the packets it has sent
  wire,      \* the cells under way
  arrived,   \* the cells in the server's socket buffer
  hpc,       \* the handler: about to receive a "size" or "data", or "done"
  want,      \* the size it has received
  got,       \* the data of the packets that packet_recv has returned
  whole,     \* no packet was empty, cut in two, or lost when half read
  fault      \* the server has freed or used a bad pointer, and died

vars == <<peer, sizes, wire, arrived, hpc, want, got, whole, fault>>

Cell == Nat \X Nat

TypeOK ==
  /\ peer \in {"start", "open", "closed", "reset"}
  /\ sizes \in Seq(Sizes) /\ wire \in Seq(Cell) /\ arrived \in Seq(Cell)
  /\ hpc \in {"size", "data", "done"} /\ want \in Nat /\ got \in Seq(Seq(Cell))
  /\ whole \in BOOLEAN /\ fault \in BOOLEAN

Init ==
  /\ peer = "start" /\ sizes = <<>> /\ wire = <<>> /\ arrived = <<>>
  /\ hpc = "size" /\ want = 0 /\ got = <<>> /\ whole = TRUE /\ fault = FALSE

-----------------------------------------------------------------------------
(* The client                                                              *)

Packet(k, n) == [i \in 1..(HdrLen + n) |-> <<k, i>>]
Data(k, n) == [i \in 1..n |-> <<k, HdrLen + i>>]

(* init and connect_to_serv; a failure ends the client.                    *)
Connect ==
  /\ peer = "start" /\ peer' = "open"
  /\ UNCHANGED <<sizes, wire, arrived, hpc, want, got, whole, fault>>

(* packet_send: header and data go to one send.                            *)
Send(n) ==
  /\ peer = "open" /\ Len(sizes) < MaxPackets
  /\ sizes' = Append(sizes, n)
  /\ wire' = wire \o Packet(Len(sizes) + 1, n)
  /\ whole' = (whole /\ n # 0)
  /\ UNCHANGED <<peer, arrived, hpc, want, got, fault>>

(* The client ends: it has sent what it wanted to, or a send has failed.   *)
(* (cli_main sends on the sockfd of an uninitialised local, client.c:66,   *)
(* so its one send may fail, and it may go out.)                           *)
Close ==
  /\ peer = "open" /\ peer' = "closed"
  /\ UNCHANGED <<sizes, wire, arrived, hpc, want, got, whole, fault>>

(* The connection breaks: what is under way is lost, and what has arrived  *)
(* may be; if not, recv returns it before the error.                       *)
Reset ==
  /\ peer = "open" /\ peer' = "reset"
  /\ wire' = <<>> /\ arrived' \in {arrived, <<>>}
  /\ whole' = (whole /\ (hpc = "data" => arrived' = arrived))
  /\ UNCHANGED <<sizes, hpc, want, got, fault>>

-----------------------------------------------------------------------------
(* The stream                                                              *)

(* The first n cells under way arrive.                                     *)
Arrive(n) ==
  /\ arrived' = arrived \o SubSeq(wire, 1, n)
  /\ wire' = SubSeq(wire, n + 1, Len(wire))
  /\ whole' = (whole /\ (n < Len(wire) => wire[n + 1][2] = 1))
  /\ UNCHANGED <<peer, sizes, hpc, want, got, fault>>

-----------------------------------------------------------------------------
(* The handler                                                             *)

EndOfStream == peer \in {"closed", "reset"} /\ wire = <<>> /\ arrived = <<>>

Least(a, b) == IF a < b THEN a ELSE b

(* recv of n cells.                                                        *)
Recv(n) == SubSeq(arrived, 1, Least(n, Len(arrived)))
Left(n) == SubSeq(arrived, Least(n, Len(arrived)) + 1, Len(arrived))

(* The sizes that the cells c may stand for.                               *)
SizeIn(c) ==
  LET k == c[1][1] IN
  IF c = SubSeq(Packet(k, sizes[k]), 1, HdrLen) THEN {sizes[k]} ELSE Garbage

(* Mutant of RecvSize: the size is taken for that of the whole packet.     *)
RecvSizeOfPacket ==
  /\ hpc = "size" /\ arrived # <<>>
  /\ \E n \in SizeIn(Recv(HdrLen)) : want' = n - HdrLen
  /\ arrived' = Left(HdrLen)
  /\ hpc' = "data"
  /\ UNCHANGED <<peer, sizes, wire, got, whole, fault>>

(* The first netio_recv of packet_recv, and the malloc, whose failure the  *)
(* assertion misses (it tests buf and not *buf).                           *)
RecvSize ==
  /\ hpc = "size" /\ arrived # <<>>
  /\ want' \in SizeIn(Recv(HdrLen))
  /\ arrived' = Left(HdrLen)
  /\ hpc' = "data"
  /\ fault' = (want' > MaxAlloc)
  /\ UNCHANGED <<peer, sizes, wire, got, whole>>

(* Mutants of RecvSizeFails: recv returning 0 is not an error; connected   *)
(* is not cleared.                                                         *)
RecvNothing ==
  /\ hpc = "size" /\ EndOfStream
  /\ want' \in Garbage
  /\ hpc' = "data"
  /\ UNCHANGED <<peer, sizes, wire, arrived, got, whole, fault>>
RecvSizeAgain ==
  /\ hpc = "size" /\ EndOfStream
  /\ UNCHANGED vars

(* packet_recv returns false, handle_client clears connected, and          *)
(* disconnect_cli closes the socket.                                       *)
RecvSizeFails ==
  /\ hpc = "size" /\ EndOfStream
  /\ hpc' = "done"
  /\ UNCHANGED <<peer, sizes, wire, arrived, want, got, whole, fault>>

(* Mutants of RecvData: one cell too few is received; the handler receives *)
(* one packet only.                                                        *)
RecvDataOnce ==
  /\ hpc = "data" /\ want > 0 /\ arrived # <<>>
  /\ got' = Append(got, Recv(want))
  /\ arrived' = Left(want)
  /\ hpc' = "done"
  /\ UNCHANGED <<peer, sizes, wire, want, whole, fault>>
RecvLessData ==
  /\ hpc = "data" /\ want > 0 /\ arrived # <<>>
  /\ got' = Append(got, Recv(want - 1))
  /\ arrived' = Left(want - 1)
  /\ hpc' = "size"
  /\ UNCHANGED <<peer, sizes, wire, want, whole, fault>>

(* The second netio_recv; the rest of the buffer stays as malloc found it. *)
(* handle_client prints the data and never frees the buffer.               *)
RecvData ==
  /\ hpc = "data" /\ want > 0 /\ arrived # <<>>
  /\ got' = Append(got, [i \in 1..want |->
                           IF i <= Len(arrived) THEN arrived[i] ELSE Uninit])
  /\ arrived' = Left(want)
  /\ hpc' = "size"
  /\ UNCHANGED <<peer, sizes, wire, want, whole, fault>>

(* recv returns 0: the end of the stream, or nothing was asked for.  Then  *)
(* free(buf) is called with the address of a local of handle_client.       *)
RecvDataFails ==
  /\ hpc = "data" /\ (want = 0 \/ EndOfStream)
  /\ fault' = TRUE
  /\ UNCHANGED <<peer, sizes, wire, arrived, hpc, want, got, whole>>

-----------------------------------------------------------------------------
Stopped == fault \/ hpc = "done"

Handler == ~fault /\ (RecvSize \/ RecvSizeFails \/ RecvData \/ RecvDataFails)
Stream == ~fault /\ \E n \in 1..Len(wire) : Arrive(n)
Client == ~fault /\ (Connect \/ Close \/ Reset \/ \E n \in Sizes : Send(n))

Next == Client \/ Stream \/ Handler \/ (Stopped /\ UNCHANGED vars)

(* TCP delivers and the handler thread is scheduled.  No client has to     *)
(* connect, to send or to close.                                           *)
Spec == Init /\ [][Next]_vars /\ WF_vars(Stream) /\ WF_vars(Handler)

-----------------------------------------------------------------------------
(* Properties                                                              *)

(* While packets arrive whole, receiving them never frees or uses a bad    *)
(* pointer.                                                                *)
NoFault == whole => ~fault

(* While packets arrive whole, the session is a Channel: every packet is   *)
(* received with its own data, once, in order.                             *)
Sent == [k \in DOMAIN sizes |-> Data(k, sizes[k])]
Line == CASE peer \in {"start", "open"} -> "open"
          [] peer = "closed" -> "closed"
          [] peer = "reset" -> "reset"
C == INSTANCE Channel WITH sent <- Sent, line <- Line, over <- hpc = "done"
ChannelStep ==
  \/ \E n \in Sizes : C!Send(Data(Len(sizes) + 1, n))
  \/ C!HangUp \/ C!Deliver \/ C!NoticeEnd
ImplementsChannel == C!Init /\ [][whole' => ChannelStep]_<<Sent, got, Line, hpc = "done">>

(* Whatever the pieces: the handler of a client that has gone ends, unless *)
(* the server dies of it.                                                  *)
EndNoticed == (peer \in {"closed", "reset"}) ~> (hpc = "done" \/ fault)

(* A client that closes has everything it sent received by then.           *)
AllReceived ==
  (peer = "closed" /\ whole) ~> (~whole \/ (hpc = "done" /\ got = Sent))

(* "initilize the packet and recv the data" (packet.c:36): a packet that   *)
(* packet_recv returns holds as much data as its size says.                *)
DataReceived == \A k \in DOMAIN got : Uninit \notin Range(got[k])
=============================================================================
