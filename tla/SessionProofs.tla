--------------------------- MODULE SessionProofs ---------------------------
(***************************************************************************)
(* Session, for every header length, every set of sizes and every number   *)
(* of packets: the types hold, and while packets arrive whole the handler  *)
(* dies of nothing and the session implements a Channel.                   *)
(*                                                                         *)
(* The argument is about Flow, the cells that have not been received:      *)
(* every cell in it is followed by the rest of its packet and then by the  *)
(* next packet (InOrder), up to the last that was sent unless the          *)
(* connection has broken (Complete); what is still under way starts with a *)
(* packet (Boundary), and the handler is before the header or the data of  *)
(* the first packet it has not returned (Place).  So recv finds in the     *)
(* socket buffer all that the code takes it to find (PacketArrived).       *)
(***************************************************************************)
EXTENDS Session, SequenceTheorems, TLAPS

(* The cells of the first n packets; the first of a packet has number 1.   *)
CellsOf(n) == (1..n) \X (Nat \ {0})

(* What arrives belongs to a packet that was sent.                         *)
Known ==
  /\ wire \in Seq(CellsOf(Len(sizes)))
  /\ arrived \in Seq(CellsOf(Len(sizes)))

(* The type invariant.                                                     *)
Typed == TypeOK /\ Known
-----------------------------------------------------------------------------
(* The operators of the model                                              *)

LEMMA PacketFacts ==
  ASSUME NEW k \in Nat, NEW n \in Nat, NEW m \in Nat, k \in 1..m
  PROVE  /\ Packet(k, n) \in Seq(CellsOf(m))
         /\ Len(Packet(k, n)) = HdrLen + n
         /\ \A i \in 1..(HdrLen + n) : Packet(k, n)[i] = <<k, i>>
<1>1. HdrLen + n \in Nat
  BY SessionAssumption
<1>2. \A i \in 1..(HdrLen + n) : <<k, i>> \in CellsOf(m)
  BY <1>1 DEF CellsOf
<1>3. [i \in 1..(HdrLen + n) |-> <<k, i>>] \in Seq(CellsOf(m))
  BY <1>1, <1>2, IsASeq
<1>4. Len([i \in 1..(HdrLen + n) |-> <<k, i>>]) = HdrLen + n
  BY <1>1, <1>3, LenProperties
<1>5. QED
  BY <1>3, <1>4 DEF Packet

LEMMA DataFacts ==
  ASSUME NEW k \in Nat, NEW n \in Nat
  PROVE  /\ Data(k, n) \in Seq(Cell)
         /\ Len(Data(k, n)) = n
         /\ \A i \in 1..n : Data(k, n)[i] = <<k, HdrLen + i>>
<1>1. \A i \in 1..n : <<k, HdrLen + i>> \in Cell
  BY SessionAssumption DEF Cell
<1>2. [i \in 1..n |-> <<k, HdrLen + i>>] \in Seq(Cell)
  BY <1>1, IsASeq
<1>3. QED
  BY <1>2, LenProperties DEF Data

LEMMA CellsGrow ==
  ASSUME NEW m \in Nat, NEW n \in Nat, m <= n, NEW s \in Seq(CellsOf(m))
  PROVE  s \in Seq(CellsOf(n))
<1>1. CellsOf(m) \subseteq CellsOf(n)
  BY DEF CellsOf
<1>2. QED
  BY <1>1, SeqMonotonic

(* What recv leaves and what it returns.                                   *)
LEMMA RecvFacts ==
  ASSUME NEW S, arrived \in Seq(S), NEW n \in Nat
  PROVE  /\ Least(n, Len(arrived)) \in 0..Len(arrived)
         /\ Least(n, Len(arrived)) <= n
         /\ Least(n, Len(arrived)) < n => Least(n, Len(arrived)) = Len(arrived)
         /\ Recv(n) \in Seq(S) /\ Len(Recv(n)) = Least(n, Len(arrived))
         /\ \A i \in 1..Least(n, Len(arrived)) : Recv(n)[i] = arrived[i]
         /\ Left(n) \in Seq(S)
         /\ Len(Left(n)) = Len(arrived) - Least(n, Len(arrived))
         /\ \A i \in 1..(Len(arrived) - Least(n, Len(arrived))) :
              Left(n)[i] = arrived[i + Least(n, Len(arrived))]
<1>1. Len(arrived) \in Nat /\ \A i \in 1..Len(arrived) : arrived[i] \in S
  BY LenProperties
<1>2. Least(n, Len(arrived)) \in 0..Len(arrived)
  BY <1>1 DEF Least
<1>3. /\ Least(n, Len(arrived)) <= n
      /\ Least(n, Len(arrived)) < n => Least(n, Len(arrived)) = Len(arrived)
  BY <1>1 DEF Least
<1>4. PICK l \in 0..Len(arrived) : l = Least(n, Len(arrived))
  BY <1>2
<1>5. /\ SubSeq(arrived, 1, l) \in Seq(S)
      /\ Len(SubSeq(arrived, 1, l)) = IF 1 <= l THEN l - 1 + 1 ELSE 0
      /\ \A i \in 1..(l - 1 + 1) : SubSeq(arrived, 1, l)[i] = arrived[1 + i - 1]
  <2>1. l \in Int /\ 1 \in Int /\ \A i \in 1..l : arrived[i] \in S
    BY <1>1, <1>4
  <2>2. QED
    BY <2>1, SubSeqProperties
<1>6. /\ SubSeq(arrived, l + 1, Len(arrived)) \in Seq(S)
      /\ Len(SubSeq(arrived, l + 1, Len(arrived))) =
           IF l + 1 <= Len(arrived) THEN Len(arrived) - (l + 1) + 1 ELSE 0
      /\ \A i \in 1..(Len(arrived) - (l + 1) + 1) :
           SubSeq(arrived, l + 1, Len(arrived))[i] = arrived[l + 1 + i - 1]
  <2>1. l + 1 \in Int /\ Len(arrived) \in Int
        /\ \A i \in (l + 1)..Len(arrived) : arrived[i] \in S
    BY <1>1, <1>4
  <2>2. QED
    BY <2>1, SubSeqProperties
<1>7. /\ Recv(n) \in Seq(S) /\ Len(Recv(n)) = l
      /\ \A i \in 1..l : Recv(n)[i] = arrived[i]
  BY <1>1, <1>4, <1>5 DEF Recv
<1>8. /\ Left(n) \in Seq(S) /\ Len(Left(n)) = Len(arrived) - l
      /\ \A i \in 1..(Len(arrived) - l) : Left(n)[i] = arrived[i + l]
  BY <1>1, <1>4, <1>6 DEF Left
<1>9. QED
  BY <1>2, <1>3, <1>4, <1>7, <1>8

LEMMA SizeInFacts ==
  ASSUME TypeOK, Known, arrived # <<>>, NEW n \in SizeIn(Recv(HdrLen))
  PROVE  n \in Nat
<1>1. /\ Len(Recv(HdrLen)) = Least(HdrLen, Len(arrived))
      /\ \A i \in 1..Least(HdrLen, Len(arrived)) : Recv(HdrLen)[i] = arrived[i]
  BY RecvFacts, SessionAssumption DEF Known
<1>2. Len(arrived) \in Nat /\ Len(arrived) # 0
  BY LenProperties, EmptySeq DEF Known
<1>3. Recv(HdrLen)[1] = arrived[1]
  <2>1. Least(HdrLen, Len(arrived)) >= 1 /\ Least(HdrLen, Len(arrived)) \in Nat
    BY <1>2, SessionAssumption DEF Least
  <2>2. QED
    BY <2>1, <1>1
<1>4. arrived[1][1] \in 1..Len(sizes)
  <2>1. arrived[1] \in CellsOf(Len(sizes))
    BY <1>2, LenProperties DEF Known
  <2>2. QED
    BY <2>1 DEF CellsOf
<1>5. sizes[arrived[1][1]] \in Nat
  <2>1. sizes \in Seq(Sizes) /\ Sizes \subseteq Nat
    BY SessionAssumption DEF TypeOK
  <2>2. sizes[arrived[1][1]] \in Sizes
    BY <1>4, <2>1, LenProperties
  <2>3. QED
    BY <2>1, <2>2
<1>6. QED
  <2>1. Garbage \subseteq Nat
    BY SessionAssumption
  <2>2. n = sizes[arrived[1][1]] \/ n \in Garbage
    BY <1>3 DEF SizeIn
  <2>3. QED
    BY <1>5, <2>1, <2>2

-----------------------------------------------------------------------------
(* Types                                                                   *)

LEMMA TypedInit == Init => Typed
<1>1. /\ <<>> \in Seq(Sizes) /\ <<>> \in Seq(Cell) /\ <<>> \in Seq(Seq(Cell))
      /\ <<>> \in Seq(CellsOf(Len(sizes)))
  BY EmptySeq
<1>2. Init => TypeOK
  <2> SUFFICES ASSUME Init
               PROVE  TypeOK
    OBVIOUS
  <2>1. sizes \in Seq(Sizes) /\ wire \in Seq(Cell) /\ arrived \in Seq(Cell)
    BY <1>1, Zenon DEF Init
  <2>2. got \in Seq(Seq(Cell))
    BY <1>1, Zenon DEF Init
  <2>3. peer \in {"start", "open", "closed", "reset"} /\ hpc \in {"size", "data", "done"}
    BY DEF Init
  <2>4. want \in Nat /\ whole \in BOOLEAN /\ fault \in BOOLEAN
    BY DEF Init
  <2>5. QED
    BY <2>1, <2>2, <2>3, <2>4 DEF TypeOK
<1>3. Init => Known
  BY <1>1, Zenon DEF Init, Known
<1>4. QED
  BY <1>2, <1>3 DEF Typed

LEMMA TypedNext == Typed /\ [Next]_vars => Typed'
<1> SUFFICES ASSUME TypeOK, Known, [Next]_vars
             PROVE  TypeOK' /\ Known'
  BY DEF Typed
<1>0. Len(sizes) \in Nat /\ Sizes \subseteq Nat /\ Len(wire) \in Nat
  BY LenProperties, SessionAssumption DEF TypeOK
<1>m. \A n \in Nat : CellsOf(n) \subseteq Cell
  BY DEF CellsOf, Cell
<1>q. ASSUME Known', sizes' \in Seq(Sizes)
      PROVE  wire' \in Seq(Cell) /\ arrived' \in Seq(Cell)
  <2>1. Len(sizes') \in Nat
    BY <1>q, LenProperties
  <2>2. CellsOf(Len(sizes')) \subseteq Cell
    BY <2>1, <1>m
  <2>3. Seq(CellsOf(Len(sizes'))) \subseteq Seq(Cell)
    BY <2>2, SeqMonotonic, Zenon
  <2>4. QED
    BY <2>3, <1>q DEF Known
<1>1. CASE Connect
  BY <1>1 DEF Connect, TypeOK, Known
<1>2. CASE Close
  BY <1>2 DEF Close, TypeOK, Known
<1>3. CASE Reset
  <2>0. /\ UNCHANGED <<sizes, hpc, want, got, fault>> /\ peer' = "reset"
        /\ wire' = <<>> /\ arrived' \in {arrived, <<>>}
    BY <1>3 DEF Reset
  <2>1. Known'
    BY <2>0, EmptySeq DEF Known
  <2>2. whole' \in BOOLEAN
    BY <1>3, Zenon DEF Reset, TypeOK
  <2>3. QED
    BY <2>0, <2>1, <2>2, <1>q DEF TypeOK
<1>4. ASSUME NEW n \in Sizes, Send(n)
      PROVE  TypeOK' /\ Known'
  <2>1. sizes' \in Seq(Sizes) /\ Len(sizes') = Len(sizes) + 1
    BY <1>4, AppendProperties DEF Send, TypeOK
  <2>2. wire' \in Seq(CellsOf(Len(sizes) + 1))
    <3>1. wire \in Seq(CellsOf(Len(sizes) + 1))
      BY <1>0, CellsGrow DEF Known
    <3>2. Packet(Len(sizes) + 1, n) \in Seq(CellsOf(Len(sizes) + 1))
      BY <1>0, PacketFacts
    <3>3. QED
      BY <1>4, <3>1, <3>2, ConcatProperties DEF Send
  <2>3. arrived' \in Seq(CellsOf(Len(sizes) + 1))
    BY <1>0, <1>4, CellsGrow DEF Known, Send
  <2>4. Known'
    BY <2>1, <2>2, <2>3 DEF Known
  <2>5. whole' \in BOOLEAN
    BY <1>4, Zenon DEF Send, TypeOK
  <2>6. QED
    BY <1>4, <2>1, <2>4, <2>5, <1>q DEF Send, TypeOK
<1>5. ASSUME NEW n \in 1..Len(wire), Arrive(n)
      PROVE  TypeOK' /\ Known'
  <2>1. \A i \in 1..Len(wire) : wire[i] \in CellsOf(Len(sizes))
    BY LenProperties DEF Known
  <2>2. SubSeq(wire, 1, n) \in Seq(CellsOf(Len(sizes)))
    BY <1>0, <2>1, SubSeqProperties
  <2>3. SubSeq(wire, n + 1, Len(wire)) \in Seq(CellsOf(Len(sizes)))
    BY <1>0, <2>1, SubSeqProperties
  <2>4. Known'
    BY <1>5, <2>2, <2>3, ConcatProperties DEF Known, Arrive
  <2>5. whole' \in BOOLEAN
    BY <1>5, Zenon DEF Arrive, TypeOK
  <2>6. QED
    BY <1>5, <2>4, <2>5, <1>q DEF Arrive, TypeOK
<1>6. CASE RecvSize
  <2>1. want' \in Nat
    BY <1>6, SizeInFacts DEF RecvSize
  <2>2. Known'
    BY <1>6, RecvFacts, SessionAssumption DEF RecvSize, Known
  <2>3. fault' \in BOOLEAN
    <3>1. CASE want' > MaxAlloc
      BY <1>6, <3>1 DEF RecvSize
    <3>2. CASE ~(want' > MaxAlloc)
      BY <1>6, <3>2 DEF RecvSize
    <3>3. QED
      BY <3>1, <3>2
  <2>4. QED
    BY <1>6, <2>1, <2>2, <2>3, <1>q DEF RecvSize, TypeOK
<1>7. CASE RecvSizeFails
  BY <1>7 DEF RecvSizeFails, TypeOK, Known
<1>8. CASE RecvData
  <2>1. Known'
    BY <1>8, RecvFacts DEF RecvData, Known, TypeOK
  <2>2. \A i \in 1..want : (IF i <= Len(arrived) THEN arrived[i] ELSE Uninit) \in Cell
    BY LenProperties DEF TypeOK, Uninit, Cell
  <2>3. [i \in 1..want |-> IF i <= Len(arrived) THEN arrived[i] ELSE Uninit] \in Seq(Cell)
    BY <2>2, IsASeq DEF TypeOK
  <2>4. got' \in Seq(Seq(Cell))
    BY <1>8, <2>3, AppendProperties DEF RecvData, TypeOK
  <2>5. QED
    BY <1>8, <2>1, <2>4, <1>q DEF RecvData, TypeOK
<1>9. CASE RecvDataFails
  BY <1>9 DEF RecvDataFails, TypeOK, Known
<1>10. CASE UNCHANGED vars
  BY <1>10 DEF vars, TypeOK, Known
<1>11. QED
  BY <1>1, <1>2, <1>3, <1>4, <1>5, <1>6, <1>7, <1>8, <1>9, <1>10
     DEF Next, Client, Stream, Handler

(* The types of the session's state.                                       *)
THEOREM TypeCorrect == Spec => []TypeOK
<1>1. Typed => TypeOK
  BY DEF Typed
<1>2. QED
  BY <1>1, TypedInit, TypedNext, PTL DEF Spec

-----------------------------------------------------------------------------
(* While packets arrive whole                                              *)

(* What is under way or in the socket buffer.                              *)
Flow == arrived \o wire

(* In s, a part of the stream of packets with sizes sz, every cell is      *)
(* followed by the rest of its packet and then, if s goes on, by the next  *)
(* packet.                                                                 *)
Ahead(s, sz, j) == HdrLen + sz[s[j][1]] - s[j][2]
InOrder(s, sz) ==
  \A j \in 1..Len(s) :
    /\ Ahead(s, sz, j) \in 0..(Len(s) - j)
    /\ \A d \in 0..Ahead(s, sz, j) : s[j + d] = <<s[j][1], s[j][2] + d>>
    /\ j + Ahead(s, sz, j) < Len(s) => s[j + Ahead(s, sz, j) + 1] = <<s[j][1] + 1, 1>>

(* s goes on to the last packet.                                           *)
ToTheLast(s, sz) == Len(s) # 0 => s[Len(s)][1] = Len(sz)

(* What is under way starts with a packet.                                 *)
Boundary == wire # <<>> => wire[1][2] = 1

(* What was returned is what was sent; no packet was empty.                *)
Faithful ==
  /\ Len(got) <= Len(sizes)
  /\ \A k \in 1..Len(got) : got[k] = Data(k, sizes[k])
  /\ \A k \in 1..Len(sizes) : sizes[k] # 0

(* The handler is where the stream is: before the header or the data of    *)
(* the first packet that it has not returned.                              *)
Place ==
  /\ hpc = "size" /\ Flow # <<>> => Flow[1] = <<Len(got) + 1, 1>>
  /\ hpc = "size" /\ Flow = <<>> => Len(got) = Len(sizes) \/ peer = "reset"
  /\ hpc = "data" =>
       /\ Len(got) < Len(sizes) /\ want = sizes[Len(got) + 1]
       /\ Flow # <<>> /\ Flow[1] = <<Len(got) + 1, HdrLen + 1>>
  /\ hpc = "done" => Flow = <<>> /\ peer \in {"closed", "reset"}
  /\ hpc = "done" /\ peer = "closed" => Len(got) = Len(sizes)

(* Only a reset takes packets off the end of the stream.                   *)
Complete == peer # "reset" => ToTheLast(Flow, sizes)

Sound == ~fault /\ InOrder(Flow, sizes) /\ Complete /\ Boundary /\ Faithful /\ Place
SessionInv == Typed /\ (whole => Sound)

LEMMA InOrderAppend ==
  ASSUME NEW sz \in Seq(Nat), NEW n \in Nat,
         NEW s \in Seq(CellsOf(Len(sz))), InOrder(s, sz), ToTheLast(s, sz)
  PROVE  /\ InOrder(s \o Packet(Len(sz) + 1, n), Append(sz, n))
         /\ ToTheLast(s \o Packet(Len(sz) + 1, n), Append(sz, n))
<1>0. Len(sz) \in Nat /\ Len(s) \in Nat /\ HdrLen \in Nat /\ HdrLen > 0
  BY LenProperties, SessionAssumption
<1> DEFINE k == Len(sz) + 1
           p == Packet(k, n)
           s2 == s \o p
           z2 == Append(sz, n)
<1>1. /\ p \in Seq(CellsOf(k)) /\ Len(p) = HdrLen + n
      /\ \A i \in 1..(HdrLen + n) : p[i] = <<k, i>>
  <2>1. k \in Nat /\ k \in 1..k
    BY <1>0
  <2>. HIDE DEF k
  <2>2. QED
    BY <2>1, PacketFacts DEF p
<1>2. s \in Seq(CellsOf(k))
  BY <1>0, CellsGrow
<1>3. /\ Len(s2) = Len(s) + (HdrLen + n)
      /\ \A i \in 1..Len(s) : s2[i] = s[i]
      /\ \A i \in 1..(HdrLen + n) : s2[Len(s) + i] = <<k, i>>
  <2>1. /\ Len(s2) = Len(s) + Len(p)
        /\ \A i \in 1..(Len(s) + Len(p)) :
             s2[i] = IF i <= Len(s) THEN s[i] ELSE p[i - Len(s)]
    BY <1>1, <1>2, ConcatProperties
  <2>. HIDE DEF s2, p
  <2>2. \A i \in 1..Len(s) : s2[i] = s[i]
    BY <1>0, <1>1, <2>1
  <2>3. ASSUME NEW i \in 1..(HdrLen + n)
        PROVE  s2[Len(s) + i] = <<k, i>>
    <3>1. s2[Len(s) + i] = p[(Len(s) + i) - Len(s)]
      BY <1>0, <1>1, <2>1
    <3>2. QED
      BY <1>0, <1>1, <3>1
  <2>4. QED
    BY <1>1, <2>1, <2>2, <2>3
<1>4. /\ Len(z2) = k /\ z2[k] = n
      /\ \A i \in 1..Len(sz) : z2[i] = sz[i]
  BY AppendProperties
<1>5. \A j \in 1..Len(s) : s[j][1] \in 1..Len(sz) /\ s[j][2] \in Nat
  <2>1. \A j \in 1..Len(s) : s[j] \in CellsOf(Len(sz))
    BY LenProperties
  <2>2. QED
    BY <2>1 DEF CellsOf
<1> HIDE DEF k, p, s2, z2
<1>e. ToTheLast(s2, z2)
  <2>1. HdrLen + n \in 1..(HdrLen + n) /\ Len(s2) = Len(s) + (HdrLen + n)
    BY <1>0, <1>3
  <2>2. s2[Len(s2)] = <<k, HdrLen + n>>
    BY <1>3, <2>1
  <2>3. QED
    BY <1>4, <2>2 DEF ToTheLast
<1>6. SUFFICES ASSUME NEW j \in 1..Len(s2)
               PROVE  /\ Ahead(s2, z2, j) \in 0..(Len(s2) - j)
                      /\ \A d \in 0..Ahead(s2, z2, j) : s2[j + d] = <<s2[j][1], s2[j][2] + d>>
                      /\ j + Ahead(s2, z2, j) < Len(s2) =>
                           s2[j + Ahead(s2, z2, j) + 1] = <<s2[j][1] + 1, 1>>
  BY <1>e DEF InOrder, k, p, s2, z2
<1>7. CASE j <= Len(s)
  <2>1. j \in 1..Len(s) /\ s2[j] = s[j]
    BY <1>0, <1>3, <1>7
  <2>2. s[j][1] \in 1..Len(sz) /\ s[j][2] \in Nat /\ sz[s[j][1]] \in Nat
    BY <1>5, <2>1, LenProperties
  <2>3. Ahead(s2, z2, j) = Ahead(s, sz, j)
    BY <1>4, <2>1, <2>2 DEF Ahead
  <2>4. PICK a \in 0..(Len(s) - j) : a = Ahead(s, sz, j)
    BY <2>1 DEF InOrder
  <2>5. /\ \A d \in 0..a : s[j + d] = <<s[j][1], s[j][2] + d>>
        /\ j + a < Len(s) => s[j + a + 1] = <<s[j][1] + 1, 1>>
    BY <2>1, <2>4 DEF InOrder
  <2>6. a \in 0..(Len(s2) - j) /\ j + a < Len(s2)
    BY <1>0, <1>3, <2>4
  <2>7. \A d \in 0..a : s2[j + d] = <<s2[j][1], s2[j][2] + d>>
    <3> TAKE d \in 0..a
    <3>1. j + d \in 1..Len(s)
      BY <1>0, <2>1, <2>4
    <3>2. QED
      BY <1>3, <2>1, <2>5, <3>1
  <2>8. s2[j + a + 1] = <<s2[j][1] + 1, 1>>
    <3>1. CASE j + a = Len(s)
      <4>1. s2[Len(s) + 1] = <<k, 1>>
        BY <1>0, <1>3
      <4>2. j + a + 1 = Len(s) + 1 /\ k = s2[j][1] + 1
        <5>0. a \in Nat /\ j \in Nat \ {0}
          BY <1>0, <2>1, <2>4
        <5>1. a \in 0..a
          BY <5>0
        <5>2. s[j + a] = <<s[j][1], s[j][2] + a>>
          BY <2>5, <5>1
        <5>3. s[Len(s)][1] = s[j][1]
          BY <3>1, <5>2
        <5>4. Len(s) # 0
          BY <3>1, <5>0
        <5>5. s[j][1] = Len(sz)
          BY <5>3, <5>4 DEF ToTheLast
        <5>6. QED
          BY <2>1, <3>1, <5>5 DEF k
      <4>3. QED
        BY <4>1, <4>2
    <3>2. CASE j + a < Len(s)
      <4>1. j + a + 1 \in 1..Len(s)
        BY <1>0, <2>4, <3>2
      <4>2. QED
        BY <1>3, <2>1, <2>5, <3>2, <4>1
    <3>3. QED
      BY <1>0, <2>4, <3>1, <3>2
  <2>9. QED
    BY <1>0, <1>3, <2>3, <2>4, <2>6, <2>7, <2>8
<1>8. CASE j > Len(s)
  <2>1. PICK i \in 1..(HdrLen + n) : j = Len(s) + i
    <3>1. j - Len(s) \in 1..(HdrLen + n)
      BY <1>0, <1>3, <1>8
    <3>2. QED
      BY <1>0, <3>1
  <2>2. s2[j] = <<k, i>>
    BY <1>3, <2>1
  <2>3. Ahead(s2, z2, j) = HdrLen + n - i
    BY <1>4, <2>2 DEF Ahead
  <2>4. PICK a \in 0..(HdrLen + n) : a = HdrLen + n - i
    BY <1>0
  <2>5. j + a = Len(s2) /\ a \in 0..(Len(s2) - j)
    BY <1>0, <1>3, <2>1, <2>4
  <2>6. \A d \in 0..a : s2[j + d] = <<k, i + d>>
    <3> TAKE d \in 0..a
    <3>1. i + d \in 1..(HdrLen + n) /\ j + d = Len(s) + (i + d)
      BY <1>0, <2>1, <2>4
    <3>2. QED
      BY <1>3, <3>1
  <2>7. s2[j][1] = k /\ s2[j][2] = i /\ Ahead(s2, z2, j) = a
    BY <2>2, <2>3, <2>4
  <2>8. ~(j + a < Len(s2))
    BY <1>0, <1>3, <2>5
  <2>9. QED
    BY <1>4, <2>5, <2>6, <2>7, <2>8
<1>9. QED
  BY <1>0, <1>3, <1>7, <1>8

LEMMA InOrderDrop ==
  ASSUME NEW sz \in Seq(Nat), NEW s \in Seq(CellsOf(Len(sz))), InOrder(s, sz),
         NEW n \in 0..Len(s), NEW t,
         Len(t) = Len(s) - n, \A j \in 1..(Len(s) - n) : t[j] = s[j + n]
  PROVE  InOrder(t, sz) /\ (ToTheLast(s, sz) => ToTheLast(t, sz))
<1>0. Len(s) \in Nat
  BY LenProperties
<1>e. ToTheLast(s, sz) => ToTheLast(t, sz)
  <2>1. SUFFICES ASSUME ToTheLast(s, sz), Len(t) # 0
                 PROVE  t[Len(t)][1] = Len(sz)
    BY DEF ToTheLast
  <2>2. Len(t) \in 1..(Len(s) - n) /\ Len(t) + n = Len(s) /\ Len(s) # 0
    BY <1>0, <2>1
  <2>3. t[Len(t)] = s[Len(s)]
    BY <2>2
  <2>4. QED
    BY <2>1, <2>2, <2>3 DEF ToTheLast
<1>1. SUFFICES ASSUME NEW j \in 1..Len(t)
               PROVE  /\ Ahead(t, sz, j) \in 0..(Len(t) - j)
                      /\ \A d \in 0..Ahead(t, sz, j) : t[j + d] = <<t[j][1], t[j][2] + d>>
                      /\ j + Ahead(t, sz, j) < Len(t) =>
                           t[j + Ahead(t, sz, j) + 1] = <<t[j][1] + 1, 1>>
  BY <1>e DEF InOrder
<1>2. j + n \in 1..Len(s) /\ t[j] = s[j + n]
  BY <1>0
<1>3. Ahead(t, sz, j) = Ahead(s, sz, j + n)
  BY <1>2 DEF Ahead
<1>4. PICK a \in 0..(Len(s) - (j + n)) : a = Ahead(s, sz, j + n)
  BY <1>2 DEF InOrder
<1>5. /\ \A d \in 0..a : s[j + n + d] = <<s[j + n][1], s[j + n][2] + d>>
      /\ j + n + a < Len(s) => s[j + n + a + 1] = <<s[j + n][1] + 1, 1>>
  BY <1>2, <1>4 DEF InOrder
<1>6. a \in 0..(Len(t) - j)
  BY <1>0, <1>2, <1>4
<1>7. \A d \in 0..a : t[j + d] = <<t[j][1], t[j][2] + d>>
  <2> TAKE d \in 0..a
  <2>1. j + d \in 1..(Len(s) - n) /\ j + d + n = j + n + d
    BY <1>0, <1>4
  <2>2. QED
    BY <1>2, <1>5, <2>1
<1>8. ASSUME j + a < Len(t)
      PROVE  t[j + a + 1] = <<t[j][1] + 1, 1>>
  <2>1. j + a + 1 \in 1..(Len(s) - n) /\ j + a + 1 + n = j + n + a + 1
    BY <1>0, <1>4, <1>8
  <2>2. j + n + a < Len(s)
    BY <1>0, <1>4, <1>8
  <2>3. t[j + a + 1] = s[j + n + a + 1]
    BY <2>1
  <2>4. QED
    BY <1>2, <1>5, <2>2, <2>3
<1>9. QED
  BY <1>3, <1>4, <1>6, <1>7, <1>8

LEMMA FlowFacts ==
  ASSUME Typed
  PROVE  /\ sizes \in Seq(Nat) /\ Len(sizes) \in Nat
         /\ \A k \in 1..Len(sizes) : sizes[k] \in Nat /\ sizes[k] <= MaxAlloc
         /\ Len(got) \in Nat /\ want \in Nat
         /\ Len(arrived) \in Nat /\ Len(wire) \in Nat
         /\ arrived = <<>> <=> Len(arrived) = 0
         /\ wire = <<>> <=> Len(wire) = 0
         /\ Flow = <<>> <=> Len(Flow) = 0
         /\ Flow \in Seq(CellsOf(Len(sizes)))
         /\ Len(Flow) = Len(arrived) + Len(wire)
         /\ \A j \in 1..Len(arrived) : Flow[j] = arrived[j]
         /\ \A j \in 1..Len(wire) : Flow[Len(arrived) + j] = wire[j]
         /\ \A j \in 1..Len(Flow) : /\ Flow[j][1] \in 1..Len(sizes)
                                    /\ Flow[j][2] \in Nat /\ Flow[j][2] # 0
<1>1. /\ sizes \in Seq(Sizes) /\ got \in Seq(Seq(Cell)) /\ want \in Nat
      /\ wire \in Seq(CellsOf(Len(sizes))) /\ arrived \in Seq(CellsOf(Len(sizes)))
  BY DEF Typed, TypeOK, Known
<1>2. /\ Len(sizes) \in Nat /\ Len(got) \in Nat /\ Len(arrived) \in Nat /\ Len(wire) \in Nat
  BY <1>1, LenProperties
<1>3. sizes \in Seq(Nat)
  <2>1. Sizes \subseteq Nat
    BY SessionAssumption
  <2>2. QED
    BY <1>1, <2>1, SeqMonotonic
<1>4. \A k \in 1..Len(sizes) : sizes[k] \in Nat /\ sizes[k] <= MaxAlloc
  <2> TAKE k \in 1..Len(sizes)
  <2>1. sizes[k] \in Sizes
    BY <1>1, LenProperties
  <2>2. Sizes \subseteq 0..MaxAlloc /\ MaxAlloc \in Nat
    BY SessionAssumption
  <2>3. sizes[k] \in 0..MaxAlloc
    BY <2>1, <2>2
  <2>4. QED
    BY <2>2, <2>3
<1>5. /\ Flow \in Seq(CellsOf(Len(sizes)))
      /\ Len(Flow) = Len(arrived) + Len(wire)
      /\ \A j \in 1..(Len(arrived) + Len(wire)) :
           Flow[j] = IF j <= Len(arrived) THEN arrived[j] ELSE wire[j - Len(arrived)]
  BY <1>1, ConcatProperties DEF Flow
<1>6. \A j \in 1..Len(arrived) : Flow[j] = arrived[j]
  BY <1>2, <1>5
<1>7. \A j \in 1..Len(wire) : Flow[Len(arrived) + j] = wire[j]
  <2> TAKE j \in 1..Len(wire)
  <2>1. /\ Len(arrived) + j \in 1..(Len(arrived) + Len(wire))
        /\ ~(Len(arrived) + j <= Len(arrived)) /\ (Len(arrived) + j) - Len(arrived) = j
    BY <1>2
  <2>2. QED
    BY <1>5, <2>1
<1>8. ASSUME NEW j \in 1..Len(Flow)
      PROVE  Flow[j][1] \in 1..Len(sizes) /\ Flow[j][2] \in Nat /\ Flow[j][2] # 0
  <2>1. Flow[j] \in CellsOf(Len(sizes))
    BY <1>5, LenProperties
  <2>2. QED
    BY <2>1 DEF CellsOf
<1>9. /\ arrived = <<>> <=> Len(arrived) = 0
      /\ wire = <<>> <=> Len(wire) = 0
      /\ Flow = <<>> <=> Len(Flow) = 0
  BY <1>1, <1>5, EmptySeq
<1>10. QED
  BY <1>1, <1>2, <1>3, <1>4, <1>5, <1>6, <1>7, <1>8, <1>9

(* The packet the stream starts with, or is in the middle of, is in the    *)
(* socket buffer up to its end.                                            *)
LEMMA PacketArrived ==
  ASSUME Typed, Sound, arrived # <<>>, NEW k, NEW i \in Nat \ {0}, Flow[1] = <<k, i>>
  PROVE  /\ k \in 1..Len(sizes) /\ i \in Nat
         /\ HdrLen + sizes[k] - i \in 0..(Len(arrived) - 1)
         /\ \A d \in 0..(HdrLen + sizes[k] - i) : arrived[1 + d] = <<k, i + d>>
         /\ \A d \in 0..(HdrLen + sizes[k] - i) : Flow[1 + d] = <<k, i + d>>
         /\ HdrLen + sizes[k] - i + 1 = Len(Flow) => k = Len(sizes) \/ peer = "reset"
         /\ HdrLen + sizes[k] - i + 1 < Len(Flow) =>
              Flow[HdrLen + sizes[k] - i + 2] = <<k + 1, 1>>
<1>1. Len(arrived) >= 1 /\ Len(Flow) >= 1 /\ Len(arrived) \in Nat /\ Len(Flow) \in Nat
  BY FlowFacts
<1>2. 1 \in 1..Len(Flow) /\ k \in 1..Len(sizes) /\ i \in Nat
  <2>1. 1 \in 1..Len(Flow)
    BY <1>1
  <2>2. Flow[1][1] \in 1..Len(sizes) /\ Flow[1][2] \in Nat
    BY <2>1, FlowFacts
  <2>3. QED
    BY <2>1, <2>2
<1>3. Ahead(Flow, sizes, 1) = HdrLen + sizes[k] - i
  BY DEF Ahead
<1>4. PICK a \in 0..(Len(Flow) - 1) : a = HdrLen + sizes[k] - i
  BY <1>2, <1>3 DEF Sound, InOrder
<1>5. /\ \A d \in 0..a : Flow[1 + d] = <<k, i + d>>
      /\ 1 + a < Len(Flow) => Flow[1 + a + 1] = <<k + 1, 1>>
  BY <1>2, <1>3, <1>4 DEF Sound, InOrder
<1>e. 1 + a = Len(Flow) => k = Len(sizes) \/ peer = "reset"
  <2>1. SUFFICES ASSUME 1 + a = Len(Flow), peer # "reset"
                 PROVE  k = Len(sizes)
    OBVIOUS
  <2>2. a \in 0..a /\ Flow[1 + a] = <<k, i + a>>
    BY <1>4, <1>5
  <2>3. Flow[Len(Flow)][1] = k
    BY <2>1, <2>2
  <2>4. ToTheLast(Flow, sizes) /\ Len(Flow) # 0
    BY <1>1, <2>1 DEF Sound, Complete
  <2>5. QED
    BY <2>3, <2>4 DEF ToTheLast
<1>6. a + 1 <= Len(arrived)
  <2> SUFFICES ASSUME Len(arrived) <= a
               PROVE  FALSE
    BY <1>1, <1>4
  <2>0. Len(Flow) = Len(arrived) + Len(wire) /\ Len(wire) \in Nat
    BY FlowFacts
  <2>1. Len(wire) >= 1 /\ wire # <<>>
    <3>1. Len(wire) >= 1
      BY <1>1, <1>4, <2>0
    <3>2. QED
      BY <3>1, FlowFacts
  <2>2. wire[1] = Flow[Len(arrived) + 1]
    BY <2>1, FlowFacts
  <2>3. Len(arrived) \in 0..a /\ Len(arrived) + 1 = 1 + Len(arrived)
    BY <1>1, <1>4
  <2>4. Flow[Len(arrived) + 1] = <<k, i + Len(arrived)>>
    BY <1>5, <2>3
  <2>5. wire[1][2] = i + Len(arrived)
    BY <2>2, <2>4
  <2>6. wire[1][2] = 1
    BY <2>1 DEF Sound, Boundary
  <2>7. QED
    BY <1>1, <1>2, <2>5, <2>6
<1>7. \A d \in 0..a : arrived[1 + d] = <<k, i + d>>
  <2> TAKE d \in 0..a
  <2>1. 1 + d \in 1..Len(arrived)
    BY <1>1, <1>4, <1>6
  <2>2. QED
    BY <1>5, <2>1, FlowFacts
<1>8. a \in 0..(Len(arrived) - 1) /\ 1 + a = a + 1 /\ 1 + a + 1 = a + 2
  BY <1>1, <1>4, <1>6
<1>9. QED
  BY <1>2, <1>4, <1>5, <1>7, <1>8, <1>e
(* A recv of n cells takes them from the front of the stream.              *)
LEMMA FlowLeft ==
  ASSUME Typed, NEW n \in 0..Len(arrived)
  PROVE  /\ Len(Left(n) \o wire) = Len(Flow) - n
         /\ \A j \in 1..(Len(Flow) - n) : (Left(n) \o wire)[j] = Flow[j + n]
         /\ Left(n) \o wire = <<>> <=> Len(Left(n) \o wire) = 0
         /\ Len(Recv(n)) = n /\ \A j \in 1..n : Recv(n)[j] = arrived[j]
         /\ Recv(n) \in Seq(CellsOf(Len(sizes)))
<1> DEFINE t == Left(n) \o wire
<1>0. /\ n \in Nat /\ n <= Len(arrived) /\ Len(arrived) \in Nat /\ Len(wire) \in Nat
      /\ Len(Flow) = Len(arrived) + Len(wire)
  BY FlowFacts
<1>1. arrived \in Seq(CellsOf(Len(sizes))) /\ wire \in Seq(CellsOf(Len(sizes)))
  BY DEF Typed, Known
<1>2. Least(n, Len(arrived)) = n
  BY <1>0 DEF Least
<1>3. /\ Left(n) \in Seq(CellsOf(Len(sizes))) /\ Len(Left(n)) = Len(arrived) - n
      /\ \A i \in 1..(Len(arrived) - n) : Left(n)[i] = arrived[i + n]
      /\ Len(Recv(n)) = n /\ \A j \in 1..n : Recv(n)[j] = arrived[j]
      /\ Recv(n) \in Seq(CellsOf(Len(sizes)))
  BY <1>0, <1>1, <1>2, RecvFacts
<1>4. /\ t \in Seq(CellsOf(Len(sizes)))
      /\ Len(t) = Len(Left(n)) + Len(wire)
      /\ \A j \in 1..(Len(Left(n)) + Len(wire)) :
           t[j] = IF j <= Len(Left(n)) THEN Left(n)[j] ELSE wire[j - Len(Left(n))]
  <2>1. \A S : \A a, b \in Seq(S) :
          /\ a \o b \in Seq(S) /\ Len(a \o b) = Len(a) + Len(b)
          /\ \A i \in 1..(Len(a) + Len(b)) :
               (a \o b)[i] = IF i <= Len(a) THEN a[i] ELSE b[i - Len(a)]
    BY ConcatProperties
  <2>2. Left(n) \in Seq(CellsOf(Len(sizes))) /\ wire \in Seq(CellsOf(Len(sizes)))
    BY <1>1, <1>3
  <2>3. /\ Left(n) \o wire \in Seq(CellsOf(Len(sizes)))
        /\ Len(Left(n) \o wire) = Len(Left(n)) + Len(wire)
        /\ \A i \in 1..(Len(Left(n)) + Len(wire)) :
             (Left(n) \o wire)[i] = IF i <= Len(Left(n)) THEN Left(n)[i] ELSE wire[i - Len(Left(n))]
    BY <2>1, <2>2
  <2>4. QED
    BY <2>3
<1> HIDE DEF t
<1>5. Len(t) = Len(Flow) - n
  BY <1>0, <1>3, <1>4
<1>6. ASSUME NEW j \in 1..(Len(Flow) - n)
      PROVE  t[j] = Flow[j + n]
  <2>1. CASE j <= Len(arrived) - n
    <3>1. t[j] = arrived[j + n]
      BY <1>0, <1>3, <1>4, <2>1
    <3>2. j + n \in 1..Len(arrived)
      BY <1>0, <2>1
    <3>3. QED
      BY <3>1, <3>2, FlowFacts
  <2>2. CASE j > Len(arrived) - n
    <3>1. /\ j - (Len(arrived) - n) \in 1..Len(wire)
          /\ j \in 1..((Len(arrived) - n) + Len(wire)) /\ ~(j <= Len(arrived) - n)
          /\ j + n = Len(arrived) + (j - (Len(arrived) - n))
      BY <1>0, <2>2
    <3>2. t[j] = wire[j - (Len(arrived) - n)]
      BY <1>3, <1>4, <3>1
    <3>3. Flow[Len(arrived) + (j - (Len(arrived) - n))] = wire[j - (Len(arrived) - n)]
      BY <3>1, FlowFacts
    <3>4. QED
      BY <3>1, <3>2, <3>3
  <2>3. j <= Len(arrived) - n \/ j > Len(arrived) - n
    BY <1>0
  <2>4. QED
    BY <2>1, <2>2, <2>3
<1>7. t = <<>> <=> Len(t) = 0
  BY <1>4, EmptySeq
<1>8. QED
  BY <1>3, <1>5, <1>6, <1>7 DEF t

(* Steps that leave the stream and the handler alone.                      *)
LEMMA SameFlow ==
  ASSUME Sound, Flow' = Flow, sizes' = sizes
  PROVE  InOrder(Flow, sizes)' /\ (peer # "reset" => ToTheLast(Flow, sizes)')
<1>1. InOrder(Flow, sizes) /\ (peer # "reset" => ToTheLast(Flow, sizes))
  BY DEF Sound, Complete
<1>2. InOrder(Flow', sizes') /\ (peer # "reset" => ToTheLast(Flow', sizes'))
  BY <1>1
<1>3. QED
  BY <1>2

LEMMA SendSound ==
  ASSUME Typed, Sound, NEW n \in Sizes, Send(n), whole'
  PROVE  Sound'
<1>0. n \in Nat /\ n # 0
  <2>1. n # 0
    BY Zenon DEF Send
  <2>2. QED
    BY <2>1, SessionAssumption
<1> DEFINE k == Len(sizes) + 1
           p == Packet(k, n)
<1>1. /\ k \in Nat /\ k \in 1..k /\ HdrLen \in Nat /\ HdrLen > 0
      /\ Len(sizes) \in Nat /\ Len(got) \in Nat
  BY FlowFacts, SessionAssumption
<1>2. /\ p \in Seq(CellsOf(k)) /\ Len(p) = HdrLen + n
      /\ \A i \in 1..(HdrLen + n) : p[i] = <<k, i>>
  <2>. HIDE DEF k
  <2>1. QED
    BY <1>0, <1>1, PacketFacts DEF p
<1>3. /\ arrived \in Seq(CellsOf(k)) /\ wire \in Seq(CellsOf(k)) /\ Flow \in Seq(CellsOf(k))
      /\ Flow \in Seq(CellsOf(Len(sizes)))
  BY <1>1, FlowFacts, CellsGrow DEF Typed, Known
<1>4. wire' = wire \o p /\ arrived' = arrived /\ sizes' = Append(sizes, n)
  BY DEF Send
<1>5. Flow' = Flow \o p
  <2>. HIDE DEF k, p
  <2>1. (arrived \o wire) \o p = arrived \o (wire \o p)
    <3>1. \A S : \A a, b, c \in Seq(S) : (a \o b) \o c = a \o (b \o c)
      BY ConcatAssociative
    <3>2. QED
      BY <1>2, <1>3, <3>1
  <2>2. QED
    BY <1>4, <2>1 DEF Flow
<1>6. InOrder(Flow, sizes)' /\ Complete'
  <2>0. peer = "open" /\ InOrder(Flow, sizes) /\ ToTheLast(Flow, sizes)
    BY DEF Send, Sound, Complete
  <2>1. InOrder(Flow \o p, Append(sizes, n)) /\ ToTheLast(Flow \o p, Append(sizes, n))
    BY <1>0, <1>3, <2>0, FlowFacts, InOrderAppend
  <2>. HIDE DEF p
  <2>2. InOrder(Flow', sizes') /\ ToTheLast(Flow', sizes')
    BY <1>4, <1>5, <2>1
  <2>3. QED
    BY <2>2 DEF Complete
<1>7. /\ Len(sizes') = k /\ sizes'[k] = n
      /\ \A i \in 1..Len(sizes) : sizes'[i] = sizes[i]
  BY <1>0, <1>4, FlowFacts, AppendProperties
<1>8. /\ Len(Flow') = Len(Flow) + (HdrLen + n)
      /\ \A i \in 1..(Len(Flow) + (HdrLen + n)) :
           Flow'[i] = IF i <= Len(Flow) THEN Flow[i] ELSE p[i - Len(Flow)]
      /\ Flow' \in Seq(CellsOf(k))
  <2>. HIDE DEF k, p
  <2>1. /\ Flow \o p \in Seq(CellsOf(k))
        /\ Len(Flow \o p) = Len(Flow) + Len(p)
        /\ \A i \in 1..(Len(Flow) + Len(p)) :
             (Flow \o p)[i] = IF i <= Len(Flow) THEN Flow[i] ELSE p[i - Len(Flow)]
    BY <1>2, <1>3, ConcatProperties, Zenon
  <2>2. QED
    BY <1>2, <1>5, <2>1
<1>9. Len(Flow) \in Nat /\ Len(wire) \in Nat /\ p[1] = <<k, 1>> /\ Flow' # <<>>
  BY <1>0, <1>1, <1>2, <1>3, <1>8, LenProperties, EmptySeq
<1>10. Boundary'
  <2>1. \A i \in 1..(Len(wire) + Len(p)) :
          wire'[i] = IF i <= Len(wire) THEN wire[i] ELSE p[i - Len(wire)]
    BY <1>2, <1>3, <1>4, ConcatProperties
  <2>2. wire'[1] = IF 1 <= Len(wire) THEN wire[1] ELSE p[1 - Len(wire)]
    BY <1>0, <1>1, <1>2, <1>9, <2>1
  <2>3. wire'[1][2] = 1
    <3>1. CASE Len(wire) = 0
      BY <1>9, <2>2, <3>1
    <3>2. CASE Len(wire) # 0
      <4>1. wire # <<>>
        BY <3>2, FlowFacts
      <4>2. QED
        BY <1>9, <2>2, <3>2, <4>1 DEF Sound, Boundary
    <3>3. QED
      BY <3>1, <3>2
  <2>4. QED
    BY <2>3 DEF Boundary
<1>11. Faithful'
  <2>1. got' = got /\ Len(got) <= Len(sizes)
    BY DEF Send, Sound, Faithful
  <2>2. ASSUME NEW i \in 1..Len(got)
        PROVE  got'[i] = Data(i, sizes'[i])
    <3>1. i \in 1..Len(sizes)
      BY <1>1, <2>1
    <3>2. QED
      BY <1>7, <2>1, <3>1 DEF Sound, Faithful
  <2>3. ASSUME NEW i \in 1..k
        PROVE  sizes'[i] # 0
    <3>1. CASE i = k
      BY <1>0, <1>7, <3>1
    <3>2. CASE i # k
      <4>1. i \in 1..Len(sizes)
        BY <1>1, <3>2
      <4>2. QED
        BY <1>7, <4>1 DEF Sound, Faithful
    <3>3. QED
      BY <3>1, <3>2
  <2>4. QED
    BY <1>1, <1>7, <2>1, <2>2, <2>3 DEF Faithful
<1>12. Place'
  <2>1. hpc' = hpc /\ want' = want /\ got' = got /\ peer' = "open" /\ peer = "open"
    BY DEF Send
  <2>2. hpc # "done"
    BY <2>1 DEF Sound, Place
  <2>3. CASE hpc = "size"
    <3>1. Flow'[1] = <<Len(got) + 1, 1>>
      <4>1. Flow'[1] = IF 1 <= Len(Flow) THEN Flow[1] ELSE p[1 - Len(Flow)]
        BY <1>0, <1>1, <1>8, <1>9
      <4>2. CASE Len(Flow) = 0
        <5>1. Flow = <<>>
          BY <4>2, FlowFacts
        <5>2. Len(got) = Len(sizes)
          BY <2>1, <2>3, <5>1 DEF Sound, Place
        <5>3. QED
          BY <1>9, <4>1, <4>2, <5>2
      <4>3. CASE Len(Flow) # 0
        <5>1. Flow # <<>>
          BY <4>3, FlowFacts
        <5>2. QED
          BY <1>9, <2>3, <4>1, <4>3, <5>1 DEF Sound, Place
      <4>4. QED
        BY <4>2, <4>3
    <3>2. QED
      BY <1>9, <2>1, <2>3, <3>1 DEF Place
  <2>4. CASE hpc = "data"
    <3>1. /\ Len(got) < Len(sizes) /\ want = sizes[Len(got) + 1]
          /\ Flow # <<>> /\ Flow[1] = <<Len(got) + 1, HdrLen + 1>>
      BY <2>4 DEF Sound, Place
    <3>2. Flow'[1] = Flow[1]
      <4>1. Len(Flow) # 0
        BY <3>1, FlowFacts
      <4>2. QED
        BY <1>0, <1>1, <1>8, <1>9, <4>1
    <3>3. sizes'[Len(got) + 1] = sizes[Len(got) + 1] /\ Len(got) < Len(sizes')
      BY <1>1, <1>7, <3>1
    <3>4. QED
      BY <1>9, <2>1, <2>4, <3>1, <3>2, <3>3 DEF Place
  <2>5. QED
    BY <2>2, <2>3, <2>4 DEF Typed, TypeOK
<1>13. ~fault'
  BY DEF Send, Sound
<1>14. QED
  BY <1>6, <1>10, <1>11, <1>12, <1>13 DEF Sound
LEMMA ArriveSound ==
  ASSUME Typed, Sound, NEW n \in 1..Len(wire), Arrive(n), whole'
  PROVE  Sound'
<1>1. /\ arrived \in Seq(CellsOf(Len(sizes))) /\ wire \in Seq(CellsOf(Len(sizes)))
      /\ Len(wire) \in Nat
  BY FlowFacts DEF Typed, Known
<1>2. \A i \in 1..Len(wire) : wire[i] \in CellsOf(Len(sizes))
  BY <1>1, LenProperties
<1> DEFINE s1 == SubSeq(wire, 1, n)
           s2 == SubSeq(wire, n + 1, Len(wire))
<1>3. s1 \in Seq(CellsOf(Len(sizes)))
  BY <1>1, <1>2, SubSeqProperties
<1>4. /\ s2 \in Seq(CellsOf(Len(sizes)))
      /\ Len(s2) = IF n + 1 <= Len(wire) THEN Len(wire) - (n + 1) + 1 ELSE 0
      /\ \A i \in 1..(Len(wire) - (n + 1) + 1) : s2[i] = wire[n + 1 + i - 1]
  BY <1>1, <1>2, SubSeqProperties
<1>5. s1 \o s2 = wire
  <2>1. SubSeq(wire, 1, n) \o SubSeq(wire, n + 1, Len(wire)) = SubSeq(wire, 1, Len(wire))
    <3>1. 1 \in 1..(Len(wire) + 1) /\ n \in (1 - 1)..Len(wire) /\ Len(wire) \in n..Len(wire)
      BY <1>1
    <3>2. QED
      BY <1>1, <3>1, ConcatAdjacentSubSeq
  <2>2. SubSeq(wire, 1, Len(wire)) = wire
    BY <1>1, SubSeqFull
  <2>3. QED
    BY <2>1, <2>2
<1>6. arrived' = arrived \o s1 /\ wire' = s2
  BY DEF Arrive
<1> HIDE DEF s1, s2
<1>7. Flow' = Flow
  <2>1. \A S : \A a, b, c \in Seq(S) : (a \o b) \o c = a \o (b \o c)
    BY ConcatAssociative
  <2>2. (arrived \o s1) \o s2 = arrived \o (s1 \o s2)
    <3>1. /\ arrived \in Seq(CellsOf(Len(sizes))) /\ s1 \in Seq(CellsOf(Len(sizes)))
          /\ s2 \in Seq(CellsOf(Len(sizes)))
      BY <1>1, <1>3, <1>4
    <3>2. QED
      BY <2>1, <3>1
  <2>3. QED
    BY <1>5, <1>6, <2>2 DEF Flow
<1>8. Boundary'
  <2>1. n < Len(wire) => wire[n + 1][2] = 1
    BY Zenon DEF Arrive
  <2>2. SUFFICES ASSUME s2 # <<>>
                 PROVE  s2[1][2] = 1
    BY <1>6 DEF Boundary
  <2>3. Len(s2) # 0
    BY <1>4, <2>2, EmptySeq
  <2>4. n < Len(wire) /\ 1 \in 1..(Len(wire) - (n + 1) + 1) /\ n + 1 + 1 - 1 = n + 1
    BY <1>1, <1>4, <2>3
  <2>5. s2[1] = wire[n + 1]
    BY <1>4, <2>4
  <2>6. QED
    BY <2>1, <2>4, <2>5
<1>9. UNCHANGED <<peer, sizes, hpc, want, got, fault>>
  BY DEF Arrive
<1>10. InOrder(Flow, sizes)' /\ Complete'
  BY <1>7, <1>9, SameFlow DEF Complete
<1>11. Faithful' /\ Place' /\ ~fault'
  BY <1>7, <1>9 DEF Sound, Faithful, Place
<1>12. QED
  BY <1>8, <1>10, <1>11 DEF Sound

(* What has arrived is of whole packets: none has cells in it and others   *)
(* under way.                                                              *)
LEMMA ArrivedInOrder ==
  ASSUME Typed, Sound
  PROVE  InOrder(arrived, sizes)
<1>1. SUFFICES ASSUME NEW j \in 1..Len(arrived)
               PROVE  /\ Ahead(arrived, sizes, j) \in 0..(Len(arrived) - j)
                      /\ \A d \in 0..Ahead(arrived, sizes, j) :
                           arrived[j + d] = <<arrived[j][1], arrived[j][2] + d>>
                      /\ j + Ahead(arrived, sizes, j) < Len(arrived) =>
                           arrived[j + Ahead(arrived, sizes, j) + 1] = <<arrived[j][1] + 1, 1>>
  BY DEF InOrder
<1>2. /\ Len(arrived) \in Nat /\ Len(wire) \in Nat /\ Len(Flow) = Len(arrived) + Len(wire)
      /\ \A i \in 1..Len(arrived) : Flow[i] = arrived[i]
  BY FlowFacts
<1>3. j \in 1..Len(Flow) /\ Flow[j] = arrived[j]
  BY <1>2
<1>4. Flow[j][2] \in Nat /\ Flow[j][2] # 0
  BY <1>3, FlowFacts
<1>5. Ahead(arrived, sizes, j) = Ahead(Flow, sizes, j)
  BY <1>3 DEF Ahead
<1>6. PICK a \in 0..(Len(Flow) - j) : a = Ahead(Flow, sizes, j)
  BY <1>3 DEF Sound, InOrder
<1>7. /\ \A d \in 0..a : Flow[j + d] = <<Flow[j][1], Flow[j][2] + d>>
      /\ j + a < Len(Flow) => Flow[j + a + 1] = <<Flow[j][1] + 1, 1>>
  BY <1>3, <1>6 DEF Sound, InOrder
<1>8. a <= Len(arrived) - j
  <2>1. SUFFICES ASSUME Len(arrived) - j < a
                 PROVE  FALSE
    BY <1>2, <1>6
  <2>2. PICK d \in Nat : d = Len(arrived) - j + 1
    <3>1. Len(arrived) - j + 1 \in Nat
      BY <1>2
    <3>2. QED
      BY Zenon, <3>1
  <2>3. d \in 0..a /\ j + d = Len(arrived) + 1 /\ d >= 1 /\ 1 \in 1..Len(wire)
    BY <1>2, <1>6, <2>1, <2>2
  <2>4. Flow[Len(arrived) + 1] = <<Flow[j][1], Flow[j][2] + d>>
    BY <1>7, <2>3
  <2>5. wire[1] = Flow[Len(arrived) + 1] /\ wire # <<>>
    BY <2>3, FlowFacts
  <2>6. wire[1][2] = 1
    BY <2>5 DEF Sound, Boundary
  <2>7. QED
    BY <1>4, <2>3, <2>4, <2>5, <2>6
<1>9. \A d \in 0..a : arrived[j + d] = <<arrived[j][1], arrived[j][2] + d>>
  <2> TAKE d \in 0..a
  <2>1. j + d \in 1..Len(arrived)
    BY <1>2, <1>6, <1>8
  <2>2. QED
    BY <1>2, <1>3, <1>7, <2>1
<1>10. ASSUME j + a < Len(arrived)
       PROVE  arrived[j + a + 1] = <<arrived[j][1] + 1, 1>>
  <2>1. j + a + 1 \in 1..Len(arrived) /\ j + a < Len(Flow)
    BY <1>2, <1>6, <1>10
  <2>2. QED
    BY <1>2, <1>3, <1>7, <2>1
<1>11. a \in 0..(Len(arrived) - j)
  BY <1>2, <1>6, <1>8
<1>12. QED
  BY <1>5, <1>6, <1>9, <1>10, <1>11

LEMMA CloseSound ==
  ASSUME Typed, Sound, Connect \/ Close
  PROVE  Sound'
<1>1. /\ UNCHANGED <<sizes, wire, arrived, hpc, want, got, fault>>
      /\ peer \in {"start", "open"} /\ peer' \in {"open", "closed"}
  BY DEF Connect, Close
<1>2. Flow' = Flow
  BY <1>1 DEF Flow
<1>3. InOrder(Flow, sizes)' /\ Complete'
  BY <1>1, <1>2, SameFlow DEF Complete
<1>4. Boundary' /\ Faithful' /\ ~fault'
  BY <1>1, <1>2 DEF Sound, Boundary, Faithful
<1>5. Place'
  BY <1>1, <1>2 DEF Sound, Place
<1>6. QED
  BY <1>3, <1>4, <1>5 DEF Sound

LEMMA ResetSound ==
  ASSUME Typed, Sound, Reset, whole'
  PROVE  Sound'
<1>0. hpc = "data" => arrived' = arrived
  BY Zenon DEF Reset
<1>1. /\ UNCHANGED <<sizes, hpc, want, got, fault>> /\ peer = "open" /\ peer' = "reset"
      /\ wire' = <<>> /\ arrived' \in {arrived, <<>>}
  BY DEF Reset
<1>2. Flow' = arrived'
  BY <1>1, EmptySeq, ConcatEmptySeq DEF Flow, Typed, Known
<1>3. Complete' /\ Boundary' /\ Faithful' /\ ~fault' /\ hpc # "done"
  BY <1>1 DEF Sound, Complete, Boundary, Faithful, Place
<1>4. CASE arrived' = <<>> /\ hpc # "data"
  <2>1. InOrder(Flow, sizes)'
    BY <1>2, <1>4 DEF InOrder
  <2>2. Place'
    BY <1>1, <1>2, <1>3, <1>4 DEF Place, Typed, TypeOK
  <2>3. QED
    BY <1>3, <2>1, <2>2 DEF Sound
<1>5. CASE arrived' = arrived
  <2>1. InOrder(Flow', sizes')
    BY <1>1, <1>2, <1>5, ArrivedInOrder
  <2>2. hpc = "data" => arrived # <<>>
    <3>1. SUFFICES ASSUME hpc = "data", arrived = <<>>
                   PROVE  FALSE
      OBVIOUS
    <3>2. Flow # <<>> /\ Flow[1] = <<Len(got) + 1, HdrLen + 1>>
      BY <3>1 DEF Sound, Place
    <3>3. Len(arrived) = 0 /\ Len(wire) \in Nat /\ Len(wire) # 0
      BY <3>1, <3>2, FlowFacts
    <3>4. 1 \in 1..Len(wire) /\ 0 + 1 = 1 /\ wire # <<>>
      BY <3>3, FlowFacts
    <3>5. wire[1] = Flow[1]
      BY <3>3, <3>4, FlowFacts
    <3>6. wire[1][2] = 1
      BY <3>4 DEF Sound, Boundary
    <3>7. QED
      BY <3>2, <3>5, <3>6, SessionAssumption
  <2>3. arrived # <<>> => Flow # <<>> /\ arrived[1] = Flow[1]
    BY FlowFacts
  <2>4. Place'
    BY <1>1, <1>2, <1>3, <1>5, <2>2, <2>3 DEF Sound, Place
  <2>5. QED
    BY <1>3, <2>1, <2>4 DEF Sound
<1>6. QED
  BY <1>0, <1>1, <1>4, <1>5

(* What receiving the header does.                                         *)
LEMMA SizeReceived ==
  ASSUME Typed, Sound, RecvSize
  PROVE  /\ Len(got) < Len(sizes) /\ want' = sizes[Len(got) + 1]
         /\ HdrLen \in 0..Len(arrived) /\ HdrLen < Len(Flow)
         /\ Flow[1 + HdrLen] = <<Len(got) + 1, HdrLen + 1>>
<1>0. HdrLen \in Nat /\ HdrLen >= 1 /\ Len(arrived) \in Nat /\ Len(got) \in Nat
      /\ Len(sizes) \in Nat
  BY FlowFacts, SessionAssumption
<1>1. hpc = "size" /\ arrived # <<>> /\ want' \in SizeIn(Recv(HdrLen))
  BY DEF RecvSize
<1>2. Flow # <<>>
  BY <1>1, FlowFacts
<1>3. Flow[1] = <<Len(got) + 1, 1>>
  BY <1>1, <1>2 DEF Sound, Place
<1> DEFINE k == Len(got) + 1
<1>4. /\ k \in 1..Len(sizes)
      /\ HdrLen + sizes[k] - 1 \in 0..(Len(arrived) - 1)
      /\ \A d \in 0..(HdrLen + sizes[k] - 1) : arrived[1 + d] = <<k, 1 + d>>
      /\ \A d \in 0..(HdrLen + sizes[k] - 1) : Flow[1 + d] = <<k, 1 + d>>
  BY <1>1, <1>3, PacketArrived
<1>5. sizes[k] \in Nat /\ sizes[k] >= 1 /\ Len(got) < Len(sizes)
  <2>1. sizes[k] \in Nat /\ sizes[k] # 0
    BY <1>4, FlowFacts DEF Sound, Faithful
  <2>2. QED
    BY <1>0, <1>4, <2>1
<1>6. k \in Nat /\ k \in 1..k
  BY <1>0
<1> HIDE DEF k
<1>7. HdrLen \in 0..Len(arrived) /\ HdrLen < Len(arrived)
  BY <1>0, <1>4, <1>5
<1>8. HdrLen < Len(Flow)
  <2>1. Len(Flow) = Len(arrived) + Len(wire) /\ Len(wire) \in Nat
    BY FlowFacts
  <2>2. QED
    BY <1>0, <1>7, <2>1
<1>9. Flow[1 + HdrLen] = <<k, 1 + HdrLen>>
  <2>1. HdrLen \in 0..(HdrLen + sizes[k] - 1)
    BY <1>0, <1>5
  <2>2. QED
    BY <1>4, <2>1
<1>10. /\ Len(Recv(HdrLen)) = HdrLen /\ Recv(HdrLen) \in Seq(CellsOf(Len(sizes)))
       /\ \A j \in 1..HdrLen : Recv(HdrLen)[j] = arrived[j]
  BY <1>7, FlowLeft
<1>11. \A j \in 1..HdrLen : Recv(HdrLen)[j] = <<k, j>>
  <2> TAKE j \in 1..HdrLen
  <2>1. j - 1 \in 0..(HdrLen + sizes[k] - 1) /\ 1 + (j - 1) = j
    BY <1>0, <1>5
  <2>2. arrived[j] = <<k, j>>
    BY <1>4, <2>1
  <2>3. QED
    BY <1>10, <2>2
<1>12. Recv(HdrLen) = SubSeq(Packet(k, sizes[k]), 1, HdrLen)
  <2>1. /\ Packet(k, sizes[k]) \in Seq(CellsOf(Len(sizes)))
        /\ Len(Packet(k, sizes[k])) = HdrLen + sizes[k]
        /\ \A i \in 1..(HdrLen + sizes[k]) : Packet(k, sizes[k])[i] = <<k, i>>
    BY <1>0, <1>4, <1>5, <1>6, PacketFacts
  <2>2. \A i \in 1..HdrLen : Packet(k, sizes[k])[i] = <<k, i>>
                             /\ Packet(k, sizes[k])[i] \in CellsOf(Len(sizes))
    <3> TAKE i \in 1..HdrLen
    <3>1. i \in 1..(HdrLen + sizes[k])
      BY <1>0, <1>5
    <3>2. <<k, i>> \in CellsOf(Len(sizes))
      BY <1>4 DEF CellsOf
    <3>3. QED
      BY <2>1, <3>1, <3>2
  <2>3. /\ SubSeq(Packet(k, sizes[k]), 1, HdrLen) \in Seq(CellsOf(Len(sizes)))
        /\ Len(SubSeq(Packet(k, sizes[k]), 1, HdrLen)) =
             IF 1 <= HdrLen THEN HdrLen - 1 + 1 ELSE 0
        /\ \A i \in 1..(HdrLen - 1 + 1) :
             SubSeq(Packet(k, sizes[k]), 1, HdrLen)[i] = Packet(k, sizes[k])[1 + i - 1]
    BY <1>0, <2>2, SubSeqProperties
  <2>4. \A i \in 1..HdrLen :
          SubSeq(Packet(k, sizes[k]), 1, HdrLen)[i] = Packet(k, sizes[k])[i]
    BY <1>0, <2>3
  <2>5. Len(SubSeq(Packet(k, sizes[k]), 1, HdrLen)) = HdrLen
    BY <1>0, <2>3
  <2>6. QED
    BY <1>10, <1>11, <2>2, <2>3, <2>4, <2>5, SeqEqual
<1>13. Recv(HdrLen)[1] = <<k, 1>>
  BY <1>0, <1>11
<1>14. SizeIn(Recv(HdrLen)) = {sizes[k]}
  <2>1. Recv(HdrLen)[1][1] = k
    BY <1>13
  <2>2. QED
    BY <1>12, <2>1 DEF SizeIn
<1>15. want' = sizes[k]
  BY <1>1, <1>14
<1>16. QED
  BY <1>0, <1>5, <1>7, <1>8, <1>9, <1>15 DEF k

LEMMA RecvSizeSound ==
  ASSUME Typed, Sound, RecvSize
  PROVE  Sound'
<1>1. /\ Len(got) < Len(sizes) /\ want' = sizes[Len(got) + 1]
      /\ HdrLen \in 0..Len(arrived) /\ HdrLen < Len(Flow)
      /\ Flow[1 + HdrLen] = <<Len(got) + 1, HdrLen + 1>>
  BY SizeReceived
<1>2. /\ UNCHANGED <<peer, sizes, wire, got>> /\ hpc = "size" /\ hpc' = "data"
      /\ fault' = (want' > MaxAlloc) /\ arrived' = Left(HdrLen)
  BY DEF RecvSize
<1>3. /\ Len(Flow') = Len(Flow) - HdrLen
      /\ \A j \in 1..(Len(Flow) - HdrLen) : Flow'[j] = Flow[j + HdrLen]
      /\ Flow' = <<>> <=> Len(Flow') = 0
  <2>1. Flow' = Left(HdrLen) \o wire
    BY <1>2 DEF Flow
  <2>2. QED
    BY <1>1, <2>1, FlowLeft
<1>4. HdrLen \in Nat /\ Len(Flow) \in Nat /\ Len(got) \in Nat /\ Len(sizes) \in Nat
  BY FlowFacts, SessionAssumption
<1>5. InOrder(Flow, sizes)' /\ Complete'
  <2>1. HdrLen \in 0..Len(Flow)
    BY <1>1, <1>4
  <2>2. InOrder(Flow', sizes) /\ (ToTheLast(Flow, sizes) => ToTheLast(Flow', sizes))
    BY <1>3, <2>1, FlowFacts, InOrderDrop DEF Sound
  <2>3. QED
    BY <1>2, <2>2 DEF Sound, Complete
<1>6. Boundary' /\ Faithful'
  BY <1>2 DEF Sound, Boundary, Faithful
<1>7. ~fault'
  <2>1. want' \in Nat /\ want' <= MaxAlloc /\ MaxAlloc \in Nat
    <3>1. Len(got) + 1 \in 1..Len(sizes)
      BY <1>1, <1>4
    <3>2. QED
      BY <1>1, <3>1, FlowFacts, SessionAssumption
  <2>2. ~(want' > MaxAlloc)
    BY <2>1
  <2>3. QED
    BY <1>2, <2>2
<1>8. Flow' # <<>> /\ Flow'[1] = <<Len(got) + 1, HdrLen + 1>>
  BY <1>1, <1>3, <1>4
<1>9. Place'
  BY <1>1, <1>2, <1>8 DEF Place
<1>10. QED
  BY <1>5, <1>6, <1>7, <1>9 DEF Sound

LEMMA RecvSizeFailsSound ==
  ASSUME Typed, Sound, RecvSizeFails
  PROVE  Sound' /\ Flow = <<>> /\ (peer = "closed" => Len(got) = Len(sizes))
<1>1. /\ UNCHANGED <<peer, sizes, wire, arrived, want, got, fault>>
      /\ hpc = "size" /\ hpc' = "done" /\ wire = <<>> /\ arrived = <<>>
      /\ peer \in {"closed", "reset"}
  BY DEF RecvSizeFails, EndOfStream
<1>2. Flow' = Flow /\ Flow = <<>>
  BY <1>1, EmptySeq, ConcatEmptySeq DEF Flow
<1>3. InOrder(Flow, sizes)' /\ Complete'
  BY <1>1, <1>2, SameFlow DEF Complete
<1>4. peer = "closed" => Len(got) = Len(sizes)
  BY <1>1, <1>2 DEF Sound, Place
<1>5. Boundary' /\ Faithful' /\ ~fault'
  BY <1>1, <1>2 DEF Sound, Boundary, Faithful
<1>6. Place'
  BY <1>1, <1>2, <1>4 DEF Place
<1>7. QED
  BY <1>2, <1>3, <1>4, <1>5, <1>6 DEF Sound

(* What receiving the data does.                                           *)
LEMMA DataReceivedWhole ==
  ASSUME Typed, Sound, RecvData
  PROVE  /\ Len(got) < Len(sizes) /\ want = sizes[Len(got) + 1]
         /\ want \in 1..Len(arrived)
         /\ got' = Append(got, Data(Len(got) + 1, want))
         /\ want = Len(Flow) => Len(got) + 1 = Len(sizes) \/ peer = "reset"
         /\ want < Len(Flow) => Flow[1 + want] = <<Len(got) + 2, 1>>
<1>0. HdrLen \in Nat /\ HdrLen >= 1 /\ Len(arrived) \in Nat /\ Len(got) \in Nat
      /\ Len(sizes) \in Nat /\ want \in Nat
  BY FlowFacts, SessionAssumption
<1>1. hpc = "data" /\ want > 0 /\ arrived # <<>>
  BY DEF RecvData
<1>2. /\ Len(got) < Len(sizes) /\ want = sizes[Len(got) + 1]
      /\ Flow[1] = <<Len(got) + 1, HdrLen + 1>>
  BY <1>1 DEF Sound, Place
<1> DEFINE k == Len(got) + 1
<1>3. HdrLen + 1 \in Nat \ {0} /\ k \in Nat
  BY <1>0
<1> HIDE DEF k
<1>4. want = sizes[k] /\ Flow[1] = <<k, HdrLen + 1>> /\ HdrLen + sizes[k] - (HdrLen + 1) = want - 1
  BY <1>0, <1>2 DEF k
<1>5. /\ HdrLen + sizes[k] - (HdrLen + 1) \in 0..(Len(arrived) - 1)
      /\ \A d \in 0..(HdrLen + sizes[k] - (HdrLen + 1)) : arrived[1 + d] = <<k, HdrLen + 1 + d>>
      /\ HdrLen + sizes[k] - (HdrLen + 1) + 1 = Len(Flow) =>
           k = Len(sizes) \/ peer = "reset"
      /\ HdrLen + sizes[k] - (HdrLen + 1) + 1 < Len(Flow) =>
           Flow[HdrLen + sizes[k] - (HdrLen + 1) + 2] = <<k + 1, 1>>
  BY <1>1, <1>3, <1>4, PacketArrived
<1>6. want \in 1..Len(arrived) /\ want - 1 + 1 = want /\ want - 1 + 2 = 1 + want
  <2>1. want - 1 \in 0..(Len(arrived) - 1)
    BY <1>4, <1>5
  <2>2. QED
    BY <1>0, <2>1
<1>7. /\ \A d \in 0..(want - 1) : arrived[1 + d] = <<k, HdrLen + 1 + d>>
      /\ want = Len(Flow) => k = Len(sizes) \/ peer = "reset"
      /\ want < Len(Flow) => Flow[1 + want] = <<k + 1, 1>>
  BY <1>4, <1>5, <1>6
<1>8. \A i \in 1..want :
        (IF i <= Len(arrived) THEN arrived[i] ELSE Uninit) = <<k, HdrLen + i>>
  <2> TAKE i \in 1..want
  <2>1. i - 1 \in 0..(want - 1) /\ 1 + (i - 1) = i /\ HdrLen + 1 + (i - 1) = HdrLen + i
        /\ i <= Len(arrived)
    BY <1>0, <1>6
  <2>2. arrived[i] = <<k, HdrLen + i>>
    BY <1>7, <2>1
  <2>3. QED
    BY <2>1, <2>2
<1>9. [i \in 1..want |-> IF i <= Len(arrived) THEN arrived[i] ELSE Uninit] = Data(k, want)
  BY <1>8 DEF Data
<1>10. got' = Append(got, Data(k, want))
  BY <1>9 DEF RecvData
<1>11. k + 1 = Len(got) + 2
  BY <1>0 DEF k
<1>12. QED
  BY <1>2, <1>6, <1>7, <1>10, <1>11 DEF k

LEMMA RecvDataSound ==
  ASSUME Typed, Sound, RecvData
  PROVE  Sound'
<1>1. /\ Len(got) < Len(sizes) /\ want = sizes[Len(got) + 1]
      /\ want \in 1..Len(arrived)
      /\ got' = Append(got, Data(Len(got) + 1, want))
      /\ want = Len(Flow) => Len(got) + 1 = Len(sizes) \/ peer = "reset"
      /\ want < Len(Flow) => Flow[1 + want] = <<Len(got) + 2, 1>>
  BY DataReceivedWhole
<1>2. /\ UNCHANGED <<peer, sizes, wire, want, fault>> /\ hpc = "data" /\ hpc' = "size"
      /\ arrived' = Left(want)
  BY DEF RecvData
<1>3. /\ want \in Nat /\ Len(Flow) \in Nat /\ Len(got) \in Nat /\ Len(sizes) \in Nat
      /\ Len(arrived) \in Nat /\ Len(wire) \in Nat /\ Len(Flow) = Len(arrived) + Len(wire)
  BY FlowFacts
<1>4. want \in 0..Len(arrived) /\ want \in 0..Len(Flow)
  BY <1>1, <1>3
<1>5. /\ Len(Flow') = Len(Flow) - want
      /\ \A j \in 1..(Len(Flow) - want) : Flow'[j] = Flow[j + want]
      /\ Flow' = <<>> <=> Len(Flow') = 0
  <2>1. Flow' = Left(want) \o wire
    BY <1>2 DEF Flow
  <2>2. QED
    BY <1>4, <2>1, FlowLeft
<1>6. InOrder(Flow, sizes)' /\ Complete'
  <2>1. InOrder(Flow', sizes) /\ (ToTheLast(Flow, sizes) => ToTheLast(Flow', sizes))
    BY <1>4, <1>5, FlowFacts, InOrderDrop DEF Sound
  <2>2. QED
    BY <1>2, <2>1 DEF Sound, Complete
<1>7. /\ Len(got') = Len(got) + 1
      /\ \A i \in 1..Len(got) : got'[i] = got[i]
      /\ got'[Len(got) + 1] = Data(Len(got) + 1, want)
  <2>1. got \in Seq(Seq(Cell)) /\ Data(Len(got) + 1, want) \in Seq(Cell)
    BY <1>3, DataFacts DEF Typed, TypeOK
  <2>2. QED
    BY <1>1, <2>1, AppendProperties
<1>8. Faithful'
  <2>1. \A i \in 1..Len(got') : got'[i] = Data(i, sizes[i])
    <3> TAKE i \in 1..Len(got')
    <3>1. CASE i = Len(got) + 1
      BY <1>1, <1>7, <3>1
    <3>2. CASE i # Len(got) + 1
      <4>1. i \in 1..Len(got)
        BY <1>3, <1>7, <3>2
      <4>2. QED
        BY <1>7, <4>1 DEF Sound, Faithful
    <3>3. QED
      BY <3>1, <3>2
  <2>2. Len(got') <= Len(sizes)
    BY <1>1, <1>3, <1>7
  <2>3. \A i \in 1..Len(sizes) : sizes[i] # 0
    BY DEF Sound, Faithful
  <2>4. QED
    BY <1>2, <2>1, <2>2, <2>3 DEF Faithful
<1>9. Boundary' /\ ~fault'
  BY <1>2 DEF Sound, Boundary
<1>10. Flow' # <<>> => Flow'[1] = <<Len(got') + 1, 1>>
  <2> SUFFICES ASSUME Flow' # <<>>
               PROVE  Flow'[1] = <<Len(got') + 1, 1>>
    OBVIOUS
  <2>1. want < Len(Flow) /\ 1 \in 1..(Len(Flow) - want) /\ Len(got') + 1 = Len(got) + 2
    BY <1>3, <1>4, <1>5, <1>7
  <2>2. QED
    BY <1>1, <1>5, <2>1
<1>11. Flow' = <<>> => Len(got') = Len(sizes) \/ peer = "reset"
  BY <1>1, <1>3, <1>5, <1>7
<1>12. Place'
  BY <1>2, <1>10, <1>11 DEF Place
<1>13. QED
  BY <1>6, <1>8, <1>9, <1>12 DEF Sound

LEMMA NoRecvDataFails ==
  ASSUME Typed, Sound, RecvDataFails
  PROVE  FALSE
<1>1. hpc = "data" /\ (want = 0 \/ EndOfStream)
  BY DEF RecvDataFails
<1>2. Len(got) < Len(sizes) /\ want = sizes[Len(got) + 1] /\ Flow # <<>>
  BY <1>1 DEF Sound, Place
<1>3. want # 0
  <2>1. Len(got) + 1 \in 1..Len(sizes)
    BY <1>2, FlowFacts
  <2>2. QED
    BY <1>2, <2>1 DEF Sound, Faithful
<1>4. ~EndOfStream
  <2>1. SUFFICES ASSUME wire = <<>>, arrived = <<>>
                 PROVE  FALSE
    BY DEF EndOfStream
  <2>2. Flow = <<>>
    BY <2>1, EmptySeq, ConcatEmptySeq DEF Flow
  <2>3. QED
    BY <1>2, <2>2
<1>5. QED
  BY <1>1, <1>3, <1>4

LEMMA InvInit == Init => SessionInv
<1> SUFFICES ASSUME Init
             PROVE  SessionInv
  OBVIOUS
<1>1. Typed
  BY TypedInit
<1>2. Flow = <<>>
  BY EmptySeq, ConcatEmptySeq DEF Init, Flow
<1>3. InOrder(Flow, sizes) /\ Complete
  BY <1>2 DEF InOrder, Complete, ToTheLast
<1>4. Boundary /\ ~fault
  BY <1>2 DEF Init, Boundary
<1>5. Faithful /\ Place
  BY <1>2 DEF Init, Faithful, Place
<1>6. QED
  BY <1>1, <1>3, <1>4, <1>5 DEF SessionInv, Sound

(* What has once been cut stays cut.                                       *)
LEMMA WholeBefore ==
  ASSUME [Next]_vars, whole'
  PROVE  whole
<1>1. ASSUME NEW n, Send(n)
      PROVE  whole
  BY <1>1, Zenon DEF Send
<1>2. ASSUME NEW n, Arrive(n)
      PROVE  whole
  BY <1>2, Zenon DEF Arrive
<1>3. ASSUME Reset
      PROVE  whole
  BY <1>3, Zenon DEF Reset
<1>4. ASSUME Connect \/ Close \/ RecvSize \/ RecvSizeFails \/ RecvData \/ RecvDataFails
               \/ UNCHANGED vars
      PROVE  whole
  BY <1>4 DEF Connect, Close, RecvSize, RecvSizeFails, RecvData, RecvDataFails, vars
<1>5. QED
  BY <1>1, <1>2, <1>3, <1>4 DEF Next, Client, Stream, Handler

LEMMA InvNext == SessionInv /\ [Next]_vars => SessionInv'
<1> SUFFICES ASSUME SessionInv, [Next]_vars
             PROVE  SessionInv'
  OBVIOUS
<1>1. Typed /\ Typed'
  BY TypedNext DEF SessionInv
<1>2. SUFFICES ASSUME whole'
               PROVE  Sound'
  BY <1>1 DEF SessionInv
<1>3. whole
  BY <1>2, WholeBefore
<1>4. Sound
  BY <1>3 DEF SessionInv
<1>5. CASE UNCHANGED vars
  <2>1. UNCHANGED <<peer, sizes, wire, arrived, hpc, want, got, fault>>
    BY <1>5 DEF vars
  <2>2. Flow' = Flow
    BY <2>1 DEF Flow
  <2>3. InOrder(Flow, sizes)' /\ Complete'
    BY <1>4, <2>1, <2>2, SameFlow DEF Complete
  <2>4. Boundary' /\ Faithful' /\ Place' /\ ~fault'
    BY <1>4, <2>1, <2>2 DEF Sound, Boundary, Faithful, Place
  <2>5. QED
    BY <2>3, <2>4 DEF Sound
<1>6. QED
  BY <1>1, <1>2, <1>4, <1>5, CloseSound, ResetSound, SendSound, ArriveSound, RecvSizeSound,
     RecvSizeFailsSound, RecvDataSound, NoRecvDataFails DEF Next, Client, Stream, Handler

LEMMA InvHolds == Spec => []SessionInv
BY InvInit, InvNext, PTL DEF Spec

(* While packets arrive whole, receiving them never frees or uses a bad    *)
(* pointer, whatever the sizes and the number of packets.                  *)
THEOREM NoFaultHolds == Spec => []NoFault
<1>1. SessionInv => NoFault
  BY DEF SessionInv, Sound, NoFault
<1>2. QED
  BY <1>1, InvHolds, PTL
-----------------------------------------------------------------------------
(* The session as a Channel                                                *)

LEMMA SentOf ==
  ASSUME NEW sz \in Seq(Nat)
  PROVE  /\ [k \in DOMAIN sz |-> Data(k, sz[k])] \in Seq(Seq(Cell))
         /\ Len([k \in DOMAIN sz |-> Data(k, sz[k])]) = Len(sz)
         /\ \A k \in 1..Len(sz) : [j \in DOMAIN sz |-> Data(j, sz[j])][k] = Data(k, sz[k])
<1>1. /\ Len(sz) \in Nat /\ DOMAIN sz = 1..Len(sz)
      /\ \A k \in 1..Len(sz) : sz[k] \in Nat
  BY LenProperties
<1>2. \A k \in 1..Len(sz) : Data(k, sz[k]) \in Seq(Cell)
  BY <1>1, DataFacts
<1>3. [k \in 1..Len(sz) |-> Data(k, sz[k])] \in Seq(Seq(Cell))
  BY <1>1, <1>2, IsASeq
<1>4. QED
  BY <1>1, <1>3, LenProperties

LEMMA SentFacts ==
  ASSUME Typed
  PROVE  /\ Sent \in Seq(Seq(Cell)) /\ Len(Sent) = Len(sizes)
         /\ \A k \in 1..Len(sizes) : Sent[k] = Data(k, sizes[k])
BY FlowFacts, SentOf DEF Sent

LEMMA ChannelInit == Init => C!Init
<1> SUFFICES ASSUME Init
             PROVE  C!Init
  OBVIOUS
<1>1. Sent = <<>>
  <2>1. Typed /\ sizes = <<>>
    BY TypedInit DEF Init
  <2>2. Sent \in Seq(Seq(Cell)) /\ Len(Sent) = 0
    BY <2>1, SentFacts
  <2>3. QED
    BY <2>2, EmptySeq
<1>2. got = <<>> /\ Line = "open" /\ (hpc = "done") = FALSE
  BY DEF Init, Line
<1>3. QED
  BY <1>1, <1>2 DEF C!Init

(* Sent and the line, when the client does nothing.                        *)
LEMMA SameClient ==
  ASSUME UNCHANGED <<sizes, peer>>
  PROVE  UNCHANGED <<Sent, Line>>
BY DEF Sent, Line

LEMMA SendIsSend ==
  ASSUME Typed, NEW n \in Sizes, Send(n)
  PROVE  C!Send(Data(Len(sizes) + 1, n))
<1>1. /\ peer = "open" /\ sizes' = Append(sizes, n) /\ UNCHANGED <<peer, hpc, got>>
  BY DEF Send
<1>2. n \in Nat /\ sizes \in Seq(Nat) /\ Len(sizes) \in Nat
  BY FlowFacts, SessionAssumption
<1>3. /\ Len(sizes') = Len(sizes) + 1 /\ sizes'[Len(sizes) + 1] = n
      /\ \A k \in 1..Len(sizes) : sizes'[k] = sizes[k]
  BY <1>1, <1>2, AppendProperties
<1>4. /\ Sent \in Seq(Seq(Cell)) /\ Len(Sent) = Len(sizes)
      /\ \A k \in 1..Len(sizes) : Sent[k] = Data(k, sizes[k])
  BY SentFacts
<1>5. /\ Sent' \in Seq(Seq(Cell)) /\ Len(Sent') = Len(sizes')
      /\ \A k \in 1..Len(sizes') : Sent'[k] = Data(k, sizes'[k])
  <2>1. sizes' \in Seq(Nat)
    BY <1>1, <1>2, AppendProperties
  <2>2. QED
    BY <2>1, SentOf DEF Sent
<1> DEFINE m == Data(Len(sizes) + 1, n)
<1>6. m \in Seq(Cell)
  BY <1>2, DataFacts
<1>7. Sent'[Len(sizes) + 1] = m
  BY <1>2, <1>3, <1>5
<1> HIDE DEF m
<1>8. /\ Append(Sent, m) \in Seq(Seq(Cell)) /\ Len(Append(Sent, m)) = Len(Sent) + 1
      /\ \A k \in 1..Len(Sent) : Append(Sent, m)[k] = Sent[k]
      /\ Append(Sent, m)[Len(Sent) + 1] = m
  BY <1>4, <1>6, AppendProperties
<1>9. \A k \in 1..Len(Sent') : Sent'[k] = Append(Sent, m)[k]
  <2> TAKE k \in 1..Len(Sent')
  <2>1. CASE k = Len(sizes) + 1
    BY <1>4, <1>7, <1>8, <2>1
  <2>2. CASE k # Len(sizes) + 1
    <3>1. k \in 1..Len(sizes) /\ k \in 1..Len(sizes')
      BY <1>2, <1>3, <1>5, <2>2
    <3>2. Sent'[k] = Data(k, sizes[k])
      BY <1>3, <1>5, <3>1
    <3>3. QED
      BY <1>4, <1>8, <3>1, <3>2
  <2>3. QED
    BY <2>1, <2>2
<1>10. Sent' = Append(Sent, m)
  <2>1. Len(Sent') = Len(Append(Sent, m))
    BY <1>3, <1>4, <1>5, <1>8
  <2>2. QED
    BY <1>5, <1>8, <1>9, <2>1, SeqEqual
<1>11. Line = "open" /\ UNCHANGED <<got, Line, hpc = "done">>
  BY <1>1 DEF Line
<1>12. QED
  BY <1>10, <1>11 DEF C!Send, m

LEMMA RecvDataIsDeliver ==
  ASSUME Typed, Sound, RecvData
  PROVE  C!Deliver
<1>1. /\ Len(got) < Len(sizes) /\ want = sizes[Len(got) + 1]
      /\ got' = Append(got, Data(Len(got) + 1, want))
  BY DataReceivedWhole
<1>2. UNCHANGED <<sizes, peer>> /\ hpc = "data" /\ hpc' = "size"
  BY DEF RecvData
<1>3. Len(Sent) = Len(sizes) /\ Sent[Len(got) + 1] = Data(Len(got) + 1, want)
  <2>1. Len(got) + 1 \in 1..Len(sizes)
    BY <1>1, FlowFacts
  <2>2. QED
    BY <1>1, <2>1, SentFacts
<1>4. got' = Append(got, Sent[Len(got) + 1]) /\ Len(got) < Len(Sent)
  BY <1>1, <1>3
<1>5. UNCHANGED <<Sent, Line>>
  BY <1>2, SameClient
<1>6. (hpc = "done") = FALSE /\ (hpc = "done")' = FALSE
  BY <1>2
<1>7. QED
  BY <1>4, <1>5, <1>6 DEF C!Deliver

LEMMA RecvSizeFailsIsNoticeEnd ==
  ASSUME Typed, Sound, RecvSizeFails
  PROVE  C!NoticeEnd
<1>1. /\ peer \in {"closed", "reset"} /\ hpc' = "done" /\ UNCHANGED <<sizes, peer, got>>
  BY DEF RecvSizeFails, EndOfStream
<1>2. Line # "open" /\ (Line = "closed" => peer = "closed")
  BY <1>1 DEF Line
<1>3. peer = "closed" => got = Sent
  <2> SUFFICES ASSUME peer = "closed"
               PROVE  got = Sent
    OBVIOUS
  <2>1. Len(got) = Len(sizes)
    BY RecvSizeFailsSound
  <2>2. got \in Seq(Seq(Cell)) /\ Sent \in Seq(Seq(Cell)) /\ Len(Sent) = Len(got)
    BY <2>1, SentFacts DEF Typed, TypeOK
  <2>3. \A k \in 1..Len(got) : got[k] = Sent[k]
    BY <2>1, SentFacts DEF Sound, Faithful
  <2>4. QED
    BY <2>2, <2>3, SeqEqual
<1>4. UNCHANGED <<Sent, Line>>
  BY <1>1, SameClient
<1>5. (hpc = "done")' = TRUE
  BY <1>1
<1>6. QED
  BY <1>1, <1>2, <1>3, <1>4, <1>5 DEF C!NoticeEnd

LEMMA ChannelNext ==
  SessionInv /\ [Next]_vars =>
    [whole' => ChannelStep]_<<Sent, got, Line, hpc = "done">>
<1> SUFFICES ASSUME SessionInv, [Next]_vars, whole'
             PROVE  ChannelStep \/ UNCHANGED <<Sent, got, Line, hpc = "done">>
  OBVIOUS
<1>1. Typed /\ Sound
  BY WholeBefore DEF SessionInv
<1>2. CASE UNCHANGED vars \/ Connect \/ RecvSize \/ \E n \in 1..Len(wire) : Arrive(n)
  <2>1. UNCHANGED <<sizes, got>>
    BY <1>2 DEF vars, Connect, RecvSize, Arrive
  <2>2. UNCHANGED Sent
    BY <2>1 DEF Sent
  <2>3. UNCHANGED Line
    BY <1>2 DEF vars, Connect, RecvSize, Arrive, Line
  <2>4. UNCHANGED (hpc = "done")
    BY <1>2 DEF vars, Connect, RecvSize, Arrive
  <2>5. QED
    BY <2>1, <2>2, <2>3, <2>4
<1>3. ASSUME NEW n \in Sizes, Send(n)
      PROVE  ChannelStep
  BY <1>1, <1>3, SendIsSend DEF ChannelStep
<1>4. CASE Close \/ Reset
  <2>1. peer = "open" /\ peer' \in {"closed", "reset"} /\ UNCHANGED <<sizes, got, hpc>>
    BY <1>4 DEF Close, Reset
  <2>2. UNCHANGED Sent
    BY <2>1 DEF Sent
  <2>3. Line = "open" /\ Line' \in {"closed", "reset"}
    BY <2>1 DEF Line
  <2>4. C!HangUp
    BY <2>1, <2>2, <2>3 DEF C!HangUp
  <2>5. QED
    BY <2>4 DEF ChannelStep
<1>5. CASE RecvData
  BY <1>1, <1>5, RecvDataIsDeliver DEF ChannelStep
<1>6. CASE RecvSizeFails
  BY <1>1, <1>6, RecvSizeFailsIsNoticeEnd DEF ChannelStep
<1>7. CASE RecvDataFails
  BY <1>1, <1>7, NoRecvDataFails
<1>8. QED
  BY <1>2, <1>3, <1>4, <1>5, <1>6, <1>7 DEF Next, Client, Stream, Handler

(* While packets arrive whole, every packet is received with its own data, *)
(* once, in order, and the end is noticed after the last one.              *)
THEOREM ImplementsChannelHolds == Spec => ImplementsChannel
<1>1. Init => C!Init
  BY ChannelInit
<1>2. SessionInv /\ [Next]_vars =>
        [whole' => ChannelStep]_<<Sent, got, Line, hpc = "done">>
  BY ChannelNext
<1>3. QED
  BY <1>1, <1>2, InvHolds, PTL DEF Spec, ImplementsChannel
=============================================================================
