--------------------------- MODULE StringsProofs ---------------------------
(***************************************************************************)
(* What holds of the strings for all characters, texts of any length and   *)
(* strings of any capacity.                                                *)
(***************************************************************************)
EXTENDS Strings, SequenceTheorems, WellFoundedInduction, TLAPS

-----------------------------------------------------------------------------
(* A string is good if its text lies in its buffer, without a zero, and a  *)
(* zero byte ends the buffer.                                              *)
Strs == [data : Seq(Bytes), capacity : Nat, len : Nat]
Buffered(s) == Len(s.data) = s.capacity + 1 \/ (s.data = <<>> /\ s.capacity = 0)
Ended(s) == s.len <= s.capacity /\ (s.data # <<>> => s.data[s.capacity + 1] = NUL)
Filled(s) == \A i \in 1..s.len : s.data[i] \in Chars
Good(s) == s \in Strs /\ Buffered(s) /\ Ended(s) /\ Filled(s)

(* Everything behind the text is zero.                                     *)
Blank(s) == \A i \in 1..Len(s.data) : i > s.len => s.data[i] = NUL

(* The same text.                                                          *)
SameText(s, t) == t.len = s.len /\ \A i \in 1..s.len : t.data[i] = s.data[i]

(* The texts that callers pass are texts.                                  *)
LEMMA SourceFacts == Sources \subseteq Seq(Chars)
  <1> SUFFICES ASSUME NEW src \in Sources PROVE src \in Seq(Chars)
    OBVIOUS
  <1>1. PICK n \in 0..MaxSource : src \in [1..n -> Chars]
    BY DEF Sources
  <1>2. n \in Nat
    BY <1>1, StringsAssumption
  <1> QED BY <1>1, <1>2, SeqDef

(* A text is a sequence of bytes, none of them zero.                       *)
LEMMA TextFacts ==
  ASSUME NEW src \in Seq(Chars)
  PROVE  /\ src \in Seq(Bytes) /\ Len(src) \in Nat
         /\ \A i \in 1..Len(src) : src[i] \in Chars
  <1>1. \A i \in 1..Len(src) : src[i] \in Chars
    BY ElementOfSeq
  <1>2. src \in Seq(Bytes)
    BY SeqMonotonic DEF Bytes
  <1> QED BY <1>1, <1>2

(* Lengths and positions in a good string.                                 *)
LEMMA GoodFacts ==
  ASSUME NEW s, Good(s)
  PROVE  /\ s.data \in Seq(Bytes) /\ s.capacity \in Nat /\ s.len \in Nat
         /\ s.len <= s.capacity /\ s.len <= Len(s.data) /\ Len(s.data) \in Nat
         /\ s.data # <<>> => Len(s.data) = s.capacity + 1
         /\ s.data = <<>> => Len(s.data) = 0 /\ s.capacity = 0 /\ s.len = 0
         /\ \A i \in 1..Len(s.data) : s.data[i] \in Bytes
         /\ s = [data |-> s.data, capacity |-> s.capacity, len |-> s.len]
  <1>1. s.data \in Seq(Bytes) /\ s.capacity \in Nat /\ s.len \in Nat
    BY DEF Good, Strs
  <1>2. s.len <= s.capacity
    BY DEF Good, Ended
  <1>3. Len(s.data) \in Nat /\ (s.data = <<>> => Len(s.data) = 0)
    BY <1>1
  <1>4. Len(s.data) = s.capacity + 1 \/ (s.data = <<>> /\ s.capacity = 0)
    BY DEF Good, Buffered
  <1>5. \A i \in 1..Len(s.data) : s.data[i] \in Bytes
    BY <1>1, ElementOfSeq
  <1>6. s = [data |-> s.data, capacity |-> s.capacity, len |-> s.len]
    BY DEF Good, Strs
  <1> QED BY <1>1, <1>2, <1>3, <1>4, <1>5, <1>6

(* str_malloc                                                              *)
LEMMA MallocFacts ==
  ASSUME NEW n \in Nat
  PROVE  /\ Good(StrMalloc(n)) /\ Blank(StrMalloc(n))
         /\ StrMalloc(n).capacity = n /\ StrMalloc(n).len = 0
         /\ StrMalloc(n).data # <<>>
  <1> DEFINE d == Zeros(n + 1)
  <1>1. d \in [1..(n + 1) -> Bytes] /\ \A i \in 1..(n + 1) : d[i] = NUL
    BY DEF Zeros, Bytes
  <1>2. d \in Seq(Bytes) /\ Len(d) = n + 1
    BY <1>1, SeqDef
  <1>3. StrMalloc(n) = [data |-> d, capacity |-> n, len |-> 0]
    BY DEF StrMalloc
  <1> HIDE DEF d
  <1>4. d # <<>>
    BY <1>2
  <1> QED BY <1>1, <1>2, <1>3, <1>4 DEF Good, Strs, Buffered, Ended, Filled, Blank

(* str_realloc, which is only asked for more than there is.                *)
LEMMA ReallocFacts ==
  ASSUME NEW s, Good(s), s.data # <<>>, NEW n \in Nat, n >= s.capacity
  PROVE  /\ Good(StrRealloc(s, n)) /\ Blank(StrRealloc(s, n))
         /\ StrRealloc(s, n).capacity = n /\ StrRealloc(s, n).data # <<>>
         /\ SameText(s, StrRealloc(s, n))
  <1> DEFINE d == [i \in 1..(n + 1) |-> IF i <= s.len THEN s.data[i] ELSE NUL]
  <1>1. /\ s.data \in Seq(Bytes) /\ s.len \in Nat /\ s.capacity \in Nat
        /\ s.len <= s.capacity /\ s.len <= n
        /\ s = [data |-> s.data, capacity |-> s.capacity, len |-> s.len]
    BY GoodFacts
  <1>2. \A i \in 1..s.len : s.data[i] \in Chars
    BY DEF Good, Filled
  <1>3. /\ d \in [1..(n + 1) -> Bytes]
        /\ \A i \in 1..(n + 1) : d[i] = IF i <= s.len THEN s.data[i] ELSE NUL
    BY <1>1, <1>2 DEF Bytes
  <1>4. d \in Seq(Bytes) /\ Len(d) = n + 1
    BY <1>3, SeqDef
  <1>5. StrRealloc(s, n) = [s EXCEPT !.capacity = n, !.data = d] /\ s \in Strs
    BY DEF StrRealloc, Good
  <1> HIDE DEF d
  <1>6. StrRealloc(s, n) = [data |-> d, capacity |-> n, len |-> s.len]
    BY <1>5 DEF Strs
  <1>7. d # <<>> /\ d[n + 1] = NUL
    BY <1>1, <1>3, <1>4
  <1>8. \A i \in 1..s.len : d[i] = s.data[i]
    BY <1>1, <1>3
  <1>9. \A i \in 1..(n + 1) : i > s.len => d[i] = NUL
    BY <1>1, <1>3
  <1> QED BY <1>1, <1>2, <1>4, <1>6, <1>7, <1>8, <1>9
          DEF Good, Strs, Buffered, Ended, Filled, Blank, SameText

(* use_correct_method_to_alloc                                             *)
LEMMA AllocFacts ==
  ASSUME NEW s, Good(s), NEW n \in Nat, n >= s.capacity
  PROVE  /\ Good(Alloc(s, n)) /\ Blank(Alloc(s, n))
         /\ Alloc(s, n).capacity = n /\ Alloc(s, n).data # <<>>
         /\ SameText(s, Alloc(s, n))
  <1>1. CASE s.data # <<>>
    BY <1>1, ReallocFacts DEF Alloc
  <1>2. CASE s.data = <<>>
    <2>1. s.len = 0
      BY <1>2, GoodFacts
    <2> QED BY <1>2, <2>1, MallocFacts DEF Alloc, SameText
  <1> QED BY <1>1, <1>2

(* ensure_capacity_to_cat makes room for n bytes.                          *)
LEMMA EnsuredFacts ==
  ASSUME NEW s, Good(s), NEW n \in Nat
  PROVE  /\ Good(Ensured(s, n)) /\ SameText(s, Ensured(s, n))
         /\ s.len + n <= Ensured(s, n).capacity
         /\ Blank(s) \/ SpaceLeft(s) < n => Blank(Ensured(s, n))
         /\ s.data # <<>> => Ensured(s, n).data # <<>>
  <1>1. s.len \in Nat /\ s.capacity \in Nat /\ s.len <= s.capacity
    BY GoodFacts
  <1>2. CASE SpaceLeft(s) < n
    <2> DEFINE c == s.capacity + n - SpaceLeft(s)
    <2>1. c \in Nat /\ c >= s.capacity /\ c = s.len + n
      BY <1>1, <1>2 DEF SpaceLeft
    <2>2. Ensured(s, n) = Alloc(s, c)
      BY <1>2 DEF Ensured
    <2> HIDE DEF c
    <2> QED BY <2>1, <2>2, AllocFacts
  <1>3. CASE ~(SpaceLeft(s) < n)
    <2>1. s.len + n <= s.capacity
      BY <1>1, <1>3 DEF SpaceLeft
    <2> QED BY <1>3, <2>1 DEF Ensured, SameText
  <1> QED BY <1>2, <1>3

(* memcpy inside the buffer.                                               *)
LEMMA MemcpyFacts ==
  ASSUME NEW data \in Seq(Bytes), NEW at \in Nat, NEW src \in Seq(Bytes),
         at + Len(src) <= Len(data)
  PROVE  /\ Memcpy(data, at, src) \in Seq(Bytes)
         /\ Len(Memcpy(data, at, src)) = Len(data)
         /\ \A i \in 1..Len(data) : Memcpy(data, at, src)[i] =
              IF at < i /\ i <= at + Len(src) THEN src[i - at] ELSE data[i]
  <1> DEFINE n == Len(data)
             k == Len(src)
             d == [i \in 1..n |-> IF i \in (at + 1)..(at + k) THEN src[i - at] ELSE data[i]]
  <1>1. n \in Nat /\ k \in Nat /\ ~(at + k > n)
    OBVIOUS
  <1>2. Memcpy(data, at, src) = d
    BY <1>1 DEF Memcpy
  <1>3. \A i \in 1..n : data[i] \in Bytes
    BY ElementOfSeq
  <1>4. \A i \in 1..k : src[i] \in Bytes
    BY ElementOfSeq
  <1> HIDE DEF n, k
  <1>5. \A i \in 1..n : i \in (at + 1)..(at + k) => i - at \in 1..k
    BY <1>1
  <1>6. d \in [1..n -> Bytes]
    BY <1>3, <1>4, <1>5
  <1>7. \A i \in 1..n : d[i] = IF at < i /\ i <= at + k THEN src[i - at] ELSE data[i]
    BY <1>1
  <1> HIDE DEF d
  <1>8. d \in Seq(Bytes) /\ Len(d) = n
    BY <1>1, <1>6, SeqDef
  <1> QED BY <1>2, <1>7, <1>8 DEF n, k

(* memcpy to the beginning of the buffer.                                  *)
LEMMA MemcpyAtStart ==
  ASSUME NEW data \in Seq(Bytes), NEW src \in Seq(Bytes), Len(src) <= Len(data)
  PROVE  /\ Memcpy(data, 0, src) \in Seq(Bytes)
         /\ Len(Memcpy(data, 0, src)) = Len(data)
         /\ \A i \in 1..Len(data) : Memcpy(data, 0, src)[i] = IF i <= Len(src) THEN src[i] ELSE data[i]
  <1>1. 0 \in Nat /\ 0 + Len(src) <= Len(data) /\ Len(data) \in Nat /\ Len(src) \in Nat
    OBVIOUS
  <1> DEFINE d == Memcpy(data, 0, src)
  <1>2. /\ d \in Seq(Bytes) /\ Len(d) = Len(data)
        /\ \A i \in 1..Len(data) : d[i] = IF 0 < i /\ i <= 0 + Len(src) THEN src[i - 0] ELSE data[i]
    BY <1>1, MemcpyFacts
  <1> HIDE DEF d
  <1>3. ASSUME NEW i \in 1..Len(data)
        PROVE  d[i] = IF i <= Len(src) THEN src[i] ELSE data[i]
    <2>1. (0 < i /\ i <= 0 + Len(src)) = (i <= Len(src)) /\ i - 0 = i
      BY <1>1
    <2> QED BY <1>2, <2>1
  <1> QED BY <1>2, <1>3 DEF d

(* A text that fits is put behind the text; what is blank stays blank.     *)
LEMMA ExtendedFacts ==
  ASSUME NEW s, Good(s), NEW src \in Seq(Chars), s.len + Len(src) <= s.capacity
  PROVE  /\ Good(Extended(s, src)) /\ (Blank(s) => Blank(Extended(s, src)))
         /\ Extended(s, src).capacity = s.capacity
         /\ Extended(s, src).len = s.len + Len(src)
         /\ \A i \in 1..(s.len + Len(src)) :
              Extended(s, src).data[i] = IF i <= s.len THEN s.data[i] ELSE src[i - s.len]
         /\ s.data # <<>> => Extended(s, src).data # <<>>
  <1> DEFINE e == Extended(s, src)
             d == Memcpy(s.data, s.len, src)
             k == Len(src)
  <1>1. /\ src \in Seq(Bytes) /\ k \in Nat /\ \A i \in 1..k : src[i] \in Chars
    BY TextFacts
  <1>2. /\ s.data \in Seq(Bytes) /\ s.capacity \in Nat /\ s.len \in Nat
        /\ Len(s.data) \in Nat /\ s.len + k <= Len(s.data)
        /\ s.data # <<>> => Len(s.data) = s.capacity + 1
        /\ s.data = <<>> => Len(s.data) = 0 /\ s.capacity = 0
    <2>1. s.data = <<>> \/ Len(s.data) = s.capacity + 1
      BY GoodFacts
    <2> QED BY <1>1, <2>1, GoodFacts
  <1>3. /\ \A i \in 1..s.len : s.data[i] \in Chars
        /\ s.data # <<>> => s.data[s.capacity + 1] = NUL
    BY DEF Good, Filled, Ended
  <1>4. /\ d \in Seq(Bytes) /\ Len(d) = Len(s.data)
        /\ \A i \in 1..Len(s.data) :
             d[i] = IF s.len < i /\ i <= s.len + k THEN src[i - s.len] ELSE s.data[i]
    BY <1>1, <1>2, MemcpyFacts
  <1>5. e = [data |-> d, capacity |-> s.capacity, len |-> s.len + k]
    <2>1. e = [s EXCEPT !.data = d, !.len = s.len + k] /\ s \in Strs
      BY DEF Extended, Good
    <2> HIDE DEF d, e, k
    <2> QED BY <2>1 DEF Strs
  <1> HIDE DEF d, e, k
  <1>6. \A i \in 1..(s.len + k) : d[i] = IF i <= s.len THEN s.data[i] ELSE src[i - s.len]
    <2> TAKE i \in 1..(s.len + k)
    <2>1. i \in 1..Len(s.data) /\ i <= s.len + k /\ (s.len < i) = ~(i <= s.len)
      BY <1>1, <1>2
    <2> QED BY <1>4, <2>1
  <1>7. \A i \in 1..(s.len + k) : d[i] \in Chars
    <2> TAKE i \in 1..(s.len + k)
    <2>1. CASE i <= s.len
      <3>1. i \in 1..s.len
        BY <1>1, <1>2, <2>1
      <3> QED BY <1>3, <1>6, <2>1, <3>1
    <2>2. CASE ~(i <= s.len)
      <3>1. i - s.len \in 1..k
        BY <1>1, <1>2, <2>2
      <3> QED BY <1>1, <1>6, <2>2, <3>1
    <2> QED BY <2>1, <2>2
  <1>8. /\ s.data # <<>> => d # <<>> /\ d[s.capacity + 1] = NUL
        /\ s.data = <<>> => d = <<>>
    <2>1. CASE s.data = <<>>
      BY <1>2, <1>4, <2>1
    <2>2. CASE s.data # <<>>
      <3>1. s.capacity + 1 \in 1..Len(s.data) /\ ~(s.capacity + 1 <= s.len + k)
        BY <1>1, <1>2, <2>2, s.len + k <= s.capacity DEF k
      <3>2. d[s.capacity + 1] = NUL
        BY <1>3, <1>4, <2>2, <3>1
      <3> QED BY <1>2, <1>4, <2>2, <3>2
    <2> QED BY <2>1, <2>2
  <1>9. ASSUME Blank(s)
        PROVE  \A i \in 1..Len(d) : i > s.len + k => d[i] = NUL
    <2>1. \A i \in 1..Len(s.data) : i > s.len => s.data[i] = NUL
      BY <1>9 DEF Blank
    <2> TAKE i \in 1..Len(d)
    <2> HAVE i > s.len + k
    <2>2. i \in 1..Len(s.data) /\ i > s.len /\ ~(i <= s.len + k)
      BY <1>1, <1>2, <1>4
    <2> QED BY <1>4, <2>1, <2>2
  <1>10. s.len + k <= s.capacity
    BY DEF k
  <1>11. Good(e)
    BY <1>1, <1>2, <1>4, <1>5, <1>7, <1>8, <1>10 DEF Good, Strs, Buffered, Ended, Filled
  <1>12. Blank(s) => Blank(e)
    BY <1>5, <1>9 DEF Blank
  <1> QED BY <1>5, <1>6, <1>8, <1>11, <1>12 DEF e, k

(* A text that fits is put in the place of the text.  What is blank stays  *)
(* blank if the text is not a shorter one.                                 *)
LEMMA OverwrittenFacts ==
  ASSUME NEW s, Good(s), NEW src \in Seq(Chars), Len(src) <= s.capacity
  PROVE  /\ Good(Overwritten(s, src))
         /\ Blank(s) /\ Len(src) >= s.len => Blank(Overwritten(s, src))
         /\ Overwritten(s, src).capacity = s.capacity
         /\ Overwritten(s, src).len = Len(src)
         /\ \A i \in 1..Len(src) : Overwritten(s, src).data[i] = src[i]
         /\ s.data # <<>> => Overwritten(s, src).data # <<>>
  <1> DEFINE e == Overwritten(s, src)
             d == Memcpy(s.data, 0, src)
             k == Len(src)
  <1>1. /\ src \in Seq(Bytes) /\ k \in Nat /\ \A i \in 1..k : src[i] \in Chars
    BY TextFacts
  <1>2. /\ s.data \in Seq(Bytes) /\ s.capacity \in Nat /\ s.len \in Nat
        /\ Len(s.data) \in Nat /\ k <= Len(s.data)
        /\ s.data # <<>> => Len(s.data) = s.capacity + 1
        /\ s.data = <<>> => Len(s.data) = 0 /\ s.capacity = 0
    <2>1. s.data = <<>> \/ Len(s.data) = s.capacity + 1
      BY GoodFacts
    <2> QED BY <1>1, <2>1, GoodFacts
  <1>3. s.data # <<>> => s.data[s.capacity + 1] = NUL
    BY DEF Good, Ended
  <1>4. /\ d \in Seq(Bytes) /\ Len(d) = Len(s.data)
        /\ \A i \in 1..Len(s.data) : d[i] = IF i <= k THEN src[i] ELSE s.data[i]
    BY <1>1, <1>2, MemcpyAtStart
  <1>5. e = [data |-> d, capacity |-> s.capacity, len |-> k]
    <2>1. e = [s EXCEPT !.data = d, !.len = k] /\ s \in Strs
      BY DEF Overwritten, Good
    <2> HIDE DEF d, e, k
    <2> QED BY <2>1 DEF Strs
  <1> HIDE DEF d, e, k
  <1>6. \A i \in 1..k : d[i] = src[i]
    <2> TAKE i \in 1..k
    <2>1. i \in 1..Len(s.data) /\ i <= k
      BY <1>1, <1>2
    <2> QED BY <1>4, <2>1
  <1>7. /\ s.data # <<>> => d # <<>> /\ d[s.capacity + 1] = NUL
        /\ s.data = <<>> => d = <<>>
    <2>1. CASE s.data = <<>>
      BY <1>2, <1>4, <2>1
    <2>2. CASE s.data # <<>>
      <3>1. s.capacity + 1 \in 1..Len(s.data) /\ ~(s.capacity + 1 <= k)
        BY <1>1, <1>2, <2>2 DEF k
      <3>2. d[s.capacity + 1] = NUL
        BY <1>3, <1>4, <2>2, <3>1
      <3> QED BY <1>2, <1>4, <2>2, <3>2
    <2> QED BY <2>1, <2>2
  <1>8. ASSUME Blank(s), k >= s.len
        PROVE  \A i \in 1..Len(d) : i > k => d[i] = NUL
    BY <1>1, <1>2, <1>4, <1>8 DEF Blank
  <1>9. k <= s.capacity
    BY DEF k
  <1>10. Good(e)
    BY <1>1, <1>2, <1>4, <1>5, <1>6, <1>7, <1>9 DEF Good, Strs, Buffered, Ended, Filled
  <1>11. Blank(s) /\ k >= s.len => Blank(e)
    BY <1>5, <1>8 DEF Blank
  <1> QED BY <1>5, <1>6, <1>7, <1>10, <1>11 DEF e, k

(* var_string_set                                                          *)
LEMMA WithTextFacts ==
  ASSUME NEW s, Good(s), NEW src \in Seq(Chars)
  PROVE  /\ Good(VarWithText(s, src))
         /\ Len(src) > s.capacity \/ (Blank(s) /\ Len(src) >= s.len) => Blank(VarWithText(s, src))
         /\ VarWithText(s, src).len = Len(src)
         /\ \A i \in 1..Len(src) : VarWithText(s, src).data[i] = src[i]
  <1>1. Len(src) \in Nat /\ s.capacity \in Nat
    BY TextFacts, GoodFacts
  <1>2. CASE Len(src) > s.capacity
    <2> DEFINE n == StrMalloc(Len(src))
    <2>1. Good(n) /\ Blank(n) /\ n.capacity = Len(src) /\ n.len = 0
      BY <1>1, MallocFacts
    <2>2. VarWithText(s, src) = Overwritten(n, src)
      BY <1>2 DEF VarWithText
    <2> HIDE DEF n
    <2>3. Len(src) <= n.capacity /\ Len(src) >= n.len
      BY <1>1, <2>1
    <2> QED BY <2>1, <2>2, <2>3, OverwrittenFacts
  <1>3. CASE ~(Len(src) > s.capacity)
    <2>1. VarWithText(s, src) = Overwritten(s, src) /\ Len(src) <= s.capacity
      BY <1>1, <1>3 DEF VarWithText
    <2> QED BY <1>3, <2>1, OverwrittenFacts
  <1> QED BY <1>2, <1>3

(* What is read in a good string begins with its text, and ends with it if *)
(* everything behind it is zero.                                           *)
LEMMA ReadFacts ==
  ASSUME NEW s, Good(s)
  PROVE  /\ Read(s.data) \in Seq(Chars) /\ Len(Read(s.data)) \in Nat
         /\ \A i \in 1..s.len : Read(s.data)[i] = s.data[i]
         /\ Blank(s) => Read(s.data) = [i \in 1..s.len |-> s.data[i]]
         /\ Blank(s) => Len(Read(s.data)) = s.len
  <1> DEFINE n == Len(s.data)
             zeros == {i \in 1..(n + 1) : i = n + 1 \/ s.data[i] = NUL}
             before == {i \in 1..n : \A j \in 1..i : s.data[j] # NUL}
  <1>1. /\ s.data \in Seq(Bytes) /\ s.len \in Nat /\ n \in Nat /\ s.len <= n
        /\ \A i \in 1..n : s.data[i] \in Chars \cup {NUL}
    BY GoodFacts DEF Bytes
  <1>2. \A i \in 1..s.len : s.data[i] # NUL
    BY StringsAssumption DEF Good, Filled
  <1>3. Read(s.data) = [i \in before |-> s.data[i]]
    BY DEF Read
  <1> HIDE DEF n
  <1>4. PICK m \in zeros : \A j \in zeros : ~(j < m)
    <2>1. zeros \subseteq Nat /\ n + 1 \in zeros
      BY <1>1
    <2> HIDE DEF zeros
    <2>2. PICK m \in zeros : \A j \in zeros : ~(<<j, m>> \in OpToRel(<, Nat))
      BY <2>1, NatLessThanWellFounded, WFMin
    <2> QED BY <2>1, <2>2 DEF OpToRel
  <1>5. m \in Nat /\ m >= 1 /\ m <= n + 1
    BY <1>1, <1>4
  <1>6. before = 1..(m - 1)
    <2>1. \A i \in before : i \in 1..(m - 1)
      BY <1>1, <1>4, <1>5
    <2>2. \A i \in 1..(m - 1) : i \in 1..n /\ \A j \in 1..i : s.data[j] # NUL
      BY <1>1, <1>4, <1>5
    <2> QED BY <2>1, <2>2
  <1>7. s.len <= m - 1
    BY <1>1, <1>2, <1>4, <1>5
  <1>8. Blank(s) => m - 1 = s.len
    <2> HAVE Blank(s)
    <2>1. s.len + 1 \in zeros
      BY <1>1 DEF Blank, n
    <2> QED BY <1>1, <1>4, <1>5, <1>7, <2>1
  <1>9. \A i \in 1..(m - 1) : s.data[i] \in Chars
    <2> TAKE i \in 1..(m - 1)
    <2>1. i \in 1..n /\ i \in before
      BY <1>1, <1>5, <1>6
    <2>2. i \in 1..i
      BY <1>1, <1>5
    <2>3. s.data[i] # NUL
      BY <2>1, <2>2
    <2> QED BY <1>1, <2>1, <2>3
  <1> HIDE DEF before, zeros
  <1>10. Read(s.data) = [i \in 1..(m - 1) |-> s.data[i]]
    BY <1>3, <1>6
  <1>11. Read(s.data) \in [1..(m - 1) -> Chars] /\ m - 1 \in Nat
    BY <1>5, <1>9, <1>10
  <1>12. Read(s.data) \in Seq(Chars) /\ Len(Read(s.data)) = m - 1
    BY <1>11, SeqDef
  <1>13. \A i \in 1..s.len : Read(s.data)[i] = s.data[i]
    BY <1>1, <1>5, <1>7, <1>10
  <1>14. ASSUME Blank(s)
         PROVE  Read(s.data) = [i \in 1..s.len |-> s.data[i]]
    BY <1>8, <1>10, <1>14
  <1>15. Blank(s) => Len(Read(s.data)) = s.len
    BY <1>8, <1>12
  <1> QED BY <1>11, <1>12, <1>13, <1>14, <1>15

(* A string whose text is t, with nothing behind it, reads as t.           *)
LEMMA ReadIs ==
  ASSUME NEW s, Good(s), Blank(s), NEW t \in Seq(Chars), s.len = Len(t),
         \A i \in 1..Len(t) : s.data[i] = t[i]
  PROVE  Read(s.data) = t
  <1>1. /\ Read(s.data) \in Seq(Chars) /\ Len(Read(s.data)) = Len(t)
        /\ \A i \in 1..Len(t) : Read(s.data)[i] = s.data[i]
    BY ReadFacts
  <1>2. \A i \in 1..Len(t) : Read(s.data)[i] = t[i]
    BY <1>1
  <1> QED BY <1>1, <1>2, SeqEqual

(* set_i, clear and fill                                                   *)
SetAt(s, i, c) == [s EXCEPT !.data[i + 1] = c]
Cleared(s) == [s EXCEPT !.data = Memcpy(@, 0, Zeros(s.len)), !.len = 0]
FilledWith(s, c) ==
  [s EXCEPT !.data = Memcpy(@, 0, [i \in 1..s.capacity |-> c]), !.len = s.capacity]

LEMMA SetIFacts ==
  ASSUME NEW s, Good(s), NEW i \in Nat, i < s.len, NEW c \in Chars, NEW e, e = SetAt(s, i, c)
  PROVE  /\ Good(e) /\ (Blank(s) => Blank(e))
         /\ e.len = s.len /\ e.data # <<>>
         /\ \A j \in 1..s.len : e.data[j] = IF j = i + 1 THEN c ELSE s.data[j]
  <1> DEFINE d == [s.data EXCEPT ![i + 1] = c]
  <1>1. /\ s.data \in Seq(Bytes) /\ s.capacity \in Nat /\ s.len \in Nat
        /\ s.len <= s.capacity /\ s.len <= Len(s.data) /\ Len(s.data) \in Nat
        /\ s.data # <<>> => Len(s.data) = s.capacity + 1
        /\ s.data = <<>> => s.len = 0
    BY GoodFacts
  <1>2. /\ \A j \in 1..s.len : s.data[j] \in Chars
        /\ s.data # <<>> => s.data[s.capacity + 1] = NUL
    BY DEF Good, Filled, Ended
  <1>3. i + 1 \in 1..Len(s.data) /\ s.data # <<>> /\ c \in Bytes
    BY <1>1 DEF Bytes
  <1>4. /\ d \in Seq(Bytes) /\ Len(d) = Len(s.data)
        /\ \A j \in 1..Len(s.data) : d[j] = IF j = i + 1 THEN c ELSE s.data[j]
    BY <1>1, <1>3, ExceptSeq
  <1>5. e = [s EXCEPT !.data = d] /\ s \in Strs
    BY DEF Good, SetAt
  <1> HIDE DEF d
  <1>6. e = [data |-> d, capacity |-> s.capacity, len |-> s.len]
    BY <1>5 DEF Strs
  <1>7. \A j \in 1..s.len : d[j] = (IF j = i + 1 THEN c ELSE s.data[j]) /\ d[j] \in Chars
    BY <1>1, <1>2, <1>4
  <1>8. d # <<>> /\ d[s.capacity + 1] = NUL
    <2>1. s.capacity + 1 \in 1..Len(s.data) /\ s.capacity + 1 # i + 1
      BY <1>1, <1>3
    <2> QED BY <1>2, <1>3, <1>4, <2>1
  <1>9. Good(e)
    BY <1>1, <1>3, <1>4, <1>6, <1>7, <1>8 DEF Good, Strs, Buffered, Ended, Filled
  <1>10. Blank(s) => Blank(e)
    <2>1. SUFFICES ASSUME Blank(s), NEW j \in 1..Len(s.data), j > s.len
                   PROVE  d[j] = NUL
      BY <1>4, <1>6 DEF Blank
    <2>2. s.data[j] = NUL /\ j # i + 1
      BY <1>1, <2>1 DEF Blank
    <2> QED BY <1>4, <2>1, <2>2
  <1> QED BY <1>6, <1>7, <1>8, <1>9, <1>10

(* var_string_clear: only the bytes of the text are zeroed.                *)
LEMMA ClearFacts ==
  ASSUME NEW s, Good(s), NEW e, e = Cleared(s)
  PROVE  Good(e) /\ (Blank(s) => Blank(e)) /\ e.len = 0
  <1> DEFINE d == Memcpy(s.data, 0, Zeros(s.len))
  <1>1. /\ s.data \in Seq(Bytes) /\ s.capacity \in Nat /\ s.len \in Nat
        /\ s.len <= s.capacity /\ s.len <= Len(s.data) /\ Len(s.data) \in Nat
        /\ s.data # <<>> => Len(s.data) = s.capacity + 1
        /\ s.data = <<>> => Len(s.data) = 0 /\ s.capacity = 0
    BY GoodFacts
  <1>2. s.data # <<>> => s.data[s.capacity + 1] = NUL
    BY DEF Good, Ended
  <1>3. Zeros(s.len) \in [1..s.len -> Bytes] /\ \A i \in 1..s.len : Zeros(s.len)[i] = NUL
    BY DEF Zeros, Bytes
  <1>4. Zeros(s.len) \in Seq(Bytes) /\ Len(Zeros(s.len)) = s.len
    BY <1>1, <1>3, SeqDef
  <1>5. /\ d \in Seq(Bytes) /\ Len(d) = Len(s.data)
        /\ \A i \in 1..Len(s.data) :
             d[i] = IF i <= s.len THEN Zeros(s.len)[i] ELSE s.data[i]
    BY <1>1, <1>4, MemcpyAtStart
  <1>6. e = [s EXCEPT !.data = d, !.len = 0] /\ s \in Strs
    BY DEF Good, Cleared
  <1> HIDE DEF d
  <1>7. e = [data |-> d, capacity |-> s.capacity, len |-> 0]
    BY <1>6 DEF Strs
  <1>8. \A i \in 1..Len(s.data) : d[i] = NUL \/ (d[i] = s.data[i] /\ i > s.len)
    <2> TAKE i \in 1..Len(s.data)
    <2>1. CASE i <= s.len
      <3>1. i \in 1..s.len
        BY <1>1, <2>1
      <3> QED BY <1>3, <1>5, <2>1, <3>1
    <2>2. CASE i > s.len
      BY <1>1, <1>5, <2>2
    <2> QED BY <1>1, <2>1, <2>2
  <1>9. /\ s.data # <<>> => d # <<>> /\ d[s.capacity + 1] = NUL
        /\ s.data = <<>> => d = <<>>
    <2>1. CASE s.data = <<>>
      BY <1>1, <1>5, <2>1
    <2>2. CASE s.data # <<>>
      <3>1. s.capacity + 1 \in 1..Len(s.data)
        BY <1>1, <2>2
      <3> QED BY <1>1, <1>2, <1>5, <1>8, <2>2, <3>1
    <2> QED BY <2>1, <2>2
  <1>10. Good(e)
    BY <1>1, <1>5, <1>7, <1>9 DEF Good, Strs, Buffered, Ended, Filled
  <1>11. Blank(s) => Blank(e)
    BY <1>5, <1>7, <1>8 DEF Blank
  <1> QED BY <1>7, <1>10, <1>11

(* fix_string_fill                                                         *)
LEMMA FillFacts ==
  ASSUME NEW s, Good(s), s.data # <<>>, NEW c \in Chars, NEW e, e = FilledWith(s, c)
  PROVE  /\ Good(e) /\ Blank(e) /\ e.len = s.capacity /\ e.data # <<>>
         /\ \A i \in 1..s.capacity : e.data[i] = c
  <1> DEFINE f == [i \in 1..s.capacity |-> c]
             d == Memcpy(s.data, 0, f)
  <1>1. /\ s.data \in Seq(Bytes) /\ s.capacity \in Nat /\ Len(s.data) = s.capacity + 1
    BY GoodFacts
  <1>2. s.data[s.capacity + 1] = NUL
    BY DEF Good, Ended
  <1>3. f \in [1..s.capacity -> Bytes] /\ \A i \in 1..s.capacity : f[i] = c
    BY DEF Bytes
  <1>4. e = [s EXCEPT !.data = d, !.len = s.capacity] /\ s \in Strs
    BY DEF Good, FilledWith
  <1> HIDE DEF f
  <1>5. f \in Seq(Bytes) /\ Len(f) = s.capacity
    BY <1>1, <1>3, SeqDef
  <1>6. /\ d \in Seq(Bytes) /\ Len(d) = Len(s.data)
        /\ \A i \in 1..Len(s.data) :
             d[i] = IF i <= s.capacity THEN f[i] ELSE s.data[i]
    BY <1>1, <1>5, MemcpyAtStart
  <1> HIDE DEF d
  <1>7. e = [data |-> d, capacity |-> s.capacity, len |-> s.capacity]
    BY <1>4 DEF Strs
  <1>8. \A i \in 1..s.capacity : d[i] = c
    <2> TAKE i \in 1..s.capacity
    <2>1. i \in 1..Len(s.data) /\ i <= s.capacity
      BY <1>1
    <2> QED BY <1>3, <1>6, <2>1
  <1>9. d # <<>> /\ d[s.capacity + 1] = NUL
    <2>1. s.capacity + 1 \in 1..Len(s.data) /\ ~(s.capacity + 1 <= s.capacity)
      BY <1>1
    <2> QED BY <1>1, <1>2, <1>6, <2>1
  <1>10. Good(e)
    BY <1>1, <1>6, <1>7, <1>8, <1>9 DEF Good, Strs, Buffered, Ended, Filled
  <1>11. Blank(e)
    BY <1>1, <1>6, <1>7, <1>9 DEF Blank
  <1> QED BY <1>7, <1>8, <1>9, <1>10, <1>11

-----------------------------------------------------------------------------
(* The invariant: the string is good, a fix_string has a buffer, and while *)
(* no shorter text has been set there is nothing behind the text.          *)
IInv ==
  /\ kind \in {"none", "var", "fix", "exited"} /\ sound \in BOOLEAN
  /\ Good(str) /\ (kind = "fix" => str.data # <<>>)
  /\ (sound => kind # "exited" /\ Blank(str))

(* A string without a buffer is good.                                      *)
LEMMA NothingFacts == Good(Nothing) /\ Blank(Nothing) /\ Nothing.len = 0
  <1>1. Len(<<>>) = 0 /\ <<>> \in Seq(Bytes)
    OBVIOUS
  <1> QED BY <1>1 DEF Nothing, Good, Strs, Buffered, Ended, Filled, Blank

(* The invariant holds at first.                                           *)
LEMMA InvInit == Init => IInv
  BY NothingFacts DEF Init, IInv

(* Each operation keeps the invariant and does what it should to the text. *)

(* Setting.                                                                *)
LEMMA SetStep ==
  ASSUME IInv, NEW src \in Sources,
         VarMakeAndSet(src) \/ VarSet(src) \/ FixFrom(src) \/ FixSet(src)
  PROVE  IInv' /\ (sound /\ sound' => T!Set(src))
  <1>1. src \in Seq(Chars) /\ Len(src) \in Nat
    BY SourceFacts, TextFacts
  <1>2. Good(str) /\ (sound => Blank(str))
    BY DEF IInv
  <1>3. /\ Good(str') /\ (sound' => Blank(str')) /\ str'.len = Len(src)
        /\ \A i \in 1..Len(src) : str'.data[i] = src[i]
        /\ kind' \in {"var", "fix"} /\ (kind' = "fix" => str'.data # <<>>)
        /\ sound' \in BOOLEAN
    <2>1. CASE VarMakeAndSet(src)
      <3>1. str' = VarWithText(Nothing, src) /\ kind' = "var" /\ sound' = sound
        BY <2>1 DEF VarMakeAndSet
      <3>2. Len(src) > Nothing.capacity \/ (Blank(Nothing) /\ Len(src) >= Nothing.len)
        BY <1>1, NothingFacts
      <3>3. Good(Nothing)
        BY NothingFacts
      <3> QED BY <1>1, <3>1, <3>2, <3>3, WithTextFacts DEF IInv
    <2>2. CASE VarSet(src)
      <3>1. /\ str' = VarWithText(str, src) /\ kind' = "var"
            /\ sound' = (Len(src) > str.capacity \/ (sound /\ Len(src) >= str.len))
        BY <2>2 DEF VarSet
      <3>2. sound' => Len(src) > str.capacity \/ (Blank(str) /\ Len(src) >= str.len)
        BY <1>2, <3>1
      <3>3. sound' \in BOOLEAN
        BY <3>1
      <3> QED BY <1>1, <1>2, <3>1, <3>2, <3>3, WithTextFacts
    <2>3. CASE FixFrom(src)
      <3> DEFINE m == StrMalloc(Len(src))
      <3>1. str' = Overwritten(m, src) /\ kind' = "fix" /\ sound' = sound
        BY <2>3 DEF FixFrom
      <3>2. Good(m) /\ Blank(m) /\ Len(src) <= m.capacity /\ Len(src) >= m.len /\ m.data # <<>>
        BY <1>1, MallocFacts
      <3> HIDE DEF m
      <3> QED BY <1>1, <3>1, <3>2, OverwrittenFacts DEF IInv
    <2>4. CASE FixSet(src)
      <3>1. /\ str' = Overwritten(str, src) /\ kind' = "fix" /\ kind = "fix"
            /\ sound' = (sound /\ Len(src) >= str.len) /\ Len(src) <= str.capacity
        BY <2>4 DEF FixSet
      <3>2. sound' => Blank(str) /\ Len(src) >= str.len
        BY <1>2, <3>1
      <3>3. sound' \in BOOLEAN
        BY <3>1
      <3>4. str.data # <<>>
        BY <3>1 DEF IInv
      <3> QED BY <1>1, <1>2, <3>1, <3>2, <3>3, <3>4, OverwrittenFacts
    <2> QED BY <2>1, <2>2, <2>3, <2>4
  <1>4. IInv'
    BY <1>3 DEF IInv
  <1>5. sound' => Read(str'.data) = src
    BY <1>1, <1>3, ReadIs
  <1> QED BY <1>4, <1>5 DEF T!Set

(* Extending: with more room first, or in the room there is.               *)
LEMMA CatStep ==
  ASSUME IInv, NEW src \in Sources, VarCat(src) \/ VarWriteRaw(src) \/ FixCat(src)
  PROVE  IInv' /\ (sound /\ sound' => T!Cat(src))
  <1>1. src \in Seq(Chars) /\ Len(src) \in Nat
    BY SourceFacts, TextFacts
  <1>2. /\ Good(str) /\ (sound => Blank(str))
        /\ str.len \in Nat /\ str.capacity \in Nat /\ str.len <= str.capacity
    BY GoodFacts DEF IInv
  <1>3. PICK e : /\ Good(e) /\ SameText(str, e) /\ str.len + Len(src) <= e.capacity
                 /\ str' = Extended(e, src) /\ (sound' => Blank(e))
                 /\ kind' = kind /\ kind \in {"var", "fix"}
                 /\ (str.data # <<>> => e.data # <<>>) /\ sound' \in BOOLEAN
    <2>1. CASE VarCat(src)
      <3>1. /\ str' = Extended(Ensured(str, Len(src)), src) /\ kind' = kind /\ kind = "var"
            /\ sound' = (sound \/ SpaceLeft(str) < Len(src))
        BY <2>1 DEF VarCat, Becomes
      <3>2. (sound' => Blank(str) \/ SpaceLeft(str) < Len(src)) /\ sound' \in BOOLEAN
        BY <1>2, <3>1
      <3> QED BY <1>1, <1>2, <3>1, <3>2, EnsuredFacts
    <2>2. CASE VarWriteRaw(src) \/ FixCat(src)
      <3>1. /\ str' = Extended(str, src) /\ kind' = kind /\ kind \in {"var", "fix"}
            /\ Len(src) <= str.capacity - str.len /\ sound' = (sound \/ FALSE)
        BY <1>1, <1>2, <2>2 DEF VarWriteRaw, FixCat, Becomes, SpaceLeft
      <3>2. (sound' => Blank(str)) /\ sound' \in BOOLEAN
        BY <1>2, <3>1
      <3>3. str.len + Len(src) <= str.capacity
        BY <1>1, <1>2, <3>1
      <3>4. SameText(str, str)
        BY DEF SameText
      <3> QED BY <1>2, <3>1, <3>2, <3>3, <3>4
    <2> QED BY <2>1, <2>2
  <1>4. e.len = str.len /\ \A i \in 1..str.len : e.data[i] = str.data[i]
    BY <1>3 DEF SameText
  <1>5. /\ Good(str') /\ (Blank(e) => Blank(str')) /\ str'.len = str.len + Len(src)
        /\ \A i \in 1..(str.len + Len(src)) :
             str'.data[i] = IF i <= str.len THEN e.data[i] ELSE src[i - str.len]
        /\ e.data # <<>> => str'.data # <<>>
    <2>1. e.len + Len(src) <= e.capacity
      BY <1>3, <1>4
    <2> QED BY <1>1, <1>3, <1>4, <2>1, ExtendedFacts
  <1>6. IInv'
    BY <1>3, <1>5 DEF IInv
  <1>7. ASSUME sound, sound'
        PROVE  Read(str'.data) = Read(str.data) \o src
    <2> DEFINE t == Read(str.data)
    <2>1. /\ t \in Seq(Chars) /\ Len(t) = str.len
          /\ \A i \in 1..str.len : t[i] = str.data[i]
      BY <1>2, <1>7, ReadFacts
    <2> HIDE DEF t
    <2>2. /\ t \o src \in Seq(Chars) /\ Len(t \o src) = str.len + Len(src)
          /\ \A i \in 1..(str.len + Len(src)) :
               (t \o src)[i] = IF i <= str.len THEN t[i] ELSE src[i - str.len]
      BY <1>1, <2>1, ConcatProperties
    <2>3. ASSUME NEW i \in 1..Len(t \o src)
          PROVE  str'.data[i] = (t \o src)[i]
      <3>1. CASE i <= str.len
        <4>1. i \in 1..str.len
          BY <1>1, <1>2, <2>2, <3>1
        <4> QED BY <1>4, <1>5, <2>1, <2>2, <3>1, <4>1
      <3>2. CASE ~(i <= str.len)
        BY <1>5, <2>2, <3>2
      <3> QED BY <3>1, <3>2
    <2>4. Blank(str')
      BY <1>3, <1>5, <1>7
    <2> QED BY <1>5, <2>2, <2>3, <2>4, ReadIs DEF t
  <1> QED BY <1>6, <1>7 DEF T!Cat

(* Changing one character.                                                 *)
LEMMA SetIStep ==
  ASSUME IInv, NEW i \in 0..(MaxCapacity - 1), NEW c \in Chars, VarSetI(i, c) \/ FixSetI(c, i)
  PROVE  IInv' /\ (sound /\ sound' => T!SetI(i + 1, c))
  <1>1. Good(str) /\ (sound => Blank(str)) /\ str.len \in Nat /\ i \in Nat
    BY GoodFacts DEF IInv
  <1>2. /\ str' = SetAt(str, i, c) /\ i < str.len /\ kind' = kind /\ kind \in {"var", "fix"}
        /\ sound' = (sound \/ FALSE)
    BY <1>1 DEF VarSetI, FixSetI, Becomes, SetAt
  <1>3. /\ Good(str') /\ (Blank(str) => Blank(str')) /\ str'.len = str.len /\ str'.data # <<>>
        /\ \A j \in 1..str.len : str'.data[j] = IF j = i + 1 THEN c ELSE str.data[j]
    BY <1>1, <1>2, SetIFacts
  <1>4. sound' = sound
    BY <1>2 DEF IInv
  <1>5. IInv'
    BY <1>1, <1>2, <1>3, <1>4 DEF IInv
  <1>6. ASSUME sound
        PROVE  /\ i + 1 \in DOMAIN Read(str.data)
               /\ Read(str'.data) = [Read(str.data) EXCEPT ![i + 1] = c]
    <2> DEFINE t == Read(str.data)
               u == [t EXCEPT ![i + 1] = c]
    <2>1. /\ t \in Seq(Chars) /\ Len(t) = str.len
          /\ \A j \in 1..str.len : t[j] = str.data[j]
      BY <1>1, <1>6, ReadFacts
    <2> HIDE DEF t
    <2>2. i + 1 \in 1..Len(t)
      BY <1>1, <1>2, <2>1
    <2>3. /\ u \in Seq(Chars) /\ Len(u) = str.len
          /\ \A j \in 1..str.len : u[j] = IF j = i + 1 THEN c ELSE t[j]
      BY <2>1, <2>2, ExceptSeq
    <2> HIDE DEF u
    <2>4. \A j \in 1..Len(u) : str'.data[j] = u[j]
      BY <1>3, <2>1, <2>3
    <2>5. Read(str'.data) = u
      BY <1>1, <1>3, <1>6, <2>3, <2>4, ReadIs
    <2>6. DOMAIN t = 1..Len(t)
      BY <2>1
    <2> QED BY <2>2, <2>5, <2>6 DEF t, u
  <1> QED BY <1>5, <1>6 DEF T!SetI

(* Filling; no text is behind the last byte then.                          *)
LEMMA FillStep ==
  ASSUME IInv, NEW c \in Chars, FixFill(c)
  PROVE  IInv' /\ T!Fill(str.capacity, c) /\ T!Fill(Len(Read(str'.data)), c)
  <1>1. Good(str) /\ kind = "fix" /\ str.data # <<>> /\ str.capacity \in Nat
    BY GoodFacts DEF IInv, FixFill
  <1>2. str' = FilledWith(str, c) /\ kind' = kind /\ sound' = (sound \/ TRUE)
    BY DEF FixFill, Becomes, FilledWith
  <1>3. /\ Good(str') /\ Blank(str') /\ str'.len = str.capacity /\ str'.data # <<>>
        /\ \A i \in 1..str.capacity : str'.data[i] = c
    BY <1>1, <1>2, FillFacts
  <1>4. IInv'
    BY <1>1, <1>2, <1>3 DEF IInv
  <1> DEFINE t == [i \in 1..str.capacity |-> c]
  <1>5. t \in [1..str.capacity -> Chars] /\ \A i \in 1..str.capacity : t[i] = c
    OBVIOUS
  <1>6. t \in Seq(Chars) /\ Len(t) = str.capacity
    BY <1>1, <1>5, SeqDef
  <1> HIDE DEF t
  <1>7. Read(str'.data) = t
    BY <1>3, <1>5, <1>6, ReadIs
  <1> QED BY <1>4, <1>6, <1>7 DEF T!Fill, t

(* What reserves and copies keeps the text.                                *)
LEMMA SameStep ==
  ASSUME IInv, (\E n \in Nat : VarReserve(n)) \/ FixCopy
  PROVE  IInv' /\ (sound /\ sound' => T!Same)
  <1>1. /\ Good(str) /\ (sound => Blank(str)) /\ str.capacity \in Nat /\ str.len \in Nat
    BY GoodFacts DEF IInv
  <1>2. ASSUME NEW n \in Nat, VarReserve(n)
        PROVE  IInv' /\ (sound /\ sound' => Read(str'.data) = Read(str.data))
    <2> DEFINE c == str.capacity + n
    <2>1. /\ str' = Alloc(str, c) /\ kind' = kind /\ kind = "var" /\ sound' = (sound \/ TRUE)
      BY <1>2 DEF VarReserve, Becomes
    <2>2. c \in Nat /\ c >= str.capacity
      BY <1>1
    <2> HIDE DEF c
    <2>3. Good(str') /\ Blank(str') /\ SameText(str, str')
      BY <1>1, <2>1, <2>2, AllocFacts
    <2>4. IInv'
      BY <2>1, <2>3 DEF IInv
    <2>5. ASSUME sound
          PROVE  Read(str'.data) = Read(str.data)
      <3> DEFINE t == Read(str.data)
      <3>1. /\ t \in Seq(Chars) /\ Len(t) = str.len
            /\ \A j \in 1..str.len : t[j] = str.data[j]
        BY <1>1, <2>5, ReadFacts
      <3> HIDE DEF t
      <3>2. str'.len = Len(t) /\ \A j \in 1..Len(t) : str'.data[j] = t[j]
        BY <2>3, <3>1 DEF SameText
      <3> QED BY <2>3, <3>1, <3>2, ReadIs DEF t
    <2> QED BY <2>4, <2>5
  <1>3. ASSUME FixCopy
        PROVE  IInv' /\ (sound /\ sound' => Read(str'.data) = Read(str.data))
    <2> DEFINE t == Read(str.data)
               m == StrMalloc(str.len)
    <2>1. /\ t \in Seq(Chars) /\ Len(t) \in Nat /\ (sound => Len(t) = str.len)
      BY <1>1, ReadFacts
    <2> HIDE DEF t
    <2>2. CASE /\ Len(t) <= str.len /\ kind = "fix" /\ kind' = kind
               /\ str' = Overwritten(m, t) /\ sound' = (sound \/ TRUE)
      <3>1. Good(m) /\ Blank(m) /\ Len(t) <= m.capacity /\ Len(t) >= m.len /\ m.data # <<>>
        BY <1>1, <2>1, <2>2, MallocFacts
      <3> HIDE DEF m
      <3>2. /\ Good(str') /\ Blank(str') /\ str'.data # <<>> /\ str'.len = Len(t)
            /\ \A j \in 1..Len(t) : str'.data[j] = t[j]
        BY <2>1, <2>2, <3>1, OverwrittenFacts
      <3>3. Read(str'.data) = t
        BY <2>1, <3>2, ReadIs
      <3>4. IInv'
        BY <2>2, <3>2 DEF IInv
      <3> QED BY <3>3, <3>4 DEF t
    <2>3. CASE Len(t) > str.len /\ kind' = "exited" /\ str' = str /\ sound' = sound
      <3>1. ~sound
        BY <1>1, <2>1, <2>3
      <3>2. IInv'
        BY <1>1, <2>3, <3>1 DEF IInv
      <3> QED BY <2>3, <3>2
    <2> QED BY <1>3, <2>2, <2>3 DEF FixCopy, Becomes, t, m
  <1> QED BY <1>2, <1>3 DEF T!Same, T!vars

(* What begins with an empty text.                                         *)
LEMMA EmptyStep ==
  ASSUME IInv, VarClear \/ (\E n \in Nat : FixMake(n)) \/ VarDestroy \/ FixDestroy
  PROVE  IInv' /\ (sound /\ sound' => T!Clear)
  <1>1. Good(str) /\ (sound => Blank(str))
    BY DEF IInv
  <1>2. /\ Good(str') /\ (sound' => Blank(str')) /\ str'.len = 0 /\ sound' \in BOOLEAN
        /\ kind' \in {"none", "var", "fix"} /\ (kind' = "fix" => str'.data # <<>>)
    <2>1. CASE VarClear
      <3>1. str' = Cleared(str) /\ kind' = "var" /\ sound' = (sound \/ FALSE)
        BY <2>1 DEF VarClear, Becomes, Cleared
      <3>2. (sound' => Blank(str)) /\ sound' \in BOOLEAN
        BY <1>1, <3>1
      <3> QED BY <1>1, <3>1, <3>2, ClearFacts
    <2>2. CASE \E n \in Nat : FixMake(n)
      <3>1. PICK n \in Nat : FixMake(n)
        BY <2>2
      <3>2. str' = StrMalloc(n) /\ kind' = "fix" /\ sound' = sound
        BY <3>1 DEF FixMake
      <3> QED BY <3>2, MallocFacts DEF IInv
    <2>3. CASE VarDestroy \/ FixDestroy
      <3>1. str' = Nothing /\ kind' = "none" /\ sound' = TRUE
        BY <2>3 DEF VarDestroy, FixDestroy, Gone
      <3> QED BY <3>1, NothingFacts
    <2> QED BY <2>1, <2>2, <2>3
  <1>3. IInv'
    BY <1>2 DEF IInv
  <1>4. ASSUME sound'
        PROVE  Read(str'.data) = <<>>
    <2>1. <<>> \in Seq(Chars) /\ Len(<<>>) = 0
      OBVIOUS
    <2>2. Blank(str')
      BY <1>2, <1>4
    <2>3. str'.len = Len(<<>>) /\ \A j \in 1..Len(<<>>) : str'.data[j] = <<>>[j]
      BY <1>2, <2>1
    <2> QED BY <1>2, <2>1, <2>2, <2>3, ReadIs
  <1> QED BY <1>3, <1>4 DEF T!Clear

-----------------------------------------------------------------------------
(* The specification                                                       *)

(* Every step keeps the invariant, and while no shorter text has been set  *)
(* it is a step of Text, by the operation that the called one stands for.  *)
LEMMA Steps ==
  ASSUME IInv, [Next]_vars
  PROVE  IInv' /\ (sound /\ sound' => [T!Next]_T!vars)
  <1>1. CASE \E src \in Sources :
               \/ VarMakeAndSet(src) \/ VarSet(src) \/ VarCat(src) \/ VarWriteRaw(src)
               \/ FixFrom(src) \/ FixSet(src) \/ FixCat(src)
    <2>1. PICK src \in Sources :
            \/ VarMakeAndSet(src) \/ VarSet(src) \/ FixFrom(src) \/ FixSet(src)
            \/ VarCat(src) \/ VarWriteRaw(src) \/ FixCat(src)
      BY <1>1
    <2>2. IInv' /\ (sound /\ sound' => T!Set(src) \/ T!Cat(src))
      BY <2>1, SetStep, CatStep
    <2> QED BY <2>2 DEF T!Next
  <1>2. CASE \E c \in Chars : FixFill(c)
    <2>1. PICK c \in Chars : FixFill(c)
      BY <1>2
    <2>2. IInv' /\ T!Fill(Len(Read(str'.data)), c)
      BY <2>1, FillStep
    <2> QED BY <2>2 DEF T!Next
  <1>3. CASE \E c \in Chars, i \in 0..(MaxCapacity - 1) : VarSetI(i, c) \/ FixSetI(c, i)
    <2>1. PICK c \in Chars, i \in 0..(MaxCapacity - 1) : VarSetI(i, c) \/ FixSetI(c, i)
      BY <1>3
    <2>2. IInv' /\ (sound /\ sound' => T!SetI(i + 1, c))
      BY <2>1, SetIStep
    <2>3. T!SetI(i + 1, c) => \E k \in DOMAIN Read(str.data) : T!SetI(k, c)
      BY DEF T!SetI
    <2> QED BY <2>2, <2>3 DEF T!Next
  <1>4. CASE \E n \in 0..MaxCapacity : VarReserve(n) \/ FixMake(n)
    <2>1. PICK n \in 0..MaxCapacity : VarReserve(n) \/ FixMake(n)
      BY <1>4
    <2>2. n \in Nat
      BY <2>1, StringsAssumption
    <2>3. IInv' /\ (sound /\ sound' => T!Same \/ T!Clear)
      BY <2>1, <2>2, SameStep, EmptyStep
    <2> QED BY <2>3 DEF T!Next, T!Same
  <1>5. CASE VarClear \/ VarDestroy \/ FixDestroy
    BY <1>5, EmptyStep DEF T!Next
  <1>6. CASE FixCopy
    BY <1>6, SameStep DEF T!Same
  <1>7. CASE UNCHANGED vars
    <2>1. kind' = kind /\ str' = str /\ sound' = sound
      BY <1>7 DEF vars
    <2>2. IInv'
      BY <2>1 DEF IInv
    <2> QED BY <2>1, <2>2 DEF T!vars
  <1> QED BY <1>1, <1>2, <1>3, <1>4, <1>5, <1>6, <1>7 DEF Next, Exited

(* The called operation is the one of Text with the same arguments.        *)
LEMMA Agreement ==
  ASSUME IInv, sound, sound'
  PROVE  OperationsAgree
  <1>1. ASSUME NEW src \in Sources
        PROVE  /\ VarMakeAndSet(src) \/ VarSet(src) \/ FixFrom(src) \/ FixSet(src) => T!Set(src)
               /\ VarCat(src) \/ VarWriteRaw(src) \/ FixCat(src) => T!Cat(src)
    BY SetStep, CatStep
  <1>2. ASSUME NEW c \in Chars
        PROVE  /\ FixFill(c) => T!Fill(str.capacity, c)
               /\ \A i \in 0..(MaxCapacity - 1) :
                    VarSetI(i, c) \/ FixSetI(c, i) => T!SetI(i + 1, c)
    BY FillStep, SetIStep
  <1>3. ASSUME NEW n \in 0..MaxCapacity
        PROVE  (VarReserve(n) => T!Same) /\ (FixMake(n) => T!Clear)
    <2>1. n \in Nat
      BY StringsAssumption
    <2> QED BY <2>1, SameStep, EmptyStep
  <1>4. (FixCopy => T!Same) /\ (VarClear => T!Clear)
    BY SameStep, EmptyStep
  <1> QED BY <1>1, <1>2, <1>3, <1>4 DEF OperationsAgree

(* The invariant holds of every string, whatever is called.                *)
THEOREM Invariance == Spec => []IInv
  <1>1. IInv /\ [Next]_vars => IInv'
    BY Steps
  <1> QED BY InvInit, <1>1, PTL DEF Spec

(* A string has a byte more than its capacity, or no buffer at all, for    *)
(* any characters and capacities.                                          *)
THEOREM STypeCorrect == Spec => []TypeOK
  <1>1. IInv => TypeOK
    BY DEF IInv, TypeOK, Good, Strs, Buffered
  <1> QED BY <1>1, Invariance, PTL

(* Although no operation writes a terminating zero, whoever reads a string *)
(* stops inside its buffer.                                                *)
THEOREM AlwaysTerminated == Spec => []Terminated
  <1>1. IInv => Terminated
    BY DEF IInv, Terminated, Good, Ended
  <1> QED BY <1>1, Invariance, PTL

(* While no shorter text has been set, the length kept is the length read, *)
(* and copying does not end the program.                                   *)
THEOREM LengthKept == Spec => []LengthRight
  <1>1. IInv => LengthRight
    BY ReadFacts DEF IInv, LengthRight
  <1> QED BY <1>1, Invariance, PTL

(* While no shorter text has been set, the strings implement Text,         *)
(* operation by operation.                                                 *)
THEOREM TextImplemented == Spec => ImplementsText
  <1>1. Init => T!Init
    <2>1. <<>> \in Seq(Chars) /\ Len(<<>>) = 0
      OBVIOUS
    <2>2. Nothing.data = <<>> /\ Good(Nothing) /\ Blank(Nothing) /\ Nothing.len = Len(<<>>)
      BY <2>1, NothingFacts DEF Nothing
    <2>3. Read(Nothing.data) = <<>>
      <3>1. \A i \in 1..Len(<<>>) : Nothing.data[i] = <<>>[i]
        BY <2>1
      <3> QED BY <2>1, <2>2, <3>1, ReadIs
    <2> QED BY <2>3 DEF Init, T!Init
  <1>2. IInv /\ [Next]_vars => (sound /\ sound' => [T!Next]_T!vars /\ OperationsAgree)
    BY Steps, Agreement
  <1>3. IInv /\ [Next]_vars => [sound /\ sound' => [T!Next]_T!vars /\ OperationsAgree]_vars
    BY <1>2
  <1> QED BY <1>1, <1>3, Invariance, PTL DEF Spec, ImplementsText
=============================================================================
