------------------------------ MODULE Strings ------------------------------
(***************************************************************************)
(* The strings of src/include: var_string, which grows, and fix_string,    *)
(* which does not.  A string is a buffer of bytes with its capacity (the   *)
(* size of a fix_string) and a length kept beside it; what a caller reads  *)
(* (var_string_get, fix_string_get) ends at the first zero byte.           *)
(*                                                                         *)
(* The numbers and booleans that are appended are texts like others.  A    *)
(* call that fails one of its ASSERTs ends the program and is no step,     *)
(* except where the code makes the call itself (fix_string_copy).  Callers *)
(* pass no zero byte, as a character or in a text: it would end the text   *)
(* that is read before the length that is kept.                            *)
(***************************************************************************)
EXTENDS Integers, Sequences

CONSTANTS
  Chars, NUL,  \* the characters, and the zero byte
  MaxSource,   \* how long the texts are that callers pass (bound)
  MaxCapacity  \* how large a string may get (bound)

ASSUME StringsAssumption ==
  /\ Chars # {} /\ NUL \notin Chars
  /\ MaxSource \in Nat \ {0} /\ MaxCapacity \in Nat \ {0}

VARIABLES
  kind,  \* the type of the string: "var" or "fix"; "none"; or "exited"
  str,   \* its fields
  sound  \* history: since the buffer was last (re)allocated or filled, no
         \* text has been set that is shorter than the one before

vars == <<kind, str, sound>>

Bytes == Chars \cup {NUL}
Sources == UNION {[1..n -> Chars] : n \in 0..MaxSource}

(* The buffer has a byte more than the capacity; a var_string may have     *)
(* none (NULL), of capacity 0.                                             *)
TypeOK ==
  /\ kind \in {"none", "var", "fix", "exited"} /\ sound \in BOOLEAN
  /\ str \in [data : Seq(Bytes), capacity : Nat, len : Nat]
  /\ \/ Len(str.data) = str.capacity + 1
     \/ str.data = <<>> /\ str.capacity = 0
  /\ kind = "fix" => str.data # <<>>

-----------------------------------------------------------------------------
(* The buffer                                                              *)

Zeros(n) == [i \in 1..n |-> NUL]

(* memcpy of src to data + at.                                             *)
Memcpy(data, at, src) ==
  LET end == at + Len(src)
  IN  [i \in 1..(IF end > Len(data) THEN end ELSE Len(data)) |->
         IF i \in (at + 1)..end THEN src[i - at] ELSE data[i]]

(* What is read at data: the bytes before the first zero.                  *)
Read(data) ==
  LET before == {i \in 1..Len(data) : \A j \in 1..i : data[j] # NUL}
  IN  [i \in before |-> data[i]]

Nothing == [data |-> <<>>, capacity |-> 0, len |-> 0]      \* var_string_make

(* str_malloc, and what fix_string_make does; and a mutant that has no byte *)
(* for the terminating zero.                                               *)
StrMallocTight(size) == [data |-> Zeros(size), capacity |-> size, len |-> 0]
StrMalloc(size) == [data |-> Zeros(size + 1), capacity |-> size, len |-> 0]

(* str_realloc clears everything behind the text.                          *)
StrRealloc(s, size) ==
  [s EXCEPT !.capacity = size,
            !.data = [i \in 1..(size + 1) |-> IF i <= s.len THEN s.data[i] ELSE NUL]]

(* Mutant of Alloc: it never reallocates.                                  *)
AllocAfresh(s, size) == StrMalloc(size)

(* use_correct_method_to_alloc                                             *)
Alloc(s, size) == IF s.data # <<>> THEN StrRealloc(s, size) ELSE StrMalloc(size)

(* ensure_capacity_to_cat; and its mutant: a byte is missing.              *)
SpaceLeft(s) == s.capacity - s.len
EnsuredLess(s, n) ==
  IF SpaceLeft(s) < n THEN Alloc(s, s.capacity + n - SpaceLeft(s) - 1) ELSE s
Ensured(s, n) ==
  IF SpaceLeft(s) < n THEN Alloc(s, s.capacity + n - SpaceLeft(s)) ELSE s

(* The text src put at the end; the byte behind it is not written.         *)
Extended(s, src) ==
  [s EXCEPT !.data = Memcpy(@, s.len, src), !.len = @ + Len(src)]
Overwritten(s, src) == [s EXCEPT !.data = Memcpy(@, 0, src), !.len = Len(src)]

(* var_string_set                                                          *)
VarWithText(s, src) ==
  Overwritten(IF Len(src) > s.capacity THEN StrMalloc(Len(src)) ELSE s, src)

-----------------------------------------------------------------------------
Init == kind = "none" /\ str = Nothing /\ sound = TRUE

(* The string becomes s (within the bound), and is as sound as before, or  *)
(* for a reason of its own.                                                *)
Becomes(s, reason) ==
  /\ s.capacity <= MaxCapacity
  /\ str' = s /\ sound' = (sound \/ reason)
  /\ UNCHANGED kind

(* var_string.c                                                            *)

VarMakeAndSet(src) ==
  /\ kind = "none" /\ kind' = "var"
  /\ str' = VarWithText(Nothing, src)
  /\ UNCHANGED sound

VarSet(src) ==
  /\ kind = "var" /\ str' = VarWithText(str, src)
  /\ str'.capacity <= MaxCapacity
  /\ sound' = (Len(src) > str.capacity \/ (sound /\ Len(src) >= str.len))
  /\ UNCHANGED kind

VarSetI(i, c) ==
  /\ kind = "var" /\ str.len > i
  /\ Becomes([str EXCEPT !.data[i + 1] = c], FALSE)

(* Mutant of VarClear: only the length is reset.                           *)
VarClearLen == kind = "var" /\ Becomes([str EXCEPT !.len = 0], FALSE)

(* var_string_clear clears as many bytes as the text has.                  *)
VarClear ==
  /\ kind = "var"
  /\ Becomes([str EXCEPT !.data = Memcpy(@, 0, Zeros(str.len)), !.len = 0], FALSE)

VarReserve(n) ==
  kind = "var" /\ Becomes(Alloc(str, str.capacity + n), TRUE)

(* var_string_cat, and cat_char, cat_i32, cat_f32 and cat_bool.            *)
VarCat(src) ==
  /\ kind = "var"
  /\ Becomes(Extended(Ensured(str, Len(src)), src), SpaceLeft(str) < Len(src))

(* A caller writes behind the text (var_string_get_raw) and says so        *)
(* (var_string_increment_len), in the space that is left.                  *)
VarWriteRaw(src) ==
  /\ kind = "var" /\ Len(src) <= SpaceLeft(str)
  /\ Becomes(Extended(str, src), FALSE)

(* fix_string.c                                                            *)

FixMake(size) ==
  /\ kind = "none" /\ kind' = "fix"
  /\ size <= MaxCapacity /\ str' = StrMalloc(size)
  /\ UNCHANGED sound

FixFrom(src) ==
  /\ kind = "none" /\ kind' = "fix"
  /\ str' = Overwritten(StrMalloc(Len(src)), src)
  /\ UNCHANGED sound

FixFill(c) ==
  /\ kind = "fix"
  /\ Becomes([str EXCEPT !.data = Memcpy(@, 0, [i \in 1..str.capacity |-> c]),
                         !.len = str.capacity], TRUE)

FixSet(src) ==
  /\ kind = "fix" /\ Len(src) <= str.capacity
  /\ str' = Overwritten(str, src)
  /\ sound' = (sound /\ Len(src) >= str.len)
  /\ UNCHANGED kind

FixSetI(c, i) ==
  /\ kind = "fix" /\ i < str.capacity /\ i < str.len
  /\ Becomes([str EXCEPT !.data[i + 1] = c], FALSE)

(* fix_string_cat and cat_char                                             *)
FixCat(src) ==
  /\ kind = "fix" /\ SpaceLeft(str) >= Len(src)
  /\ Becomes(Extended(str, src), FALSE)

(* fix_string_copy takes the length of the string and the text that is     *)
(* read in it; the copy is looked at from here on.  If the text is longer, *)
(* the ASSERT of fix_string_set ends the program.                          *)
FixCopy ==
  /\ kind = "fix"
  /\ LET text == Read(str.data)
     IN  \/ /\ Len(text) <= str.len
            /\ Becomes(Overwritten(StrMalloc(str.len), text), TRUE)
         \/ /\ Len(text) > str.len
            /\ kind' = "exited" /\ UNCHANGED <<str, sound>>

(* A destroyed string is not used before it is made again.                 *)
Gone == kind' = "none" /\ str' = Nothing /\ sound' = TRUE
VarDestroy == kind = "var" /\ Gone
FixDestroy == kind = "fix" /\ Gone

Exited == kind = "exited" /\ UNCHANGED vars

Next ==
  \/ \E src \in Sources :
       \/ VarMakeAndSet(src) \/ VarSet(src) \/ VarCat(src) \/ VarWriteRaw(src)
       \/ FixFrom(src) \/ FixSet(src) \/ FixCat(src)
  \/ \E c \in Chars :
       \/ FixFill(c)
       \/ \E i \in 0..(MaxCapacity - 1) : VarSetI(i, c) \/ FixSetI(c, i)
  \/ \E n \in 0..MaxCapacity : VarReserve(n) \/ FixMake(n)
  \/ VarClear \/ VarDestroy \/ FixCopy \/ FixDestroy \/ Exited

Spec == Init /\ [][Next]_vars

-----------------------------------------------------------------------------
(* Properties                                                              *)

(* Whatever is called in whatever order, and although no operation writes  *)
(* a terminating zero: the text fits the buffer, and reading it stops at a *)
(* zero inside the buffer.                                                 *)
Terminated ==
  /\ str.len <= str.capacity
  /\ str.data # <<>> => str.data[str.capacity + 1] = NUL

(* While no shorter text has been set, the length kept (var_string_len,    *)
(* fix_string_len) is that of the text that is read, and a fix_string can  *)
(* be copied.                                                              *)
LengthRight == sound => kind # "exited" /\ str.len = Len(Read(str.data))

(* While no shorter text has been set, each operation does to the text     *)
(* what the one of Text does that it stands for; reserving, copying and    *)
(* reallocating keep it.                                                   *)
T == INSTANCE Text WITH text <- Read(str.data)
OperationsAgree ==
  /\ \A src \in Sources :
       /\ VarMakeAndSet(src) \/ VarSet(src) \/ FixFrom(src) \/ FixSet(src) => T!Set(src)
       /\ VarCat(src) \/ VarWriteRaw(src) \/ FixCat(src) => T!Cat(src)
  /\ \A c \in Chars :
       /\ FixFill(c) => T!Fill(str.capacity, c)
       /\ \A i \in 0..(MaxCapacity - 1) : VarSetI(i, c) \/ FixSetI(c, i) => T!SetI(i + 1, c)
  /\ \A n \in 0..MaxCapacity : (VarReserve(n) => T!Same) /\ (FixMake(n) => T!Clear)
  /\ FixCopy => T!Same
  /\ VarClear => T!Clear
ImplementsText ==
  T!Init /\ [][sound /\ sound' => [T!Next]_T!vars /\ OperationsAgree]_vars
=============================================================================
