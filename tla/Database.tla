------------------------------ MODULE Database ------------------------------
(***************************************************************************)
(* The student database of src/database: one file of fixed-size blocks,    *)
(* read and written through one stdio stream (rwfd), and a cached size.    *)
(*                                                                         *)
(* The file is a sequence of cells, two to a block: the name, which is     *)
(* what searches compare, and the rest.  An offset counts cells.  A write  *)
(* that is cut short (a full disk, a crash) leaves some of the cells.      *)
(*                                                                         *)
(* After an error the dbio functions close the stream and db->rwfd keeps   *)
(* the freed pointer ("freed"): what a further operation on it does is     *)
(* undefined and not modelled; the program can still end and start again.  *)
(***************************************************************************)
EXTENDS Integers, Sequences

CONSTANTS
  Names, Datas,  \* the values of the two cells of a block
  ChunkBufSize,  \* CHUNK_BUF_SIZE: how many blocks a search reads at a time
  MaxBlocks,     \* how many blocks the file may get (bound)
  IoFails        \* TRUE: reads, writes and opens may fail

ASSUME DatabaseAssumption ==
  /\ Names # {} /\ Datas # {} /\ Names \cap Datas = {}
  /\ ChunkBufSize \in Nat \ {0} /\ MaxBlocks \in Nat \ {0}
  /\ IoFails \in BOOLEAN

BlockSize == 2                       \* DATABASE_BLOCK_SIZE
Cells == Names \cup Datas
Block == [name : Names, data : Datas]

VARIABLES
  file,    \* what the file holds
  exists,  \* the file is there
  up,      \* the program runs and has called database_make
  rwfd,    \* "null", "open" or "freed"
  size,    \* db->size
  found,   \* the block infos in the buffer of the last search
  torn     \* history: a write has left half a block, and no clear has followed

vars == <<file, exists, up, rwfd, size, found, torn>>

TypeOK ==
  /\ file \in Seq(Cells) /\ exists \in BOOLEAN /\ up \in BOOLEAN
  /\ rwfd \in {"null", "open", "freed"} /\ size \in Nat
  /\ found \subseteq [offset : Nat, block : [name : Cells, data : Cells]]
  /\ torn \in BOOLEAN

Init ==
  /\ file = <<>> /\ exists \in BOOLEAN /\ up = FALSE
  /\ rwfd = "null" /\ size = 0 /\ found = {} /\ torn = FALSE

-----------------------------------------------------------------------------
(* The file                                                                *)

(* The first n cells of block b, written at offset off, which is at most   *)
(* the length of the file: fseek, fwrite and the fseek that flushes.       *)
Written(b, off, n) ==
  LET cell(p) == IF p = off + 1 THEN b.name ELSE b.data
      len == IF off + n > Len(file) THEN off + n ELSE Len(file)
  IN  [p \in 1..len |-> IF p \in (off + 1)..(off + n) THEN cell(p) ELSE file[p]]

(* The block that is read at offset off.                                   *)
BlockAt(off) == [name |-> file[off + 1], data |-> file[off + 2]]

-----------------------------------------------------------------------------
(* The search                                                              *)

AllBlockN == size \div BlockSize
FullChunkN == AllBlockN \div ChunkBufSize
ExcessBlockN == AllBlockN - FullChunkN * ChunkBufSize

(* Where load_chunk seeks for chunk i: chunk * DATABASE_BLOCK_SIZE.        *)
ChunkStart(i) == i * BlockSize

(* Mutant of ExcessInfos: it seeks to the chunk as load_chunk does.        *)
ExcessInfosAsChunk ==
  {[offset |-> (FullChunkN * ChunkBufSize + j) * BlockSize,
    block |-> BlockAt(ChunkStart(FullChunkN) + j * BlockSize)] :
      j \in 0..(ExcessBlockN - 1)}

(* The infos the loop over the full chunks pushes, and those of the loop   *)
(* over the excess blocks.                                                 *)
ChunkInfos ==
  {[offset |-> (i * ChunkBufSize + j) * BlockSize,
    block |-> BlockAt(ChunkStart(i) + j * BlockSize)] :
      i \in 0..(FullChunkN - 1), j \in 0..(ChunkBufSize - 1)}

ExcessInfos ==
  {[offset |-> (FullChunkN * ChunkBufSize + j) * BlockSize,
    block |-> BlockAt((FullChunkN * ChunkBufSize + j) * BlockSize)] :
      j \in 0..(ExcessBlockN - 1)}

Found(name) == {h \in ChunkInfos \cup ExcessInfos : h.block.name = name}

-----------------------------------------------------------------------------
(* The operations                                                          *)

(* Mutants of Make: the size of the file is not looked up, or -1 (an error) *)
(* is taken for it.                                                        *)
MakeSized(n) ==
  /\ ~up /\ up' = TRUE
  /\ rwfd' = IF exists THEN "open" ELSE "null"
  /\ size' = n /\ found' = {}
  /\ UNCHANGED <<file, exists, torn>>
MakeEmpty == MakeSized(0)
MakeUnknown == MakeSized(IF exists THEN Len(file) ELSE -1)

(* database_make; fopen "r+" does not create the file.                     *)
Make ==
  /\ ~up /\ up' = TRUE
  /\ rwfd' = IF exists THEN "open" ELSE "null"
  /\ size' = IF exists THEN Len(file) ELSE 0
  /\ found' = {}
  /\ UNCHANGED <<file, exists, torn>>

(* Mutant of Clear: db->size is not reset.                                 *)
ClearKeepsSize ==
  /\ up
  /\ file' = <<>> /\ exists' = TRUE /\ found' = {} /\ torn' = FALSE
  /\ UNCHANGED <<up, rwfd, size>>

(* database_clear opens the file a second time, with "wb".                 *)
Clear ==
  /\ up
  /\ file' = <<>> /\ exists' = TRUE /\ size' = 0 /\ found' = {}
  /\ torn' = FALSE
  /\ UNCHANGED <<up, rwfd>>

ClearFails ==
  /\ up /\ IoFails
  /\ UNCHANGED vars

AppendBlock(b) ==
  /\ up /\ rwfd = "open" /\ AllBlockN < MaxBlocks
  /\ file' = Written(b, size, BlockSize)
  /\ size' = size + BlockSize
  /\ UNCHANGED <<exists, up, rwfd, found, torn>>

(* database_replace_block, with an info that a search has returned.        *)
ReplaceBlock(h, b) ==
  /\ up /\ rwfd = "open" /\ h \in found
  /\ file' = Written(b, h.offset, BlockSize)
  /\ UNCHANGED <<exists, up, rwfd, size, found, torn>>

(* The write fails after n cells and the stream is closed; or the program  *)
(* dies during the write.                                                  *)
Cut(b, off, n) ==
  /\ up /\ rwfd = "open"
  /\ file' = Written(b, off, n) /\ torn' = (torn \/ n \in 1..(BlockSize - 1))
  /\ \/ IoFails /\ rwfd' = "freed" /\ UNCHANGED <<up, size>>
     \/ up' = FALSE /\ rwfd' = "null" /\ size' = 0
  /\ UNCHANGED <<exists, found>>

AppendCut(b) == AllBlockN < MaxBlocks /\ \E n \in 0..BlockSize : Cut(b, size, n)
ReplaceCut(h, b) ==
  h \in found /\ \E n \in 0..BlockSize : Cut(b, h.offset, n)

(* database_find_block_by_name                                             *)
Find(name) ==
  /\ up /\ rwfd = "open" /\ size # 0
  /\ found' = Found(name)
  /\ UNCHANGED <<file, exists, torn, up, rwfd, size>>

(* The early return leaves the caller's buffer as it was, not made; the    *)
(* caller has nothing to look at.                                          *)
FindRefused ==
  /\ up /\ (size = 0 \/ rwfd = "null")
  /\ found' = {}
  /\ UNCHANGED <<file, exists, torn, up, rwfd, size>>

FindFails ==
  /\ up /\ rwfd = "open" /\ size # 0 /\ IoFails
  /\ rwfd' = "freed" /\ found' = {}
  /\ UNCHANGED <<file, exists, torn, up, size>>

(* A write with rwfd NULL.                                                 *)
WriteRefused ==
  /\ up /\ rwfd = "null"
  /\ UNCHANGED vars

(* The program ends between two operations; there is no close.             *)
Stop ==
  /\ up /\ up' = FALSE
  /\ rwfd' = "null" /\ size' = 0
  /\ UNCHANGED <<file, exists, torn, found>>

Next ==
  \/ Make \/ Clear \/ ClearFails \/ Stop
  \/ \E b \in Block :
       \/ AppendBlock(b) \/ AppendCut(b)
       \/ \E h \in found : ReplaceBlock(h, b) \/ ReplaceCut(h, b)
  \/ \E name \in Names : Find(name)
  \/ FindRefused \/ FindFails \/ WriteRefused

Spec == Init /\ [][Next]_vars

-----------------------------------------------------------------------------
(* Properties                                                              *)

(* The complete blocks of the file, in order.                              *)
Blocks == [i \in 1..(Len(file) \div BlockSize) |-> BlockAt((i - 1) * BlockSize)]

(* The cached size is that of the file while the stream is good, although  *)
(* it is kept apart and the file is also truncated through another stream. *)
SizeIsFileSize == up /\ rwfd = "open" => size = Len(file)

(* Every complete block stays, and stays as it is, unless the step is one  *)
(* that replaces it.                                                       *)
Replaces(h) == \E b \in Block : ReplaceBlock(h, b) \/ ReplaceCut(h, b)
BlocksKept ==
  \A i \in DOMAIN Blocks :
    /\ i \in DOMAIN Blocks'
    /\ \/ Blocks'[i] = Blocks[i]
       \/ \E h \in found : h.offset = (i - 1) * BlockSize /\ Replaces(h)

(* No operation but clear, and replace at the offset it is given, changes  *)
(* a complete block: an append always goes behind them, also when it       *)
(* fails, also after a restart, and also when an earlier one left half a   *)
(* block.                                                                  *)
OnlyReplaceOverwrites == [][Clear \/ BlocksKept]_vars

(* "offset of the block from the beginning of the database" (block.h:22):  *)
(* every info that a search returns holds the block that is at its offset. *)
OffsetNamesBlock ==
  [][\A name \in Names : Find(name) =>
       \A h \in found' : BlockAt(h.offset) = h.block]_vars

(* As long as no write has left half a block since the file was last empty *)
(* and the file has less than two full chunks, the database is a           *)
(* BlockStore: every block whose append was confirmed is found by its      *)
(* name, once, at its place, also after restarts and failed operations;    *)
(* each operation does what the one of that name does, and one that was    *)
(* cut does that or nothing.  Clearing repairs a file with half a block.   *)
Position(h) == [at |-> h.offset \div BlockSize + 1, block |-> h.block]
FoundAt == {Position(h) : h \in found}
Store == INSTANCE BlockStore WITH blocks <- Blocks, found <- FoundAt
OperationsAgree ==
  /\ \A b \in Block :
       /\ AppendBlock(b) => Store!AppendBlock(b)
       /\ AppendCut(b) => [Store!AppendBlock(b)]_Store!vars
       /\ \A h \in found :
            /\ ReplaceBlock(h, b) => Store!ReplaceBlock(Position(h), b)
            /\ ReplaceCut(h, b) => [Store!ReplaceBlock(Position(h), b)]_Store!vars
  /\ \A name \in Names : Find(name) => Store!Find(name)
  /\ Clear => Store!Clear
ImplementsStore ==
  Store!Init /\ [][~torn' => [Store!Next]_Store!vars /\ OperationsAgree]_vars
=============================================================================
