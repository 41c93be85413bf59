--------------------------- MODULE DatabaseProofs ---------------------------
(***************************************************************************)
(* What holds of the database for every size of the search buffer and of   *)
(* the file, with failing and interrupted operations; and that it          *)
(* implements BlockStore, as long as the file holds less than two full     *)
(* chunks and no write has left half a block in it.                        *)
(***************************************************************************)
EXTENDS Database, SequenceTheorems, TLAPS

USE DEF BlockSize

(* Every info of a search result is at a multiple of the block size, inside *)
(* the file.                                                               *)
FoundInv ==
  \A h \in found : \E i \in Nat : h.offset = i * 2 /\ i * 2 + 2 <= Len(file)

(* The bound of the model.                                                 *)
BoundInv == Len(file) \div 2 <= MaxBlocks

DInv == TypeOK /\ SizeIsFileSize /\ FoundInv /\ BoundInv

-----------------------------------------------------------------------------
(* Arithmetic                                                              *)

(* Multiplication by a natural number is monotonic.                        *)
LEMMA TimesMonotonic ==
  ASSUME NEW a \in Nat, NEW b \in Nat, NEW c \in Nat, a <= b
  PROVE  a * c <= b * c
  OBVIOUS

(* As many blocks as the size divides into fit into it.                    *)
LEMMA QuotientFits ==
  ASSUME NEW n \in Nat, NEW c \in Nat \ {0}
  PROVE  n \div c \in Nat /\ (n \div c) * c <= n /\ n < (n \div c) * c + c
  OBVIOUS

-----------------------------------------------------------------------------
(* Writing to the file                                                     *)

(* What dbio_write_fd leaves: the cells outside the block stay, and the    *)
(* file never gets shorter.                                                *)
LEMMA WrittenFacts ==
  ASSUME file \in Seq(Cells), NEW b \in Block, NEW off \in Nat, off <= Len(file),
         NEW n \in 0..2
  PROVE  /\ Written(b, off, n) \in Seq(Cells)
         /\ Len(Written(b, off, n)) =
              IF off + n > Len(file) THEN off + n ELSE Len(file)
         /\ \A p \in 1..Len(file) :
              p \notin (off + 1)..(off + n) => Written(b, off, n)[p] = file[p]
         /\ n = 2 => /\ Written(b, off, n)[off + 1] = b.name
                     /\ Written(b, off, n)[off + 2] = b.data
  <1> DEFINE len == IF off + n > Len(file) THEN off + n ELSE Len(file)
             cell(p) == IF p = off + 1 THEN b.name ELSE b.data
             w == [p \in 1..len |-> IF p \in (off + 1)..(off + n) THEN cell(p) ELSE file[p]]
  <1>1. len \in Nat /\ Len(file) \in Nat
    OBVIOUS
  <1>2. b.name \in Cells /\ b.data \in Cells
    BY DEF Block, Cells
  <1>3. ASSUME NEW p \in 1..len PROVE w[p] \in Cells
    <2>1. p \notin (off + 1)..(off + n) => p \in 1..Len(file)
      BY <1>1
    <2>2. p \in 1..Len(file) => file[p] \in Cells
      BY ElementOfSeq
    <2> QED BY <2>1, <2>2, <1>2
  <1>4. w \in [1..len -> Cells]
    BY <1>3
  <1>5. w \in Seq(Cells) /\ Len(w) = len
    BY <1>1, <1>4
  <1>6. \A p \in 1..Len(file) : p \notin (off + 1)..(off + n) => w[p] = file[p]
    BY <1>1
  <1>7. n = 2 => w[off + 1] = b.name /\ w[off + 2] = b.data
    BY <1>1
  <1>8. Written(b, off, n) = w
    BY DEF Written
  <1> HIDE DEF w
  <1> QED BY <1>5, <1>6, <1>7, <1>8

(* The same for a write at the end of the file.                            *)
LEMMA WrittenAtEnd ==
  ASSUME file \in Seq(Cells), size = Len(file), NEW b \in Block, NEW n \in 0..2
  PROVE  /\ Written(b, size, n) \in Seq(Cells)
         /\ Len(Written(b, size, n)) = size + n
         /\ \A p \in 1..Len(file) : Written(b, size, n)[p] = file[p]
         /\ n = 2 => /\ Written(b, size, n)[size + 1] = b.name
                     /\ Written(b, size, n)[size + 2] = b.data
  <1> DEFINE w == Written(b, size, n)
  <1>1. size \in Nat /\ size <= Len(file)
    OBVIOUS
  <1>2. /\ w \in Seq(Cells)
        /\ Len(w) = IF size + n > Len(file) THEN size + n ELSE Len(file)
        /\ \A p \in 1..Len(file) : p \notin (size + 1)..(size + n) => w[p] = file[p]
        /\ n = 2 => w[size + 1] = b.name /\ w[size + 2] = b.data
    BY <1>1, WrittenFacts
  <1> HIDE DEF w
  <1>3. Len(w) = size + n
    BY <1>1, <1>2
  <1>4. \A p \in 1..Len(file) : w[p] = file[p]
    BY <1>1, <1>2
  <1> QED BY <1>2, <1>3, <1>4 DEF w

(* The same for any write into a state of the invariant.                   *)
LEMMA WriteStep ==
  ASSUME DInv, NEW b \in Block, NEW off \in Nat, off <= Len(file), NEW n \in 0..2,
         file' = Written(b, off, n), found' = found
  PROVE  file' \in Seq(Cells) /\ Len(file) <= Len(file') /\ FoundInv'
  <1>1. file \in Seq(Cells)
    BY DEF DInv, TypeOK
  <1>2. file' \in Seq(Cells)
    BY <1>1, WrittenFacts
  <1>3. Len(file') = IF off + n > Len(file) THEN off + n ELSE Len(file)
    BY <1>1, WrittenFacts
  <1>4. Len(file) \in Nat /\ Len(file') \in Nat /\ Len(file) <= Len(file')
    BY <1>1, <1>2, <1>3
  <1>5. FoundInv
    BY DEF DInv
  <1> QED BY <1>2, <1>4, <1>5 DEF FoundInv

-----------------------------------------------------------------------------
(* The search stays inside the file                                        *)

(* Full chunks and excess blocks are together all blocks                   *)
(* (get_full_chunck_n, get_excess_block_n).                                *)
LEMMA Counts ==
  ASSUME size \in Nat
  PROVE  /\ AllBlockN \in Nat /\ FullChunkN \in Nat /\ ExcessBlockN \in Nat
         /\ AllBlockN * 2 <= size
         /\ FullChunkN * ChunkBufSize \in Nat
         /\ FullChunkN * ChunkBufSize + ExcessBlockN = AllBlockN
  <1>1. AllBlockN \in Nat /\ AllBlockN * 2 <= size
    BY DEF AllBlockN
  <1>2. FullChunkN \in Nat /\ FullChunkN * ChunkBufSize <= AllBlockN
    BY <1>1, QuotientFits, DatabaseAssumption DEF FullChunkN
  <1>3. FullChunkN * ChunkBufSize \in Nat
    BY <1>2, DatabaseAssumption
  <1> QED BY <1>1, <1>2, <1>3 DEF ExcessBlockN

(* Chunk i, element j is block i * ChunkBufSize + j; load_chunk reads block *)
(* i + j instead, and both exist.                                          *)
LEMMA ChunkFits ==
  ASSUME size \in Nat, NEW i \in 0..(FullChunkN - 1), NEW j \in 0..(ChunkBufSize - 1)
  PROVE  /\ i * ChunkBufSize + j \in Nat
         /\ i * ChunkBufSize + j < AllBlockN
         /\ i + j < AllBlockN
  <1> USE DatabaseAssumption
  <1>1. FullChunkN \in Nat /\ AllBlockN \in Nat
        /\ FullChunkN * ChunkBufSize <= AllBlockN
    BY Counts
  <1>2. i \in Nat /\ j \in Nat /\ i + 1 <= FullChunkN /\ j + 1 <= ChunkBufSize
    BY <1>1
  <1>3. (i + 1) * ChunkBufSize <= FullChunkN * ChunkBufSize
    BY <1>1, <1>2, TimesMonotonic
  <1>4. (i + 1) * ChunkBufSize = i * ChunkBufSize + ChunkBufSize
    BY <1>2
  <1>5. i * ChunkBufSize \in Nat
    BY <1>2
  <1>6. 1 * i <= ChunkBufSize * i
    BY <1>2, TimesMonotonic
  <1>7. i <= i * ChunkBufSize
    BY <1>2, <1>6
  <1> QED BY <1>1, <1>2, <1>3, <1>4, <1>5, <1>7

(* Whatever the search returns has a block offset inside the file.         *)
LEMMA FoundFits ==
  ASSUME TypeOK, size <= Len(file), NEW name, NEW h \in Found(name)
  PROVE  /\ \E i \in Nat : h.offset = i * 2 /\ i * 2 + 2 <= Len(file)
         /\ h \in [offset : Nat, block : [name : Cells, data : Cells]]
  <1>1. size \in Nat /\ Len(file) \in Nat /\ file \in Seq(Cells)
    BY DEF TypeOK
  <1>2. AllBlockN \in Nat /\ AllBlockN * 2 <= Len(file)
    BY <1>1, Counts
  <1>3. ASSUME NEW m \in Nat, m < AllBlockN
        PROVE  m * 2 + 2 <= Len(file) /\ BlockAt(m * 2) \in [name : Cells, data : Cells]
    <2>1. m * 2 + 1 \in 1..Len(file) /\ m * 2 + 2 \in 1..Len(file)
      BY <1>1, <1>2, <1>3
    <2>2. file[m * 2 + 1] \in Cells /\ file[m * 2 + 2] \in Cells
      BY <1>1, <2>1, ElementOfSeq
    <2> QED BY <2>1, <2>2 DEF BlockAt
  <1>4. CASE h \in ChunkInfos
    <2>1. PICK i \in 0..(FullChunkN - 1), j \in 0..(ChunkBufSize - 1) :
            h = [offset |-> (i * ChunkBufSize + j) * 2,
                 block |-> BlockAt(i * 2 + j * 2)]
      BY <1>4 DEF ChunkInfos, ChunkStart
    <2>2. /\ i * ChunkBufSize + j \in Nat /\ i * ChunkBufSize + j < AllBlockN
          /\ i + j < AllBlockN
      BY <1>1, ChunkFits
    <2>3. i + j \in Nat /\ i * 2 + j * 2 = (i + j) * 2
      BY <1>1, Counts, DatabaseAssumption
    <2>4. (i * ChunkBufSize + j) * 2 + 2 <= Len(file)
      BY <1>3, <2>2
    <2>5. BlockAt(i * 2 + j * 2) \in [name : Cells, data : Cells]
      BY <1>3, <2>2, <2>3
    <2>6. (i * ChunkBufSize + j) * 2 \in Nat
      BY <2>2
    <2> QED BY <2>1, <2>2, <2>4, <2>5, <2>6
  <1>5. CASE h \in ExcessInfos
    <2>1. PICK j \in 0..(ExcessBlockN - 1) :
            h = [offset |-> (FullChunkN * ChunkBufSize + j) * 2,
                 block |-> BlockAt((FullChunkN * ChunkBufSize + j) * 2)]
      BY <1>5 DEF ExcessInfos
    <2>2. /\ FullChunkN * ChunkBufSize + j \in Nat
          /\ FullChunkN * ChunkBufSize + j < AllBlockN
      BY <1>1, Counts
    <2>3. (FullChunkN * ChunkBufSize + j) * 2 \in Nat
      BY <2>2
    <2> QED BY <1>3, <2>1, <2>2, <2>3
  <1> QED BY <1>4, <1>5 DEF Found

-----------------------------------------------------------------------------
(* The invariant                                                           *)

(* What an interrupted write leaves of the other variables.                *)
LEMMA CutType ==
  ASSUME TypeOK, NEW b, NEW off, NEW n, Cut(b, off, n), file' \in Seq(Cells)
  PROVE  TypeOK' /\ SizeIsFileSize'
  <1>1. /\ exists' = exists /\ found' = found /\ rwfd' \in {"freed", "null"}
        /\ up' \in {up, FALSE} /\ size' \in {size, 0}
    BY DEF Cut
  <1>2. torn' \in BOOLEAN
    BY Zenon DEF Cut, TypeOK
  <1>3. up' \in BOOLEAN /\ size' \in Nat /\ rwfd' \in {"null", "open", "freed"}
    <2>1. up' \in BOOLEAN
      BY Zenon, <1>1 DEF TypeOK
    <2>2. size' \in Nat
      BY <1>1 DEF TypeOK
    <2> QED BY <1>1, <2>1, <2>2
  <1>4. exists' \in BOOLEAN
        /\ found' \subseteq [offset : Nat, block : [name : Cells, data : Cells]]
    BY <1>1 DEF TypeOK
  <1>5. TypeOK'
    BY <1>2, <1>3, <1>4 DEF TypeOK
  <1> QED BY <1>1, <1>5 DEF SizeIsFileSize

(* A whole or partial write at the end of the file, or over a found block. *)
LEMMA AppendKeeps ==
  ASSUME DInv, up, rwfd = "open", NEW b \in Block, NEW n \in 0..2,
         file' = Written(b, size, n), found' = found, AllBlockN < MaxBlocks
  PROVE  /\ file' \in Seq(Cells) /\ FoundInv' /\ BoundInv'
         /\ Len(file') = size + n
  <1>1. size \in Nat /\ size = Len(file) /\ file \in Seq(Cells)
    BY DEF DInv, TypeOK, SizeIsFileSize
  <1>2. file' \in Seq(Cells) /\ FoundInv'
    BY <1>1, WriteStep
  <1>3. Len(file') = size + n
    BY <1>1, WrittenAtEnd
  <1>4. (size + n) \div 2 <= MaxBlocks
    BY <1>1, DatabaseAssumption DEF AllBlockN
  <1> QED BY <1>2, <1>3, <1>4 DEF BoundInv

(* The invariant survives a whole or partial write over a found block.     *)
LEMMA ReplaceKeeps ==
  ASSUME DInv, NEW b \in Block, NEW n \in 0..2, NEW h \in found,
         file' = Written(b, h.offset, n), found' = found
  PROVE  /\ file' \in Seq(Cells) /\ FoundInv' /\ BoundInv'
         /\ Len(file') = Len(file)
  <1>1. PICK m \in Nat : h.offset = m * 2 /\ m * 2 + 2 <= Len(file)
    BY DEF DInv, FoundInv
  <1>2. file \in Seq(Cells) /\ Len(file) \in Nat
    BY DEF DInv, TypeOK
  <1>3. h.offset \in Nat /\ h.offset <= Len(file)
    BY <1>1, <1>2
  <1>4. file' \in Seq(Cells) /\ FoundInv'
    BY <1>3, WriteStep
  <1>5. Len(file') = IF h.offset + n > Len(file) THEN h.offset + n ELSE Len(file)
    BY <1>2, <1>3, WrittenFacts
  <1>6. Len(file') = Len(file)
    BY <1>1, <1>2, <1>3, <1>5
  <1> QED BY <1>4, <1>6 DEF BoundInv, DInv

(* The state before database_make satisfies the invariant.                 *)
LEMMA DInitially == Init => DInv
  <1>1. <<>> \in Seq(Cells) /\ Len(<<>>) \div 2 = 0
    OBVIOUS
  <1> SUFFICES ASSUME Init PROVE DInv
    OBVIOUS
  <1>2. TypeOK
    BY <1>1 DEF Init, TypeOK
  <1>3. SizeIsFileSize /\ FoundInv
    BY DEF Init, SizeIsFileSize, FoundInv
  <1>4. BoundInv
    BY <1>1, DatabaseAssumption DEF Init, BoundInv
  <1> QED BY <1>2, <1>3, <1>4 DEF DInv

(* Every operation, failure and restart keeps the invariant.               *)
LEMMA DInductive == DInv /\ [Next]_vars => DInv'
  <1> SUFFICES ASSUME DInv, [Next]_vars PROVE DInv'
    OBVIOUS
  <1> USE DatabaseAssumption
  <1>0. TypeOK /\ SizeIsFileSize /\ FoundInv /\ BoundInv
    BY DEF DInv
  <1>1. CASE Make
    BY <1>0, <1>1 DEF Make, DInv, TypeOK, SizeIsFileSize, FoundInv, BoundInv
  <1>2. CASE Clear
    <2>1. <<>> \in Seq(Cells) /\ Len(<<>>) = 0
      OBVIOUS
    <2>2. TypeOK'
      <3>1. up' \in BOOLEAN
        BY Zenon, <1>0, <1>2 DEF Clear, TypeOK
      <3> QED BY <1>0, <1>2, <2>1, <3>1 DEF Clear, TypeOK
    <2> QED BY <1>0, <1>2, <2>1, <2>2 DEF Clear, DInv, SizeIsFileSize, FoundInv, BoundInv
  <1>3. CASE ClearFails
    BY <1>0, <1>3 DEF ClearFails, vars, DInv, TypeOK, SizeIsFileSize, FoundInv, BoundInv
  <1>4. CASE Stop
    BY <1>0, <1>4 DEF Stop, DInv, TypeOK, SizeIsFileSize, FoundInv, BoundInv
  <1>5. ASSUME NEW b \in Block, AppendBlock(b) PROVE DInv'
    <2>1. /\ file' \in Seq(Cells) /\ FoundInv' /\ BoundInv'
          /\ Len(file') = size + 2
      BY <1>5, AppendKeeps DEF AppendBlock
    <2>2. size + 2 \in Nat
      BY <1>0 DEF TypeOK
    <2> QED BY <1>0, <1>5, <2>1, <2>2 DEF AppendBlock, DInv, TypeOK, SizeIsFileSize
  <1>6. ASSUME NEW b \in Block, AppendCut(b) PROVE DInv'
    <2>1. PICK n \in 0..2 : Cut(b, size, n)
      BY <1>6 DEF AppendCut
    <2>2. AllBlockN < MaxBlocks
      BY <1>6 DEF AppendCut
    <2>3. file' \in Seq(Cells) /\ FoundInv' /\ BoundInv'
      BY <2>1, <2>2, AppendKeeps DEF Cut
    <2> QED BY <1>0, <2>1, <2>3, CutType DEF DInv
  <1>7. ASSUME NEW b \in Block, NEW h \in found, ReplaceBlock(h, b) PROVE DInv'
    <2>1. /\ file' \in Seq(Cells) /\ FoundInv' /\ BoundInv'
          /\ Len(file') = Len(file)
      BY <1>7, ReplaceKeeps DEF ReplaceBlock
    <2> QED BY <1>0, <1>7, <2>1 DEF ReplaceBlock, DInv, TypeOK, SizeIsFileSize
  <1>8. ASSUME NEW b \in Block, NEW h \in found, ReplaceCut(h, b) PROVE DInv'
    <2>1. PICK n \in 0..2 : Cut(b, h.offset, n)
      BY <1>8 DEF ReplaceCut
    <2>2. file' \in Seq(Cells) /\ FoundInv' /\ BoundInv'
      BY <2>1, ReplaceKeeps DEF Cut
    <2> QED BY <1>0, <2>1, <2>2, CutType DEF DInv
  <1>9. ASSUME NEW name \in Names, Find(name) PROVE DInv'
    <2>1. size <= Len(file)
      BY <1>0, <1>9 DEF Find, SizeIsFileSize, TypeOK
    <2>2. \A h \in Found(name) :
            /\ \E i \in Nat : h.offset = i * 2 /\ i * 2 + 2 <= Len(file)
            /\ h \in [offset : Nat, block : [name : Cells, data : Cells]]
      BY <1>0, <2>1, FoundFits
    <2>3. FoundInv' /\ found' \subseteq [offset : Nat, block : [name : Cells, data : Cells]]
      BY <1>9, <2>2 DEF Find, FoundInv
    <2> QED BY <1>0, <1>9, <2>3 DEF Find, DInv, TypeOK, SizeIsFileSize, BoundInv
  <1>10. CASE FindRefused
    BY <1>0, <1>10 DEF FindRefused, DInv, TypeOK, SizeIsFileSize, FoundInv, BoundInv
  <1>11. CASE FindFails
    BY <1>0, <1>11 DEF FindFails, DInv, TypeOK, SizeIsFileSize, FoundInv, BoundInv
  <1>12. CASE WriteRefused
    BY <1>0, <1>12 DEF WriteRefused, vars, DInv, TypeOK, SizeIsFileSize, FoundInv, BoundInv
  <1>13. CASE UNCHANGED vars
    BY <1>0, <1>13 DEF vars, DInv, TypeOK, SizeIsFileSize, FoundInv, BoundInv
  <1> QED
    BY <1>1, <1>2, <1>3, <1>4, <1>5, <1>6, <1>7, <1>8, <1>9, <1>10, <1>11, <1>12,
       <1>13 DEF Next

(* The inductive invariant of the database: types, the cached size, search *)
(* results inside the file, the bound.                                     *)
THEOREM DInvariance == Spec => []DInv
  BY DInitially, DInductive, PTL DEF Spec

(* Every variable keeps its type.                                          *)
THEOREM DTypeCorrect == Spec => []TypeOK
  <1>1. DInv => TypeOK
    BY DEF DInv
  <1> QED BY DInvariance, <1>1, PTL

(* The cached size is the size of the file, for any file, whatever fails.  *)
THEOREM SizeCorrect == Spec => []SizeIsFileSize
  <1>1. DInv => SizeIsFileSize
    BY DEF DInv
  <1> QED BY DInvariance, <1>1, PTL

-----------------------------------------------------------------------------
(* Complete blocks are overwritten by clear and replace only               *)

(* A block whose two cells stay is kept.                                   *)
LEMMA BlockKept ==
  ASSUME file \in Seq(Cells), file' \in Seq(Cells), Len(file) <= Len(file'),
         NEW i \in DOMAIN Blocks,
         file'[i * 2 - 1] = file[i * 2 - 1], file'[i * 2] = file[i * 2]
  PROVE  i \in DOMAIN Blocks' /\ Blocks'[i] = Blocks[i]
  <1>1. Len(file) \in Nat /\ Len(file') \in Nat
    OBVIOUS
  <1>2. i \in 1..(Len(file) \div 2)
    BY DEF Blocks
  <1>3. i \in 1..(Len(file') \div 2)
    BY <1>1, <1>2
  <1>4. (i - 1) * 2 + 1 = i * 2 - 1 /\ (i - 1) * 2 + 2 = i * 2
    BY <1>2
  <1>5. Blocks[i] = [name |-> file[i * 2 - 1], data |-> file[i * 2]]
    BY <1>2, <1>4 DEF Blocks, BlockAt
  <1>6. Blocks'[i] = [name |-> file'[i * 2 - 1], data |-> file'[i * 2]]
    BY <1>3, <1>4 DEF Blocks, BlockAt
  <1> QED BY <1>3, <1>5, <1>6 DEF Blocks

(* A complete block has both cells in the file.                            *)
LEMMA BlockCells ==
  ASSUME file \in Seq(Cells), NEW i \in DOMAIN Blocks
  PROVE  /\ i \in Nat \ {0} /\ i * 2 <= Len(file)
         /\ i * 2 - 1 \in 1..Len(file) /\ i * 2 \in 1..Len(file)
  <1>1. Len(file) \in Nat /\ i \in 1..(Len(file) \div 2)
    BY DEF Blocks
  <1> QED BY <1>1

(* A write at the end of the file, whole or cut, keeps every complete      *)
(* block.                                                                  *)
LEMMA AppendOverwritesNothing ==
  ASSUME DInv, up, rwfd = "open", NEW b \in Block, NEW n \in 0..2,
         file' = Written(b, size, n), NEW i \in DOMAIN Blocks
  PROVE  i \in DOMAIN Blocks' /\ Blocks'[i] = Blocks[i]
  <1>1. size \in Nat /\ size = Len(file) /\ size <= Len(file) /\ file \in Seq(Cells)
    BY DEF DInv, TypeOK, SizeIsFileSize
  <1>2. /\ file' \in Seq(Cells)
        /\ Len(file') = size + n
        /\ \A p \in 1..Len(file) : file'[p] = file[p]
    BY <1>1, WrittenAtEnd
  <1>3. Len(file) <= Len(file')
    BY <1>1, <1>2
  <1>4. i * 2 - 1 \in 1..Len(file) /\ i * 2 \in 1..Len(file)
    BY <1>1, BlockCells
  <1>5. file'[i * 2 - 1] = file[i * 2 - 1] /\ file'[i * 2] = file[i * 2]
    BY <1>2, <1>4
  <1> QED BY <1>1, <1>2, <1>3, <1>5, BlockKept

(* A write at the offset of a found block changes no other block.          *)
LEMMA ReplaceOverwritesItsBlock ==
  ASSUME DInv, NEW b \in Block, NEW n \in 0..2, NEW h \in found,
         file' = Written(b, h.offset, n), NEW i \in DOMAIN Blocks,
         h.offset # (i - 1) * 2
  PROVE  i \in DOMAIN Blocks' /\ Blocks'[i] = Blocks[i]
  <1>1. PICK m \in Nat : h.offset = m * 2 /\ m * 2 + 2 <= Len(file)
    BY DEF DInv, FoundInv
  <1>2. file \in Seq(Cells) /\ Len(file) \in Nat /\ h.offset \in Nat /\ h.offset <= Len(file)
    BY <1>1 DEF DInv, TypeOK
  <1>3. /\ file' \in Seq(Cells)
        /\ Len(file') = IF h.offset + n > Len(file) THEN h.offset + n ELSE Len(file)
        /\ \A p \in 1..Len(file) :
             p \notin (h.offset + 1)..(h.offset + n) => file'[p] = file[p]
    BY <1>2, WrittenFacts
  <1>4. Len(file) <= Len(file')
    BY <1>1, <1>2, <1>3
  <1>5. /\ i \in Nat /\ i * 2 - 1 \in 1..Len(file) /\ i * 2 \in 1..Len(file)
        /\ m # i - 1
    BY <1>1, <1>2, BlockCells
  <1>6. i * 2 - 1 \notin (m * 2 + 1)..(m * 2 + n) /\ i * 2 \notin (m * 2 + 1)..(m * 2 + n)
    BY <1>5
  <1>7. file'[i * 2 - 1] = file[i * 2 - 1] /\ file'[i * 2] = file[i * 2]
    BY <1>1, <1>3, <1>5, <1>6
  <1> QED BY <1>2, <1>3, <1>4, <1>7, BlockKept

(* For every buffer size, and whatever is cut short or fails: no operation  *)
(* but clear and replace changes a complete block.                         *)
THEOREM NoOverwrite == Spec => OnlyReplaceOverwrites
  <1>1. DInv /\ [Next]_vars => [Clear \/ BlocksKept]_vars
    <2> SUFFICES ASSUME DInv, Next, ~Clear PROVE BlocksKept
      OBVIOUS
    <2>1. ASSUME file' = file PROVE BlocksKept
      BY <2>1 DEF BlocksKept, Blocks, BlockAt
    <2>2. ASSUME NEW b \in Block, AppendBlock(b) \/ AppendCut(b) PROVE BlocksKept
      <3>1. PICK n \in 0..2 : file' = Written(b, size, n) /\ up /\ rwfd = "open"
        <4>1. CASE AppendBlock(b)
          BY <4>1 DEF AppendBlock
        <4>2. CASE AppendCut(b)
          BY <4>2 DEF AppendCut, Cut
        <4> QED BY <2>2, <4>1, <4>2
      <3> QED BY <3>1, AppendOverwritesNothing DEF BlocksKept
    <2>3. ASSUME NEW b \in Block, NEW h \in found, ReplaceBlock(h, b) \/ ReplaceCut(h, b)
          PROVE  BlocksKept
      <3>1. PICK n \in 0..2 : file' = Written(b, h.offset, n)
        <4>1. CASE ReplaceBlock(h, b)
          BY <4>1 DEF ReplaceBlock
        <4>2. CASE ReplaceCut(h, b)
          BY <4>2 DEF ReplaceCut, Cut
        <4> QED BY <2>3, <4>1, <4>2
      <3>2. \A i \in DOMAIN Blocks : h.offset # (i - 1) * 2 =>
              i \in DOMAIN Blocks' /\ Blocks'[i] = Blocks[i]
        BY <3>1, ReplaceOverwritesItsBlock
      <3>3. \A i \in DOMAIN Blocks : h.offset = (i - 1) * 2 => i \in DOMAIN Blocks'
        <4>1. file \in Seq(Cells) /\ file' \in Seq(Cells) /\ Len(file') = Len(file)
          <5>1. found' = found
            BY <2>3 DEF ReplaceBlock, ReplaceCut, Cut
          <5> QED BY <3>1, <5>1, ReplaceKeeps DEF DInv, TypeOK
        <4> QED BY <4>1 DEF Blocks
      <3> QED BY <2>3, <3>2, <3>3 DEF BlocksKept, Replaces
    <2>4. CASE Make \/ ClearFails \/ Stop \/ FindRefused \/ FindFails \/ WriteRefused
      BY <2>1, <2>4 DEF Make, ClearFails, Stop, FindRefused, FindFails, WriteRefused, vars
    <2>5. ASSUME NEW name \in Names, Find(name) PROVE BlocksKept
      BY <2>1, <2>5 DEF Find
    <2> QED BY <2>2, <2>3, <2>4, <2>5 DEF Next
  <1> QED BY DInvariance, <1>1, PTL DEF Spec, OnlyReplaceOverwrites

-----------------------------------------------------------------------------
(* The database implements BlockStore                                      *)

(* The file is a whole number of blocks.                                   *)
EvenInv == \E n \in Nat : Len(file) = n * 2

(* It is, unless a write has left half a block.                            *)
Whole == ~torn => EvenInv

(* A file of 2n cells is n blocks, each with its two cells.                *)
LEMMA BlocksLength ==
  ASSUME NEW n \in Nat, Len(file) = n * 2
  PROVE  /\ DOMAIN Blocks = 1..n
         /\ Blocks \in Seq([name : {file[p] : p \in 1..Len(file)},
                            data : {file[p] : p \in 1..Len(file)}])
         /\ Len(Blocks) = n
  <1> DEFINE B == [name : {file[p] : p \in 1..Len(file)},
                   data : {file[p] : p \in 1..Len(file)}]
  <1>1. Len(file) \div 2 = n
    OBVIOUS
  <1>2. \A i \in 1..n : BlockAt((i - 1) * 2) \in B
    <2> TAKE i \in 1..n
    <2>1. (i - 1) * 2 + 1 \in 1..Len(file) /\ (i - 1) * 2 + 2 \in 1..Len(file)
      OBVIOUS
    <2> QED BY <2>1 DEF BlockAt
  <1> HIDE DEF B
  <1>3. Blocks = [i \in 1..n |-> BlockAt((i - 1) * 2)]
    BY <1>1 DEF Blocks
  <1>4. Blocks \in [1..n -> B]
    BY <1>2, <1>3
  <1>5. Blocks \in Seq(B) /\ Len(Blocks) = n
    BY <1>4
  <1> QED BY <1>3, <1>5 DEF B

(* An append of the file is an append of the sequence of blocks.           *)
LEMMA AppendMaps ==
  ASSUME DInv, EvenInv, up, rwfd = "open", NEW b \in Block,
         file' = Written(b, size, 2)
  PROVE  Blocks' = Append(Blocks, b) /\ EvenInv'
  <1>1. PICK n \in Nat : Len(file) = n * 2
    BY DEF EvenInv
  <1>2. size \in Nat /\ size = Len(file) /\ size <= Len(file) /\ file \in Seq(Cells)
    BY DEF DInv, TypeOK, SizeIsFileSize
  <1>3. /\ Len(file') = (n + 1) * 2 /\ file' \in Seq(Cells)
        /\ \A p \in 1..Len(file) : file'[p] = file[p]
        /\ file'[n * 2 + 1] = b.name /\ file'[n * 2 + 2] = b.data
    <2>1. /\ Len(file') = size + 2 /\ file' \in Seq(Cells)
          /\ \A p \in 1..Len(file) : file'[p] = file[p]
          /\ file'[size + 1] = b.name /\ file'[size + 2] = b.data
      BY <1>2, WrittenAtEnd
    <2> QED BY <1>1, <1>2, <2>1
  <1>4. DOMAIN Blocks = 1..n /\ Len(Blocks) = n
    BY <1>1, BlocksLength
  <1>5. Blocks' = [i \in 1..(n + 1) |-> [name |-> file'[(i - 1) * 2 + 1],
                                         data |-> file'[(i - 1) * 2 + 2]]]
    <2>1. Len(file') \div 2 = n + 1
      BY <1>3
    <2>2. Blocks' = [i \in 1..(Len(file') \div 2) |-> BlockAt((i - 1) * 2)']
      BY DEF Blocks
    <2>3. \A i \in 1..(n + 1) :
            BlockAt((i - 1) * 2)' = [name |-> file'[(i - 1) * 2 + 1],
                                     data |-> file'[(i - 1) * 2 + 2]]
      BY DEF BlockAt
    <2>4. Blocks' = [i \in 1..(n + 1) |-> BlockAt((i - 1) * 2)']
      BY <2>1, <2>2
    <2> QED BY SMT, <2>3, <2>4
  <1>6. Blocks'[n + 1] = b
    <2>1. n + 1 \in 1..(n + 1) /\ (n + 1) - 1 = n
      OBVIOUS
    <2>2. Blocks'[n + 1] = [name |-> file'[n * 2 + 1], data |-> file'[n * 2 + 2]]
      BY <1>5, <2>1
    <2>3. Blocks'[n + 1] = [name |-> b.name, data |-> b.data]
      BY <1>3, <2>2
    <2> QED BY <2>3 DEF Block
  <1>7. \A i \in 1..n : Blocks'[i] = Blocks[i]
    BY <1>2, <1>4, AppendOverwritesNothing
  <1>8. Blocks' = Append(Blocks, b)
    <2> DEFINE S == [name : {file[p] : p \in 1..Len(file)},
                     data : {file[p] : p \in 1..Len(file)}]
    <2>1. Blocks \in Seq(S)
      BY <1>1, BlocksLength
    <2> HIDE DEF S
    <2>2. Blocks \in Seq(S \cup {b}) /\ Len(Blocks) = n
      BY <1>4, <2>1
    <2>3. /\ Append(Blocks, b) \in Seq(S \cup {b}) /\ Len(Append(Blocks, b)) = n + 1
          /\ \A i \in 1..n : Append(Blocks, b)[i] = Blocks[i]
          /\ Append(Blocks, b)[n + 1] = b
      BY <2>2, AppendProperties
    <2>4. \A i \in 1..(n + 1) : Blocks'[i] = Append(Blocks, b)[i]
      BY <1>6, <1>7, <2>3
    <2>5. Blocks' \in [1..(n + 1) -> S \cup {b}]
      <3>1. \A i \in 1..(n + 1) : Append(Blocks, b)[i] \in S \cup {b}
        BY <2>3, ElementOfSeq
      <3>2. DOMAIN Blocks' = 1..(n + 1) /\ Blocks' = [i \in 1..(n + 1) |-> Blocks'[i]]
        BY <1>5
      <3> QED BY <2>4, <3>1, <3>2
    <2>6. Blocks' \in Seq(S \cup {b}) /\ Len(Blocks') = n + 1
      BY <2>5
    <2> QED BY <2>3, <2>4, <2>6, SeqEqual
  <1>9. EvenInv'
    <2>1. n + 1 \in Nat
      OBVIOUS
    <2> QED BY <1>3, <2>1 DEF EvenInv
  <1> QED BY <1>8, <1>9

(* Overwriting a found block is overwriting the block at its position.     *)
LEMMA ReplaceMaps ==
  ASSUME DInv, EvenInv, NEW b \in Block, NEW h \in found,
         file' = Written(b, h.offset, 2), found' = found
  PROVE  /\ h.offset \div 2 + 1 \in DOMAIN Blocks
         /\ Blocks' = [Blocks EXCEPT ![h.offset \div 2 + 1] = b]
         /\ EvenInv'
  <1>1. PICK n \in Nat : Len(file) = n * 2
    BY DEF EvenInv
  <1>2. PICK m \in Nat : h.offset = m * 2 /\ m * 2 + 2 <= Len(file)
    BY DEF DInv, FoundInv
  <1>3. h.offset \div 2 + 1 = m + 1 /\ m + 1 \in 1..n
    BY <1>1, <1>2
  <1>4. file \in Seq(Cells) /\ h.offset \in Nat /\ h.offset <= Len(file)
    BY <1>1, <1>2 DEF DInv, TypeOK
  <1>5. Len(file') = n * 2
    BY <1>1, ReplaceKeeps
  <1>6. file'[m * 2 + 1] = b.name /\ file'[m * 2 + 2] = b.data
    BY <1>2, <1>4, WrittenFacts
  <1>7. DOMAIN Blocks = 1..n
    BY <1>1, BlocksLength
  <1>8. Blocks' = [i \in 1..n |-> [name |-> file'[(i - 1) * 2 + 1],
                                   data |-> file'[(i - 1) * 2 + 2]]]
    <2>1. Len(file') \div 2 = n
      BY <1>5
    <2> QED BY <2>1 DEF Blocks, BlockAt
  <1>9. Blocks'[m + 1] = b
    <2>1. Blocks'[m + 1] = [name |-> b.name, data |-> b.data]
      BY <1>3, <1>6, <1>8
    <2> QED BY <2>1 DEF Block
  <1>10. \A i \in 1..n : i # m + 1 => Blocks'[i] = Blocks[i]
    <2> SUFFICES ASSUME NEW i \in 1..n, i # m + 1 PROVE Blocks'[i] = Blocks[i]
      OBVIOUS
    <2>1. h.offset # (i - 1) * 2
      BY <1>2
    <2> QED BY <1>7, <2>1, ReplaceOverwritesItsBlock
  <1>11. Blocks = [i \in 1..n |-> Blocks[i]]
    BY <1>7 DEF Blocks
  <1>12. Blocks' = [i \in 1..n |-> Blocks'[i]]
    BY <1>8
  <1>13. Blocks' = [Blocks EXCEPT ![m + 1] = b]
    BY <1>3, <1>9, <1>10, <1>11, <1>12
  <1>14. EvenInv'
    BY <1>5 DEF EvenInv
  <1> QED BY <1>3, <1>7, <1>13, <1>14

-----------------------------------------------------------------------------
(* The search                                                              *)

(* With less than two full chunks the only chunk read through ChunkStart is *)
(* the first, whose offset is right: the infos are those of the blocks     *)
(* 0 .. AllBlockN - 1, each at its own offset.                             *)
LEMMA SearchCovers ==
  ASSUME size \in Nat, AllBlockN < 2 * ChunkBufSize
  PROVE  ChunkInfos \cup ExcessInfos =
           {[offset |-> m * 2, block |-> BlockAt(m * 2)] : m \in 0..(AllBlockN - 1)}
  <1> USE DatabaseAssumption
  <1> DEFINE Info(m) == [offset |-> m * 2, block |-> BlockAt(m * 2)]
             C == ChunkBufSize
  <1>1. /\ AllBlockN \in Nat /\ FullChunkN \in Nat /\ ExcessBlockN \in Nat
        /\ FullChunkN * C \in Nat /\ FullChunkN * C + ExcessBlockN = AllBlockN
    BY Counts
  <1>2. FullChunkN \in {0, 1}
    <2>1. FullChunkN >= 2 => 2 * C <= FullChunkN * C
      BY <1>1, TimesMonotonic
    <2> QED BY <1>1, <2>1
  <1>3. ChunkInfos = {Info(j) : j \in 0..(FullChunkN * C - 1)}
    <2>1. CASE FullChunkN = 0
      BY <2>1 DEF ChunkInfos
    <2>2. CASE FullChunkN = 1
      <3>1. FullChunkN * C = C /\ 0..(FullChunkN - 1) = {0}
        BY <2>2
      <3>2. \A j \in 0..(C - 1) :
              Info(j) = [offset |-> (0 * C + j) * 2, block |-> BlockAt(0 * 2 + j * 2)]
        OBVIOUS
      <3>3. ChunkInfos = {[offset |-> (i * C + j) * 2, block |-> BlockAt(i * 2 + j * 2)] :
                             i \in 0..(FullChunkN - 1), j \in 0..(C - 1)}
        BY DEF ChunkInfos, ChunkStart
      <3>4. ChunkInfos = {[offset |-> (0 * C + j) * 2, block |-> BlockAt(0 * 2 + j * 2)] :
                             j \in 0..(C - 1)}
        <4>1. ASSUME NEW x \in ChunkInfos
              PROVE  \E j \in 0..(C - 1) :
                       x = [offset |-> (0 * C + j) * 2, block |-> BlockAt(0 * 2 + j * 2)]
          <5>1. PICK i \in 0..(FullChunkN - 1), j \in 0..(C - 1) :
                  x = [offset |-> (i * C + j) * 2, block |-> BlockAt(i * 2 + j * 2)]
            BY <3>3
          <5>2. i = 0
            BY <2>2
          <5> QED BY <5>1, <5>2
        <4>2. ASSUME NEW j \in 0..(C - 1)
              PROVE  [offset |-> (0 * C + j) * 2, block |-> BlockAt(0 * 2 + j * 2)]
                       \in ChunkInfos
          <5> DEFINE x == [offset |-> (0 * C + j) * 2, block |-> BlockAt(0 * 2 + j * 2)]
          <5>1. 0 \in 0..(FullChunkN - 1)
            BY <2>2
          <5>2. \E i \in 0..(FullChunkN - 1), k \in 0..(C - 1) :
                  x = [offset |-> (i * C + k) * 2, block |-> BlockAt(i * 2 + k * 2)]
            BY <5>1
          <5> HIDE DEF x, C
          <5>3. x \in {[offset |-> (i * C + k) * 2, block |-> BlockAt(i * 2 + k * 2)] :
                         i \in 0..(FullChunkN - 1), k \in 0..(C - 1)}
            BY <5>2
          <5>4. x \in ChunkInfos
            BY <3>3, <5>3
          <5> QED BY <5>4 DEF x
        <4> QED BY <4>1, <4>2
      <3> HIDE DEF Info
      <3>5. ChunkInfos = {Info(j) : j \in 0..(C - 1)}
        BY <3>2, <3>4
      <3> QED BY <3>1, <3>5
    <2> QED BY <1>2, <2>1, <2>2
  <1>4. ExcessInfos = {Info(FullChunkN * C + j) : j \in 0..(ExcessBlockN - 1)}
    BY DEF ExcessInfos
  <1>5. \A m \in 0..(AllBlockN - 1) :
          \/ m \in 0..(FullChunkN * C - 1)
          \/ \E j \in 0..(ExcessBlockN - 1) : m = FullChunkN * C + j
    <2> TAKE m \in 0..(AllBlockN - 1)
    <2>1. CASE m < FullChunkN * C
      BY <1>1, <2>1
    <2>2. CASE m >= FullChunkN * C
      <3>1. m - FullChunkN * C \in 0..(ExcessBlockN - 1)
        BY <1>1, <2>2
      <3> QED BY <1>1, <3>1
    <2> QED BY <1>1, <2>1, <2>2
  <1>6. /\ 0..(FullChunkN * C - 1) \subseteq 0..(AllBlockN - 1)
        /\ \A j \in 0..(ExcessBlockN - 1) : FullChunkN * C + j \in 0..(AllBlockN - 1)
    BY <1>1
  <1> HIDE DEF Info, C
  <1>7. ChunkInfos \cup ExcessInfos = {Info(m) : m \in 0..(AllBlockN - 1)}
    BY <1>3, <1>4, <1>5, <1>6
  <1> QED BY <1>7 DEF Info

(* What the search returns, seen as positions and blocks of the sequence.  *)
LEMMA FindMaps ==
  ASSUME DInv, EvenInv, up, rwfd = "open", MaxBlocks < 2 * ChunkBufSize,
         NEW name, found' = Found(name)
  PROVE  FoundAt' = {[at |-> i, block |-> Blocks[i]] :
                        i \in {j \in DOMAIN Blocks : Blocks[j].name = name}}
  <1>1. PICK n \in Nat : Len(file) = n * 2
    BY DEF EvenInv
  <1>2. size = n * 2 /\ size \in Nat
    BY <1>1 DEF DInv, TypeOK, SizeIsFileSize
  <1>3. AllBlockN = n
    BY <1>2 DEF AllBlockN
  <1>4. n <= MaxBlocks
    BY <1>1 DEF DInv, BoundInv
  <1>5. n < 2 * ChunkBufSize
    BY <1>4, DatabaseAssumption
  <1>6. ChunkInfos \cup ExcessInfos =
          {[offset |-> m * 2, block |-> BlockAt(m * 2)] : m \in 0..(n - 1)}
    BY <1>2, <1>3, <1>5, SearchCovers
  <1>7. found' = {h \in {[offset |-> m * 2, block |-> BlockAt(m * 2)] : m \in 0..(n - 1)} :
                     h.block.name = name}
    BY <1>6 DEF Found
  <1>8. DOMAIN Blocks = 1..n /\ \A i \in 1..n : Blocks[i] = BlockAt((i - 1) * 2)
    <2>1. Len(file) \div 2 = n
      BY <1>1
    <2> QED BY <2>1 DEF Blocks
  <1>9. FoundAt' = {[at |-> h.offset \div 2 + 1, block |-> h.block] : h \in found'}
    BY DEF FoundAt, Position
  <1>10. ASSUME NEW m \in 0..(n - 1)
         PROVE  m + 1 \in 1..n /\ (m * 2) \div 2 + 1 = m + 1
                /\ Blocks[m + 1] = BlockAt(m * 2)
    BY <1>8
  <1>11. ASSUME NEW x \in FoundAt'
         PROVE  \E i \in 1..n : Blocks[i].name = name /\ x = [at |-> i, block |-> Blocks[i]]
    <2>1. PICK m \in 0..(n - 1) :
            /\ BlockAt(m * 2).name = name
            /\ x = [at |-> (m * 2) \div 2 + 1, block |-> BlockAt(m * 2)]
      BY <1>7, <1>9
    <2> QED BY <1>10, <2>1
  <1>12. ASSUME NEW i \in 1..n, Blocks[i].name = name
         PROVE  [at |-> i, block |-> Blocks[i]] \in FoundAt'
    <2>1. i - 1 \in 0..(n - 1) /\ ((i - 1) * 2) \div 2 + 1 = i
      OBVIOUS
    <2>2. PICK h \in found' : h = [offset |-> (i - 1) * 2, block |-> BlockAt((i - 1) * 2)]
      BY <1>7, <1>8, <1>12, <2>1
    <2>3. h.offset \div 2 + 1 = i /\ h.block = Blocks[i]
      BY <1>8, <2>1, <2>2
    <2>4. [at |-> h.offset \div 2 + 1, block |-> h.block] \in FoundAt'
      BY <1>9
    <2> QED BY <2>3, <2>4
  <1> QED BY <1>8, <1>11, <1>12

-----------------------------------------------------------------------------
(* The steps                                                               *)

(* A write of which nothing reaches the file.                              *)
LEMMA NothingWritten ==
  ASSUME file \in Seq(Cells), NEW b \in Block, NEW off \in Nat, off <= Len(file)
  PROVE  Written(b, off, 0) = file
  <1>1. Written(b, off, 0) \in Seq(Cells) /\ Len(Written(b, off, 0)) = Len(file)
    BY WrittenFacts
  <1>2. \A p \in 1..Len(file) : Written(b, off, 0)[p] = file[p]
    <2>1. \A p \in 1..Len(file) :
            p \notin (off + 1)..(off + 0) => Written(b, off, 0)[p] = file[p]
      BY WrittenFacts
    <2> QED BY <2>1
  <1> QED BY <1>1, <1>2, SeqEqual

(* A step that keeps the file and the search result maps to a stutter.     *)
LEMMA Stutters ==
  ASSUME EvenInv, file' = file, found' = found
  PROVE  UNCHANGED Store!vars /\ EvenInv'
  <1>1. Blocks' = Blocks
    BY DEF Blocks, BlockAt
  <1>2. FoundAt' = FoundAt
    BY DEF FoundAt, Position
  <1> QED BY <1>1, <1>2 DEF Store!vars, EvenInv

(* A step that keeps the file and drops the search result.                 *)
LEMMA Forgets ==
  ASSUME EvenInv, file' = file, found' = {}
  PROVE  Store!Next /\ EvenInv'
  <1>1. Blocks' = Blocks
    BY DEF Blocks, BlockAt
  <1>2. FoundAt' = {}
    BY DEF FoundAt, Position
  <1>3. Store!Forget
    BY <1>1, <1>2 DEF Store!Forget
  <1> QED BY <1>3 DEF Store!Next, EvenInv

(* database_append_block: nothing of it changes nothing, and all of it is  *)
(* an AppendBlock of the store.                                            *)
LEMMA AppendSteps ==
  ASSUME DInv, EvenInv, up, rwfd = "open", NEW b \in Block, NEW n \in {0, 2},
         file' = Written(b, size, n), found' = found
  PROVE  /\ n = 0 => UNCHANGED Store!vars
         /\ n = 2 => Store!AppendBlock(b)
         /\ EvenInv'
  <1>1. CASE n = 0
    <2>1. file \in Seq(Cells) /\ size \in Nat /\ size <= Len(file)
      BY DEF DInv, TypeOK, SizeIsFileSize
    <2>2. file' = file
      BY <1>1, <2>1, NothingWritten
    <2> QED BY <1>1, <2>2, Stutters
  <1>2. CASE n = 2
    <2>1. Blocks' = Append(Blocks, b) /\ EvenInv'
      BY <1>2, AppendMaps
    <2>2. FoundAt' = FoundAt
      BY DEF FoundAt, Position
    <2>3. Store!AppendBlock(b)
      BY <2>1, <2>2 DEF Store!AppendBlock
    <2> QED BY <1>2, <2>1, <2>3
  <1> QED BY <1>1, <1>2

(* database_replace_block, likewise, of a block that a search has found.   *)
LEMMA ReplaceSteps ==
  ASSUME DInv, EvenInv, NEW b \in Block, NEW h \in found, NEW n \in {0, 2},
         file' = Written(b, h.offset, n), found' = found
  PROVE  /\ n = 0 => UNCHANGED Store!vars
         /\ n = 2 => Store!ReplaceBlock(Position(h), b)
         /\ EvenInv'
  <1>1. CASE n = 0
    <2>1. PICK m \in Nat : h.offset = m * 2 /\ m * 2 + 2 <= Len(file)
      BY DEF DInv, FoundInv
    <2>2. file \in Seq(Cells) /\ h.offset \in Nat /\ h.offset <= Len(file)
      BY <2>1 DEF DInv, TypeOK
    <2>3. file' = file
      BY <1>1, <2>2, NothingWritten
    <2> QED BY <1>1, <2>3, Stutters
  <1>2. CASE n = 2
    <2>1. /\ h.offset \div 2 + 1 \in DOMAIN Blocks
          /\ Blocks' = [Blocks EXCEPT ![h.offset \div 2 + 1] = b]
          /\ EvenInv'
      BY <1>2, ReplaceMaps
    <2>2. Position(h) \in FoundAt /\ FoundAt' = FoundAt
      BY DEF FoundAt, Position
    <2>3. Position(h).at = h.offset \div 2 + 1
      BY DEF Position
    <2>4. Store!ReplaceBlock(Position(h), b)
      BY <2>1, <2>2, <2>3 DEF Store!ReplaceBlock
    <2> QED BY <1>2, <2>1, <2>4
  <1> QED BY <1>1, <1>2

(* A write that is cut and leaves no half block was written whole or not    *)
(* at all.                                                                 *)
LEMMA CutWhole ==
  ASSUME NEW b, NEW off, NEW n \in 0..2, Cut(b, off, n), ~torn'
  PROVE  n \in {0, 2}
  <1>1. n \notin 1..(2 - 1)
    BY Zenon DEF Cut
  <1> QED BY <1>1

(* database_clear clears the store, whatever the file held, and leaves it  *)
(* a whole number of blocks.                                               *)
LEMMA ClearMaps ==
  ASSUME Clear
  PROVE  Store!Clear /\ EvenInv'
  <1>1. file' = <<>> /\ found' = {}
    BY DEF Clear
  <1>2. EvenInv'
    <2>1. Len(file') = 0 * 2
      BY <1>1
    <2> QED BY <2>1 DEF EvenInv
  <1>3. Blocks' = <<>>
    <2>1. Len(file') \div 2 = 0
      BY <1>1
    <2>2. Blocks' = [i \in 1..0 |-> BlockAt((i - 1) * 2)']
      BY <2>1 DEF Blocks
    <2> QED BY <2>2
  <1>4. FoundAt' = {}
    BY <1>1 DEF FoundAt
  <1> QED BY <1>2, <1>3, <1>4 DEF Store!Clear

(* A half block stays until the file is cleared, and clearing it is the    *)
(* store's clear.                                                          *)
LEMMA MendingStep ==
  ASSUME torn, [Next]_vars, ~torn'
  PROVE  [Store!Next]_Store!vars /\ OperationsAgree /\ EvenInv'
  <1>1. \A b \in Block : ~AppendBlock(b) /\ ~AppendCut(b)
    BY DEF AppendBlock, AppendCut, Cut
  <1>2. \A b \in Block, h \in found : ~ReplaceBlock(h, b) /\ ~ReplaceCut(h, b)
    BY DEF ReplaceBlock, ReplaceCut, Cut
  <1>3. ~Make /\ ~ClearFails /\ ~Stop /\ ~FindRefused /\ ~FindFails /\ ~WriteRefused
    BY DEF Make, ClearFails, Stop, FindRefused, FindFails, WriteRefused, vars
  <1>4. \A name \in Names : ~Find(name)
    BY DEF Find
  <1>5. ~UNCHANGED vars
    BY DEF vars
  <1>6. Clear
    BY <1>1, <1>2, <1>3, <1>4, <1>5 DEF Next
  <1>7. Store!Clear /\ EvenInv'
    BY <1>6, ClearMaps
  <1>8. OperationsAgree
    BY <1>1, <1>2, <1>4, <1>7 DEF OperationsAgree
  <1> QED BY <1>7, <1>8 DEF Store!Next

(* Every step that leaves no half block is the step of the store of that   *)
(* name, or another one of the store, or a stutter, and the file stays a   *)
(* whole number of blocks.                                                 *)
LEMMA StoreStep ==
  ASSUME MaxBlocks < 2 * ChunkBufSize, DInv, ~torn, EvenInv, [Next]_vars, ~torn'
  PROVE  [Store!Next]_Store!vars /\ OperationsAgree /\ EvenInv'
  <1>0. \A b \in Block : b \in Store!Block
    BY DEF Block, Store!Block
  <1>1. ASSUME Make
        PROVE  [Store!Next]_Store!vars /\ EvenInv'
    BY <1>1, Forgets DEF Make
  <1>2. ASSUME Clear PROVE Store!Clear /\ EvenInv'
    BY <1>2, ClearMaps
  <1>3. ASSUME ClearFails \/ Stop \/ WriteRefused \/ UNCHANGED vars
        PROVE  [Store!Next]_Store!vars /\ EvenInv'
    BY <1>3, Stutters DEF ClearFails, Stop, WriteRefused, vars
  <1>4. ASSUME NEW b \in Block, AppendBlock(b) PROVE Store!AppendBlock(b) /\ EvenInv'
    BY <1>4, AppendSteps DEF AppendBlock
  <1>5. ASSUME NEW b \in Block, AppendCut(b)
        PROVE  [Store!AppendBlock(b)]_Store!vars /\ EvenInv'
    <2>1. PICK n \in 0..2 : Cut(b, size, n)
      BY <1>5 DEF AppendCut
    <2>2. n \in {0, 2}
      BY <2>1, CutWhole
    <2> QED BY <2>1, <2>2, AppendSteps DEF Cut
  <1>6. ASSUME NEW b \in Block, NEW h \in found, ReplaceBlock(h, b)
        PROVE  Store!ReplaceBlock(Position(h), b) /\ EvenInv'
    BY <1>6, ReplaceSteps DEF ReplaceBlock
  <1>7. ASSUME NEW b \in Block, NEW h \in found, ReplaceCut(h, b)
        PROVE  [Store!ReplaceBlock(Position(h), b)]_Store!vars /\ EvenInv'
    <2>1. PICK n \in 0..2 : Cut(b, h.offset, n)
      BY <1>7 DEF ReplaceCut
    <2>2. n \in {0, 2}
      BY <2>1, CutWhole
    <2> QED BY <2>1, <2>2, ReplaceSteps DEF Cut
  <1>8. ASSUME NEW name \in Names, Find(name) PROVE Store!Find(name) /\ EvenInv'
    <2>1. FoundAt' = {[at |-> i, block |-> Blocks[i]] :
                        i \in {j \in DOMAIN Blocks : Blocks[j].name = name}}
      BY <1>8, FindMaps DEF Find
    <2>2. file' = file
      BY <1>8 DEF Find
    <2>3. Blocks' = Blocks /\ EvenInv'
      BY <2>2 DEF Blocks, BlockAt, EvenInv
    <2>4. Store!Find(name)
      BY <2>1, <2>3 DEF Store!Find
    <2> QED BY <2>3, <2>4
  <1>9. ASSUME FindRefused \/ FindFails
        PROVE  [Store!Next]_Store!vars /\ EvenInv'
    BY <1>9, Forgets DEF FindRefused, FindFails
  <1>10. OperationsAgree
    BY <1>2, <1>4, <1>5, <1>6, <1>7, <1>8 DEF OperationsAgree
  <1>11. \A h \in found : Position(h) \in FoundAt
    BY DEF FoundAt, Position
  <1>12. ASSUME NEW b \in Block, AppendBlock(b) \/ AppendCut(b)
         PROVE  [Store!Next]_Store!vars /\ EvenInv'
    BY <1>0, <1>4, <1>5, <1>12 DEF Store!Next
  <1>13. ASSUME NEW b \in Block, NEW h \in found, ReplaceBlock(h, b) \/ ReplaceCut(h, b)
         PROVE  [Store!Next]_Store!vars /\ EvenInv'
    BY <1>0, <1>6, <1>7, <1>11, <1>13 DEF Store!Next
  <1>14. ASSUME NEW name \in Names, Find(name) PROVE [Store!Next]_Store!vars /\ EvenInv'
    BY <1>8, <1>14 DEF Store!Next
  <1>15. ASSUME Clear
        PROVE  [Store!Next]_Store!vars /\ EvenInv'
    BY <1>2, <1>15 DEF Store!Next
  <1>16. [Store!Next]_Store!vars /\ EvenInv'
    BY <1>1, <1>3, <1>9, <1>12, <1>13, <1>14, <1>15 DEF Next
  <1> QED BY <1>10, <1>16

(* For every buffer size C and every file of less than two full chunks:    *)
(* as long as no write has left half a block since the file was last       *)
(* empty, every step of the database, with its failures and restarts, is   *)
(* one of BlockStore, and each operation is the one of that name.          *)
THEOREM StoreImplemented ==
  ASSUME MaxBlocks < 2 * ChunkBufSize
  PROVE  Spec => ImplementsStore
  <1>1. Init => Store!Init /\ Whole
    <2> SUFFICES ASSUME Init PROVE Store!Init /\ Whole
      OBVIOUS
    <2>1. Len(file) = 0 * 2
      BY DEF Init
    <2>2. Whole
      BY <2>1 DEF EvenInv, Whole
    <2>3. Blocks \in Seq(Store!Block)
      <3>1. Blocks = [i \in 1..0 |-> BlockAt((i - 1) * 2)]
        BY <2>1 DEF Blocks
      <3>2. Blocks = <<>>
        BY <3>1
      <3> QED BY <3>2
    <2>4. FoundAt = {}
      BY DEF Init, FoundAt
    <2> QED BY <2>2, <2>3, <2>4 DEF Store!Init
  <1>2. DInv /\ Whole /\ [Next]_vars
          => [~torn' => [Store!Next]_Store!vars /\ OperationsAgree]_vars /\ Whole'
    BY MendingStep, StoreStep DEF Whole
  <1> QED BY DInvariance, <1>1, <1>2, PTL DEF Spec, ImplementsStore
=============================================================================
