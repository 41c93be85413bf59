----------------------------- MODULE BlockStore -----------------------------
(***************************************************************************)
(* What the student database promises: a sequence of blocks that can be    *)
(* appended to, cleared, overwritten in place and searched by name, and    *)
(* that survives the program.  An operation that reports an error may have *)
(* taken effect or not, and nothing in between.                            *)
(***************************************************************************)
EXTENDS Naturals, Sequences

CONSTANTS Names, Datas  \* what a block holds: a name and the other fields

VARIABLES
  blocks,  \* the blocks in the order in which they were appended
  found    \* the positions and blocks that the last search returned

vars == <<blocks, found>>

Block == [name : Names, data : Datas]

TypeOK ==
  /\ blocks \in Seq(Block)
  /\ \A h \in found : h.at \in Nat \ {0} /\ h.block \in Block

Init == blocks \in Seq(Block) /\ found = {}

AppendBlock(b) == blocks' = Append(blocks, b) /\ UNCHANGED found

Clear == blocks' = <<>> /\ found' = {}

(* Only what a search has returned is replaced.                            *)
ReplaceBlock(h, b) ==
  /\ h \in found
  /\ h.at \in DOMAIN blocks
  /\ blocks' = [blocks EXCEPT ![h.at] = b]
  /\ UNCHANGED found

Find(name) ==
  /\ found' = {[at |-> i, block |-> blocks[i]] :
                  i \in {j \in DOMAIN blocks : blocks[j].name = name}}
  /\ UNCHANGED blocks

(* A failed search, or a restart of the program.                           *)
Forget == found' = {} /\ UNCHANGED blocks

Next ==
  \/ \E b \in Block : AppendBlock(b) \/ \E h \in found : ReplaceBlock(h, b)
  \/ Clear
  \/ \E name \in Names : Find(name)
  \/ Forget

Spec == Init /\ [][Next]_vars
=============================================================================
