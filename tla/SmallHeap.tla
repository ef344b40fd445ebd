----------------------------- MODULE SmallHeap ------------------------------
(***************************************************************************)
(* The small heap of DAL_SH_mem_common.c: the memory a component allocates *)
(* from, an array of W words used by its one thread.  A block at index x   *)
(* is its size n in word x and n payload words after it; the last payload  *)
(* word of a free block is the index of the next free block, W at the end  *)
(* of the list.  available is the first free block.                        *)
(*                                                                         *)
(* One step is one turn of the loop of SH_alloc_at_base or of SH_free, or  *)
(* the code after the loop.  The search ends and the words it reads are    *)
(* list links only if no step and nothing the program stores breaks the    *)
(* list.  free is auxiliary: the blocks the list should hold.              *)
(***************************************************************************)
EXTENDS Integers

CONSTANTS
  W,         (* memAreaSize, in words                                      *)
  Sizes,     (* sizes in bytes the program asks for                        *)
  Contents   (* what the program stores                                    *)

ASSUME HeapAssumption ==
  /\ W \in Nat /\ W >= 2
  /\ Sizes \subseteq Nat \ {0}
  /\ Contents \subseteq Nat

VARIABLES
  mem,          (* memArea                                                 *)
  available,    (* index of the first free block                           *)
  op,           (* "idle", or in the loop of an operation                  *)
  num,          (* words to allocate                                       *)
  cur, prev,    (* the block the loop has reached, and the one before      *)
  first,        (* isFirstFreeBeingAllocated                               *)
  toFree,       (* block being freed                                       *)
  owned,        (* what the program holds: block index, words asked for    *)
  free          (* auxiliary                                               *)

heapVars == <<mem, available, owned, free>>
loopVars == <<num, cur, prev, first, toFree>>
smallHeapVars == <<heapVars, op, loopVars>>

Words == 0..(W - 1)

SizeOfInt == 4

(* Mutant: rounded down. *)
WholeWords(size) == size \div SizeOfInt

(* The bytes asked for in words, rounded up. *)
InWords(size) ==
  (size \div SizeOfInt) + (IF size % SizeOfInt > 0 THEN 1 ELSE 0)

blockSize(x) == mem[x]

refToNextBlock(x) == x + mem[x]

nextBlock(x) == mem[refToNextBlock(x)]

(* Block y is immediately after block x. *)
Adjacent(x, y) == refToNextBlock(x) + 1 = y

-----------------------------------------------------------------------------
(* SH_alloc_at_base *)

(* A size of 0 is refused with NULL before anything is done. *)
Alloc(size) ==
  /\ op = "idle"
  /\ num' = InWords(size)
  /\ prev' = available
  /\ cur' = available
  /\ first' = TRUE
  /\ op' = "test"
  /\ UNCHANGED <<heapVars, toFree>>

(* Mutant: a block of exactly the size asked for is passed over. *)
NotLarger ==
  /\ op = "test"
  /\ available # W
  /\ blockSize(cur) <= num

TooSmall ==
  /\ op = "test"
  /\ available # W
  /\ blockSize(cur) < num

TryNext ==
  /\ TooSmall
  /\ nextBlock(cur) # W
  /\ first' = FALSE
  /\ prev' = cur
  /\ cur' = nextBlock(cur)
  /\ UNCHANGED <<heapVars, op, num, toFree>>

(* The locals are dead when a call returns. *)
Return ==
  /\ op' = "idle"
  /\ num' = 0
  /\ cur' = 0
  /\ prev' = 0
  /\ first' = FALSE
  /\ toFree' = 0

ReturnNull ==
  /\ \/ op = "test" /\ available = W
     \/ TooSmall /\ nextBlock(cur) = W
  /\ Return
  /\ UNCHANGED heapVars

(* Words left over when the block is cut.  One word is no block: it is      *)
(* given away with the others.                                              *)
Rest == blockSize(cur) - num

(* Mutant: a rest of one word becomes a block with no payload. *)
SplitsAtOne == Rest >= 1

Splits == Rest >= 2

(* Mutant: what is left of a block that is cut is not kept. *)
RestForgotten == nextBlock(cur)

(* What takes the place of the block on the list. *)
Successor == IF Splits THEN cur + num + 1 ELSE nextBlock(cur)

(* Mutant: the list still leads to the block that was taken. *)
NotUnlinked == mem

(* The block before it on the list, if any, now leads to the successor. *)
Unlinked ==
  IF first THEN mem ELSE [mem EXCEPT ![refToNextBlock(prev)] = Successor]

(* The sizes are written when there is a rest. *)
Cut ==
  IF Rest = 0 THEN Unlinked
  ELSE IF Splits
       THEN [Unlinked EXCEPT ![cur + num + 1] = Rest - 1, ![cur] = num]
       ELSE [Unlinked EXCEPT ![cur] = num + 1]

Take ==
  /\ op = "test"
  /\ available # W
  /\ blockSize(cur) >= num
  /\ available' = IF first THEN Successor ELSE available
  /\ mem' = Cut
  /\ owned' = owned \cup {[at |-> cur, words |-> num]}
  /\ free' = (free \ {cur}) \cup (IF Splits THEN {cur + num + 1} ELSE {})
  /\ Return

-----------------------------------------------------------------------------
(* SH_free, of an object of this heap *)

(* The block is before the first free block. *)
FreeBefore(o) ==
  /\ op = "idle"
  /\ o.at < available
  /\ owned' = owned \ {o}
  /\ available' = o.at
  /\ \/ /\ Adjacent(o.at, available) /\ available < W
        /\ mem' = [mem EXCEPT ![o.at] = @ + mem[available] + 1]
        /\ free' = (free \ {available}) \cup {o.at}
     \/ /\ ~(Adjacent(o.at, available) /\ available < W)
        /\ mem' = [mem EXCEPT ![refToNextBlock(o.at)] = available]
        /\ free' = free \cup {o.at}
  /\ UNCHANGED <<op, loopVars>>

(* It is not: find the free blocks on its two sides. *)
BeginFree(o) ==
  /\ op = "idle"
  /\ o.at >= available
  /\ owned' = owned \ {o}
  /\ toFree' = o.at
  /\ prev' = available
  /\ cur' = available
  /\ op' = "scan"
  /\ UNCHANGED <<mem, available, free, num, first>>

(* Mutant: the loop does not go on to the next block. *)
ScanStays ==
  /\ op = "scan"
  /\ cur < toFree
  /\ prev' = cur
  /\ UNCHANGED <<cur, heapVars, op, num, first, toFree>>

ScanNext ==
  /\ op = "scan"
  /\ cur < toFree
  /\ prev' = cur
  /\ cur' = nextBlock(cur)
  /\ UNCHANGED <<heapVars, op, num, first, toFree>>

Between == op = "scan" /\ cur >= toFree

(* The free block after it is immediately after it. *)
JoinsNext == Adjacent(toFree, cur) /\ cur < W

JoinBoth ==
  /\ Between
  /\ Adjacent(prev, toFree)
  /\ JoinsNext
  /\ mem' = [mem EXCEPT ![prev] = @ + mem[toFree] + 1 + mem[cur] + 1]
  /\ free' = free \ {cur}
  /\ Return
  /\ UNCHANGED <<available, owned>>

JoinPrevious ==
  /\ Between
  /\ Adjacent(prev, toFree)
  /\ ~JoinsNext
  /\ mem' = [mem EXCEPT ![prev] = @ + mem[toFree] + 1,
                        ![refToNextBlock(toFree)] = cur]
  /\ Return
  /\ UNCHANGED <<available, owned, free>>

(* The block goes on the list between its neighbours. *)
LinkedIn ==
  [mem EXCEPT ![refToNextBlock(prev)] = toFree, ![refToNextBlock(toFree)] = cur]

(* The block before it is not adjacent: the code does not look whether the  *)
(* one after it is.                                                         *)
LinkIn ==
  /\ Between
  /\ ~Adjacent(prev, toFree)
  /\ mem' = LinkedIn
  /\ free' = free \cup {toFree}
  /\ Return
  /\ UNCHANGED <<available, owned>>

-----------------------------------------------------------------------------
(* The words of an object that are the program's. *)
Payload(o) == (o.at + 1)..(o.at + o.words)

(* The program stores something in its memory. *)
Store ==
  /\ op = "idle"
  /\ \E o \in owned : \E i \in Payload(o), v \in Contents :
       mem' = [mem EXCEPT ![i] = v]
  /\ UNCHANGED <<available, owned, free, op, loopVars>>

(* SH_init writes the two words that make the heap one free block.  The     *)
(* memory comes from mmap and is zero.                                      *)
SmallHeapInit ==
  /\ mem = [i \in Words |-> IF i = 0 THEN W - 1 ELSE IF i = W - 1 THEN W ELSE 0]
  /\ available = 0
  /\ op = "idle"
  /\ num = 0 /\ cur = 0 /\ prev = 0 /\ first = FALSE /\ toFree = 0
  /\ owned = {}
  /\ free = {0}

Operation ==
  \/ TryNext \/ ReturnNull \/ Take \/ ScanNext
  \/ JoinBoth \/ JoinPrevious \/ LinkIn

SmallHeapNext ==
  \/ \E size \in Sizes : Alloc(size)
  \/ \E o \in owned : FreeBefore(o) \/ BeginFree(o)
  \/ Operation
  \/ Store

SmallHeapSpec == SmallHeapInit /\ [][SmallHeapNext]_smallHeapVars

(* The thread inside an operation keeps running. *)
SmallHeapFairSpec == SmallHeapSpec /\ WF_smallHeapVars(Operation)

-----------------------------------------------------------------------------
(* Properties *)

Objects == [at : Words, words : Nat \ {0}]

(* Well typed; the words an operation writes are words of the heap.         *)
HeapTypeOK ==
  /\ mem \in [Words -> Nat]
  /\ available \in Words \cup {W}
  /\ op \in {"idle", "test", "scan"}
  /\ num \in Nat
  /\ cur \in Words \cup {W}
  /\ prev \in Words \cup {W}
  /\ first \in BOOLEAN
  /\ toFree \in Words
  /\ owned \subseteq Objects
  /\ free \subseteq Words

(* The blocks of the heap: held by the program, free, or being freed. *)
Held == {o.at : o \in owned}
Blocks == Held \cup free \cup (IF op = "scan" THEN {toFree} ELSE {})

(* The blocks follow one another from the first word to the last, with      *)
(* nothing lost between them and no word in two, each has a payload, and    *)
(* what the program holds is at least as large as it asked for.             *)
Tiled ==
  /\ 0 \in Blocks
  /\ \A x \in Blocks :
       /\ mem[x] >= 1
       /\ refToNextBlock(x) < W
       /\ refToNextBlock(x) + 1 \in Blocks \cup {W}
       /\ \A y \in Blocks : x < y => refToNextBlock(x) < y
  /\ \A o \in owned : mem[o.at] \in {o.words, o.words + 1}
  /\ \A o, p \in owned : o.at = p.at => o = p
  /\ Held \cap free = {}
  /\ op = "scan" => toFree \notin Held \cup free

(* The free list is exactly the free blocks, in the order of their          *)
(* addresses: each leads to the nearest one after it, the last to the end.  *)
FreeListSorted ==
  /\ available \in free \cup {W}
  /\ \A x \in free :
       /\ available <= x
       /\ nextBlock(x) \in free \cup {W}
       /\ x < nextBlock(x)
       /\ \A y \in free : x < y => nextBlock(x) <= y

(* The allocator never writes into memory the program holds, nor moves it:  *)
(* what was stored in an object stays until the program stores again.       *)
OwnedUntouched ==
  [][Store \/ \A o \in owned \cap owned' :
                \A i \in Payload(o) : mem'[i] = mem[i]]_smallHeapVars

(* An allocation fails only if no free block is large enough.               *)
NullOnlyIfNoneFits ==
  [][ReturnNull => \A x \in free : blockSize(x) < num]_smallHeapVars

(* Every operation ends: the loops do not go round in the list.             *)
OperationsEnd == op # "idle" ~> op = "idle"
=============================================================================
