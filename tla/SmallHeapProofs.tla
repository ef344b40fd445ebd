--------------------------- MODULE SmallHeapProofs ---------------------------
(***************************************************************************)
(* Proofs about SmallHeap for a heap of any size, any requests and any     *)
(* contents: the blocks always tile the heap and the free list is exactly  *)
(* the free blocks in address order.                                       *)
(***************************************************************************)
EXTENDS SmallHeap, TLAPS

(* Where the search for a block stands: on the free list, having passed     *)
(* only blocks that are too small.                                          *)
Searching ==
  op = "test" =>
    /\ num >= 1
    /\ available # W => cur \in free
    /\ first => cur = available /\ prev = available
    /\ ~first => prev \in free /\ nextBlock(prev) = cur
    /\ \A x \in free : x < cur => blockSize(x) < num

(* Where the search for the neighbours of the block being freed stands.     *)
Scanning ==
  op = "scan" =>
    /\ available < toFree
    /\ prev \in free
    /\ prev < toFree
    /\ (cur = prev /\ cur = available) \/ nextBlock(prev) = cur

Inv == HeapTypeOK /\ Tiled /\ FreeListSorted /\ Searching /\ Scanning

-----------------------------------------------------------------------------
(* Blocks *)

(* A block and its words are in the heap.                                   *)
LEMMA BlockInHeap ==
  ASSUME HeapTypeOK, Tiled, NEW x \in Blocks
  PROVE  /\ x \in Words /\ x \in Nat
         /\ mem[x] \in Nat /\ mem[x] >= 1
         /\ refToNextBlock(x) \in Words
         /\ refToNextBlock(x) = x + mem[x]
         /\ nextBlock(x) \in Nat
         /\ nextBlock(x) = mem[x + mem[x]]
<1>1. x \in Words
  BY DEF HeapTypeOK, Blocks, Held, Objects
<1>2. mem[x] \in Nat /\ mem[x] >= 1 /\ refToNextBlock(x) < W
  BY <1>1 DEF HeapTypeOK, Tiled
<1>3. refToNextBlock(x) \in Words
  BY <1>1, <1>2, HeapAssumption DEF refToNextBlock, Words
<1>. QED  BY <1>1, <1>2, <1>3 DEF refToNextBlock, nextBlock, Words, HeapTypeOK

(* So are a free block and the place its link leads to.                     *)
LEMMA FreeInHeap ==
  ASSUME HeapTypeOK, Tiled, FreeListSorted, NEW x \in free
  PROVE  /\ x \in Blocks /\ x \in Words /\ x \in Nat /\ x < W
         /\ nextBlock(x) \in Nat /\ nextBlock(x) <= W
         /\ available \in Nat /\ available <= W
<1>1. x \in Blocks
  BY DEF Blocks
<1>2. x \in Words /\ nextBlock(x) \in Words \cup {W} /\ available \in Words \cup {W}
  BY <1>1, BlockInHeap DEF FreeListSorted, HeapTypeOK
<1>. QED  BY <1>1, <1>2, HeapAssumption DEF Words

(* Two blocks have no word in common.                                       *)
LEMMA Apart ==
  ASSUME HeapTypeOK, Tiled, NEW x \in Blocks, NEW y \in Blocks, x # y,
         NEW i \in Nat, x <= i, i <= x + mem[x], y <= i, i <= y + mem[y]
  PROVE  FALSE
<1>1. x \in Nat /\ y \in Nat /\ mem[x] \in Nat /\ mem[y] \in Nat
  BY BlockInHeap
<1>2. x < y => x + mem[x] < y
  BY DEF Tiled, refToNextBlock
<1>3. y < x => y + mem[y] < x
  BY DEF Tiled, refToNextBlock
<1>. QED  BY <1>1, <1>2, <1>3

(* Writing any payload word of a block that is not free leaves all blocks   *)
(* and links as they are.                                                   *)
LEMMA OtherWords ==
  ASSUME HeapTypeOK, Tiled, NEW b \in Blocks, NEW i \in Nat, b < i, i <= b + mem[b],
         NEW x \in Blocks
  PROVE  /\ x # i
         /\ x # b => x + mem[x] # i
<1>1. x \in Nat /\ b \in Nat /\ mem[x] \in Nat /\ mem[b] \in Nat /\ mem[x] >= 1
  BY BlockInHeap
<1>. QED  BY <1>1, Apart

-----------------------------------------------------------------------------
(* Steps that write no memory *)

(* While nothing is written and the same blocks are held and free, blocks   *)
(* and list stay as they are.                                               *)
LEMMA Unwritten ==
  ASSUME Inv, UNCHANGED heapVars, op # "scan" \/ UNCHANGED <<op, toFree>>,
         op' = "scan" => op = "scan"
  PROVE  Tiled' /\ FreeListSorted'
<1>1. Blocks' = Blocks
  BY DEF heapVars, Blocks, Held
<1>2. Tiled'
  BY <1>1 DEF heapVars, Inv, Tiled, Held, refToNextBlock
<1>3. FreeListSorted'
  BY DEF heapVars, Inv, FreeListSorted, refToNextBlock, nextBlock
<1>. QED  BY <1>2, <1>3

(* A request is for at least a word.                                        *)
LEMMA WordsAsked ==
  ASSUME NEW size \in Sizes
  PROVE  InWords(size) \in Nat /\ InWords(size) >= 1
BY HeapAssumption DEF InWords, SizeOfInt

(* The first turn of a search knows nothing but where it starts.            *)
LEMMA AllocStep ==
  ASSUME Inv, NEW size \in Sizes, Alloc(size)
  PROVE  Inv'
<1>1. Tiled' /\ FreeListSorted'
  BY Unwritten DEF Alloc
<1>2. HeapTypeOK'
  BY WordsAsked DEF Alloc, heapVars, Inv, HeapTypeOK
<1>3. Searching'
  <2>1. available \in free \cup {W} /\ \A x \in free : available <= x /\ x \in Nat
    BY DEF Inv, FreeListSorted, HeapTypeOK, Words
  <2>2. available \in Nat /\ W \in Nat
    BY HeapAssumption DEF Inv, HeapTypeOK, Words
  <2>. QED  BY <2>1, <2>2, WordsAsked DEF Alloc, heapVars, Searching
<1>4. Scanning'
  BY DEF Alloc, Scanning
<1>. QED  BY <1>1, <1>2, <1>3, <1>4 DEF Inv

(* Going on to the next free block adds the one passed to the small ones.   *)
LEMMA TryNextStep ==
  ASSUME Inv, TryNext
  PROVE  Inv'
<1>1. Tiled' /\ FreeListSorted'
  BY Unwritten DEF TryNext, TooSmall
<1>2. cur \in free /\ nextBlock(cur) \in free
  BY DEF TryNext, TooSmall, Inv, Searching, FreeListSorted
<1>3. HeapTypeOK'
  BY <1>2 DEF TryNext, TooSmall, heapVars, Inv, HeapTypeOK
<1>4. Searching'
  <2>1. \A x \in free : x < nextBlock(cur) => blockSize(x) < num
    <3>. SUFFICES ASSUME NEW x \in free, x < nextBlock(cur)
                  PROVE  blockSize(x) < num
      OBVIOUS
    <3>1. ~(cur < x)
      <4>1. cur < x => nextBlock(cur) <= x
        BY <1>2 DEF Inv, FreeListSorted
      <4>2. x \in Nat /\ nextBlock(cur) \in Nat
        BY <1>2, FreeInHeap DEF Inv
      <4>. QED  BY <4>1, <4>2
    <3>2. x < cur \/ x = cur
      BY <1>2, <3>1 DEF Inv, HeapTypeOK, Words
    <3>. QED  BY <3>2 DEF TryNext, TooSmall, Inv, Searching
  <2>. QED  BY <1>2, <2>1 DEF TryNext, TooSmall, heapVars, Inv, Searching,
                              nextBlock, refToNextBlock, blockSize
<1>5. Scanning'
  BY DEF TryNext, TooSmall, Scanning
<1>. QED  BY <1>1, <1>3, <1>4, <1>5 DEF Inv

(* A failed allocation leaves the heap as it was.                           *)
LEMMA ReturnNullStep ==
  ASSUME Inv, ReturnNull
  PROVE  Inv'
<1>1. Tiled' /\ FreeListSorted'
  BY Unwritten DEF ReturnNull, TooSmall, Return
<1>2. HeapTypeOK'
  <2>1. 0 \in Words
    BY HeapAssumption DEF Words
  <2>. QED  BY <2>1 DEF ReturnNull, Return, heapVars, Inv, HeapTypeOK
<1>3. Searching' /\ Scanning'
  BY DEF ReturnNull, Return, Searching, Scanning
<1>. QED  BY <1>1, <1>2, <1>3 DEF Inv

(* The search for the neighbours stays on the free list, before the block.  *)
LEMMA ScanNextStep ==
  ASSUME Inv, ScanNext
  PROVE  Inv'
<1>1. Tiled' /\ FreeListSorted'
  BY Unwritten DEF ScanNext
<1>2. cur \in free
  <2>1. cur \in free \cup {W}
    BY DEF ScanNext, Inv, Scanning, FreeListSorted
  <2>2. cur # W
    BY HeapAssumption DEF ScanNext, Inv, HeapTypeOK, Words
  <2>. QED  BY <2>1, <2>2
<1>3. nextBlock(cur) \in free \cup {W}
  BY <1>2 DEF Inv, FreeListSorted
<1>4. HeapTypeOK'
  BY <1>2, <1>3 DEF ScanNext, heapVars, Inv, HeapTypeOK
<1>5. Searching'
  BY DEF ScanNext, Searching
<1>6. Scanning'
  BY <1>2 DEF ScanNext, heapVars, Inv, Scanning, nextBlock, refToNextBlock
<1>. QED  BY <1>1, <1>4, <1>5, <1>6 DEF Inv

(* The block being freed is still a block, and after a free one.            *)
LEMMA BeginFreeStep ==
  ASSUME Inv, NEW o \in owned, BeginFree(o)
  PROVE  Inv'
<1>1. /\ o.at \in Held /\ o.at \in Words
      /\ Held' = Held \ {o.at}
  BY DEF BeginFree, Inv, Tiled, Held, HeapTypeOK, Objects
<1>2. Blocks' = Blocks
  BY <1>1 DEF BeginFree, Blocks
<1>3. Tiled'
  BY <1>1, <1>2 DEF BeginFree, Inv, Tiled, refToNextBlock
<1>4. FreeListSorted'
  BY DEF BeginFree, Inv, FreeListSorted, refToNextBlock, nextBlock
<1>5. HeapTypeOK'
  BY <1>1 DEF BeginFree, Inv, HeapTypeOK
<1>6. Searching'
  BY DEF BeginFree, Searching
<1>7. Scanning'
  <2>1. available # o.at
    BY <1>1, HeapAssumption DEF Inv, Tiled, FreeListSorted, Words
  <2>2. available \in Nat /\ o.at \in Nat /\ o.at < W
    BY <1>1, HeapAssumption DEF Inv, HeapTypeOK, Words
  <2>3. available < o.at /\ available \in free
    BY <2>1, <2>2, HeapAssumption DEF BeginFree, Inv, FreeListSorted
  <2>. QED  BY <2>3 DEF BeginFree, Scanning
<1>. QED  BY <1>3, <1>4, <1>5, <1>6, <1>7 DEF Inv

-----------------------------------------------------------------------------
(* The program stores *)

(* The program writes into its own blocks only: no size and no link changes. *)
LEMMA StoreStep ==
  ASSUME Inv, Store
  PROVE  Inv'
<1>0. PICK o \in owned : \E i \in Payload(o), v \in Contents :
        mem' = [mem EXCEPT ![i] = v]
  BY DEF Store
<1>1. PICK i \in Payload(o), v \in Contents : mem' = [mem EXCEPT ![i] = v]
  BY <1>0
<1>2. /\ o.at \in Blocks /\ o.at \in Nat /\ mem[o.at] \in Nat
      /\ o.at \notin free
      /\ i \in Nat /\ o.at < i /\ i <= o.at + mem[o.at]
      /\ i \in Words
  <2>1. /\ o.at \in Held /\ o.words \in Nat /\ mem[o.at] \in {o.words, o.words + 1}
    BY DEF Inv, HeapTypeOK, Tiled, Held, Objects
  <2>2. o.at \in Blocks /\ o.at \notin free
    BY <2>1 DEF Blocks, Inv, Tiled
  <2>3. o.at \in Nat /\ mem[o.at] \in Nat /\ o.at + mem[o.at] \in Words
    BY <2>2, BlockInHeap DEF Inv
  <2>. QED  BY <2>1, <2>2, <2>3, HeapAssumption DEF Payload, Words
<1>3. Blocks' = Blocks /\ Held' = Held
  BY DEF Store, Blocks, Held, loopVars
<1>4. \A x \in Blocks : mem'[x] = mem[x]
  BY <1>1, <1>2, OtherWords, BlockInHeap DEF Inv, HeapTypeOK
<1>5. \A x \in free : mem'[x + mem[x]] = mem[x + mem[x]]
  <2>. SUFFICES ASSUME NEW x \in free
                PROVE  mem'[x + mem[x]] = mem[x + mem[x]]
    OBVIOUS
  <2>1. x \in Blocks /\ x # o.at /\ x + mem[x] \in Words
    BY <1>2, FreeInHeap, BlockInHeap DEF Inv
  <2>2. x + mem[x] # i
    BY <1>2, <2>1, OtherWords DEF Inv
  <2>. QED  BY <1>1, <2>1, <2>2 DEF Inv, HeapTypeOK
<1>6. Tiled'
  <2>1. \A x \in Blocks : refToNextBlock(x)' = refToNextBlock(x)
    BY <1>4 DEF refToNextBlock
  <2>2. \A p \in owned : mem'[p.at] = mem[p.at]
    BY <1>4 DEF Blocks, Held
  <2>. QED  BY <1>3, <1>4, <2>1, <2>2 DEF Store, loopVars, Inv, Tiled
<1>7. FreeListSorted'
  <2>1. \A x \in free : nextBlock(x)' = nextBlock(x)
    BY <1>4, <1>5, FreeInHeap DEF Inv, nextBlock, refToNextBlock
  <2>. QED  BY <2>1 DEF Store, Inv, FreeListSorted
<1>8. HeapTypeOK'
  <2>1. v \in Nat
    BY <1>1, HeapAssumption
  <2>. QED  BY <1>1, <2>1 DEF Store, loopVars, Inv, HeapTypeOK
<1>9. Searching' /\ Scanning'
  BY DEF Store, Searching, Scanning
<1>. QED  BY <1>6, <1>7, <1>8, <1>9 DEF Inv

-----------------------------------------------------------------------------
(* A block is taken *)

(* What the search knows of the block it found.                             *)
LEMMA Found ==
  ASSUME Inv, Take
  PROVE  /\ cur \in free /\ cur \in Blocks /\ cur \notin Held /\ cur \in Words
         /\ cur \in Nat /\ num \in Nat /\ num >= 1
         /\ mem[cur] \in Nat /\ mem[cur] >= num /\ cur + mem[cur] \in Words
         /\ Rest = mem[cur] - num
         /\ first => available = cur
         /\ ~first => /\ prev \in free /\ prev # cur /\ prev \in Blocks
                      /\ prev < cur
                      /\ prev \in Nat /\ mem[prev] \in Nat /\ mem[prev] >= 1
                      /\ nextBlock(prev) = cur
                      /\ prev + mem[prev] \in Words
                      /\ prev + mem[prev] < cur
         /\ Blocks = Held \cup free
<1>1. /\ cur \in free /\ num \in Nat /\ num >= 1
      /\ first => available = cur
      /\ ~first => prev \in free /\ nextBlock(prev) = cur
  BY DEF Take, Inv, Searching, HeapTypeOK
<1>2. /\ cur \in Blocks /\ cur \in Nat /\ mem[cur] \in Nat
      /\ cur \in Words /\ cur + mem[cur] \in Words
  BY <1>1, FreeInHeap, BlockInHeap DEF Inv
<1>3. cur \notin Held /\ Blocks = Held \cup free
  BY <1>1 DEF Take, Inv, Tiled, Blocks
<1>4. mem[cur] >= num /\ Rest = mem[cur] - num
  BY DEF Take, blockSize, Rest
<1>5. CASE ~first
  <2>1. prev \in free /\ nextBlock(prev) = cur /\ prev < cur
    BY <1>1, <1>5 DEF Inv, FreeListSorted
  <2>2. prev \in Blocks /\ prev \in Nat /\ mem[prev] \in Nat /\ mem[prev] >= 1
        /\ prev + mem[prev] \in Words
    BY <2>1, FreeInHeap, BlockInHeap DEF Inv
  <2>3. prev + mem[prev] < cur
    BY <1>2, <2>1, <2>2 DEF Inv, Tiled, refToNextBlock
  <2>. QED  BY <1>1, <1>2, <1>3, <1>4, <1>5, <2>1, <2>2, <2>3
<1>. QED  BY <1>1, <1>2, <1>3, <1>4, <1>5

(* What taking the block does to the memory.                                *)
LEMMA CutMemory ==
  ASSUME Inv, Take
  PROVE  LET y == cur + num + 1 IN
         /\ Splits => /\ y \in Words /\ y \in Nat /\ cur < y
                      /\ y + (Rest - 1) = cur + mem[cur]
                      /\ Rest - 1 \in Nat /\ Rest - 1 >= 1
                      /\ mem'[y] = Rest - 1 /\ mem'[cur] = num
         /\ ~Splits => /\ mem'[cur] = mem[cur]
                       /\ mem[cur] \in {num, num + 1}
         /\ mem' \in [Words -> Int]
         /\ ~first => mem'[prev + mem[prev]] = Successor
         /\ \A i \in Words :
              \/ mem'[i] = mem[i]
              \/ i = cur
              \/ Splits /\ i = y
              \/ ~first /\ i = prev + mem[prev]
<1>. DEFINE y == cur + num + 1
<1>1. /\ mem \in [Words -> Nat] /\ cur \in Words /\ num \in Nat /\ num >= 1
      /\ cur \in Nat /\ mem[cur] \in Nat /\ mem[cur] >= num
      /\ cur + mem[cur] \in Words /\ Rest = mem[cur] - num
      /\ ~first => prev + mem[prev] \in Words /\ prev + mem[prev] < cur
      /\ ~first => prev + mem[prev] \in Nat
      /\ ~first => prev \in Nat /\ mem[prev] \in Nat
      /\ nextBlock(cur) \in Nat
  BY Found, FreeInHeap DEF Inv, HeapTypeOK
<1>2. Rest \in Nat /\ (Splits <=> Rest >= 2)
  BY <1>1 DEF Splits
<1>3. Splits => /\ y \in Words /\ y \in Nat /\ cur < y
                /\ y + (Rest - 1) = cur + mem[cur]
                /\ Rest - 1 \in Nat /\ Rest - 1 >= 1
  <2>. DEFINE m == mem[cur]
  <2>1. m \in Nat /\ m >= num /\ Rest = m - num /\ cur + m < W /\ cur \in Nat
        /\ num \in Nat /\ num >= 1
    BY <1>1, HeapAssumption DEF Words
  <2>. HIDE DEF m
  <2>2. Splits => y \in Nat /\ cur < y /\ y + (Rest - 1) = cur + m /\ y < W
                  /\ Rest - 1 \in Nat /\ Rest - 1 >= 1
    BY <1>2, <2>1, HeapAssumption
  <2>3. Splits => y \in Words
    BY <2>2, HeapAssumption DEF Words
  <2>. QED  BY <2>2, <2>3 DEF m
<1>4. Successor \in Nat
  BY <1>1, <1>3 DEF Successor
<1>5. CASE first
  <2>1. Unlinked = mem
    BY <1>5 DEF Unlinked
  <2>2. mem' = Cut
    BY DEF Take
  <2>3. CASE Splits
    <3>1. mem' = [mem EXCEPT ![y] = Rest - 1, ![cur] = num]
      BY <1>2, <2>1, <2>2, <2>3 DEF Cut
    <3>. QED  BY <1>1, <1>2, <1>3, <1>5, <2>3, <3>1
  <2>4. CASE ~Splits
    <3>1. mem' = mem \/ (mem[cur] = num + 1 /\ mem' = [mem EXCEPT ![cur] = num + 1])
      BY <1>1, <1>2, <2>1, <2>2, <2>4 DEF Cut
    <3>2. mem[cur] \in {num, num + 1}
      BY <1>1, <1>2, <2>4
    <3>. QED  BY <1>1, <1>2, <1>3, <1>5, <2>4, <3>1, <3>2
  <2>. QED  BY <2>3, <2>4
<1>6. CASE ~first
  <2>. DEFINE l == prev + mem[prev]
  <2>1. Unlinked = [mem EXCEPT ![l] = Successor]
    BY <1>6 DEF Unlinked, refToNextBlock
  <2>2. mem' = Cut
    BY DEF Take
  <2>3. l \in Words /\ l \in Nat /\ l < cur
    BY <1>1, <1>6
  <2>4. CASE Splits
    <3>1. mem' = [[mem EXCEPT ![l] = Successor] EXCEPT ![y] = Rest - 1, ![cur] = num]
      BY <1>2, <2>1, <2>2, <2>4 DEF Cut
    <3>. QED  BY <1>1, <1>2, <1>3, <1>4, <1>6, <2>3, <2>4, <3>1
  <2>5. CASE ~Splits
    <3>1. \/ mem[cur] = num /\ mem' = [mem EXCEPT ![l] = Successor]
          \/ mem[cur] = num + 1
               /\ mem' = [[mem EXCEPT ![l] = Successor] EXCEPT ![cur] = num + 1]
      BY <1>1, <1>2, <2>1, <2>2, <2>5 DEF Cut
    <3>. QED  BY <1>1, <1>2, <1>3, <1>4, <1>6, <2>3, <2>5, <3>1
  <2>. QED  BY <2>4, <2>5
<1>. QED  BY <1>5, <1>6

(* Taking a block, cutting it or not, keeps the invariant.                  *)
LEMMA TakeStep ==
  ASSUME Inv, Take
  PROVE  Inv'
<1>. DEFINE y == cur + num + 1
            new == IF Splits THEN {y} ELSE {}
<1>1. /\ cur \in free /\ cur \in Blocks /\ cur \notin Held /\ cur \in Words
      /\ cur \in Nat /\ num \in Nat /\ num >= 1
      /\ mem[cur] \in Nat /\ mem[cur] >= num /\ cur + mem[cur] \in Words
      /\ first => available = cur
      /\ Blocks = Held \cup free
  BY Found
<1>2. ~first => /\ prev \in free /\ prev # cur /\ prev \in Blocks
                /\ prev < cur
                /\ prev \in Nat /\ mem[prev] \in Nat /\ mem[prev] >= 1
                /\ nextBlock(prev) = cur
                /\ prev + mem[prev] \in Words
                /\ prev + mem[prev] < cur
  BY Found
<1>3. /\ Splits => /\ y \in Words /\ y \in Nat /\ cur < y
                   /\ y + (Rest - 1) = cur + mem[cur]
                   /\ Rest - 1 \in Nat /\ Rest - 1 >= 1
                   /\ mem'[y] = Rest - 1 /\ mem'[cur] = num
                   /\ y <= cur + mem[cur]
      /\ ~Splits => /\ mem'[cur] = mem[cur]
                    /\ mem[cur] \in {num, num + 1}
      /\ mem' \in [Words -> Int]
      /\ ~first => mem'[prev + mem[prev]] = Successor
      /\ \A i \in Words :
           \/ mem'[i] = mem[i]
           \/ i = cur
           \/ Splits /\ i = y
           \/ ~first /\ i = prev + mem[prev]
  BY CutMemory, <1>1
<1>4. /\ owned' = owned \cup {[at |-> cur, words |-> num]}
      /\ free' = (free \ {cur}) \cup new
      /\ op' = "idle"
      /\ available' = IF first THEN Successor ELSE available
  BY DEF Take, Return
<1>5. Held' = Held \cup {cur} /\ Blocks' = Blocks \cup new
  <2>1. Held' = Held \cup {cur}
    <3>. DEFINE o == [at |-> cur, words |-> num]
    <3>1. o.at = cur
      OBVIOUS
    <3>. HIDE DEF o
    <3>2. owned' = owned \cup {o}
      BY <1>4 DEF o
    <3>. QED  BY <3>1, <3>2 DEF Held
  <2>. QED  BY <1>1, <1>4, <2>1 DEF Blocks
<1>6. \A x \in Blocks : /\ x \in Words /\ x \in Nat /\ mem[x] \in Nat
                        /\ mem[x] >= 1 /\ x + mem[x] \in Words
                        /\ x + mem[x] \in Nat
  BY BlockInHeap DEF Inv, Words
<1>7. Splits => \A x \in Blocks : x # y /\ (x # cur => x + mem[x] # y)
  BY <1>1, <1>3, OtherWords DEF Inv
<1>8. \A x \in Blocks \ {cur} : mem'[x] = mem[x]
  <2>. SUFFICES ASSUME NEW x \in Blocks, x # cur
                PROVE  mem'[x] = mem[x]
    OBVIOUS
  <2>1. ~first => x # prev + mem[prev]
    BY <1>2, OtherWords DEF Inv
  <2>. QED  BY <1>3, <1>6, <1>7, <2>1
<1>9. \A x \in free \ {cur} : first \/ x # prev => mem'[x + mem[x]] = mem[x + mem[x]]
  <2>. SUFFICES ASSUME NEW x \in free, x # cur, first \/ x # prev
                PROVE  mem'[x + mem[x]] = mem[x + mem[x]]
    OBVIOUS
  <2>1. x \in Blocks
    BY FreeInHeap DEF Inv
  <2>2. ~first => x + mem[x] # prev + mem[prev]
    BY <1>2, <1>6, <2>1, OtherWords DEF Inv
  <2>3. x + mem[x] # cur
    BY <1>1, <1>6, <2>1, Apart DEF Inv
  <2>4. Splits => x + mem[x] # y
    BY <1>7, <2>1
  <2>. QED  BY <1>3, <1>6, <2>1, <2>2, <2>3, <2>4
<1>10. Splits => mem'[cur + mem[cur]] = mem[cur + mem[cur]]
  <2>. SUFFICES ASSUME Splits
                PROVE  mem'[cur + mem[cur]] = mem[cur + mem[cur]]
    OBVIOUS
  <2>1. ~first => cur + mem[cur] # prev + mem[prev]
    BY <1>1, <1>2, <1>6
  <2>2. cur + mem[cur] # y /\ cur + mem[cur] # cur
    BY <1>1, <1>3, <1>6
  <2>. QED  BY <1>1, <1>3, <2>1, <2>2
<1>. HIDE DEF y, new
<1>11. Tiled'
  <2>1. 0 \in Blocks'
    BY <1>5 DEF Inv, Tiled
  <2>2. Splits => y \in Blocks' /\ mem'[y] = Rest - 1 /\ mem'[cur] = num
    BY <1>3, <1>5 DEF new
  <2>3. \A x \in Blocks' : x \in Blocks \/ (Splits /\ x = y)
    BY <1>5 DEF new
  <2>4. \A x \in Blocks : x + mem[x] + 1 \in Blocks \cup {W} /\ x + mem[x] < W
    BY DEF Inv, Tiled, refToNextBlock
  <2>5. \A x, z \in Blocks : x < z => x + mem[x] < z
    BY DEF Inv, Tiled, refToNextBlock
  <2>6. \A x \in Blocks' : mem'[x] >= 1 /\ x + mem'[x] < W
    <3>. SUFFICES ASSUME NEW x \in Blocks'
                  PROVE  mem'[x] >= 1 /\ x + mem'[x] < W
      OBVIOUS
    <3>1. CASE x \in Blocks /\ x # cur
      BY <1>6, <1>8, <2>4, <3>1
    <3>2. CASE x = cur
      BY <1>1, <1>3, <2>2, <2>4, <3>2, HeapAssumption
    <3>3. CASE Splits /\ x = y
      BY <1>1, <1>3, <2>4, <3>3
    <3>. QED  BY <2>3, <3>1, <3>2, <3>3
  <2>7. \A x \in Blocks' : x + mem'[x] + 1 \in Blocks' \cup {W}
    <3>. SUFFICES ASSUME NEW x \in Blocks'
                  PROVE  x + mem'[x] + 1 \in Blocks' \cup {W}
      OBVIOUS
    <3>1. CASE x \in Blocks /\ x # cur
      BY <1>5, <1>8, <2>4, <3>1
    <3>2. CASE x = cur /\ ~Splits
      BY <1>3, <1>5, <1>1, <2>4, <3>2
    <3>3. CASE x = cur /\ Splits
      BY <1>1, <2>2, <3>3 DEF y
    <3>4. CASE Splits /\ x = y
      <4>1. y + mem'[y] + 1 = cur + mem[cur] + 1
        BY <1>3, <3>4, <1>1
      <4>. QED  BY <1>5, <1>1, <2>4, <3>4, <4>1
    <3>. QED  BY <2>3, <3>1, <3>2, <3>3, <3>4
  <2>8. \A x, z \in Blocks' : x < z => x + mem'[x] < z
    <3>. SUFFICES ASSUME NEW x \in Blocks', NEW z \in Blocks', x < z
                  PROVE  x + mem'[x] < z
      OBVIOUS
    <3>1. CASE x \in Blocks /\ x # cur /\ z \in Blocks
      BY <1>8, <2>5, <3>1
    <3>2. CASE x = cur /\ z \in Blocks
      <4>1. mem'[cur] <= mem[cur]
        BY <1>1, <1>3
      <4>2. cur + mem[cur] < z
        BY <1>1, <2>5, <3>2
      <4>3. mem'[cur] \in Int /\ z \in Nat
        BY <1>1, <1>3, <1>6, <3>2
      <4>. QED  BY <1>1, <3>2, <4>1, <4>2, <4>3
    <3>3. CASE Splits /\ x = y /\ z \in Blocks
      <4>1. cur < z
        BY <1>1, <1>3, <1>6, <3>3
      <4>2. cur + mem[cur] < z
        BY <1>1, <2>5, <3>3, <4>1
      <4>. QED  BY <1>3, <3>3, <4>2
    <3>4. CASE Splits /\ z = y /\ x \in Blocks /\ x # cur
      <4>1. x < cur
        <5>1. cur < x => y < x
          BY <1>1, <1>3, <1>6, <2>5, <3>4
        <5>. QED  BY <1>1, <1>3, <1>6, <3>4, <5>1
      <4>2. x + mem[x] < cur
        BY <1>1, <2>5, <3>4, <4>1
      <4>. QED  BY <1>1, <1>3, <1>6, <1>8, <3>4, <4>2
    <3>5. CASE Splits /\ z = y /\ x = cur
      BY <1>1, <2>2, <3>5 DEF y
    <3>6. CASE Splits /\ z = y /\ x = y
      BY <1>3, <3>6
    <3>. QED  BY <2>3, <3>1, <3>2, <3>3, <3>4, <3>5, <3>6
  <2>9. \A o \in owned' : mem'[o.at] \in {o.words, o.words + 1}
    <3>1. \A o \in owned : o.at \in Blocks /\ o.at # cur
      BY <1>1 DEF Blocks, Held
    <3>2. mem'[cur] \in {num, num + 1}
      BY <1>3
    <3>3. \A o \in owned : mem[o.at] \in {o.words, o.words + 1}
      BY DEF Inv, Tiled
    <3>. QED  BY <1>4, <1>8, <3>1, <3>2, <3>3
  <2>10. \A o, p \in owned' : o.at = p.at => o = p
    <3>1. \A o \in owned : o.at # cur
      BY <1>1 DEF Held
    <3>. QED  BY <1>4, <3>1 DEF Inv, Tiled
  <2>11. Held' \cap free' = {}
    <3>1. Splits => y \notin Held /\ y # cur
      BY <1>1, <1>3, <1>7
    <3>. QED  BY ZenonT(30), <1>1, <1>4, <1>5, <3>1 DEF new, Inv, Tiled
  <2>. QED  BY <1>4, <2>1, <2>6, <2>7, <2>8, <2>9, <2>10, <2>11
            DEF Tiled, refToNextBlock
<1>12. FreeListSorted'
  <2>1. \A x \in free : /\ x \in Blocks /\ x \in Nat /\ available <= x
                        /\ nextBlock(x) \in free \cup {W}
                        /\ nextBlock(x) \in Nat /\ nextBlock(x) <= W
                        /\ x < nextBlock(x)
                        /\ nextBlock(x) = mem[x + mem[x]]
    BY FreeInHeap DEF Inv, FreeListSorted, nextBlock, refToNextBlock
  <2>2. \A x, z \in free : x < z => nextBlock(x) <= z
    BY DEF Inv, FreeListSorted
  <2>3. \A x \in free \ {cur} : first \/ x # prev => nextBlock(x)' = nextBlock(x)
    BY <1>8, <1>9, <2>1 DEF nextBlock, refToNextBlock
  <2>4. \A x : ~first /\ x = prev => nextBlock(x)' = Successor
    BY <1>2, <1>3, <1>8 DEF nextBlock, refToNextBlock
  <2>5. \A x : Splits /\ x = y => nextBlock(x)' = nextBlock(cur)
    BY <1>1, <1>3, <1>10, <2>1 DEF nextBlock, refToNextBlock
  <2>6. \A x \in free \ {cur} : first \/ x # prev => nextBlock(x) # cur
    <3>. SUFFICES ASSUME NEW x \in free \ {cur}, first \/ x # prev,
                         nextBlock(x) = cur
                  PROVE  FALSE
      OBVIOUS
    <3>1. ~first
      BY <1>1, <2>1
    <3>2. ~(x < prev)
      BY <1>2, <2>1, <2>2, <3>1
    <3>3. ~(prev < x)
      BY <1>1, <1>2, <2>1, <2>2, <3>1
    <3>. QED  BY <1>2, <2>1, <3>1, <3>2, <3>3
  <2>7. /\ Splits => Successor = y /\ y < nextBlock(cur) /\ cur < y
        /\ ~Splits => Successor = nextBlock(cur)
        /\ cur < Successor /\ Successor <= nextBlock(cur)
        /\ Successor \in Nat
        /\ Successor \in free' \cup {W}
    <3>1. CASE Splits
      <4>1. Successor = y
        BY <3>1 DEF Successor, y
      <4>2. y < nextBlock(cur)
        <5>1. nextBlock(cur) \in Blocks \cup {W}
          BY <1>1, <2>1
        <5>2. nextBlock(cur) \in Blocks => cur + mem[cur] < nextBlock(cur)
          BY <1>1, <2>1 DEF Inv, Tiled, refToNextBlock
        <5>. QED  BY SMTT(30), <1>1, <1>3, <2>1, <3>1, <5>1, <5>2, HeapAssumption DEF Words
      <4>. QED  BY <1>1, <1>3, <1>4, <2>1, <3>1, <4>1, <4>2 DEF new
    <3>2. CASE ~Splits
      <4>1. Successor = nextBlock(cur)
        BY <3>2 DEF Successor
      <4>. QED  BY <1>1, <1>4, <2>1, <3>2, <4>1
    <3>. QED  BY <3>1, <3>2
  <2>8. \A z \in free \ {cur} : cur < z => Successor <= z
    BY <1>1, <2>1, <2>2, <2>7
  <2>9. \A x \in free' : x \in Nat /\ (x \in free \ {cur} \/ (Splits /\ x = y))
    BY <1>3, <1>4, <2>1 DEF new
  <2>10. available' \in free' \cup {W} /\ \A x \in free' : available' <= x
    <3>1. CASE first
      <4>1. \A x \in free \ {cur} : cur < x
        BY <1>1, <2>1, <3>1
      <4>2. \A x \in free' : Successor <= x
        BY <2>7, <2>8, <2>9, <4>1
      <4>. QED  BY <1>4, <2>7, <3>1, <4>2
    <3>2. CASE ~first
      <4>1. available \in free \ {cur}
        BY <1>1, <1>2, <2>1, <3>2, FreeInHeap DEF Inv, FreeListSorted
      <4>2. Splits => available <= y
        BY <1>1, <1>3, <2>1, <4>1
      <4>. QED  BY <1>4, <2>1, <2>9, <3>2, <4>1, <4>2
    <3>. QED  BY <3>1, <3>2
  <2>11. ASSUME NEW x \in free'
         PROVE  /\ nextBlock(x)' \in free' \cup {W}
                /\ x < nextBlock(x)'
                /\ \A z \in free' : x < z => nextBlock(x)' <= z
    <3>1. CASE Splits /\ x = y
      <4>1. nextBlock(cur) \in free' \cup {W}
        BY <1>1, <1>4, <2>1
      <4>2. \A z \in free' : y < z => nextBlock(cur) <= z
        BY <1>1, <1>3, <2>1, <2>2, <2>9, <3>1
      <4>. QED  BY <2>5, <2>7, <3>1, <4>1, <4>2
    <3>2. CASE x \in free \ {cur} /\ ~first /\ x = prev
      <4>1. \A z \in free' : prev < z => Successor <= z
        <5>1. \A z \in free \ {cur} : prev < z => cur < z
          BY <1>1, <1>2, <2>1, <2>2, <3>2
        <5>. QED  BY <2>7, <2>8, <2>9, <5>1
      <4>2. prev < Successor
        BY <1>1, <1>2, <2>7, <3>2
      <4>. QED  BY <2>4, <2>7, <3>2, <4>1, <4>2
    <3>3. CASE x \in free \ {cur} /\ (first \/ x # prev)
      <4>1. nextBlock(x)' = nextBlock(x) /\ nextBlock(x) # cur
        BY <2>3, <2>6, <3>3
      <4>2. nextBlock(x) \in free' \cup {W}
        BY <1>4, <2>1, <3>3, <4>1
      <4>3. Splits /\ x < y => nextBlock(x) <= y
        <5>1. Splits /\ x < y => ~(cur < x)
          <6>1. cur < x => cur + mem[cur] < x
            BY <1>1, <2>1, <3>3 DEF Inv, Tiled, refToNextBlock
          <6>. QED  BY <1>1, <1>3, <1>6, <2>1, <3>3, <6>1
        <5>2. x < cur => nextBlock(x) <= cur
          BY <1>1, <2>2, <3>3
        <5>. QED  BY <1>1, <1>3, <2>1, <3>3, <5>1, <5>2
      <4>4. \A z \in free' : x < z => nextBlock(x) <= z
        BY <2>2, <2>9, <3>3, <4>3
      <4>. QED  BY <2>1, <3>3, <4>1, <4>2, <4>4
    <3>. QED  BY <2>9, <3>1, <3>2, <3>3
  <2>. QED  BY <2>10, <2>11 DEF FreeListSorted
<1>13. HeapTypeOK'
  <2>1. free' \subseteq Words
    BY <1>3, <1>4 DEF new, Inv, HeapTypeOK
  <2>2. owned' \subseteq Objects
    <3>1. [at |-> cur, words |-> num] \in Objects
      BY <1>1 DEF Objects
    <3>. QED  BY <1>4, <3>1 DEF Inv, HeapTypeOK
  <2>3. available' \in Words \cup {W}
    BY <1>12, <2>1 DEF FreeListSorted
  <2>4. mem' \in [Words -> Nat]
    <3>1. Successor \in Nat
      <4>1. nextBlock(cur) \in Nat
        BY <1>1, FreeInHeap DEF Inv
      <4>. QED  BY <1>3, <4>1 DEF Successor, y
    <3>2. \A i \in Words : mem'[i] \in Nat
      BY <1>1, <1>3, <3>1 DEF Inv, HeapTypeOK
    <3>. QED  BY <1>3, <3>2
  <2>5. 0 \in Words
    BY HeapAssumption DEF Words
  <2>. QED  BY <2>1, <2>2, <2>3, <2>4, <2>5 DEF Take, Return, HeapTypeOK
<1>14. Searching' /\ Scanning'
  BY <1>4 DEF Searching, Scanning
<1>. QED  BY <1>11, <1>12, <1>13, <1>14 DEF Inv

-----------------------------------------------------------------------------
(* Blocks become one *)

(* The set B of blocks with sizes m fills the heap.                         *)
Tiles(m, B) ==
  /\ 0 \in B
  /\ \A x \in B :
       /\ m[x] >= 1
       /\ x + m[x] < W
       /\ x + m[x] + 1 \in B \cup {W}
       /\ \A y \in B : x < y => x + m[x] < y

(* It still does when a block takes in the one immediately after it.        *)
LEMMA MergeTiles ==
  ASSUME NEW B, NEW m, NEW n, Tiles(m, B),
         \A z \in B : z \in Nat /\ m[z] \in Nat,
         NEW x \in B, NEW y \in B, x + m[x] + 1 = y,
         n[x] = m[x] + m[y] + 1,
         \A z \in B \ {x, y} : n[z] = m[z]
  PROVE  Tiles(n, B \ {y})
<1>1. x \in Nat /\ y \in Nat /\ m[x] \in Nat /\ m[y] \in Nat /\ x < y
  OBVIOUS
<1>2. x + n[x] = y + m[y]
  BY <1>1
<1>3. \A z \in B : /\ m[z] >= 1 /\ z + m[z] < W
                   /\ z + m[z] + 1 \in B \cup {W}
                   /\ \A w \in B : z < w => z + m[z] < w
  BY DEF Tiles
<1>4. 0 \in B \ {y}
  BY <1>1 DEF Tiles
<1>5. ASSUME NEW z \in B \ {y}
      PROVE  /\ n[z] >= 1
             /\ z + n[z] < W
             /\ z + n[z] + 1 \in (B \ {y}) \cup {W}
             /\ \A w \in B \ {y} : z < w => z + n[z] < w
  <2>1. CASE z = x
    <3>1. y + m[y] + 1 # y /\ y + m[y] + 1 \in B \cup {W}
      BY <1>1, <1>3
    <3>2. \A w \in B \ {y} : x < w => y + m[y] < w
      <4>. SUFFICES ASSUME NEW w \in B \ {y}, x < w
                    PROVE  y + m[y] < w
        OBVIOUS
      <4>1. x + m[x] < w /\ w \in Nat
        BY <1>3
      <4>2. y < w
        BY <1>1, <4>1
      <4>. QED  BY <1>3, <4>2
    <3>3. n[x] >= 1 /\ y + m[y] < W /\ x + n[x] + 1 = y + m[y] + 1
      BY <1>1, <1>2, <1>3
    <3>. QED  BY <1>2, <2>1, <3>1, <3>2, <3>3
  <2>2. CASE z # x
    <3>1. n[z] = m[z] /\ z \in Nat /\ m[z] \in Nat
      BY <2>2
    <3>2. z + m[z] + 1 # y
      <4>1. z < x => z + m[z] < x
        BY <1>3
      <4>2. x < z => y <= z
        BY <1>1, <1>3, <3>1
      <4>. QED  BY <1>1, <2>2, <3>1, <4>1, <4>2
    <3>. QED  BY <1>3, <3>1, <3>2
  <2>. QED  BY <2>1, <2>2
<1>. QED  BY <1>4, <1>5 DEF Tiles

(* What the search knows of the two free blocks it found, one on each side. *)
LEMMA Neighbours ==
  ASSUME Inv, Between
  PROVE  /\ toFree \in Blocks /\ toFree \notin Held /\ toFree \notin free
         /\ toFree \in Nat /\ toFree \in Words
         /\ mem[toFree] \in Nat /\ mem[toFree] >= 1
         /\ toFree + mem[toFree] \in Words
         /\ Blocks = Held \cup free \cup {toFree}
         /\ prev \in free /\ prev \in Blocks /\ prev \in Nat /\ prev \in Words
         /\ mem[prev] \in Nat /\ mem[prev] >= 1 /\ prev + mem[prev] \in Words
         /\ prev < toFree /\ prev + mem[prev] < toFree
         /\ nextBlock(prev) = cur
         /\ cur \in free \cup {W} /\ cur \in Nat /\ cur <= W
         /\ toFree < cur /\ toFree + mem[toFree] < cur
         /\ \A x \in free : x <= prev \/ cur <= x
<1>1. /\ toFree \in Blocks /\ toFree \notin Held /\ toFree \notin free
      /\ Blocks = Held \cup free \cup {toFree}
      /\ prev \in free /\ prev \in Blocks /\ prev < toFree
  BY DEF Between, Inv, Tiled, Blocks, Scanning
<1>2. /\ toFree \in Nat /\ toFree \in Words
      /\ mem[toFree] \in Nat /\ mem[toFree] >= 1
      /\ toFree + mem[toFree] \in Words
      /\ prev \in Nat /\ prev \in Words
      /\ mem[prev] \in Nat /\ mem[prev] >= 1 /\ prev + mem[prev] \in Words
  BY <1>1, BlockInHeap DEF Inv
<1>3. cur \in Nat /\ cur >= toFree
  BY HeapAssumption DEF Between, Inv, HeapTypeOK, Words
<1>4. nextBlock(prev) = cur
  BY <1>1, <1>2, <1>3 DEF Between, Inv, Scanning
<1>5. cur \in free \cup {W} /\ cur <= W
  BY <1>1, <1>4, FreeInHeap DEF Inv, FreeListSorted
<1>6. toFree < cur
  BY <1>1, <1>2, <1>3, <1>5, HeapAssumption DEF Words
<1>7. prev + mem[prev] < toFree
  BY <1>1 DEF Inv, Tiled, refToNextBlock
<1>8. toFree + mem[toFree] < cur
  <2>1. cur \in Blocks \cup {W}
    BY <1>5 DEF Blocks
  <2>2. cur \in Blocks => toFree + mem[toFree] < cur
    BY <1>1, <1>6 DEF Inv, Tiled, refToNextBlock
  <2>. QED  BY <1>2, <2>1, <2>2, HeapAssumption DEF Words
<1>9. \A x \in free : x <= prev \/ cur <= x
  <2>1. \A x \in free : prev < x => cur <= x
    BY <1>1, <1>4 DEF Inv, FreeListSorted
  <2>. QED  BY <1>2, <2>1, FreeInHeap DEF Inv
<1>. QED  BY <1>1, <1>2, <1>3, <1>4, <1>5, <1>6, <1>7, <1>8, <1>9

(* The blocks fill the heap, said with Tiles.                               *)
LEMMA TiledAsTiles ==
  ASSUME Tiled
  PROVE  Tiles(mem, Blocks)
BY DEF Tiled, Tiles, refToNextBlock

(* And back, in the state a completed free leaves.                          *)
LEMMA TilesAsTiled ==
  ASSUME Inv, op' = "idle", Tiles(mem', Blocks'),
         owned' \subseteq owned,
         \A o \in owned' : mem'[o.at] = mem[o.at],
         Held' \cap free' = {}
  PROVE  Tiled'
<1>1. /\ \A o \in owned' : mem'[o.at] \in {o.words, o.words + 1}
      /\ \A o, p \in owned' : o.at = p.at => o = p
  BY DEF Inv, Tiled
<1>. QED  BY <1>1 DEF Tiles, Tiled, refToNextBlock

(* Joining a freed block to the free blocks on both its sides keeps the     *)
(* invariant.                                                               *)
LEMMA JoinBothStep ==
  ASSUME Inv, JoinBoth
  PROVE  Inv'
<1>1. /\ toFree \in Blocks /\ toFree \notin Held /\ toFree \notin free
      /\ toFree \in Nat /\ toFree \in Words
      /\ mem[toFree] \in Nat /\ mem[toFree] >= 1
      /\ Blocks = Held \cup free \cup {toFree}
      /\ prev \in free /\ prev \in Blocks /\ prev \in Nat /\ prev \in Words
      /\ mem[prev] \in Nat
      /\ prev < toFree
      /\ nextBlock(prev) = cur
      /\ toFree < cur
      /\ \A x \in free : x <= prev \/ cur <= x
  BY Neighbours DEF JoinBoth
<1>2. /\ cur \in free /\ cur \in Blocks /\ cur \in Nat /\ mem[cur] \in Nat
      /\ cur + mem[cur] \in Words
      /\ toFree + mem[toFree] + 1 = cur
      /\ prev + mem[prev] + 1 = toFree
  <2>1. cur \in free
    BY Neighbours, HeapAssumption DEF JoinBoth, JoinsNext
  <2>. QED  BY <2>1, FreeInHeap, BlockInHeap
            DEF JoinBoth, JoinsNext, Adjacent, refToNextBlock, Inv
<1>3. /\ mem' = [mem EXCEPT ![prev] = @ + mem[toFree] + 1 + mem[cur] + 1]
      /\ free' = free \ {cur} /\ owned' = owned /\ available' = available
      /\ op' = "idle"
  BY DEF JoinBoth, Return
<1>4. mem'[prev] = mem[prev] + mem[toFree] + 1 + mem[cur] + 1
      /\ \A i \in Words : i # prev => mem'[i] = mem[i]
  BY <1>1, <1>3 DEF Inv, HeapTypeOK
<1>5. Held' = Held /\ Blocks' = (Blocks \ {toFree}) \ {cur}
  <2>1. cur \notin Held
    BY <1>2 DEF Inv, Tiled
  <2>. QED  BY <1>1, <1>2, <1>3, <2>1 DEF Held, Blocks
<1>6. \A x \in Blocks : /\ x \in Words /\ x \in Nat /\ mem[x] \in Nat
                        /\ x + mem[x] \in Words
  BY BlockInHeap DEF Inv
<1>7. Tiles(mem', Blocks')
  <2>. DEFINE m == [mem EXCEPT ![prev] = mem[prev] + mem[toFree] + 1]
  <2>1. m[prev] = mem[prev] + mem[toFree] + 1 /\ \A i \in Words : i # prev => m[i] = mem[i]
    BY <1>1 DEF Inv, HeapTypeOK
  <2>. HIDE DEF m
  <2>2. Tiles(m, Blocks \ {toFree})
    <3>1. \A z \in Blocks : z \in Nat /\ mem[z] \in Nat
      BY <1>6
    <3>2. \A z \in Blocks \ {prev, toFree} : m[z] = mem[z]
      BY <1>6, <2>1
    <3>3. Tiles(mem, Blocks)
      BY TiledAsTiles DEF Inv
    <3>. QED  BY <1>1, <1>2, <2>1, <3>1, <3>2, <3>3, MergeTiles
  <2>3. Tiles(mem', (Blocks \ {toFree}) \ {cur})
    <3>1. prev \in Blocks \ {toFree} /\ cur \in Blocks \ {toFree}
      BY <1>1, <1>2
    <3>2. prev + m[prev] + 1 = cur
      BY <1>1, <1>2, <2>1
    <3>3. mem'[prev] = m[prev] + m[cur] + 1
      BY <1>1, <1>2, <1>4, <1>6, <2>1
    <3>4. \A z \in Blocks \ {toFree} : z \in Nat /\ m[z] \in Nat
      BY <1>1, <1>6, <2>1
    <3>5. \A z \in (Blocks \ {toFree}) \ {prev, cur} : mem'[z] = m[z]
      BY <1>4, <1>6, <2>1
    <3>. QED  BY <2>2, <3>1, <3>2, <3>3, <3>4, <3>5, MergeTiles
  <2>. QED  BY <1>5, <2>3
<1>8. Tiled'
  <2>1. \A o \in owned : mem'[o.at] = mem[o.at]
    <3>1. \A o \in owned : o.at \in Held /\ o.at \in Blocks
      BY DEF Held, Blocks
    <3>2. prev \notin Held
      BY <1>1 DEF Inv, Tiled
    <3>. QED  BY <1>4, <1>6, <3>1, <3>2
  <2>2. Held' \cap free' = {}
    BY <1>3, <1>5 DEF Inv, Tiled
  <2>. QED  BY <1>3, <1>7, <2>1, <2>2, TilesAsTiled
<1>9. FreeListSorted'
  <2>1. \A x \in free : /\ x \in Blocks /\ x \in Nat /\ available <= x
                        /\ nextBlock(x) \in free \cup {W}
                        /\ x < nextBlock(x)
                        /\ nextBlock(x) \in Nat
                        /\ nextBlock(x) = mem[x + mem[x]]
    BY FreeInHeap DEF Inv, FreeListSorted, nextBlock, refToNextBlock
  <2>2. \A x, z \in free : x < z => nextBlock(x) <= z
    BY DEF Inv, FreeListSorted
  <2>3. \A x \in free \ {cur, prev} : nextBlock(x)' = nextBlock(x)
    <3>. SUFFICES ASSUME NEW x \in free, x # cur, x # prev
                  PROVE  nextBlock(x)' = nextBlock(x)
      OBVIOUS
    <3>1. x + mem[x] # prev
      BY <1>1, <1>6, <2>1, Apart DEF Inv
    <3>2. mem'[x] = mem[x] /\ mem'[x + mem[x]] = mem[x + mem[x]]
      BY <1>4, <1>6, <2>1, <3>1
    <3>. QED  BY <3>2 DEF nextBlock, refToNextBlock
  <2>4. \A x : x = prev => nextBlock(x)' = nextBlock(cur)
    <3>1. prev + mem'[prev] = cur + mem[cur] /\ cur + mem[cur] # prev
      BY <1>1, <1>2, <1>4
    <3>. QED  BY <1>2, <1>4, <2>1, <3>1 DEF nextBlock, refToNextBlock
  <2>5. \A x \in free \ {cur, prev} : nextBlock(x) # cur
    <3>. SUFFICES ASSUME NEW x \in free, x # cur, x # prev, nextBlock(x) = cur
                  PROVE  FALSE
      OBVIOUS
    <3>1. ~(x < prev)
      BY <1>1, <2>1, <2>2
    <3>2. ~(prev < x)
      BY <1>1, <2>1, <2>2
    <3>. QED  BY <1>1, <2>1, <3>1, <3>2
  <2>6. available' \in free' \cup {W} /\ \A x \in free' : available' <= x
    <3>1. available # cur
      BY <1>1, <1>2, <2>1
    <3>. QED  BY <1>3, <2>1, <3>1 DEF Inv, FreeListSorted
  <2>7. ASSUME NEW x \in free'
        PROVE  /\ nextBlock(x)' \in free' \cup {W}
               /\ x < nextBlock(x)'
               /\ \A z \in free' : x < z => nextBlock(x)' <= z
    <3>1. CASE x = prev
      <4>1. nextBlock(cur) # cur /\ prev < nextBlock(cur)
        BY <1>1, <1>2, <2>1
      <4>2. \A z \in free' : prev < z => nextBlock(cur) <= z
        BY <1>1, <1>2, <1>3, <2>1, <2>2
      <4>. QED  BY <1>2, <1>3, <2>1, <2>4, <3>1, <4>1, <4>2
    <3>2. CASE x # prev
      BY <1>3, <2>1, <2>2, <2>3, <2>5, <3>2
    <3>. QED  BY <3>1, <3>2
  <2>. QED  BY <2>6, <2>7 DEF FreeListSorted
<1>10. HeapTypeOK'
  <2>1. mem' \in [Words -> Nat]
    BY <1>1, <1>2, <1>3 DEF Inv, HeapTypeOK
  <2>2. 0 \in Words
    BY HeapAssumption DEF Words
  <2>. QED  BY <1>3, <2>1, <2>2 DEF JoinBoth, Return, Inv, HeapTypeOK
<1>11. Searching' /\ Scanning'
  BY <1>3 DEF Searching, Scanning
<1>. QED  BY <1>8, <1>9, <1>10, <1>11 DEF Inv

(* Joining it to the free block before it keeps the invariant.              *)
LEMMA JoinPreviousStep ==
  ASSUME Inv, JoinPrevious
  PROVE  Inv'
<1>. DEFINE l == toFree + mem[toFree]
<1>1. /\ toFree \in Blocks /\ toFree \notin Held /\ toFree \notin free
      /\ toFree \in Nat /\ toFree \in Words
      /\ mem[toFree] \in Nat /\ mem[toFree] >= 1
      /\ l \in Words
      /\ Blocks = Held \cup free \cup {toFree}
      /\ prev \in free /\ prev \in Blocks /\ prev \in Nat /\ prev \in Words
      /\ mem[prev] \in Nat
      /\ prev < toFree
      /\ nextBlock(prev) = cur
      /\ cur \in Nat
      /\ prev + mem[prev] + 1 = toFree
  BY Neighbours DEF JoinPrevious, Adjacent, refToNextBlock
<1>2. /\ mem' = [mem EXCEPT ![prev] = @ + mem[toFree] + 1, ![l] = cur]
      /\ free' = free /\ owned' = owned /\ available' = available
      /\ op' = "idle"
  BY DEF JoinPrevious, Return, refToNextBlock
<1>3. l \in Nat /\ toFree < l
  BY <1>1
<1>4. /\ mem'[prev] = mem[prev] + mem[toFree] + 1
      /\ mem'[l] = cur
      /\ \A i \in Words : i # prev /\ i # l => mem'[i] = mem[i]
  BY <1>1, <1>2, <1>3 DEF Inv, HeapTypeOK
<1>5. Held' = Held /\ Blocks' = Blocks \ {toFree}
  BY <1>1, <1>2 DEF Held, Blocks
<1>6. \A x \in Blocks : /\ x \in Words /\ x \in Nat /\ mem[x] \in Nat
                        /\ x + mem[x] \in Words
  BY BlockInHeap DEF Inv
<1>7. \A x \in Blocks : x # l /\ (x # toFree => x + mem[x] # l)
  BY <1>1, <1>3, OtherWords DEF Inv
<1>8. \A x \in Blocks \ {prev} : mem'[x] = mem[x]
  BY <1>4, <1>6, <1>7
<1>. HIDE DEF l
<1>9. Tiles(mem', Blocks')
  <2>1. Tiles(mem, Blocks)
    BY TiledAsTiles DEF Inv
  <2>2. \A z \in Blocks : z \in Nat /\ mem[z] \in Nat
    BY <1>6
  <2>3. \A z \in Blocks \ {prev, toFree} : mem'[z] = mem[z]
    BY <1>8
  <2>4. Tiles(mem', Blocks \ {toFree})
    BY <1>1, <1>4, <2>1, <2>2, <2>3, MergeTiles
  <2>. QED  BY <1>5, <2>4
<1>10. Tiled'
  <2>1. \A o \in owned : mem'[o.at] = mem[o.at]
    <3>1. \A o \in owned : o.at \in Held /\ o.at \in Blocks
      BY DEF Held, Blocks
    <3>2. prev \notin Held
      BY <1>1 DEF Inv, Tiled
    <3>. QED  BY <1>8, <3>1, <3>2
  <2>2. Held' \cap free' = {}
    BY <1>2, <1>5 DEF Inv, Tiled
  <2>. QED  BY <1>2, <1>9, <2>1, <2>2, TilesAsTiled
<1>11. FreeListSorted'
  <2>1. \A x \in free : x \in Blocks
    BY <1>1
  <2>2. \A x \in free \ {prev} : nextBlock(x)' = nextBlock(x)
    <3>. SUFFICES ASSUME NEW x \in free, x # prev
                  PROVE  nextBlock(x)' = nextBlock(x)
      OBVIOUS
    <3>1. x + mem[x] # prev
      BY <1>1, <1>6, <2>1, Apart DEF Inv
    <3>2. x + mem[x] # l
      BY <1>1, <1>7, <2>1
    <3>3. mem'[x] = mem[x] /\ mem'[x + mem[x]] = mem[x + mem[x]]
      BY <1>4, <1>6, <1>8, <2>1, <3>1, <3>2
    <3>. QED  BY <3>3 DEF nextBlock, refToNextBlock
  <2>3. \A x : x = prev => nextBlock(x)' = nextBlock(x)
    <3>1. prev + mem'[prev] = l
      BY <1>1, <1>4 DEF l
    <3>. QED  BY <1>1, <1>4, <3>1 DEF nextBlock, refToNextBlock
  <2>4. \A x \in free : nextBlock(x)' = nextBlock(x)
    BY <2>2, <2>3
  <2>. QED  BY <1>2, <2>4 DEF Inv, FreeListSorted
<1>12. HeapTypeOK'
  <2>1. mem' \in [Words -> Nat]
    BY <1>1, <1>2 DEF Inv, HeapTypeOK
  <2>2. 0 \in Words
    BY HeapAssumption DEF Words
  <2>. QED  BY <1>2, <2>1, <2>2 DEF JoinPrevious, Return, Inv, HeapTypeOK
<1>13. Searching' /\ Scanning'
  BY <1>2 DEF Searching, Scanning
<1>. QED  BY <1>10, <1>11, <1>12, <1>13 DEF Inv

(* Putting it on the list between them keeps the invariant.                 *)
LEMMA LinkInStep ==
  ASSUME Inv, LinkIn
  PROVE  Inv'
<1>. DEFINE l == toFree + mem[toFree]
            k == prev + mem[prev]
<1>1. /\ toFree \in Blocks /\ toFree \notin Held /\ toFree \notin free
      /\ toFree \in Nat /\ toFree \in Words
      /\ mem[toFree] \in Nat /\ mem[toFree] >= 1
      /\ l \in Words
      /\ Blocks = Held \cup free \cup {toFree}
      /\ prev \in free /\ prev \in Blocks /\ prev \in Nat /\ prev \in Words
      /\ mem[prev] \in Nat /\ mem[prev] >= 1
      /\ k \in Words
      /\ prev < toFree /\ k < toFree
      /\ nextBlock(prev) = cur
      /\ cur \in free \cup {W} /\ cur \in Nat
      /\ toFree < cur
      /\ \A x \in free : x <= prev \/ cur <= x
  BY Neighbours DEF LinkIn
<1>2. /\ mem' = [mem EXCEPT ![k] = toFree, ![l] = cur]
      /\ free' = free \cup {toFree} /\ owned' = owned /\ available' = available
      /\ op' = "idle"
  BY DEF LinkIn, LinkedIn, Return, refToNextBlock
<1>3. l \in Nat /\ toFree < l /\ k \in Nat /\ prev < k /\ k # l
  BY <1>1
<1>4. /\ mem'[k] = toFree
      /\ mem'[l] = cur
      /\ \A i \in Words : i # k /\ i # l => mem'[i] = mem[i]
  BY <1>1, <1>2, <1>3 DEF Inv, HeapTypeOK
<1>5. Held' = Held /\ Blocks' = Blocks
  BY <1>1, <1>2 DEF Held, Blocks
<1>6. \A x \in Blocks : /\ x \in Words /\ x \in Nat /\ mem[x] \in Nat
                        /\ x + mem[x] \in Words
  BY BlockInHeap DEF Inv
<1>7. \A x \in Blocks : /\ x # l /\ (x # toFree => x + mem[x] # l)
                        /\ x # k /\ (x # prev => x + mem[x] # k)
  BY <1>1, <1>3, OtherWords DEF Inv
<1>8. \A x \in Blocks : mem'[x] = mem[x]
  BY <1>4, <1>6, <1>7
<1>9. Tiled'
  <2>1. Tiles(mem', Blocks')
    <3>1. Tiles(mem, Blocks)
      BY TiledAsTiles DEF Inv
    <3>. QED  BY <1>5, <1>8, <3>1 DEF Tiles
  <2>2. \A o \in owned : mem'[o.at] = mem[o.at]
    BY <1>8 DEF Held, Blocks
  <2>3. Held' \cap free' = {}
    BY <1>1, <1>2, <1>5 DEF Inv, Tiled
  <2>. QED  BY <1>2, <2>1, <2>2, <2>3, TilesAsTiled
<1>10. FreeListSorted'
  <2>1. \A x \in free : /\ x \in Blocks /\ x \in Nat /\ available <= x
                        /\ available \in Nat
                        /\ nextBlock(x) \in free \cup {W}
                        /\ x < nextBlock(x)
                        /\ nextBlock(x) \in Nat
    BY FreeInHeap DEF Inv, FreeListSorted
  <2>2. \A x, z \in free : x < z => nextBlock(x) <= z
    BY DEF Inv, FreeListSorted
  <2>3. \A x \in free \ {prev} : nextBlock(x)' = nextBlock(x)
    <3>. SUFFICES ASSUME NEW x \in free, x # prev
                  PROVE  nextBlock(x)' = nextBlock(x)
      OBVIOUS
    <3>1. x + mem[x] # k /\ x + mem[x] # l
      BY <1>1, <1>7, <2>1
    <3>2. mem'[x] = mem[x] /\ mem'[x + mem[x]] = mem[x + mem[x]]
      BY <1>4, <1>6, <1>8, <2>1, <3>1
    <3>. QED  BY <3>2 DEF nextBlock, refToNextBlock
  <2>4. \A x : x = prev => nextBlock(x)' = toFree
    BY <1>1, <1>4, <1>8 DEF nextBlock, refToNextBlock
  <2>5. \A x : x = toFree => nextBlock(x)' = cur
    BY <1>1, <1>4, <1>8 DEF nextBlock, refToNextBlock
  <2>. HIDE DEF k, l
  <2>6. available' \in free' \cup {W} /\ \A x \in free' : available' <= x
    BY <1>1, <1>2, <2>1 DEF Inv, FreeListSorted
  <2>7. ASSUME NEW x \in free'
        PROVE  /\ nextBlock(x)' \in free' \cup {W}
               /\ x < nextBlock(x)'
               /\ \A z \in free' : x < z => nextBlock(x)' <= z
    <3>1. CASE x = toFree
      BY <1>1, <1>2, <2>1, <2>5, <3>1
    <3>2. CASE x = prev
      BY <1>1, <1>2, <2>1, <2>4, <3>2
    <3>3. CASE x \in free /\ x # prev
      <4>1. x < toFree => nextBlock(x) <= toFree
        BY <1>1, <2>1, <2>2, <3>3
      <4>. QED  BY <1>1, <1>2, <2>1, <2>2, <2>3, <3>3, <4>1
    <3>. QED  BY <1>2, <3>1, <3>2, <3>3
  <2>. QED  BY <2>6, <2>7 DEF FreeListSorted
<1>11. HeapTypeOK'
  <2>1. mem' \in [Words -> Nat]
    BY <1>1, <1>2 DEF Inv, HeapTypeOK
  <2>2. 0 \in Words
    BY HeapAssumption DEF Words
  <2>. QED  BY <1>1, <1>2, <2>1, <2>2 DEF LinkIn, Return, Inv, HeapTypeOK
<1>12. Searching' /\ Scanning'
  BY <1>2 DEF Searching, Scanning
<1>. QED  BY <1>9, <1>10, <1>11, <1>12 DEF Inv

-----------------------------------------------------------------------------
(* A block before the first free block is freed *)

(* Freeing a block before the first free block, joined to it or not, keeps  *)
(* the invariant.                                                           *)
LEMMA FreeBeforeStep ==
  ASSUME Inv, NEW o \in owned, FreeBefore(o)
  PROVE  Inv'
<1>. DEFINE b == o.at
            l == b + mem[b]
<1>1. /\ b \in Held /\ b \in Blocks /\ b \notin free
      /\ b \in Words /\ b \in Nat /\ mem[b] \in Nat /\ mem[b] >= 1
      /\ l \in Words /\ l \in Nat /\ b < l
      /\ b < available /\ available \in Nat /\ available <= W
      /\ available \in free \cup {W}
      /\ Blocks = Held \cup free
  <2>1. b \in Held /\ b \in Blocks /\ b \notin free /\ Blocks = Held \cup free
    BY DEF FreeBefore, Held, Blocks, Inv, Tiled
  <2>2. b \in Words /\ b \in Nat /\ mem[b] \in Nat /\ mem[b] >= 1 /\ l \in Words
    BY <2>1, BlockInHeap DEF Inv
  <2>3. available \in Nat /\ available <= W /\ available \in free \cup {W}
    BY HeapAssumption DEF Inv, HeapTypeOK, FreeListSorted, Words
  <2>. QED  BY <2>1, <2>2, <2>3 DEF FreeBefore
<1>2. owned' = owned \ {o} /\ available' = b /\ op' = "idle"
      /\ num' = num /\ cur' = cur /\ prev' = prev /\ first' = first /\ toFree' = toFree
  BY DEF FreeBefore, loopVars
<1>3. Held' = Held \ {b}
  BY <1>2 DEF Held, Inv, Tiled
<1>4. \A x \in Blocks : /\ x \in Words /\ x \in Nat /\ mem[x] \in Nat
                        /\ x + mem[x] \in Words
  BY BlockInHeap DEF Inv
<1>5. \A p \in owned' : p.at \in Blocks /\ p.at # b /\ p.at \notin free
  BY <1>2 DEF Held, Blocks, Inv, Tiled
<1>6. /\ \A x \in free : /\ x \in Blocks /\ x \in Nat /\ available <= x
                         /\ nextBlock(x) \in free \cup {W}
                         /\ x < nextBlock(x)
                         /\ nextBlock(x) \in Nat
                         /\ nextBlock(x) = mem[x + mem[x]]
      /\ \A x, z \in free : x < z => nextBlock(x) <= z
  BY FreeInHeap DEF Inv, FreeListSorted, nextBlock, refToNextBlock
<1>7. Tiles(mem, Blocks)
  BY TiledAsTiles DEF Inv
<1>8. Searching' /\ Scanning'
  BY <1>2 DEF Searching, Scanning
<1>9. CASE Adjacent(b, available) /\ available < W
  <2>. DEFINE a == available
  <2>1. /\ a \in free /\ a \in Blocks /\ a \in Nat /\ mem[a] \in Nat
        /\ a + mem[a] \in Words /\ b + mem[b] + 1 = a
    BY <1>1, <1>4, <1>6, <1>9 DEF Adjacent, refToNextBlock
  <2>2. /\ mem' = [mem EXCEPT ![b] = @ + mem[a] + 1]
        /\ free' = (free \ {a}) \cup {b}
    BY <1>9 DEF FreeBefore
  <2>3. mem'[b] = mem[b] + mem[a] + 1 /\ \A i \in Words : i # b => mem'[i] = mem[i]
    BY <1>1, <2>2 DEF Inv, HeapTypeOK
  <2>4. Blocks' = Blocks \ {a}
    <3>1. a \notin Held /\ a # b
      BY <1>1, <2>1 DEF Inv, Tiled
    <3>. QED  BY <1>1, <1>2, <1>3, <2>2, <3>1 DEF Blocks
  <2>5. Tiles(mem', Blocks')
    <3>1. \A z \in Blocks : z \in Nat /\ mem[z] \in Nat
      BY <1>4
    <3>2. \A z \in Blocks \ {b, a} : mem'[z] = mem[z]
      BY <1>4, <2>3
    <3>3. b \in Blocks /\ a \in Blocks /\ b + mem[b] + 1 = a
      BY <1>1, <2>1
    <3>4. mem'[b] = mem[b] + mem[a] + 1
      BY <2>3
    <3>. HIDE DEF a, b
    <3>5. Tiles(mem', Blocks \ {a})
      BY <1>7, <3>1, <3>2, <3>3, <3>4, MergeTiles
    <3>. QED  BY <2>4, <3>5
  <2>6. Tiled'
    <3>1. \A p \in owned' : mem'[p.at] = mem[p.at]
      BY <1>4, <1>5, <2>3
    <3>2. Held' \cap free' = {}
      BY <1>3, <2>2 DEF Inv, Tiled
    <3>. QED  BY <1>2, <2>5, <3>1, <3>2, TilesAsTiled
  <2>7. FreeListSorted'
    <3>1. \A x \in free \ {a} : nextBlock(x)' = nextBlock(x)
      <4>. SUFFICES ASSUME NEW x \in free, x # a
                    PROVE  nextBlock(x)' = nextBlock(x)
        OBVIOUS
      <4>1. x + mem[x] # b /\ x # b
        BY <1>1, <1>4, <1>6, Apart DEF Inv
      <4>2. mem'[x] = mem[x] /\ mem'[x + mem[x]] = mem[x + mem[x]]
        BY <1>4, <1>6, <2>3, <4>1
      <4>. QED  BY <4>2 DEF nextBlock, refToNextBlock
    <3>2. \A x : x = b => nextBlock(x)' = nextBlock(a)
      <4>1. b + mem'[b] = a + mem[a] /\ a + mem[a] # b
        BY <1>1, <2>1, <2>3
      <4>. QED  BY <2>1, <2>3, <1>6, <4>1 DEF nextBlock, refToNextBlock
    <3>. HIDE DEF b
    <3>3. available' \in free' \cup {W} /\ \A x \in free' : available' <= x
      BY <1>1, <1>2, <1>6, <2>2
    <3>4. ASSUME NEW x \in free'
          PROVE  /\ nextBlock(x)' \in free' \cup {W}
                 /\ x < nextBlock(x)'
                 /\ \A z \in free' : x < z => nextBlock(x)' <= z
      <4>1. CASE x = b
        <5>1. nextBlock(a) # a /\ b < nextBlock(a)
          BY <1>1, <1>6, <2>1
        <5>2. \A z \in free' : b < z => nextBlock(a) <= z
          BY <1>1, <1>6, <2>1, <2>2
        <5>. QED  BY <1>6, <2>1, <2>2, <3>2, <4>1, <5>1, <5>2
      <4>2. CASE x \in free \ {a}
        <5>1. nextBlock(x) # a
          BY <1>6, <2>1, <4>2
        <5>2. b < x
          BY <1>1, <1>6, <4>2
        <5>. QED  BY <1>1, <1>6, <2>2, <3>1, <4>2, <5>1, <5>2
      <4>. QED  BY <2>2, <4>1, <4>2
    <3>. QED  BY <3>3, <3>4 DEF FreeListSorted
  <2>8. HeapTypeOK'
    <3>1. mem' \in [Words -> Nat]
      BY <1>1, <2>1, <2>2 DEF Inv, HeapTypeOK
    <3>. QED  BY <1>1, <1>2, <2>2, <3>1 DEF Inv, HeapTypeOK
  <2>. QED  BY <1>8, <2>6, <2>7, <2>8 DEF Inv
<1>10. CASE ~(Adjacent(b, available) /\ available < W)
  <2>2. /\ mem' = [mem EXCEPT ![l] = available]
        /\ free' = free \cup {b}
    BY <1>10 DEF FreeBefore, refToNextBlock
  <2>3. mem'[l] = available /\ \A i \in Words : i # l => mem'[i] = mem[i]
    BY <1>1, <2>2 DEF Inv, HeapTypeOK
  <2>4. Blocks' = Blocks
    BY <1>1, <1>2, <1>3, <2>2 DEF Blocks
  <2>5. \A x \in Blocks : x # l /\ (x # b => x + mem[x] # l)
    BY <1>1, OtherWords DEF Inv
  <2>6. \A x \in Blocks : mem'[x] = mem[x]
    BY <1>4, <2>3, <2>5
  <2>7. Tiled'
    <3>1. \A p \in owned' : mem'[p.at] = mem[p.at]
      BY <1>5, <2>6
    <3>2. Held' \cap free' = {}
      BY <1>3, <2>2 DEF Inv, Tiled
    <3>3. Tiles(mem', Blocks')
      BY <1>7, <2>4, <2>6 DEF Tiles
    <3>. QED  BY <1>2, <3>1, <3>2, <3>3, TilesAsTiled
  <2>8. FreeListSorted'
    <3>1. \A x \in free : nextBlock(x)' = nextBlock(x)
      <4>. SUFFICES ASSUME NEW x \in free
                    PROVE  nextBlock(x)' = nextBlock(x)
        OBVIOUS
      <4>1. x \in Blocks /\ x # b
        BY <1>1, <1>6
      <4>2. mem'[x] = mem[x] /\ mem'[x + mem[x]] = mem[x + mem[x]]
        BY <1>4, <2>3, <2>5, <2>6, <4>1
      <4>. QED  BY <4>2 DEF nextBlock, refToNextBlock
    <3>2. \A x : x = b => nextBlock(x)' = available
      BY <1>1, <2>3, <2>6 DEF nextBlock, refToNextBlock
    <3>. HIDE DEF b, l
    <3>3. available' \in free' \cup {W} /\ \A x \in free' : available' <= x
      BY <1>1, <1>2, <1>6, <2>2
    <3>4. ASSUME NEW x \in free'
          PROVE  /\ nextBlock(x)' \in free' \cup {W}
                 /\ x < nextBlock(x)'
                 /\ \A z \in free' : x < z => nextBlock(x)' <= z
      <4>1. CASE x = b
        BY <1>1, <1>6, <2>2, <3>2, <4>1
      <4>2. CASE x \in free
        <5>1. b < x
          BY <1>1, <1>6, <4>2
        <5>. QED  BY <1>1, <1>6, <2>2, <3>1, <4>2, <5>1
      <4>. QED  BY <2>2, <4>1, <4>2
    <3>. QED  BY <3>3, <3>4 DEF FreeListSorted
  <2>9. HeapTypeOK'
    <3>1. mem' \in [Words -> Nat]
      BY <1>1, <2>2 DEF Inv, HeapTypeOK
    <3>. QED  BY <1>1, <1>2, <2>2, <3>1 DEF Inv, HeapTypeOK
  <2>. QED  BY <1>8, <2>7, <2>8, <2>9 DEF Inv
<1>. QED  BY <1>9, <1>10

-----------------------------------------------------------------------------
(* The invariant *)

(* The one free block that SH_init makes satisfies the invariant.           *)
LEMMA InitInv ==
  ASSUME SmallHeapInit
  PROVE  Inv
<1>1. /\ 0 \in Words /\ W - 1 \in Words /\ W - 1 \in Nat
      /\ mem[0] = W - 1 /\ mem[W - 1] = W /\ 0 # W - 1
  BY HeapAssumption DEF SmallHeapInit, Words
<1>2. HeapTypeOK
  BY <1>1, HeapAssumption DEF SmallHeapInit, HeapTypeOK, Words
<1>3. Held = {} /\ free = {0} /\ Blocks = {0}
  BY DEF SmallHeapInit, Held, Blocks
<1>4. refToNextBlock(0) = W - 1 /\ nextBlock(0) = W
  BY <1>1 DEF refToNextBlock, nextBlock
<1>5. Tiled
  BY <1>1, <1>3, <1>4, HeapAssumption DEF Tiled, SmallHeapInit
<1>6. FreeListSorted
  BY <1>3, <1>4, HeapAssumption DEF FreeListSorted, SmallHeapInit
<1>7. Searching /\ Scanning
  BY DEF SmallHeapInit, Searching, Scanning
<1>. QED  BY <1>2, <1>5, <1>6, <1>7 DEF Inv

(* Every step keeps it.                                                     *)
LEMMA NextInv ==
  ASSUME Inv, [SmallHeapNext]_smallHeapVars
  PROVE  Inv'
<1>1. CASE UNCHANGED smallHeapVars
  <2>1. Tiled' /\ FreeListSorted'
    BY <1>1, Unwritten DEF smallHeapVars, loopVars
  <2>2. HeapTypeOK' /\ Searching' /\ Scanning'
    BY <1>1 DEF smallHeapVars, heapVars, loopVars, Inv, HeapTypeOK, Searching, Scanning,
                nextBlock, refToNextBlock, blockSize
  <2>. QED  BY <2>1, <2>2 DEF Inv
<1>2. ASSUME NEW size \in Sizes, Alloc(size) PROVE Inv'
  BY <1>2, AllocStep
<1>3. ASSUME NEW o \in owned, FreeBefore(o) PROVE Inv'
  BY <1>3, FreeBeforeStep
<1>4. ASSUME NEW o \in owned, BeginFree(o) PROVE Inv'
  BY <1>4, BeginFreeStep
<1>5. CASE Operation
  BY <1>5, TryNextStep, ReturnNullStep, TakeStep, ScanNextStep, JoinBothStep,
     JoinPreviousStep, LinkInStep DEF Operation
<1>6. CASE Store
  BY <1>6, StoreStep
<1>. QED  BY <1>1, <1>2, <1>3, <1>4, <1>5, <1>6 DEF SmallHeapNext

(* The invariant holds in every state of a heap of any size, whatever is    *)
(* asked for, freed and stored: all that follows rests on it.               *)
THEOREM HeapInvariance == SmallHeapSpec => []Inv
<1>1. SmallHeapInit => Inv
  BY InitInv
<1>2. Inv /\ [SmallHeapNext]_smallHeapVars => Inv'
  BY NextInv
<1>. QED  BY <1>1, <1>2, PTL DEF SmallHeapSpec

(* SH_alloc_at_base and SH_free read and write words of the heap only.      *)
THEOREM HeapTypeCorrect == SmallHeapSpec => []HeapTypeOK
<1>1. Inv => HeapTypeOK
  BY DEF Inv
<1>. QED  BY <1>1, HeapInvariance, PTL

(* No allocation and no free loses a word of the heap or puts one in two    *)
(* blocks: what is cut off a block and what is joined to one is exact.      *)
THEOREM BlocksTile == SmallHeapSpec => []Tiled
<1>1. Inv => Tiled
  BY DEF Inv
<1>. QED  BY <1>1, HeapInvariance, PTL

(* The list that SH_alloc_at_base searches leads through all the free       *)
(* blocks and no other, in the order of their addresses.                    *)
THEOREM FreeListExact == SmallHeapSpec => []FreeListSorted
<1>1. Inv => FreeListSorted
  BY DEF Inv
<1>. QED  BY <1>1, HeapInvariance, PTL

-----------------------------------------------------------------------------
(* A failed allocation *)

(* SH_alloc_at_base returns NULL only when it has passed every free block,  *)
(* and each was too small.                                                  *)
THEOREM NullMeansNoneFits == SmallHeapSpec => NullOnlyIfNoneFits
<1>1. ASSUME Inv, ReturnNull
      PROVE  \A x \in free : blockSize(x) < num
  <2>. SUFFICES ASSUME NEW x \in free
                PROVE  blockSize(x) < num
    OBVIOUS
  <2>1. x \in Nat /\ x < W /\ available <= x /\ W \in Nat
    BY <1>1, FreeInHeap, HeapAssumption DEF Inv, FreeListSorted
  <2>2. available # W /\ TooSmall /\ nextBlock(cur) = W
    BY <1>1, <2>1 DEF ReturnNull, TooSmall
  <2>3. cur \in free /\ (\A z \in free : z < cur => blockSize(z) < num)
    BY <1>1, <2>2 DEF Inv, Searching, TooSmall
  <2>4. ~(cur < x)
    BY <1>1, <2>1, <2>2, <2>3 DEF Inv, FreeListSorted
  <2>5. x < cur \/ x = cur
    BY <1>1, <2>1, <2>3, <2>4, FreeInHeap DEF Inv
  <2>. QED  BY <2>2, <2>3, <2>5 DEF TooSmall
<1>2. Inv /\ [SmallHeapNext]_smallHeapVars
        => [ReturnNull => \A x \in free : blockSize(x) < num]_smallHeapVars
  BY <1>1
<1>. QED  BY <1>2, HeapInvariance, PTL DEF SmallHeapSpec, NullOnlyIfNoneFits

-----------------------------------------------------------------------------
(* What the program stored *)

(* A word of an object is in the object's block and in no other.            *)
LEMMA PayloadApart ==
  ASSUME Inv, NEW o \in owned, NEW i \in Payload(o)
  PROVE  /\ i \in Words /\ i \in Nat
         /\ \A x \in Blocks : x # i
         /\ \A x \in Blocks \ Held : x + mem[x] # i
         /\ \A x \in Blocks \ Held : ~(x <= i /\ i <= x + mem[x])
<1>1. /\ o.at \in Held /\ o.at \in Blocks /\ o.words \in Nat
      /\ mem[o.at] \in {o.words, o.words + 1}
  BY DEF Inv, HeapTypeOK, Tiled, Held, Objects, Blocks
<1>2. o.at \in Nat /\ mem[o.at] \in Nat /\ o.at + mem[o.at] \in Words
  BY <1>1, BlockInHeap DEF Inv
<1>3. i \in Nat /\ o.at < i /\ i <= o.at + mem[o.at] /\ i \in Words
  BY <1>1, <1>2, HeapAssumption DEF Payload, Words
<1>4. \A x \in Blocks : x # i
  BY <1>1, <1>3, OtherWords DEF Inv
<1>5. ASSUME NEW x \in Blocks \ Held
      PROVE  ~(x <= i /\ i <= x + mem[x])
  <2>1. x # o.at /\ x \in Blocks
    BY <1>1
  <2>. QED  BY <1>1, <1>2, <1>3, <2>1, Apart DEF Inv
<1>6. ASSUME NEW x \in Blocks \ Held
      PROVE  x + mem[x] # i
  <2>1. x \in Nat /\ mem[x] \in Nat
    BY BlockInHeap DEF Inv
  <2>. QED  BY <1>5, <2>1
<1>. QED  BY <1>3, <1>4, <1>5, <1>6

(* Taking a block writes no word of an object.                              *)
LEMMA TakeUntouched ==
  ASSUME Inv, Take, NEW o \in owned, NEW i \in Payload(o)
  PROVE  mem'[i] = mem[i]
<1>1. /\ i \in Words /\ i \in Nat
      /\ \A x \in Blocks : x # i
      /\ \A x \in Blocks \ Held : x + mem[x] # i
      /\ \A x \in Blocks \ Held : ~(x <= i /\ i <= x + mem[x])
  BY PayloadApart
<1>2. cur \in Blocks \ Held /\ cur \in Nat /\ num \in Nat /\ mem[cur] \in Nat
  BY Found
<1>3. ~first => prev \in Blocks \ Held
  BY Found DEF Inv, Tiled
<1>4. \/ mem'[i] = mem[i]
      \/ i = cur
      \/ Splits /\ i = cur + num + 1
      \/ ~first /\ i = prev + mem[prev]
  BY <1>1, CutMemory
<1>5. Splits => cur < cur + num + 1 /\ cur + num + 1 <= cur + mem[cur]
  <2>1. Rest = mem[cur] - num
    BY Found
  <2>. QED  BY <1>2, <2>1 DEF Splits
<1>6. ~(Splits /\ i = cur + num + 1)
  <2>. SUFFICES ASSUME Splits, i = cur + num + 1
                PROVE  cur <= i /\ i <= cur + mem[cur]
    BY <1>1, <1>2
  <2>. QED  BY <1>2, <1>5
<1>. QED  BY <1>1, <1>2, <1>3, <1>4, <1>6

(* SH_alloc_at_base and SH_free write only into blocks that are free or     *)
(* being freed: what the program stored in its objects stays.               *)
THEOREM StoredIsKept == SmallHeapSpec => OwnedUntouched
<1>1. ASSUME Inv, SmallHeapNext, ~Store, NEW o \in owned \cap owned', NEW i \in Payload(o)
      PROVE  mem'[i] = mem[i]
  <2>1. /\ i \in Words /\ i \in Nat
        /\ \A x \in Blocks : x # i
        /\ \A x \in Blocks \ Held : x + mem[x] # i
    BY <1>1, PayloadApart
  <2>2. ASSUME NEW p \in owned, FreeBefore(p) PROVE mem'[i] = mem[i]
    <3>1. p.at \in Blocks /\ p.at # o.at
      BY <1>1, <2>2 DEF FreeBefore, Blocks, Held, Inv, Tiled
    <3>2. o.at \in Blocks /\ o.at \in Nat /\ p.at \in Nat
          /\ mem[p.at] \in Nat /\ mem[o.at] \in Nat
          /\ i <= o.at + mem[o.at] /\ o.at <= i
      <4>1. /\ o.at \in Blocks /\ o.words \in Nat
            /\ mem[o.at] \in {o.words, o.words + 1}
        BY <1>1 DEF Blocks, Held, Inv, HeapTypeOK, Tiled, Objects
      <4>. QED  BY <1>1, <3>1, <4>1, BlockInHeap DEF Inv, Payload
    <3>3. p.at + mem[p.at] # i
      BY <1>1, <2>1, <3>1, <3>2, Apart DEF Inv
    <3>4. p.at # i
      BY <2>1, <3>1
    <3>5. \/ mem' = [mem EXCEPT ![p.at] = mem[p.at] + mem[available] + 1]
          \/ mem' = [mem EXCEPT ![p.at + mem[p.at]] = available]
      BY <2>2 DEF FreeBefore, refToNextBlock
    <3>6. mem \in [Words -> Nat]
      BY <1>1 DEF Inv, HeapTypeOK
    <3>. DEFINE b == p.at
    <3>7. /\ b # i /\ b + mem[b] # i
          /\ \/ mem' = [mem EXCEPT ![b] = mem[b] + mem[available] + 1]
             \/ mem' = [mem EXCEPT ![b + mem[b]] = available]
      BY <3>3, <3>4, <3>5
    <3>. HIDE DEF b
    <3>. QED  BY <2>1, <3>6, <3>7
  <2>3. CASE Take
    BY <1>1, <2>3, TakeUntouched
  <2>4. CASE JoinBoth
    BY <1>1, <2>1, <2>4, Neighbours DEF JoinBoth, Inv, HeapTypeOK
  <2>5. CASE JoinPrevious
    <3>1. toFree \in Blocks \ Held /\ prev \in Blocks
      BY <1>1, <2>5, Neighbours DEF JoinPrevious
    <3>. QED  BY <1>1, <2>1, <2>5, <3>1 DEF JoinPrevious, refToNextBlock, Inv, HeapTypeOK
  <2>6. CASE LinkIn
    <3>1. toFree \in Blocks \ Held /\ prev \in Blocks \ Held
      BY <1>1, <2>6, Neighbours DEF LinkIn, Inv, Tiled
    <3>. QED  BY <1>1, <2>1, <2>6, <3>1
              DEF LinkIn, LinkedIn, refToNextBlock, Inv, HeapTypeOK
  <2>7. CASE TryNext \/ ReturnNull \/ ScanNext
    BY <2>7 DEF TryNext, ReturnNull, ScanNext, heapVars
  <2>8. ASSUME NEW size \in Sizes, Alloc(size) PROVE mem'[i] = mem[i]
    BY <2>8 DEF Alloc, heapVars
  <2>9. ASSUME NEW p \in owned, BeginFree(p) PROVE mem'[i] = mem[i]
    BY <2>9 DEF BeginFree
  <2>. QED  BY <1>1, <2>2, <2>3, <2>4, <2>5, <2>6, <2>7, <2>8, <2>9
            DEF SmallHeapNext, Operation
<1>2. Inv /\ [SmallHeapNext]_smallHeapVars
        => [Store \/ \A o \in owned \cap owned' :
                       \A i \in Payload(o) : mem'[i] = mem[i]]_smallHeapVars
  BY <1>1
<1>. QED  BY <1>2, HeapInvariance, PTL DEF SmallHeapSpec, OwnedUntouched
=============================================================================
