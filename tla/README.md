# The Insense runtime in TLA+

Insense is a language of components that share nothing and talk over
synchronous, typed channels. This directory models its C runtime (`src/`): the
channels, the connections between them, the life of component threads and the
cores they are placed on, the private heaps they allocate from, the list of what
they take from `malloc`, the reference counts that free what they allocate, and
the library: the string map, conversions, frames and searches. Each module is a
translation of the C source; this file says which
code it translates, what the TLC runs and the TLAPS proofs establish, and what
is left out.

Run the tools in this directory: `tlc -config X.cfg M` for a run of the table
below, `tlapm M.tla` for the proofs of a `...Proofs` module. `PROJECT.json` maps
every definition to the lines it models and lists the runs, the mutants (a small
change of a definition, the way a bug in that code would look, with the property
that catches it), the findings, the hazards and the theorems.

## 1. The system

A program is `primordial_main`, which the compiler generates, and a set of
components. Each component is a pthread with its own heap; components share
memory only through half-channels and through values sent over them.

| part | source | state | operations |
|---|---|---|---|
| Channels | `channel.c`, `channel.h` | per half-channel: `ready`, `buffer`, the list `connections`, the semaphores `conns_sem`, `blocked`, `actually_received`, a mutex | `channel_create`, `channel_send`, `channel_receive` |
| Connections | `channel.c` | the same, the half-channel's `ref_count`, and the global `conn_op_mutex` | `channel_bind`, `channel_unbind`, `Channel_decRef` |
| Iterated list | `IteratedList*.c`, `IteratedList.h` | `first`, and the cursor `next` that keeps its place between calls | insert, remove, get next, get n-th, length, search |
| Small heap | `DAL_SH_mem_common.c` | the words of the heap, the index `available` of the first free block | `SH_init`, `SH_alloc_at_base`, `SH_free` |
| Components | `component.c` | the component's struct: `stopped`, `component_create_sem`, `behav_thread`; the global `thread_lock` | `component_create`, `startRoutine`, `component_stop` |
| Start and end | `runtime_main.c` | `threadList`, `SHList`, `mallocList` | `main` |
| Thread-safe list | `ThreadSafeList.c` | items, a mutex | add, join all, look up by thread ID, remove, destroy |
| Reference counts | `DAL_mem_common.c` | the header before every object: `ref_count` (63 bits) and the contains-pointers flag (1 bit) | `DAL_alloc`, `DAL_assign`, `DAL_incRef`, `DAL_decRef`, `DAL_free` |
| Containers | `String.c`, `IArray.c`, `AnyType*.c` | objects that refer to objects | constructors, projections, `..._decRef` |
| Big heap | `DAL_BH_mem_common.c` | none (`malloc`); with small heaps, `mallocList` | `BH_alloc`, `BH_free` |
| Placement | `affinity.c`, `StandardFunctionsSetCore.c` | `lastUsedCore`; off in the build (`AFFINITY_ALGO` 0) | `receiveCoreIdForThread`, `setAffinityToCore`, `setCore` |
| String map | `strmap.c`, `strmap.h` (not in the Makefile) | an array of buckets, each an array of pairs | `sm_new`, `sm_delete`, `sm_get`, `sm_put`, `sm_exists`, `sm_get_count`, `sm_enum` |
| Library | `StandardFunctions*.c`, `cstring_*.c`, `print_tc.c`, `StdOut.c` | a static buffer of `myitoa` | conversions, comparisons, averages, frames, output |

How they interact:

* A component calls `channel_send` and `channel_receive` on half-channels it
  owns. The calls of two components meet in the half-channels: each announces
  itself in its own (`ready`), polls those it is connected to under both ends'
  mutexes, transfers if both are ready, and otherwise parks on `blocked`. A
  sender that transfers hands over a pointer and waits on the receiver's
  `actually_received`; a receiver that transfers copies at once.
* `connect` and `disconnect` statements call `channel_bind` and
  `channel_unbind`, from any component, while others send and receive. They
  change the connection lists of both ends. `conns_sem` is the right to use a
  list: a call holds it while it polls, an unbind takes it on both ends.
* Components are created by `primordial_main` and by components. The creator
  holds `thread_lock` from before `pthread_create` until the heap of the new
  thread is on `SHList`; the new thread passes through the lock first. Then the
  creator puts the thread on `threadList` and waits for the constructor. `main`,
  after `primordial_main`, joins the threads of `threadList`, to which components
  may still be appending.
* `DAL_alloc` takes memory from the heap of the calling thread, which
  `listGetMemoryLocation` looks up by thread ID, or from `malloc`. What `main`
  takes from `malloc` while there are small heaps is put on `mallocList`;
  `DAL_free`, called by whichever thread drops the last reference, looks the
  block up there to tell which of the two it came from.
* A creator asks `receiveCoreIdForThread` for a core for the thread it created,
  under `thread_lock` if there are small heaps and under no lock otherwise.
* `DAL_assign` and the constructors keep counts; a count that reaches 0 calls
  the object's decRef function, which drops the references it holds in turn.

What is hard, and what must be true:

| part | what is hard | what makes it correct |
|---|---|---|
| send/receive | two ends poll each other at the same time; a call that found no partner is chosen by one meanwhile; wake-ups and acknowledgements are plain semaphores, of the half-channel and not of the transfer | no rendezvous is lost; a wake-up per transfer; each transfer atomic and exclusive; the sender's variable stays put until copied; every matched call returns |
| bind/unbind | the lists change under calls that read them without a mutex; `conns_sem` is read and posted in two steps; failures return early; a loop over a list that shrinks | nobody tries a connection that is gone; one right per list; mutexes released on every return; unbind ends; a half-channel counts what refers to it and is destroyed when nobody will touch it |
| small heap | block sizes off by one word; order of frees; a list threaded through memory that the program also writes | blocks tile the heap; the list is exactly the free blocks in order; held memory is never touched; NULL only when nothing fits; the loops end |
| lifecycle | the new thread runs before its creator is done; components create components while `main` joins; thread IDs are reused, and compared after truncation | everybody joined before the end; every allocation finds a heap, the component's own as far as IDs can be told apart; no deadlock on `thread_lock` |
| `mallocList` | walked without its mutex while items are unlinked, freed and used again; a block is freed before it is taken off the list | links intact; a block in use has its entry; a look-up misses only in a race |
| placement | three accesses to `lastUsedCore`, no lock of its own | cores that exist, in turn |
| string map | three allocations per new key, any may fail; values written in place | it is a map; memory given back; values fit |
| library | numbers at the edges of their width, texts at the edges of their buffers | each function computes what it is for, on stated inputs |
| counts | self-assignment; temporaries; recursive decRef; failed constructors; arrays of length 0; bit-field widths | count = references at every step; nothing dangling; nothing forgotten |

## 2. Modules

| module | models | depends on |
|---|---|---|
| `IteratedList` | the list with a cursor, as operators on records | |
| `Rendezvous` | `channel_send`, `channel_receive`, over fixed connections | `IteratedList` |
| `SyncChannel` | abstract: what a synchronous channel is | |
| `Channel` | `channel_bind`, `channel_unbind` beside sends and receives | extends `Rendezvous` |
| `SmallHeap` | one small heap, its loops a turn at a time | |
| `Lifecycle` | components, threads, `main`, `threadList`, `SHList` | |
| `Memory` | reference counts and the containers, for one thread | |
| `MallocList` | `mallocList`: `SH_alloc`, `SH_free` and the list's operations, node by node | |
| `Placement` | `affinity.c` and its call in `component_create` | |
| `StringMap` | abstract: what `strmap.h` promises | |
| `StrMap` | `strmap.c`, allocation by allocation | implements `StringMap` |
| `Conversions` | numbers to text, text to numbers, widths, averages | |
| `Frames` | copies, comparisons, and the frames of `print_tc` | |
| `ListSearch` | `searchList`, `getRandomElement` | extends `IteratedList` |
| `Library` | `StrMap`, and the functions on chosen inputs | extends `StrMap`, `Conversions`, `Frames`, `ListSearch` |
| `MCRendezvous`, `MCChannel` | topologies for TLC | extend `Rendezvous`, `Channel` |
| `MCThreads` | for TLC: what threads share, in one build | extends `MCChannel`, `MallocList`, `Placement` |
| `MCComponents` | for TLC: the life of components, and one small heap | extends `Lifecycle`, `SmallHeap` |
| `MCLibrary` | for TLC: what one thread does alone | extends `Library`, `Memory` |
| `RendezvousProofs`, `ChannelProofs`, `SmallHeapProofs`, `LifecycleProofs`, `MallocListProofs`, `PlacementProofs`, `LibraryProofs`, `MemoryProofs` | the theorems | each extends its module (`LibraryProofs`: `Library`); `ChannelProofs` also extends `RendezvousProofs`, for the lemmas about calls |

`Channel` composes with `Rendezvous` by extending it: its next step is a step of
a sender or a receiver of `Rendezvous`, unchanged, or one of a connector. All
half-channel variables are shared.

### IteratedList

A list is a record: `elems`, the payloads from `first` on, and `next`, the index
of the node the cursor points to (0 for NULL). Nodes are not modelled one by
one; each operation is what it does to the sequence and to the cursor, and the
cursor survives insertions at the head and moves on when its node is removed, as
in the code.

### Rendezvous

`Outs` and `Ins` are the half-channels; the variables `ready` to
`actually_received` are the fields of `struct Channel`, the others the locals of
the call in progress. One step is one semaphore operation, one mutex
acquisition, one read of state that no mutex protects (the list's length, the
cursor, `conns_sem`'s value), or one stretch of code under the mutexes it needs.
A release is part of the step before it, which no other thread can tell apart. A
half-channel is used by one thread, its component's, so the actions of a call
are indexed by the half-channel. A pointer to the sender's variable is the
sender: `CopyData` reads what the variable holds at that moment, so a sender that
returned too early and sends something else is seen to corrupt the value.

`SyncChannel` says what this is for: senders offer, receivers ask, and one atomic
step takes a pair out of its wait. `Rendezvous` implements it under the mapping
`StatusBar`, `ItemBar`, `LinksBar`.

### Channel

Adds the connectors, threads that call bind and unbind with any half-channels,
and `conn_op_mutex`. A bind of incompatible half-channels (same direction, or
types of different size) is refused before the mutexes are taken; a bind of a
pair already bound returns with the channel mutexes held, as the code does. The
two accesses of `conns_sem` in a bind, `sem_getvalue` and `sem_post`, are two
steps. An unbind locks the receiving end first like the calls; it reads
`getElementN` and the length again each turn.

`refs` is the reference count of each half-channel and `life` what has become of
it: kept by its component, left by it, in its decRef function, freed. A
connection is a reference (`insertElement` counts its payload, `removeElement`
drops it), and so is the component's own, which `Drop` gives up. A count that
reaches 0 outside an unbind starts `Channel_decRef`; inside one it calls
`channel_unbind` under `conn_op_mutex`, which that very thread holds and which is
not recursive: the thread stands at `self_lock` for ever. It may be the opposite
that goes, in the first `removeElement` (`DisconnectLast`), or the half-channel that
the unbind was called with, in the second (`DisconnectOwn`). A component drops a
half-channel only when it is not calling on it and no connector works on it: then
somebody holds the component's object. A connector names any half-channel that
something refers to (`Referenced`), one that its component has dropped but that is
still connected too; only its component calls on a half-channel (`Kept`). Whether
generated code keeps a reference of its own to what it unbinds is outside `src/`.

### SmallHeap

`mem` is the array of words; a block is its size and then its payload, and the
free list is threaded through the last payload word of free blocks. One step is
one turn of a loop, so what the loops reach, and that they end, is checked and
not assumed. `owned` is what the program holds and may store into (`Store`),
`free` is auxiliary: the blocks that ought to be on the list. Sizes are in bytes
and are rounded up as the code does.

### MallocList

The items are nodes with `prev`, `next` and `value`, in a bounded memory from
which a freed item can be taken again. `at` is the local `listItem` of each
thread. A look-up (`listGetMallocedMemoryAdr`) and the read of the head in
`listRemove` take no lock, so each node visited is a step; `listAdd` and the
unlinking hold the mutex and are one step, since those who read without it meet
them at a single write. A freed item keeps its `next` and loses its `value`, as
it does in the C library's allocator, until it is used again; a look-up that walks
onto one goes where it points (`astray`, after which nothing more is modelled: what it
reads is undefined). `heaps` chooses the build: without small heaps
everyone allocates from `malloc` and nobody looks at the list.

### Placement

`receiveCoreIdForThread` increments `lastUsedCore` (a read and a write), reads it
into `newCore`, and sets it to 0 past the last core: four steps. `thread_lock`
is taken around them in the build with small heaps only. Only the part of a
component's life that matters to this is in the module; the rest is `Lifecycle`.

### StringMap and StrMap

A map holds for every key a value or none; a call answers with its result and
what it wrote. A put that needs memory (`NeedsMemory`) may fail, and then changes
nothing; one that does not need any does not fail. `sm_enum` answers 1 when it has
called its function for every pair.
`StrMap` keeps the buckets as sequences of pairs with the size of each value's
memory, and counts the blocks allocated: `sm_put` of a new key is a step for each
of its three allocations. The hash is any function, fixed at the start. `hash` is a
pure function of a key's characters in the code: every distribution of keys over
buckets is explored instead.

### Conversions, Frames, ListSearch

Pure functions, each an operator beside the definition of what it should compute
and of the inputs on which it does (`FunctionsAgree`, `SearchFinds`). A text is
the sequence of its characters, a real an exact number of units of 1/`Unit`. `atoi`
keeps the lower half of what `strtol` returns, which stops at the limits of a long,
as glibc does on a 64-bit machine; an address printed as an int comes back cut to an
int. The 16-bit checksum of a frame is a set of exponents, a shift a multiplication
by x. `print_tc` escapes nothing, and its receiver, which is not in `src/`, takes what
is between the first flag and the next (`Body`). A search is followed to where it
leaves the cursor (`AfterSearch`).

### Lifecycle

A component is its thread; its heap is its element of `SHList`. `heaps` chooses
between the builds with and without small heaps. An ID of a thread is free again
once it has been joined, and `listGetMemoryLocation` compares IDs after
truncation (`Compared`). What a component does is generated code: creating and
stopping others, posting `component_create_sem` when its constructor is done,
returning at some time. `component_stop` only sets a flag, which the generated loop
tests.

`listAdd` is one step. It holds the list's mutex, but `listJoinThreads` and
`listGetMemoryLocation` read without it; they meet it at the one write that links
the new item, which the model takes to be seen as a whole (true of an aligned
pointer on the machines the runtime is built for).

### Memory

Blocks of six kinds: literal strings, strings with their characters, arrays with
their data, and anys. A typed program constructs, assigns and calls library
functions that hold their parameters for a while (`stringCompare`, the printing
functions). `todo` is the stack of `decRef` calls still to be made: a count that
reaches 0 pushes those of the object's own references, so every intermediate
state of a cascade is checked. Any allocation of a constructor may fail; what is
then forgotten is remembered in `lost`. `length` and `ref_count` wrap at
`LengthMod` and `CountMod` like the bit-fields they model.

## 3. What is checked

Passing runs; all explore every reachable state of the instance.

| run | instance | states | what it shows |
|---|---|---|---|
| `chain` | 2 senders, 2 receivers, all connected but one pair, sending and receiving for ever | 2.1 M | `NoLostRendezvous`, `WakeupMatchesTransfer`, `TransferExclusive`, `AckConservation`, no deadlock |
| `star` | 1 sender, 2 receivers, two values, every set of connections: none, either, both | 77 k | `SynchronousTransfer` (refinement of `SyncChannel`); `RendezvousHappens`, `MatchedReturns` (liveness) |
| `disconnect` | 1 sender, 2 receivers, one connector unbinding any of them at any time, receivers' components that drop them | 513 k | `MatchConnected`: nobody tries a connection that is gone; `UnbindReturns` (liveness) |
| `threads` | channels: 1 sender, 1 receiver, two connectors binding and unbinding, components that drop their half-channel. `mallocList`: main and 2 threads, 2 blocks, 3 items. Placement: 3 components on 2 cores. Both builds, the 3 algorithms | 374 k | `OneRightPerList`: `conns_sem` is a faithful right to the list through any history; lists stay paired (`ConnTypeOK`); `ChannelLifetime`: counts, and what becomes of a half-channel that is dropped; `ListIntact`, `EntriesCover`, `LostOnlyInRace`; `RoundRobin` |
| `components` | life: 3 components, 3 IDs of which two are alike when truncated, both builds. Heap: 8 words; requests of 1, 8, 13 bytes (1, 2, 4 words) | 564 k | `AllJoined`, `HeapFound`, `OwnHeapUnlessAlike`, `ProgramEnds` (liveness); `Tiled`, `FreeListSorted`, `OwnedUntouched`, `NullOnlyIfNoneFits`, `OperationsEnd` (liveness) |
| `library` | string map: 3 keys in 2 buckets under every hash. Functions: the inputs of `Library`. Memory: 5 blocks, 2 string variables, an array and an any, lengths 0 to 2 | 122 k | `PairsSound`, `MemoryExact`, `IsStringMap` (refinement of `StringMap`); `FunctionsAgree`, `SearchFinds`; `CountExact`, `NoDangling`, `NothingForgotten`, `CallsDecRefFunction` |

`threads`, `components` and `library` each hold parts that share no variable. In
each, one part moves only while the others are where they began, so that the run is
the sum of its parts and not their product: a step of another part is no step of
this one, and no property speaks of two. No fairness is lost: a part that stands at
its beginning has nothing it is obliged to do.

Why the bounds are enough:

* **chain** is the smallest net in which a sender has two receivers, a receiver
  has two senders, and they are each other's: every interference between a pair
  and a third and a fourth party occurs. Cursors wrap around. The proofs show
  all five of its properties for any net.
* **star** leaves out receivers with two senders, because there the sender's
  variable is not held until it is copied (see the findings) and the refinement
  fails with it: the run shows exactly where the promise does hold, and
  `TransfersSynchronous` proves it there for any net. Two values distinguish the
  data of two sends. Where nothing is connected every call waits, so the run has
  `CHECK_DEADLOCK FALSE`.
* **disconnect** is the smallest net where an unbind shortens a list that stays
  in use and where its loop meets two elements. A receiver that is dropped is
  unbound by the sender's unbind or by its own. The unbind that drops the last reference
  to it stands for ever (section 6), so the run has `CHECK_DEADLOCK FALSE`.
* **threads**, channels: there are two connectors because every interleaving of a connector with
  a call and with the wait of another connector for `conn_op_mutex` then occurs.
  One pair is enough for `OneRightPerList`, whose violation needs one list to be
  emptied and refilled, and enough for every order of drops and of the unbind that
  removes the last reference to either end. With a second receiver the property fails in the way
  the findings describe, and `NoLostRendezvous` in the way section 6 describes.
  Binding a bound pair blocks everything for ever (a finding), and so does an
  unbind that drops the last reference (section 6), so the run has
  `CHECK_DEADLOCK FALSE`.
* **threads**, `mallocList`: a look-up can be overtaken by the removal of the item it stands at,
  by the reuse of that item, and by both; two blocks and three items (one for each
  block and one for a removal still to come) give all of them. A look-up that went
  astray stops the run. Placement: three
  components on two cores wrap around and leave a creator in each of the four
  steps while another is in them. The threads beside `Main`, the blocks, and the items
  (whose names the components of the placement share) are symmetric; the run checks no
  liveness.
* **components**, life: three components suffice for one that creates another while
  `main` joins and a third that reuses an ID. `Low` is 2, where the code has 2^32: of
  the IDs 1 to 3, 1 and 3 are alike when truncated, so that a component can be taken
  for one that is gone, for one that runs, and for neither. `main`'s return ends the
  process, so the run may stop (`CHECK_DEADLOCK FALSE`).
* **components**, heap: 8 words hold up to four blocks, so a block can be freed with
  free blocks, held blocks or the heap's ends on either side: every case of the
  split (rest 0, 1, 2 and more) and of the joins occurs; 9 words (1.2 M states) were
  checked too. `Contents` is one value
  because a stored 0 is the worst link. The proofs cover every size.
* **library**, string map: with three keys in two buckets a bucket holds 0 to 3 pairs, and a key is
  looked for behind others, before others and alone. Values of length 1 and 2
  and rooms of 2 and 3 are a value that fits, just fits and does not. Functions: `Unit` 1000
  keeps three decimals, `IntLimit` 16384 and `BufferSize` 7 stand for 2^31 and 32:
  the inputs around them are those around the code's, with numerals beyond an int
  that come back as another number. The bytes and the checksum
  have the code's own widths; one line has a flag in its text, and one a byte that a
  single inverted bit makes a flag.
* **library**, memory: five blocks hold an array of strings with its data and two
  strings; an any that holds an array that holds a string; or a string with its
  characters beside an array. The lengths 0 (one element all the same), 1 and 2
  are the cases of the code. `LengthMod` is 4 where the code has 1024, above the
  lengths used (see section 6). `CountMod` is 32, more than there can be references
  (`MemoryAssumption`).
  `Blocks` and the string variables are symmetric; the run checks no liveness.

Fairness. `FairSpec` of `Rendezvous` assumes weak fairness of each thread inside a
call: pthreads keep running a thread that can run. It does not assume that a
component calls again, nor any order among the threads waiting for a mutex or a
semaphore, which POSIX does not promise. `RendezvousHappens` and `MatchedReturns`
hold with that alone. `UnbindReturns` has two escapes: if components go on calling
for ever they may overtake the unbind at `conns_sem` for ever, and an unbind that
drops the last reference to a half-channel stands for ever (section 6). It says that an
unbind returns, or has come to `self_lock`, or there are infinitely many calls. `SmallHeap` assumes that the
thread inside an operation runs on. `Lifecycle` assumes that threads that can run
do, that constructors finish, and that a component that was stopped tests its loop
condition: this is what the field `stopped` of `component.h` is for, and without
it no program that stops its components would end.

## 4. Findings

Each is a run that TLC must find violated; `PROJECT.json` quotes the line of the
comment that the code contradicts.

* **two_senders** (`BufferHeld`, 2 senders on 1 receiver). `actually_received` is
  the receiver's and does not say which sender it acknowledges. Sender A's data is
  copied and acknowledged; before A wakes, the receiver calls receive again,
  sender B transfers, takes A's acknowledgement and returns while its data is still
  to be copied. B may change its variable at once.
* **bind_while_sending** (`ConnsSemNeverAboveOne`, a bind beside a call). The bind
  reads `conns_sem` as 0 while a call holds it; the call posts it; the bind posts
  it again.
* **rebind** (`ReturnedHoldsNoMutex`). A bind of a pair already bound returns
  without unlocking the two channel mutexes.
* **unbind_all** (`UnbindRemovesAll`, a sender with two receivers). The comments say
  that an unbind disconnects "from all other chans" (`channel.c:63`) and iterates
  through the list (`:124`). Its loop goes up in a list that goes down: it removes
  every second connection and leaves the rest. How many it leaves is the theorem
  `UnbindsRemoveHalf`.
* **truncated_ids** (`HeapsPrivate`, two components). The repository's README speaks of
  a private heap for each component. `listGetMemoryLocation` compares thread IDs as
  `unsigned int` (`ThreadSafeList.c:175`) although a `pthread_t` has 64 bits: two
  components that run with IDs alike in the lower half allocate from one heap, which
  no lock protects. An ID used again has the new component allocate from a dead one's
  heap, because elements are never taken off `SHList`. `OwnHeapUnlessAlike` and the
  theorem `HeapsArePrivate` say exactly when a heap is private.
* **conversions** (`NumbersKept`). `parseReal` divides the fraction, read as an integer,
  until it is not above 1: 1.05 is read as 1.5, 1.10 as 2.0, and -0.5 as 0.5
  (`StandardFunctionsParseReal.c:18`: "to parse a real"). And `myitoa`, which "Copes
  with any base up to a maximum of 16" (`cstring_myitoa.c:12`), makes an empty text of 0
  and, in base 2, drops digits that do not fit its buffer. `FunctionsAgree` names the
  inputs on which each function is right, and is checked and in part proved there.

These runs stop at the violation and set `CHECK_DEADLOCK FALSE` where the
program may stop otherwise.

Other places where the code does not do what its text says are stated as what the
code does, and hold:

* The mutex of a list "Makes it thread-safe" (`ThreadSafeList.h:57`), but look-ups
  and the first read of a removal do not take it. A look-up that is overtaken by a
  removal can miss an entry or follow a freed item (`LostOnlyInRace` says exactly
  when; `ListIntact` that the list itself survives).
* The same README has components distributed evenly among cores. With small heaps
  they are; without them creators race on `lastUsedCore` and can skip a core or
  use one twice (`RoundRobin`).

## 5. What is proved

The theorems about components are of the form `Spec => ...`, for every value of the
constants under the named assumptions of the modules; those about functions are for
every argument.

**RendezvousProofs**: `TypeCorrect`, `NoRendezvousLost`, `WakeupsMatch`,
`TransfersExclude`, `AcksConserved`, for any sets of half-channels and any connections
that stay as they are
(`ChannelsAssumption`: senders and receivers are disjoint; `TopologiesAssumption`:
lists are paired and their cursors are on them, which the module's `Init` and
`channel_bind` make true). The inductive invariant `Inv` adds to the type
invariant and `WakeupMatchesTransfer`:

* `ControlInv`: where a call stands determines `active`, that `conns_sem` is held,
  and that the length it read is still the list's;
* `LockInv`: what a call locked is its own, and what it found ready stays ready;
* `BufferInv`: a sender on offer points to its variable, a receiver that has to copy
  has a pointer;
* `PendingInv`, the heart of the argument: when both ends of a connection are
  ready, one of them has still to try the other. `Pending` is what a call has not
  tried yet: the one in hand and those at positions the cursor has not passed,
  counted from where the cursor is now, whichever position it started at. A parked
  call has nothing pending, so two parked ends of a connection cannot both be ready.

`AcksConserved` rests on it: a receiver owes a copy (`CopyPending`) exactly if it is
about to make it or its wake-up is posted (`CopiesOwed`). A transfer adds a sender
that waits and a copy owed, the copy turns the one owed into one posted, and a sender
that returns takes one posted, so that those that wait are as many as the two
together, with any number of senders to a receiver.

`BuffersHeld` and `TransfersSynchronous` need that no receiver is connected to two
senders (`NoRivalSenders`), which the run `two_senders` shows to be necessary. `HeldInv`
is inductive with the invariants above: while a receiver owes a copy, the sender
whose variable it is to copy waits, and by `AckConservation` every acknowledgement
that is posted belongs to another sender that waits; the receiver has only the one, so
none is posted and it cannot return. The refinement is proved step by step:
the step that announces a call is `SyncChannel`'s offer or request, the step at which
both ends are ready under both mutexes is its transfer (`TransferSeen`; the value the
receiver will have is that of the sender's variable, which `BufferHeld` keeps until the
copy), the return is its return, and every other step changes nothing that the mapping
sees (`StutterSeen`).

`NoStandstill` is the part of "every call ends" that needs no fairness: in no state do
calls wait only for each other. `CanGo` is what a call's next step needs; if no call can
go, each is over, waits for connections it does not have, or is parked on offer, and no
two that are connected both wait (`StandsOnlyIfDone`). To `Inv` it adds that the owner of
a mutex is between taking and releasing it (`Owned`) and that the right to a list with
elements is at `conns_sem` or with a call (`SemsInv`). A call that waits for a mutex then
waits for an owner that waits, if at all, for the other mutex of its pair, and mutexes are taken
receiver first; an owner of both goes on. A call that waits for an acknowledgement is among
those `AckConservation` counts: one is posted, or its receiver, which has to copy, goes on.

**ChannelProofs**: for any half-channels, any number of connectors, any of the three
operations and any connections to begin with in which no list has a half-channel twice
(`TopologiesDistinct`: `channel_bind` refuses a connection that exists), `ConnTypeCorrect`
and `UnbindsRemoveHalf`. The inductive invariant `General` has five parts:

* `CallInv`: what `Rendezvous` says of a call and of wake-ups, as far as it survives lists
  that change: a match may be gone from the list, but is an end of the other kind;
* `ConnTypes`: the types of what connectors have;
* `ListInv`: each list has ends of the other kind, once each, that list it too, but for
  the one element that an unbind stuck at `self_lock` has left (`HalfPartedAt`);
* `ConnectorInv`: which step holds `conn_op_mutex` and which channel mutexes, that the
  loop of an unbind knows the length of the list, and that what a connector has in hand
  is not freed: kept, or left to the lists it is in (`NotFreed`), until an unbind that has
  come to `self_lock` has taken the last reference to one of its two ends;
* `LifeInv`: the count is the component's reference and the number of lists the
  half-channel is in (`Listing`), and one in its decRef function has an empty list and no
  call or connector at work on it.

`ListsHaveOneRight`, `MatchesConnected`, `LifetimesCorrect` and `ConnsSemBinary` have the
hypothesis `FewBinds`: there are no binds, or no half-channel has two possible partners,
so that a bind never adds to a list that has an element. The code does not guarantee it: the
run `bind_while_sending` shows that without it `conns_sem` becomes 2 and the rights
double; where the hypothesis holds, that defect does not reach. The runs
`threads` (one possible partner) and `disconnect` (no binds) are both instances. The
invariant `Rights` adds to `General` that `conns_sem`, the call that holds a right and the
unbind that holds one are together 1 for a list with elements, unless a bind has still
to post, and 0 otherwise (`RightAt`), that a call with the right has its match on its list (`CallRight`), and that a
bind between `sem_getvalue` and `sem_post` has just filled the list (`FreshBind`). An
unbind takes the right to both lists before it removes an element, so no call has it, and
no match can go. `ChannelLifetime` follows with `ListInv`: a half-channel that is freed is
in no list, so no call with a right tries it.

`TransfersSafeMeanwhile` needs no such hypothesis: what makes a transfer safe
(`CallsAgree`, from which the conservation of acknowledgements is proved for both nets) is
what two calls do under their mutexes, and holds also where the rights have doubled.
`NoStandstillHere` is `NoStandstill` with connectors, under `FewBinds`: where nobody can go
on, an unbind has come to `self_lock`, a bind that refused has left a mutex locked (sections 6 and 4),
or every bind and unbind has returned. An unbind waits for a right that, by
`Rights`, a call has, and that call goes on or is held up by one that does.

**SmallHeapProofs**: `BlocksTile`, `FreeListExact`, `NullMeansNoneFits`,
`StoredIsKept` and the module's type invariant `HeapTypeOK` (`HeapTypeCorrect`), for heaps of any size of at least 2 words
(`HeapAssumption`), requests of any positive size, and any contents. The invariant
adds where the loops stand: the search has passed only blocks that are too small
(which gives `NullOnlyIfNoneFits`), and the scan of a free stands between
neighbours of the block.

**LifecycleProofs**: `EveryoneJoined`, `HeapsFound`, `HeapsArePrivate`,
`HeapsAreOwn`, `LifecycleTypeCorrect`, for any number of components and any IDs.
`main` may reach
the end of `threadList` while components are being created, so it is not obvious
that nobody is left. The argument: a component that lives and is not on the list
has a creator about to put it there (`Created`); `main` creates nobody any more,
so that creator is a component that lives; if it is on the list it is not joined,
and if it is not, it has a creator itself. The chain cannot close into a circle
(`Ranked`: there is a numbering in which creators come before those they create),
so among those left one has no creator, a contradiction. `HeapInv`: `thread_lock`
is held wherever a started thread's heap is not on `SHList` yet, and IDs in use
differ, though they may be alike when truncated. `HeapsArePrivate` says that the
components that run have a heap each exactly as long as the comparison tells their IDs
apart (`ToldApart`), and `HeapsAreOwn` when the heap found is the component's own; neither
assumes anything of IDs or of `Compared`. They rest on `Numbered` (an element of `SHList`
belongs to a component that has or had a thread) and on which element a look-up finds
(`HeapOfMatches`).

`RestsOnlyForTheProgram` is `ProgramEnds` without its fairness: if no thread can take the
steps that the code owes it (`CreatorGoes`, `ComponentGoes`, `MainGoes`, which is what
the fair steps need), and there are IDs left, then nobody is in `component_create` or at
the gate, and `main` is in `primordial_main` or joins a component that runs, is known to
its creator and has not been stopped. `WaitInv` and `Expected` say who waits for whom: the
owner of `thread_lock` goes on (`LockOwned`), a child's semaphore is its creator's alone (`Awaited`),
a component whose constructor has not been acknowledged has a creator at it (`Expected`), and
the creators that wait for each other's children can be counted down (`Descends`), so that the one
at the end of the chain waits for a constructor that goes on.

**MallocListProofs**: `EntriesAreCovered`, `LostOnlyInRaces`, for any number of
threads and blocks and any finite number of items. A block is known to one call
until it is freed (`Addresses`), so a block in use has no removal of its own to come,
and `Covering` counts entries against removals and that use. For what a walk finds,
the invariant says that the items can be numbered (`Ordered`) so that `next` and
`prev` are neighbours and `head` and `tail` are the ends: adding gives the new item the
largest number, and unlinking needs no new numbers. A thread that no removal has
overtaken stands before an entry of its block or on it (`AheadAt`), which exists by
`Covering` when it starts at the head; so it cannot reach the end of the list.
Because the mutex is held at `remove`, no other thread is there when an item goes
(`Locking`). `ListStaysIntact` follows from the same numbering: the n-th item that a walk
from the head comes to has exactly n items before it, which are those the walk passed
(`ItemsBefore`), so the walk ends, within as many steps as there are items, and has passed
all of them.

**PlacementProofs**: `PlacementInvariance`, `CoresInTurn`, for any number of
components and cores and any order of creation. In the build with small heaps only
the owner of `thread_lock` is between the four steps (`Locked`), so `lastUsedCore`
is the last core given, or the next while a creator is in the middle (`Tracked`),
and the cores given so far are in turn (`Dealt`). Without the lock only `Counted`
is left, and the core given exists.

**LibraryProofs**, of the string map: `PairsAreSound`, for maps of any capacity, any keys, values and
hash. The invariant adds that while `sm_put` is allocating for a key, the key has
no pair yet (`KeyIsNew`); `GetPairFinds` says that the search of a bucket, which
stops at the first match, finds a pair exactly if there is one. `MemoryIsExact`: the
blocks of all buckets are a sum (`IsSum`), which changes by what one bucket changes by
(`SumChanges`), and without a map there is neither a pair nor a call (`ClosedEmpty`).
`IsTheStringMap`, the refinement of `StringMap`: what a look-up returns is the value of
the key's only pair (`ValuesFound`), so a bucket in which one key's pair is new and the
others are as before is one assignment (`AssocAssigned`); the pairs counted over all
buckets are the keys that have one (`PairsAreKnown`); and each call is the abstract call
of its name, one step of a `sm_put` that fails is a put that fails, and its allocations
that succeed are stutters (`StepPromised`). `LibraryHasStrMap` carries these to the
specification of the run, in which functions are called beside the map.

Of the functions, each for every argument: `SearchesFind` (and with it
`SearchFindsAlways`, under `LibraryAssumption`: no payload is NULL), because the calls of
`getNextElement` go round the list (`GoesRound`) and the first payload cannot come again
before the end if it is there once (`RoundIs`); `IntsAgree`, for any width of int;
`RealsAgree`, for any unit that 100 divides, as the one of the run does; `AllTextsAgree`;
`FramesRead`: if no byte of what `print_tc` sends is a flag, the other end takes just that
and accepts it, and otherwise it takes less; `ByteErrorsFound`: in a frame without a flag
inside, one byte that arrives as any other but a flag is noticed, because the register
after a byte determines the register before it (a shift loses nothing), so that two
contents that differ in one byte never have the same checksum; and `CopiesUnlessInside`, by induction over the bytes copied, with
`CopiesAgree` for the memory of the run. These are the parts `IntAgrees`, `RealAgrees`,
`TextsAgree`, `CopyAgrees` (for blocks inside its memory) and, but for two inverted bits, `FrameAgrees` of `FunctionsAgree`.

**MemoryProofs**: `MemoryCountExact`, `MemoryNoDangling`, `MemoryNothingForgotten`,
`CallsOnlyDecRefFunctions`, `MemoryTypeOK`, for any blocks, variables and lengths of
arrays that fit their bit-field (`ShortArrays`; section 6 says what happens to longer
ones), and counts that hold as many references as there can be (`MemoryAssumption`).
`MemoryInv` has five parts:

* `Typed`: what each kind of block holds, and that it refers only to blocks of kinds
  below its own (`Below`, `Rank`);
* `TodoTyped`: the calls still to be made. A `clear` of array data comes before the
  `decRef` that would otherwise call its first word; only a block whose count is 0 and
  whose fields are dropped is freed; and what `DAL_assign` is still to store is not
  among what is dropped before it, because what a block refers to is of a lower kind
  than what the assignment can reach;
* `Unused` and `Remembered`: a count is 0 only while the block is a temporary, lost, about
  to be freed, or about to be stored, and nothing refers to such a block;
* `Counted`: the count is the number of references, as the cardinalities of three finite
  sets: variables, fields (the place about to be overwritten excepted) and calls to come.

Only `Counted` mentions numbers; each step changes each of the three sets by one element
at most, but for the `decRef` functions, which turn fields into calls one for one.

Recursive functions (`ItemAt`, `BlocksBefore`, `PairsBefore`, `Copied`) are unfolded by proving
that a function with their equation exists, and properties of them by induction over the
set of the numbers for which they hold (`NatSetInduction`), which needs no operator
parameter.

Only model-checked: liveness (`RendezvousHappens`, `MatchedReturns`, `UnbindReturns`,
`OperationsEnd`, `ProgramEnds`), which the prover does not handle: `NoStandstill`,
`NoStandstillHere` and `RestsOnlyForTheProgram` prove that there is always somebody who can
go on, and that fair scheduling then brings every call to its end is TLC's. Of `FunctionsAgree`,
what parses and prints digits (`parseReal`, numbers as text), averages and two inverted
bits, whose folds and recursive functions would need induction over texts; they are checked on the
inputs of the run.

## 6. What the models show beside the properties

* **A rendezvous lost on rebinding.** If a sender and a receiver are both parked,
  are unbound and bound again (as part of a larger net), neither polls again and
  both wait although they are connected. No document promises otherwise, so it is
  recorded as a hazard and not as a finding.
* **An unbind that waits for itself.** If a component has dropped a half-channel that
  is still connected, the connection keeps it in memory, and the unbind that takes
  the last connection away, called with it or with its partner, drops the last
  reference while it holds
  `conn_op_mutex`; `Channel_decRef` then calls `channel_unbind`, which locks the
  same mutex (`channel.c:63`). `ChannelLifetime` says that this is the only way a
  dropped half-channel is parted from its last partner, and that where
  `Channel_decRef` does run to its end its own unbind has nothing to do.
* **A pair that nobody uses.** Two half-channels that are connected refer to each other:
  when the components of both have dropped them their counts stay above 0, and neither
  is ever freed.
* **Blocks listed twice.** `SH_free` frees a block before it takes its address off
  `mallocList` (`DAL_SH_mem_common.c:197`); in between, `malloc` can return it to
  another thread. `EntriesCover` shows that one entry per removal is taken off, so
  that this loses nothing.
* **Searching a list twice over.** `searchList` ends where it meets the first
  payload again: a payload that is twice in the list can end it early
  (`SearchFinds`).
* **Fragmentation.** `SH_free` joins a freed block to the free block after it only
  when the block before it on the list is adjacent, or when it comes before the
  first free block (`DAL_SH_mem_common.c:237`): a heap in which everything has been
  freed can be in pieces. `Tiled` and `NullOnlyIfNoneFits` hold; a property
  "everything freed is one block" would not.
* **Array lengths.** `IArray`'s length is a bit-field. An array as long as the
  field's modulus has recorded length 0, counts all its elements and drops one.
  `CountExact` fails for such lengths, and the run `library` stays below.
* **Failed constructors** lose the first block and a temporary they were given
  (`lost`): `NothingForgotten` holds up to these.

## 7. What is not modelled

* A block of one component's small heap that is freed by another's thread
  (`SH_free` then takes the calling thread's heap).
* Counts changed by several threads at once: `ref_count` is a plain bit-field, and
  both `Memory` and `Channel` change it in one step.
* Values of which one is reached only through another of its own kind: arrays hold
  strings or numbers, and anys strings, arrays or numbers, where the code also has arrays
  of any objects and anys of structures, interfaces and channels
  (`AnyTypeConstructCommon.c:29`). `DAL_assign` drops the old value before it counts the
  new (`DAL_mem_common.c:66-74`), which would free a new value reached only through the
  old one; no assignment of the modelled types is of that form.
* `removeAllElements`, which `List_decRef` would call only on a list that is not
  empty; `ChannelLifetime` shows that it never is.
* `pthread_create` failing: its result is not tested. `malloc` failing for an
  item of a list, whose result is not tested either.
* In the library: `squareRoot`, whose end depends on how floats round; the last
  bits of reals in general; `myitoa`'s static buffer as shared by threads (only
  `address_to_string` calls it); the receiver of frames, which is not in `src/` and is
  taken to read from one flag to the next; functions that only print.
* Function pairs, error output, events, the constants of the build.
* `channel_select`, a stub that returns 0, and two functions declared but never
  defined.

## 8. Plan

Built in the order of importance: the rendezvous and its proofs, connections, the
heap and its proofs, the lifecycle and its proofs, counts; then `mallocList` and
placement and their proofs, the string map and the library, the life of channels; then
the proofs of counts, of the string map's promise, of the list's links, of synchronous
transfer and of connections, that none of these comes to a standstill, and of the functions
of the library. Next:

1. **Shared counts**: two threads, `ref_count` read and written in two steps; where
   the runtime's own use of channels and strings makes counts meet.
2. **Several small heaps**, and blocks that change hands.
