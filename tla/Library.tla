------------------------------ MODULE Library ------------------------------
(***************************************************************************)
(* The parts of the library that share nothing: the string map, and the    *)
(* functions.  A function is called with one of the inputs below while     *)
(* there is no map (and under one hash, which it does not depend on): a    *)
(* step chooses the input, the invariants say what it computes.            *)
(***************************************************************************)
EXTENDS StrMap, Conversions, Frames, ListSearch

(* For a run: a value is given as its length. *)
LengthOf(v) == v

VARIABLE call

libraryVars == <<strMapVars, call>>

NoCall == [fn |-> "none"]

-----------------------------------------------------------------------------
(* Inputs *)

SeqsUpTo(S, n) == UNION {[1 .. k -> S] : k \in 0 .. n}

Around(n, d) == n - d .. n + d

(* 16383 is the largest int; 32769 and 65537 leave 1 of their bits. *)
AtLimit ==
  {<<1, 6, 3, 8, 3>>, <<1, 6, 3, 8, 4>>, <<3, 2, 7, 6, 9>>, <<6, 5, 5, 3, 7>>}

Decimals == [fn : {"parseReal"}, negative : BOOLEAN,
             whole : (SeqsUpTo({0, 1, 2}, 2) \ {<<>>}) \cup AtLimit,
             fraction : (SeqsUpTo({0, 1, 5}, 3) \ {<<>>}) \cup AtLimit]

Reals == [fn : {"real"}, r : Around(0, Unit + Unit \div 2)]

(* The squares of 127 and less fit. *)
Ints == [fn : {"int"}, i :
  {n \in Around(0, 260) \cup Around(- IntLimit, 3) \cup Around(IntLimit, 3) : Fits(n)}]

Texts == [fn : {"text"}, base : {2, 10, 16}, val :
  (0 .. 40) \cup Around(10 ^ 3, 3) \cup Around(IntLimit, 3) \cup Around(2 * IntLimit, 3)]

IntArrays == [fn : {"average"}, a : SeqsUpTo({-2, 0, 3}, 3)]

(* One has the flag in it, and one a byte that is a bit away from it.       *)
Lines == {<<>>, <<{0, 5, 6}>>, <<Flag \ {3}, {0, 5, 6}>>, <<Flag>>}

(* A line, and two bits between the flags of its frame that are inverted. *)
Transmissions ==
  {t \in [fn : {"frame"}, s : Lines, k : 2 .. 15, bit : {0, 3, 7},
          l : 2 .. 15, other : 0 .. 7] :
     t.k <= t.l /\ t.l <= Len(Sent(t.s)) + 1}

Copies == [fn : {"copy"}, dest : 1 .. 5, src : 1 .. 5, size : 0 .. 3]

TwoTexts == [fn : {"texts"}, s : SeqsUpTo({1, 2}, 3), t : SeqsUpTo({1, 2}, 3)]

Payloads == {1, 2, 3}

Searches ==
  [fn : {"search"}, keys : SUBSET Payloads,
   l : {m \in [elems : SeqsUpTo(Payloads, 4), next : 0 .. 4] : WellFormed(m)}]

(* No payload is NULL. *)
ASSUME LibraryAssumption == NULL \notin Payloads

Inputs ==
  UNION {Decimals, Reals, Ints, Texts, IntArrays, Transmissions, Copies, TwoTexts, Searches}

-----------------------------------------------------------------------------
LibraryInit == StrMapInit /\ call = NoCall

CallFunction(c) ==
  /\ call' = c
  /\ UNCHANGED strMapVars

ReturnFromFunction ==
  /\ call # NoCall
  /\ call' = NoCall
  /\ UNCHANGED strMapVars

LibraryNext ==
  \/ call = NoCall /\ StrMapNext /\ UNCHANGED call
  \/ /\ call = NoCall /\ ~ map
     /\ \A k \in Keys : hash[k] = 0
     /\ \E c \in Inputs : CallFunction(c)
  \/ ReturnFromFunction

LibrarySpec == LibraryInit /\ [][LibraryNext]_libraryVars

-----------------------------------------------------------------------------
(* Properties *)

(* memncpy copies what was at the source, unless the destination begins     *)
(* inside it.                                                               *)
CopyAgrees(dest, src, size) ==
  LET memory == [i \in 1 .. 8 |-> i]
      copied == memncpy(memory, dest, src, size)
      block(m, at) == [i \in 1 .. size |-> m[at + i - 1]]
  IN block(copied, dest) = block(memory, src) <=> ~ (src < dest /\ dest < src + size)

(* stringStartsWith and byteArrayEqual_proc answer what their names say,    *)
(* and the first reads no further than the terminator; a joined text and    *)
(* its terminator just fit into their memory.                               *)
TextsAgree(s, t) ==
  /\ byteArrayEqual(s, t) <=> s = t
  /\ stringStartsWith(s, t) <=> IsPrefix(t, s)
  /\ CharsRead(s, t) <= Len(s) + 1
  /\ Len(stringcat(s, t).text) + 1 = stringcat(s, t).room

(* A frame without a flag inside is read as it was sent and accepted, and   *)
(* is not if one or two bits are inverted; one with a flag is cut short.    *)
FrameAgrees(s, k, bit, l, other) ==
  LET frame == print_tc(s)
      once == Inverted(frame, k, bit)
      twice == Inverted(once, l, other)
  IN /\ Body(frame) = Sent(s) <=> Whole(frame)
     /\ Whole(frame) =>
          /\ Accepted(Body(frame))
          /\ Whole(once) => ~ Accepted(Body(once))
          /\ Whole(twice) => (Accepted(Body(twice)) <=> <<k, bit>> = <<l, other>>)

(* The functions compute what they are for, on the inputs named with each   *)
(* (NumbersKept asks it of others too): parsing and printing reals,         *)
(* rounding, the widths of numbers, numbers and addresses as text,          *)
(* averages, copies and comparisons, and the frames that print_tc sends.    *)
FunctionsAgree ==
  CASE call.fn = "parseReal" ->
         ParseRealAgrees(call.negative, call.whole, call.fraction)
    [] call.fn = "real" -> RealAgrees(call.r)
    [] call.fn = "int" -> IntAgrees(call.i)
    [] call.fn = "text" -> TextAgrees(call.val, call.base)
    [] call.fn = "average" -> ArrayAgrees(call.a)
    [] call.fn = "copy" -> CopyAgrees(call.dest, call.src, call.size)
    [] call.fn = "texts" -> TextsAgree(call.s, call.t)
    [] call.fn = "frame" -> FrameAgrees(call.s, call.k, call.bit, call.l, call.other)
    [] OTHER -> TRUE

(* A number is the same as text: "A function to parse a real from an        *)
(* Insense string" (StandardFunctionsParseReal.c:18) returns what the       *)
(* string denotes if its parts are ints, and the string that myitoa makes   *)
(* of an unsigned int, which "Copes with any base up to a maximum of 16"    *)
(* (cstring_myitoa.c:12), denotes it.                                       *)
NumbersKept ==
  CASE call.fn = "parseReal" ->
         Fits(Number(call.whole)) /\ Fits(Number(call.fraction)) =>
           parseReal(Decimal(call.negative, call.whole, call.fraction))
             = Meaning(call.negative, call.whole, call.fraction)
    [] call.fn = "text" ->
         call.val < 2 * IntLimit =>
           LET text == myitoa(call.val, call.base)
           IN text # <<>> /\ Denotes(text, call.base) = call.val
    [] OTHER -> TRUE

(* searchList finds what is in the list, wherever the cursor stands, unless *)
(* the payload at the cursor is in the list twice; it leaves the cursor     *)
(* behind what it found, so that the next search begins there.              *)
SearchFinds ==
  call.fn = "search" => SearchAgrees(call.l, call.keys)
=============================================================================
