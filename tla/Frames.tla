------------------------------- MODULE Frames -------------------------------
(***************************************************************************)
(* The functions on bytes: copying, joining and comparing texts and        *)
(* arrays, and the frames that print_tc sends over the serial line.        *)
(* The receiver of a frame is external.                                    *)
(*                                                                         *)
(* The 16 bits of the checksum are a polynomial over {0, 1}, the set of    *)
(* its exponents: exclusive or is the symmetric difference and a shift to  *)
(* the left a multiplication by x.  A byte is the set of its bits.         *)
(***************************************************************************)
EXTENDS Integers, Sequences, SequencesExt, FiniteSetsExt

Flag == {1, 2, 3, 4, 5, 6}      (* 0x7E *)
Nak == {0, 2, 6}                (* 0x45 *)
Ff == 0 .. 7
Kind == {0, 1, 4, 7}            (* 0x93 *)

(* The bits of a number that are kept in a byte. *)
AsByte(n) == {b \in 0 .. 7 : (n \div 2 ^ b) % 2 = 1}

-----------------------------------------------------------------------------
(* Mutant: the bit that leaves the register is forgotten. *)
ShiftedOnly(crc) == {e + 1 : e \in crc \ {15}}

(* crc << 1, with 0x1021 added for the bit that leaves the register.        *)
Shifted(crc) ==
  LET moved == {e + 1 : e \in crc \ {15}}
  IN IF 15 \in crc THEN SymDiff(moved, {0, 5, 12}) ELSE moved

EightTimesShifted(crc) ==
  LET twice(c) == Shifted(Shifted(c))
      fourTimes(c) == twice(twice(c))
  IN fourTimes(fourTimes(crc))

crcByte(crc, byte) == EightTimesShifted(SymDiff(crc, {b + 8 : b \in byte}))

(* The register after each byte, and after the last. *)
crcOf(bytes) ==
  LET after[n \in 0 .. Len(bytes)] ==
        IF n = 0 THEN {} ELSE crcByte(after[n - 1], bytes[n])
  IN after[Len(bytes)]

(* The header: the text's length is sent as one byte. *)
header(len) == <<{}, Ff, Ff, {}, {0}, AsByte(len), {}, Kind>>

Low(crc) == crc \cap (0 .. 7)
High(crc) == {e - 8 : e \in crc \cap (8 .. 15)}

(* What the checksum is taken of. *)
Content(s) == <<Nak>> \o header(Len(s) + 1) \o s \o <<{}>>

(* print_tc of a text, without its terminator: what is between its flags,   *)
(* of which nothing is escaped.                                             *)
Sent(s) ==
  LET crc == crcOf(Content(s)) IN Content(s) \o <<Low(crc), High(crc)>>

print_tc(s) == <<Flag>> \o Sent(s) \o <<Flag>>

-----------------------------------------------------------------------------
(* The other end of the line: it takes what is between the first flag and   *)
(* the next, and computes the checksum of all but its last two bytes.       *)

NextFlag(frame) == Min({i \in 2 .. Len(frame) : frame[i] = Flag})

Body(frame) == SubSeq(frame, 2, NextFlag(frame) - 1)

Accepted(body) ==
  LET n == Len(body) - 2
      crc == crcOf(SubSeq(body, 1, n))
  IN body[n + 1] = Low(crc) /\ body[n + 2] = High(crc)

(* A frame in which no byte but the first and the last is a flag.           *)
Whole(frame) == \A i \in 2 .. Len(frame) - 1 : frame[i] # Flag

(* A frame with a bit inverted. *)
Inverted(frame, k, bit) == [frame EXCEPT ![k] = SymDiff(@, {bit})]

-----------------------------------------------------------------------------
(* memncpy copies upwards, byte by byte: the memory after each byte.        *)
Copied(m, dest, src) ==
  LET after[n \in Nat] ==
        IF n = 0 THEN m
        ELSE LET before == after[n - 1]
             IN [before EXCEPT ![dest + n - 1] = before[src + n - 1]]
  IN after

memncpy(m, dest, src, size) == Copied(m, dest, src)[size]

(* byteArrayEqual_proc looks for the first difference. *)
byteArrayEqual(a, b) ==
  Len(a) = Len(b) /\ {i \in DOMAIN a : a[i] # b[i]} = {}

(* A text ends with 0, which no character is. *)
CharAt(s, i) == IF i = Len(s) + 1 THEN 0 ELSE s[i]

(* stringStartsWith: how many characters of s are read, and the answer.     *)
MismatchAt(s, compare) == {i \in DOMAIN compare : i > Len(s) + 1 \/ CharAt(s, i) # compare[i]}

CharsRead(s, compare) ==
  IF MismatchAt(s, compare) = {} THEN Len(compare) ELSE Min(MismatchAt(s, compare))

stringStartsWith(s, compare) == MismatchAt(s, compare) = {}

(* stringcat: the copied characters, and the room allocated for them. *)
stringcat(s1, s2) == [text |-> s1 \o s2, room |-> Len(s1) + Len(s2) + 1]
=============================================================================
