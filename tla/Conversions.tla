---------------------------- MODULE Conversions ----------------------------
(***************************************************************************)
(* The functions that turn numbers into text and text into numbers, and    *)
(* numbers into numbers, beside what they should compute.                  *)
(*                                                                         *)
(* A text is the sequence of its characters: a digit is its value, and     *)
(* there are a minus sign and a point.  A real is exact, in units of       *)
(* 1/Unit: rounding in the float's last bits is left out.                  *)
(***************************************************************************)
EXTENDS Integers, Sequences, SequencesExt, FiniteSetsExt

CONSTANTS
  Unit,         (* a power of 10: 1.0                                      *)
  IntLimit,     (* an int is from -IntLimit to IntLimit - 1                *)
  BufferSize    (* of myitoa's buf                                         *)

ASSUME ConversionsAssumption ==
  /\ Unit \in Nat \ {0}
  /\ IntLimit \in Nat \ {0}
  /\ BufferSize \in Nat /\ BufferSize >= 2

Minus == 10
Point == 11

Fits(n) == - IntLimit <= n /\ n < IntLimit

(* A result that does not fit wraps around. *)
Wrapped(n) == ((n + IntLimit) % (2 * IntLimit)) - IntLimit

-----------------------------------------------------------------------------
(* parseInt_proc and parseReal_proc *)

(* The digits a text begins with. *)
LeadingDigits(s) ==
  SubSeq(s, 1, Max({n \in 0 .. Len(s) : \A i \in 1 .. n : s[i] <= 9}))

Number(digits) == FoldLeft(LAMBDA n, d : 10 * n + d, 0, digits)

(* A long has twice as many bits as an int. *)
LongLimit == 2 * IntLimit * IntLimit

(* strtol stops at the limits of a long. *)
strtol(s) ==
  IF s # <<>> /\ s[1] = Minus THEN Max({- Number(LeadingDigits(Tail(s))), - LongLimit})
  ELSE Min({Number(LeadingDigits(s)), LongLimit - 1})

(* Of its result atoi keeps the lower half. *)
atoi(s) == Wrapped(strtol(s))

(* f2 is divided by 10 while it is above 1.0. *)
Shrunk[f2 \in Int] == IF f2 > Unit THEN Shrunk[f2 \div 10] ELSE f2

parseReal(s) ==
  LET f == atoi(s) * Unit
      points == {i \in DOMAIN s : s[i] = Point}
      f2 == Shrunk[atoi(SubSeq(s, Min(points) + 1, Len(s))) * Unit]
  IN IF points = {} THEN f ELSE IF f >= 0 THEN f + f2 ELSE f - f2

(* What a decimal means. *)
Sign(negative) == IF negative THEN -1 ELSE 1

Decimal(negative, whole, fraction) ==
  (IF negative THEN <<Minus>> ELSE <<>>) \o whole \o <<Point>> \o fraction

Meaning(negative, whole, fraction) ==
  Sign(negative) *
    (Number(whole) * Unit + (Number(fraction) * Unit) \div 10 ^ Len(fraction))

(* Where parseReal is right: both parts are ints; atoi forgets the zeros    *)
(* the fraction begins with, and the division stops at 1 for the fractions  *)
(* .1, .10, .100; and the sign is that of the whole part, which atoi drops  *)
(* from -0.                                                                 *)
FractionKept(fraction) ==
  \/ Number(fraction) = 0
  \/ fraction[1] # 0 /\ \A n \in 0 .. Len(fraction) : Number(fraction) # 10 ^ n

ParsedExactly(negative, whole, fraction) ==
  /\ Fits(Number(whole)) /\ Fits(Number(fraction))
  /\ FractionKept(fraction)
  /\ negative /\ Number(whole) = 0 => Number(fraction) = 0

-----------------------------------------------------------------------------
(* realToInt_proc, printReal_proc and printTCReal_proc *)

Magnitude(n) == IF n < 0 THEN - n ELSE n

(* (int) r *)
Truncated(r) ==
  IF r >= 0 THEN r \div Unit ELSE - ((- r) \div Unit)

realToInt(r) ==
  IF 2 * (r - Truncated(r) * Unit) > Unit THEN Truncated(r) + 1
  ELSE Truncated(r)

(* A printed real: is there a minus sign, the number before the point and   *)
(* the two digits after it.                                                 *)
Printed(r, sign) ==
  [minus |-> sign \/ Truncated(r) < 0,
   whole |-> Magnitude(Truncated(r)),
   hundredths |-> (Magnitude(r - Truncated(r) * Unit) * 100) \div Unit]

LostSign(r) == Truncated(r) = 0 /\ r < 0

printReal(r) == Printed(r, LostSign(r))

(* The minus sign is written into the buffer and then written over.         *)
printTCReal(r) == Printed(r, FALSE)

Read(p) ==
  Sign(p.minus) * (p.whole * Unit + (p.hundredths * Unit) \div 100)

-----------------------------------------------------------------------------
(* Numbers of different widths *)

absInt(i) == IF i < 0 THEN Wrapped(- i) ELSE i
squareInt(i) == Wrapped(i * i)
intToUnsigned(i) == i % (2 * IntLimit)
intToByte(i) == i % 256

-----------------------------------------------------------------------------
(* avgIntArray_proc and avgRealArray_proc: sum and length, or not a number. *)
avgArray(a) ==
  [sum |-> FoldLeft(LAMBDA s, e : s + e, 0, a), length |-> Len(a)]

IsNumber(avg) == avg.length # 0

-----------------------------------------------------------------------------
(* myitoa fills its buffer from the end, and leaves the first two bytes.    *)
Digits[val \in Nat, i \in Nat, base \in Nat] ==
  IF val = 0 \/ i = 0 THEN <<>>
  ELSE Append(Digits[val \div base, i - 1, base], val % base)

myitoa(val, base) == Digits[val, BufferSize - 2, base]

Denotes(text, base) == FoldLeft(LAMBDA n, d : base * n + d, 0, text)

(* A pointer is cut to the width of an int; both ways it is unsigned.       *)
address_to_string(p) == myitoa(intToUnsigned(p), 10)
string_to_address(s) == intToUnsigned(atoi(s))

-----------------------------------------------------------------------------
(* What each function computes, by its name and parameters, where the       *)
(* result can be represented.                                               *)

ParseRealAgrees(negative, whole, fraction) ==
  ParsedExactly(negative, whole, fraction) =>
    parseReal(Decimal(negative, whole, fraction)) = Meaning(negative, whole, fraction)

RealAgrees(r) ==
  /\ r >= 0 => Magnitude(2 * (realToInt(r) * Unit - r)) <= Unit
  /\ r < 0 => realToInt(r) = Truncated(r)
  /\ Magnitude(Read(printReal(r)) - r) * 100 < Unit
  /\ ~ LostSign(r) => printTCReal(r) = printReal(r)

IntAgrees(i) ==
  /\ Fits(Magnitude(i)) => absInt(i) = Magnitude(i)
  /\ Fits(i * i) => squareInt(i) = i * i
  /\ Wrapped(intToUnsigned(i)) = i
  /\ i \in 0 .. 255 => intToByte(i) = i

ArrayAgrees(a) ==
  LET avg == avgArray(a)
      elements == {a[k] : k \in DOMAIN a}
  IN IF a = <<>> THEN ~ IsNumber(avg)
     ELSE /\ Min(elements) * avg.length <= avg.sum
          /\ avg.sum <= Max(elements) * avg.length

(* A number but 0 that has no more digits than the buffer has room for is   *)
(* printed; an address that fits into an int survives being printed and     *)
(* read.                                                                    *)
TextAgrees(val, base) ==
  LET fits(b) == val < 2 * IntLimit /\ val < b ^ (BufferSize - 2)
  IN /\ val > 0 /\ fits(base) => Denotes(myitoa(val, base), base) = val
     /\ fits(10) => string_to_address(address_to_string(val)) = val
=============================================================================
