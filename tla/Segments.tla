------------------------------ MODULE Segments ------------------------------
(***************************************************************************)
(* The segment count an SMS is priced by: calculateSegments of             *)
(* sms/service.go, beside the count by which SMS are carried (GSM 03.38 and *)
(* 23.040), which its comment claims to compute.  The two look at different *)
(* things: the code asks of a character only whether it is ASCII, a carrier *)
(* how many septets or UTF-16 units it takes.                              *)
(*                                                                         *)
(* A body grows one character at a time, in any order, and is what the two *)
(* counts tell apart.                                                      *)
(***************************************************************************)
EXTENDS Integers, TLAPS

CONSTANTS MaxLength   \* bound: no longer body is looked at

ASSUME SegmentsAssumption == MaxLength \in Nat

VARIABLES
    length,    \* in characters (runes)
    beyond,    \* whether a character is beyond ASCII
    gsm,       \* whether GSM-7 has all its characters
    septets,   \* that it takes in GSM-7
    units,     \* that it takes in UTF-16
    unused     \* septets or units left free at the end of a part, where a
               \* character that takes two does not fit

vars == <<length, beyond, gsm, septets, units, unused>>

-----------------------------------------------------------------------------
(* The code.                                                               *)

IsUnicode(b) == b

\* (mutant) One limit for both alphabets.
SingleForBoth(unicode) == 160

\* How many characters a message that fits one segment may have, and how many
\* each part of a longer one carries.
Single(unicode) == IF unicode THEN 70 ELSE 160

\* (mutant) The two parts exchanged.
PartExchanged(unicode) == IF unicode THEN 153 ELSE 67

Part(unicode) == IF unicode THEN 67 ELSE 153

\* (mutant) One short when rounding up.
RoundedUpShort(count, part) == (count + part - 2) \div part

RoundedUp(count, part) == (count + part - 1) \div part

CalculateSegments(count, b) ==
    LET unicode == IsUnicode(b)
    IN  IF count <= Single(unicode) THEN 1 ELSE RoundedUp(count, Part(unicode))

-----------------------------------------------------------------------------
(* Bodies.                                                                 *)

\* A kind of characters: whether it is ASCII, its septets (0 if GSM-7 has it not)
\* and its UTF-16 units.
Kind(ascii, s, u) == [ascii |-> ascii, septets |-> s, units |-> u]

Kinds ==
    { Kind(TRUE,  1, 1),     \* letters, digits, most signs
      Kind(TRUE,  2, 1),     \* [ ] { } ^ ~ | \ , which are escaped
      Kind(TRUE,  0, 1),     \* the backquote
      Kind(FALSE, 1, 1),     \* e-acute, the pound sign, n-tilde, ...
      Kind(FALSE, 2, 1),     \* the euro sign
      Kind(FALSE, 0, 1),     \* all other characters of the first plane
      Kind(FALSE, 0, 2) }    \* emoji

Init ==
    /\ length = 0 /\ septets = 0 /\ units = 0 /\ unused = 0
    /\ beyond = FALSE
    /\ gsm = TRUE

\* What stays unused in a part of the given capacity when a character is put
\* after what is there.
Skipped(there, size, part) == IF (there % part) + size > part THEN 1 ELSE 0

\* The first character that GSM-7 has not turns the whole body into UTF-16, in
\* which all characters before it take one unit each.
Append(k) ==
    /\ length < MaxLength
    /\ length' = length + 1
    /\ beyond' = (beyond \/ ~k.ascii)
    /\ gsm' = (gsm /\ k.septets > 0)
    /\ septets' = IF gsm' THEN septets + k.septets ELSE 0
    /\ units' = units + k.units
    /\ unused' = IF gsm' THEN unused + Skipped(septets + unused, k.septets, 153)
                 ELSE LET before == IF gsm THEN 0 ELSE unused
                      IN  before + Skipped(units + before, k.units, 67)

Next == \E k \in Kinds : Append(k)

Spec == Init /\ [][Next]_vars

-----------------------------------------------------------------------------
(* Properties.                                                             *)

Billed == CalculateSegments(length, beyond)

\* The segments in which the body is carried: one of 140 octets, or parts that
\* lose six of these to a header.
Needed ==
    IF gsm THEN IF septets <= 160 THEN 1 ELSE (septets + unused + 152) \div 153
    ELSE IF units <= 70 THEN 1 ELSE (units + unused + 66) \div 67

\* Bodies that the code reads as a carrier does: of ASCII that takes one septet
\* each, or with a character that GSM-7 has not, beyond ASCII, and no emoji.
ReadAlike ==
    \/ gsm /\ ~beyond /\ septets = length
    \/ ~gsm /\ beyond /\ units = length

\* "calculateSegments computes GSM-7 / Unicode SMS segment count" (sms/service.go:241):
\* for the bodies it reads as a carrier does, exactly what carries them is billed,
\* at all the boundaries and wherever the first character beyond ASCII comes.
BilledAsCarried == ReadAlike => Billed = Needed

\* For any other body the count is wrong in either direction (160 "[" are carried in
\* three segments and billed as one, 160 e-acute in one and billed as three), and
\* this is how wrong: no client pays more than three times what is carried for it,
\* and no message is sold for less than a third.
WithinThreefold == Billed <= 3 * Needed /\ Needed <= 3 * Billed

\* A longer body is never cheaper, whichever alphabet the next character is of
\* (one character beyond ASCII re-counts the whole body by 67).
NeverCheaper == [][CalculateSegments(length', beyond') >= Billed]_vars
-----------------------------------------------------------------------------
(* Proofs, for bodies of any length.                                       *)

\* That `there` septets or units, unused ones included, are of at least so many
\* characters: a part holds `most` characters that take two, whatever is unused.
Holds(count, there, part, most) ==
    count >= most * (there \div part) + ((there % part) + 1) \div 2

Inv ==
    /\ length \in Nat /\ septets \in Nat /\ units \in Nat /\ unused \in Nat
    /\ beyond \in BOOLEAN /\ gsm \in BOOLEAN
    /\ ~beyond \/ gsm => units = length
    /\ units >= length
    /\ gsm => /\ septets >= length
              /\ septets = length => unused = 0
              /\ Holds(length, septets + unused, 153, 76)
              /\ septets <= 2 * length
    /\ ~gsm => /\ units = length => unused = 0
               /\ Holds(length, units + unused, 67, 33)
               /\ units <= 2 * length

LEMMA InvInit == Init => Inv
  <1> SUFFICES ASSUME Init PROVE Inv
    OBVIOUS
  <1>1. Holds(0, 0 + 0, 153, 76) /\ Holds(0, 0 + 0, 67, 33)
    BY DEF Holds
  <1>2. beyond \in BOOLEAN /\ gsm \in BOOLEAN /\ gsm
    BY DEF Init
  <1> QED BY <1>1, <1>2 DEF Init, Inv

LEMMA Division ==
    ASSUME NEW part \in {67, 153}, NEW n \in Nat, NEW q \in Nat, NEW r \in Nat,
           n = part * q + r, r < part
    PROVE  n \div part = q /\ n % part = r
  <1>1. CASE part = 67
    BY <1>1
  <1>2. CASE part = 153
    BY <1>2
  <1> QED BY <1>1, <1>2

\* One more character of one or two septets (units) keeps that bound.
LEMMA HoldsKept ==
    ASSUME NEW count \in Nat, NEW there \in Nat, NEW size \in {1, 2},
           NEW part, NEW most, <<part, most>> \in {<<67, 33>>, <<153, 76>>},
           Holds(count, there, part, most)
    PROVE  Holds(count + 1, there + Skipped(there, size, part) + size, part, most)
  <1> DEFINE q == there \div part
             r == there % part
             now == there + Skipped(there, size, part) + size
  <1>1. /\ part = 2 * most + 1 /\ most \in Nat
        /\ part = 67 \/ part = 153
    OBVIOUS
  <1>2. /\ q \in Nat /\ r \in 0 .. part - 1
        /\ there = part * q + r
    <2>1. CASE part = 67
      BY <2>1
    <2>2. CASE part = 153
      BY <2>2
    <2> QED BY <1>1, <2>1, <2>2
  <1>3. count >= most * q + (r + 1) \div 2
    BY DEF Holds
  <1>4. CASE r + size < part
    <2>1. Skipped(there, size, part) = 0
      BY <1>1, <1>2, <1>4 DEF Skipped
    <2>2. now \div part = q /\ now % part = r + size
      <3>1. now = part * q + (r + size) /\ now \in Nat /\ r + size \in Nat /\ q \in Nat
        BY <1>2, <2>1
      <3>2. part \in {67, 153} /\ r + size < part
        BY <1>1, <1>4
      <3> DEFINE rest == r + size
      <3>3. now = part * q + rest /\ rest \in Nat /\ rest < part
        BY <3>1, <3>2
      <3> HIDE DEF q, rest, now
      <3>4. now \div part = q /\ now % part = rest
        BY <3>1, <3>2, <3>3, Division
      <3> QED BY <3>4 DEF rest
    <2>3. (r + size + 1) \div 2 <= (r + 1) \div 2 + 1
      BY <1>1, <1>2
    <2> QED BY <1>1, <1>2, <1>3, <2>2, <2>3 DEF Holds
  <1>5. CASE r + size = part
    <2>1. Skipped(there, size, part) = 0
      BY <1>1, <1>2, <1>5 DEF Skipped
    <2>2. now = part * (q + 1) + 0 /\ q + 1 \in Nat /\ now \in Nat
      <3>1. now = part * q + part
        BY <1>1, <1>2, <1>5, <2>1
      <3> HIDE DEF q, now
      <3> QED BY <1>1, <1>2, <3>1
    <2>4. now \div part = q + 1 /\ now % part = 0
      BY <1>1, <2>2, Division
    <2>3. (r + 1) \div 2 >= most
      BY <1>1, <1>2, <1>5
    <2> QED BY <1>1, <1>2, <1>3, <2>3, <2>4 DEF Holds
  <1>6. CASE r + size > part
    <2>1. Skipped(there, size, part) = 1 /\ size = 2 /\ r = part - 1
      BY <1>1, <1>2, <1>6 DEF Skipped
    <2>2. now = part * (q + 1) + 2 /\ q + 1 \in Nat /\ now \in Nat
      <3>1. now = part * q + part + 2
        BY <1>1, <1>2, <2>1
      <3> HIDE DEF q, now
      <3> QED BY <1>1, <1>2, <3>1
    <2>4. now \div part = q + 1 /\ now % part = 2
      BY <1>1, <2>2, Division
    <2>3. (r + 1) \div 2 = most
      BY <1>1, <1>2, <2>1
    <2> QED BY <1>1, <1>2, <1>3, <2>3, <2>4 DEF Holds
  <1> QED BY <1>1, <1>2, <1>4, <1>5, <1>6

LEMMA InvKept == Inv /\ [Next]_vars => Inv'
  <1> SUFFICES ASSUME Inv, [Next]_vars PROVE Inv'
    OBVIOUS
  <1>1. ASSUME NEW k \in Kinds, Append(k) PROVE Inv'
    <2>1. /\ k.septets \in 0 .. 2 /\ k.units \in {1, 2}
          /\ k.ascii => k.units = 1
          /\ k.septets > 0 => k.units = 1
      <3>1. k.septets \in {0, 1, 2} /\ k.units \in {1, 2}
        BY DEF Kinds, Kind
      <3>2. k.ascii => k.units = 1
        BY DEF Kinds, Kind
      <3>3. k.septets > 0 => k.units = 1
        BY DEF Kinds, Kind
      <3> QED BY <3>1, <3>2, <3>3
    <2>2. CASE gsm'
      <3> DEFINE skip == Skipped(septets + unused, k.septets, 153)
      <3>1. gsm /\ k.septets \in {1, 2} /\ k.units = 1
        <4>1. gsm /\ k.septets > 0
          BY <1>1, <2>2 DEF Append
        <4> QED BY <2>1, <4>1
      <3>2. unused' = unused + skip /\ septets' = septets + k.septets /\ length' = length + 1
        BY <1>1, <2>2 DEF Append
      <3>3. Holds(length + 1, septets + unused + skip + k.septets, 153, 76)
        BY <3>1, HoldsKept DEF Inv
      <3>4. septets + unused + skip + k.septets = septets' + unused'
        BY <3>1, <3>2 DEF Inv, Skipped
      <3>5. skip \in {0, 1} /\ (k.septets = 1 => skip = 0)
        BY <3>1 DEF Inv, Skipped
      <3>6. units' = units + 1 /\ beyond' \in BOOLEAN
        BY <1>1, <2>1, <3>1 DEF Append, Inv
      <3> HIDE DEF skip
      <3>7. Holds(length', septets' + unused', 153, 76)
        BY <3>2, <3>3, <3>4
      <3> QED BY <2>2, <3>1, <3>2, <3>5, <3>6, <3>7 DEF Inv
    <2>3. CASE ~gsm'
      <3> DEFINE before == IF gsm THEN 0 ELSE unused
                 skip == Skipped(units + before, k.units, 67)
      <3>1. /\ unused' = before + skip /\ units' = units + k.units /\ length' = length + 1
            /\ septets' = 0 /\ beyond' = (beyond \/ ~k.ascii) /\ gsm' = FALSE
        BY <1>1, <2>1, <2>3 DEF Append, Inv
      <3>2. Holds(length, units + before, 67, 33)
        BY DEF Inv, Holds
      <3>3. Holds(length + 1, units + before + skip + k.units, 67, 33)
        BY <2>1, <3>2, HoldsKept DEF Inv
      <3>4. units + before + skip + k.units = units' + unused'
        BY <2>1, <3>1 DEF Inv, Skipped
      <3>5. skip \in {0, 1} /\ (k.units = 1 => skip = 0) /\ before \in Nat
        BY <2>1 DEF Inv, Skipped
      <3>6. units = length => before = 0
        BY DEF Inv
      <3>7. units <= 2 * length
        BY DEF Inv
      <3> HIDE DEF before, skip
      <3>8. Holds(length', units' + unused', 67, 33)
        BY <3>1, <3>3, <3>4
      <3>9. ~beyond' => units' = length'
        BY <2>1, <3>1 DEF Inv
      <3>10. units' = length' => unused' = 0
        BY <2>1, <3>1, <3>5, <3>6 DEF Inv
      <3>11. beyond' \in BOOLEAN
        BY <3>1
      <3>12. /\ length' \in Nat /\ septets' \in Nat /\ units' \in Nat /\ unused' \in Nat
             /\ units' >= length' /\ units' <= 2 * length'
        BY <2>1, <3>1, <3>5, <3>7 DEF Inv
      <3> QED BY <2>3, <3>1, <3>8, <3>9, <3>10, <3>11, <3>12 DEF Inv
    <2> QED BY <2>2, <2>3
  <1>2. ASSUME UNCHANGED vars PROVE Inv'
    BY <1>2 DEF vars, Inv, Holds
  <1> QED BY <1>1, <1>2 DEF Next

LEMMA Invariant == Spec => []Inv
  BY InvInit, InvKept, PTL DEF Spec

\* A body of any length that the code reads as a carrier does is billed for exactly
\* the segments that carry it.
THEOREM BilledExactly == Spec => []BilledAsCarried
  <1>1. Inv => BilledAsCarried
    BY DEF Inv, BilledAsCarried, ReadAlike, Billed, Needed, CalculateSegments, RoundedUp,
           Single, Part, IsUnicode
  <1> QED BY <1>1, Invariant, PTL

\* No body of any length and any characters is billed for more than three times,
\* or less than a third, of the segments that carry it.
THEOREM NeverFarOff == Spec => []WithinThreefold
  <1>1. ASSUME Inv, gsm PROVE WithinThreefold
    <2>1. Needed = IF septets <= 160 THEN 1 ELSE (septets + unused + 152) \div 153
      BY <1>1 DEF Needed
    <2>2. Billed <= 3 * Needed
      BY <1>1, <2>1 DEF Inv, Billed, CalculateSegments, RoundedUp, Single, Part, IsUnicode
    <2>3. Needed <= 3 * Billed
      BY <1>1, <2>1 DEF Inv, Holds, Billed, CalculateSegments, RoundedUp, Single, Part, IsUnicode
    <2> QED BY <2>2, <2>3 DEF WithinThreefold
  <1>2. ASSUME Inv, ~gsm PROVE WithinThreefold
    <2>1. Needed = IF units <= 70 THEN 1 ELSE (units + unused + 66) \div 67
      BY <1>2 DEF Needed
    <2>2. Billed <= 3 * Needed
      BY <1>2, <2>1 DEF Inv, Billed, CalculateSegments, RoundedUp, Single, Part, IsUnicode
    <2>3. Needed <= 3 * Billed
      BY <1>2, <2>1 DEF Inv, Holds, Billed, CalculateSegments, RoundedUp, Single, Part, IsUnicode
    <2> QED BY <2>2, <2>3 DEF WithinThreefold
  <1>3. Inv => WithinThreefold
    BY <1>1, <1>2 DEF Inv
  <1> QED BY <1>3, Invariant, PTL

\* Adding a character to a body of any length never makes it cheaper.
THEOREM LongerIsNeverCheaper == Spec => NeverCheaper
  <1>1. Inv /\ [Next]_vars => [CalculateSegments(length', beyond') >= Billed]_vars
    BY DEF Inv, Next, Append, vars, Kinds, Kind, Billed,
           CalculateSegments, RoundedUp, Single, Part, IsUnicode
  <1> QED BY <1>1, Invariant, PTL DEF Spec, NeverCheaper
=============================================================================
