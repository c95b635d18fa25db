----------------------------- MODULE NameCodec ------------------------------
(***************************************************************************)
(* name: strings of up to Slots + 1 characters packed into an integer, one *)
(* slot of Bits bits per character, the first one highest, and what is     *)
(* left, Bits - 1 bits, for the last.                                      *)
(*                                                                         *)
(* Characters are their codes.  A string_view is a part of some memory,    *)
(* and string_to_uint64_t does not ask it for its length: it reads on      *)
(* through whatever follows, to the next NUL.                              *)
(***************************************************************************)
EXTENDS Integers, Sequences, SequencesExt, FiniteSetsExt

CONSTANTS
    Slots,      \* 12
    Bits,       \* 5
    Digits,     \* 5: the digits from '1'
    Letters,    \* 26: the letters from 'a'
    Others,     \* other characters
    Unknown,    \* the text of a name that was not given as a checked string
    MaxLength,  \* bound of the exploration: characters of a view
    MaxTail,    \* bound of the exploration: characters that follow it
    MaxNames    \* bound of the exploration: name objects

(* A one shifted left by n. *)
pow2[n \in Nat] == IF n = 0 THEN 1 ELSE 2 * pow2[n - 1]

ASSUME SlotsAssumption == Slots \in Nat /\ Bits \in Nat \ {0}
ASSUME AlphabetAssumption ==
    Digits \in Nat /\ Letters \in Nat /\ 1 + Digits + Letters = pow2[Bits]
ASSUME NamesBoundAssumption == {MaxLength, MaxTail, MaxNames} \subseteq Nat

VARIABLES
    names,   \* the name objects: their value and, as history, their text
    refused  \* the view and what follows it when an assertion of set failed

vars == <<names, refused>>

-----------------------------------------------------------------------------
Nul == 0
Dot == 46
DigitCodes == 49 .. 48 + Digits
LetterCodes == 97 .. 96 + Letters

ASSUME CodesAssumption == 48 + Digits < 97
ASSUME OthersAssumption ==
    Others \subseteq Nat \ ({Nul, Dot} \cup DigitCodes \cup LetterCodes)

Chars == {Dot} \cup DigitCodes \cup LetterCodes \cup Others

(* 64 bits. *)
Width == Slots * Bits + Bits - 1

char_to_symbol(c) ==
    IF c \in LetterCodes THEN (c - 97) + Digits + 1
    ELSE IF c \in DigitCodes THEN (c - 49) + 1
    ELSE 0

charmap(s) ==
    IF s = 0 THEN Dot ELSE IF s <= Digits THEN s + 48 ELSE s - Digits + 96

-----------------------------------------------------------------------------
(* str[i]: memory is a sequence of characters up to its NUL. *)
CharAt(memory, i) == IF i < Len(memory) THEN memory[i + 1] ELSE Nul

(* Mutant: the shift is one slot too wide. *)
ShiftWide(i) == Width - Bits * i

Shift(i) == Width - Bits * (i + 1)

(* Mutant: the branch for the last character needs one more. *)
LowBitsLate(memory, i) ==
    IF i > Slots THEN char_to_symbol(CharAt(memory, Slots)) % pow2[Bits - 1] ELSE 0

(* The last character, also when the view has just Slots of them. *)
LowBits(memory, i) ==
    IF i = Slots THEN char_to_symbol(CharAt(memory, Slots)) % pow2[Bits - 1] ELSE 0

(* n after i iterations of the loop; the slots do not overlap, so | is +. *)
Looped(memory) ==
    LET n[i \in 0 .. Slots] ==
          IF i = 0 THEN 0
          ELSE n[i - 1] + char_to_symbol(CharAt(memory, i - 1)) * pow2[Shift(i - 1)]
    IN  n

string_to_uint64_t(memory) ==
    LET i == Min({Len(memory), Slots}) IN Looped(memory)[i] + LowBits(memory, i)

(* Mutant: the low chunk is shifted out like any other. *)
ChunkOfEqualSlots(value, i) == (value \div pow2[Bits * i]) % pow2[Bits]

(* The chunk that iteration i of to_string's loop looks up. *)
Chunk(value, i) ==
    IF i = 0 THEN value % pow2[Bits - 1]
    ELSE (value \div pow2[Bits * i - 1]) % pow2[Bits]

(* trim_right_if: up to the last character that is no dot. *)
Trimmed(str) == SubSeq(str, 1, Max({0} \cup {k \in DOMAIN str : str[k] # Dot}))

to_string(value) ==
    Trimmed([k \in 1 .. Slots + 1 |-> charmap(Chunk(value, Slots + 1 - k))])

-----------------------------------------------------------------------------
(* The object that a constructor makes of a number. *)
Constructed(value, text) ==
    /\ names' = Append(names, [value |-> value, text |-> text])
    /\ UNCHANGED refused

(* Mutant: the second assertion is missing. *)
LengthOnly(value, str) == Len(str) <= Slots + 1

(* The assertions of set. *)
Accepted(value, str) == Len(str) <= Slots + 1 /\ to_string(value) = str

(* name(str); a failing assertion ends the process. *)
set(str, tail) ==
    LET value == string_to_uint64_t(str \o tail) IN
    IF Accepted(value, str) THEN Constructed(value, str)
    ELSE refused' = <<str, tail>> /\ names' = <<>>

string_to_name(str, tail) ==
    Constructed(string_to_uint64_t(str \o tail), Unknown)

(* name(v) *)
from_number(v) == Constructed(v, Unknown)

Init == names = <<>> /\ refused = <<>>

Next ==
    /\ refused = <<>>
    /\ Len(names) < MaxNames
    /\ \/ \E str \in SeqOf(Chars, MaxLength), tail \in SeqOf(Chars, MaxTail) :
             set(str, tail) \/ string_to_name(str, tail)
       \/ \E v \in 0 .. pow2[Width] - 1 : from_number(v)

Spec == Init /\ [][Next]_vars

-----------------------------------------------------------------------------
(* No character is shifted out of the 64 bits. *)
TypeOK ==
    \A i \in DOMAIN names : names[i].value \in 0 .. pow2[Width] - 1

(* Whatever number a name has, its text is that of a name: set accepts it     *)
(* and gets the same number back.                                             *)
RoundTrip ==
    \A i \in DOMAIN names : LET text == to_string(names[i].value) IN
      /\ string_to_uint64_t(text) = names[i].value
      /\ Accepted(names[i].value, text)

(* A string of the alphabet of names: no dot at its end, and a last character *)
(* that fits the bits left for it.                                            *)
IsName(str) ==
    /\ Len(str) <= Slots + 1
    /\ \A k \in DOMAIN str : str[k] \notin Others
    /\ str # <<>> => Last(str) # Dot
    /\ Len(str) = Slots + 1 => char_to_symbol(Last(str)) < pow2[Bits - 1]

(* set refuses no proper name that is followed by a NUL: one of just Slots    *)
(* characters, whose encoding reads one past its end, included.               *)
SetComplete ==
    refused # <<>> /\ refused[2] = <<>> => ~IsName(refused[1])

(* The order of strings. *)
Precedes(s, t) ==
    \E k \in 1 .. Len(t) :
      /\ \A j \in 1 .. k - 1 : j <= Len(s) /\ s[j] = t[j]
      /\ k > Len(s) \/ s[k] < t[k]

(* Names that set accepted are equal as numbers when their texts are, and     *)
(* ordered as these are, whatever followed the texts in memory: the unique    *)
(* and ordered indices over numbers are indices over names.                   *)
Ordered ==
    \A i, j \in DOMAIN names :
      Unknown \notin {names[i].text, names[j].text} =>
        /\ names[i].value = names[j].value <=> names[i].text = names[j].text
        /\ names[i].value < names[j].value <=> Precedes(names[i].text, names[j].text)
=============================================================================
