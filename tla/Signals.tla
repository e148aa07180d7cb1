------------------------------ MODULE Signals -------------------------------
(***************************************************************************)
(* Values on their way between a testbench and the simulator: a signal of  *)
(* some width, which vpi reads and writes as vector words, two bits of     *)
(* which (aval, bval) stand for one four-state bit; and LogicArray, which  *)
(* holds the same as two big integers.                                     *)
(*                                                                         *)
(* Word is the number of bits of a vector word, 32 in the code; the        *)
(* integer types keep their size relative to it.  A simulator may return   *)
(* anything in the bits of the last word that the signal does not have.    *)
(***************************************************************************)
EXTENDS Integers, Sequences, FiniteSets, SequencesExt

CONSTANTS
  Word,      \* bits of a vector word, a multiple of 4
  Widths,    \* widths of the signal, 0 for an object without a size
  Ints,      \* integers to write
  Strings    \* binary strings to write, as sequences of characters

VARIABLES
  width,     \* LogicHandle.width
  offered,   \* does the simulator supply a vector value?
  image,     \* the words that vpi_get_value returns
  put,       \* the words that the last vpi_put_value got
  bits       \* history: the four-state bits that the signal ought to have

signalVars == <<width, offered, image, put, bits>>

(* The integer types and their sizes.                                      *)
Small == {"bool", "u8", "u16", "u32"}
Wide == {"u64", "u128"}
SizeOf == [bool |-> 1, u8 |-> Word \div 4, u16 |-> Word \div 2, u32 |-> Word,
           u64 |-> 2 * Word, u128 |-> 4 * Word]

WordCount(w) == (w + Word - 1) \div Word

Bit(n, i) == (n \div 2^i) % 2

Ok(v) == [ok |-> v]
Err(e) == [err |-> e]
FourState(s) == Err(<<"FourState", s>>)
-----------------------------------------------------------------------------
(* Big integers, below 2^MaxBits: the digits of a number without leading   *)
(* zeros, and back.                                                        *)
MaxBits == 24

Digits(n) ==
  LET count == Cardinality({k \in 0..WordCount(MaxBits) : n >= 2^(Word * k)})
  IN  [i \in 1..count |-> (n \div 2^(Word * (i - 1))) % 2^Word]

FromSlice(ws) == FoldRight(LAMBDA d, acc : acc * 2^Word + d, ws, 0)

Digit(n, i) == IF i <= Len(Digits(n)) THEN Digits(n)[i] ELSE 0

(* The words with the bits that width w does not have cleared in the last. *)
Masked(ws, w) ==
  IF w % Word = 0 THEN ws ELSE [ws EXCEPT ![Len(ws)] = @ % 2^(w % Word)]

AVals(words) == [i \in DOMAIN words |-> words[i].aval]
BVals(words) == [i \in DOMAIN words |-> words[i].bval]
Pairs(as, bs) == [i \in DOMAIN as |-> [aval |-> as[i], bval |-> bs[i]]]
-----------------------------------------------------------------------------
(* LogicArray.                                                             *)

from_char(c) ==
  CASE c = "0" -> "0"
    [] c = "1" -> "1"
    [] c \in {"z", "Z"} -> "z"
    [] OTHER -> "x"

from_vpi_words(words, w) ==
  [a_val |-> FromSlice(Masked(AVals(words), w)), b_val |-> FromSlice(Masked(BVals(words), w)),
   width |-> w]

from_binstr(s) ==
  LET n == Len(s)
      with(cs) == {n - i : i \in {j \in 1..n : from_char(s[j]) \in cs}}
      number(on) == MapThenSumSet(LAMBDA i : 2^i, on)
  IN  [a_val |-> number(with({"1", "x"})), b_val |-> number(with({"x", "z"})), width |-> n]

(* from_bool to from_u128 ...                                              *)
from_int(v, w) ==
  [a_val |-> MapThenSumSet(LAMBDA i : 2^i * Bit(v, i),
                           0..((IF w < SizeOf["u128"] THEN w ELSE SizeOf["u128"]) - 1)),
   b_val |-> 0, width |-> w]

(* ... and from a big integer.                                             *)
from_bigint(v, w) == [a_val |-> v % 2^w, b_val |-> 0, width |-> w]

to_vpi_words(v) ==
  [i \in 1..WordCount(v.width) |-> [aval |-> Digit(v.a_val, i), bval |-> Digit(v.b_val, i)]]

(* Index: a bit, least significant first.                                  *)
At(v, i) ==
  CASE i >= v.width -> "none"
    [] i < v.width /\ Bit(v.a_val, i) = 0 /\ Bit(v.b_val, i) = 0 -> "0"
    [] i < v.width /\ Bit(v.a_val, i) = 1 /\ Bit(v.b_val, i) = 0 -> "1"
    [] i < v.width /\ Bit(v.a_val, i) = 1 /\ Bit(v.b_val, i) = 1 -> "x"
    [] i < v.width /\ Bit(v.a_val, i) = 0 /\ Bit(v.b_val, i) = 1 -> "z"

to_binstr(v) == [k \in 1..v.width |-> At(v, v.width - k)]

(* TryFrom for bool, ...                                                   *)
try_bool(v) ==
  IF v.b_val # 0 THEN FourState(to_binstr(v)) ELSE Ok(IF v.a_val # 0 THEN 1 ELSE 0)

(* ... for the types that come from the first digit, ...                   *)
try_small(v, type) ==
  IF v.b_val # 0 THEN FourState(to_binstr(v)) ELSE Ok(Digit(v.a_val, 1) % 2^SizeOf[type])

(* ... from the first two, and from the first four.                        *)
try_wide(v, type) ==
  IF v.b_val # 0 THEN FourState(to_binstr(v))
  ELSE Ok(FromSlice([i \in 1..(SizeOf[type] \div Word) |-> Digit(v.a_val, i)]))

try_bigint(v) == IF v.b_val # 0 THEN FourState(to_binstr(v)) ELSE Ok(v.a_val)
-----------------------------------------------------------------------------
(* Reading a LogicHandle.                                                  *)

get_vpi_words == IF offered THEN Ok(image) ELSE Err("Unavailable")

get_logic == IF offered THEN Ok(from_vpi_words(image, width)) ELSE Err("Unavailable")

get_binstr == IF offered THEN Ok(to_binstr(get_logic.ok)) ELSE Err("Unavailable")

(* Word i of the image.                                                    *)
get_vpi_word(i) ==
  LET used == IF i = Len(image) /\ width % Word # 0 THEN width % Word ELSE Word
  IN  IF image[i].bval % 2^used # 0 THEN FourState(to_binstr(get_logic.ok))
      ELSE Ok(image[i].aval % 2^used)

check_size(want) == width <= want

(* get_bool to get_u32: words[0], which an object without a size lacks.    *)
get_small(type) ==
  CASE ~check_size(SizeOf[type]) -> Err("Width")
    [] check_size(SizeOf[type]) /\ ~offered -> Err("Unavailable")
    [] check_size(SizeOf[type]) /\ offered /\ image = <<>> -> Err("panic")
    [] OTHER -> get_vpi_word(1)

(* All words, the first error wins.                                        *)
Words ==
  LET bad == {i \in DOMAIN image : "err" \in DOMAIN get_vpi_word(i)}
  IN  IF bad # {} THEN get_vpi_word(CHOOSE i \in bad : \A j \in bad : i <= j)
      ELSE Ok(FromSlice([i \in DOMAIN image |-> get_vpi_word(i).ok]))

(* get_u64 and get_u128.                                                   *)
get_wide(type) ==
  CASE ~check_size(SizeOf[type]) -> Err("Width")
    [] check_size(SizeOf[type]) /\ ~offered -> Err("Unavailable")
    [] OTHER -> Words

get_bigint == IF offered THEN Words ELSE Err("Unavailable")

(* Any error of get_bool is false; a panic is a panic.                     *)
is_high == IF get_small("bool") = Err("panic") THEN Err("panic") ELSE Ok(get_small("bool") = Ok(1))
is_low == IF get_small("bool") = Err("panic") THEN Err("panic") ELSE Ok(get_small("bool") = Ok(0))
-----------------------------------------------------------------------------
(* Writing it.                                                             *)

(* ToVpiWords: as many words as the type has.                              *)
IntWords(type, v) ==
  [i \in 1..WordCount(SizeOf[type]) |-> [aval |-> (v \div 2^(Word * (i - 1))) % 2^Word, bval |-> 0]]

mask_vector_words(words) == Pairs(Masked(AVals(words), width), Masked(BVals(words), width))

(* Mutant: as many words as it takes are masked, longer ones only cut.     *)
set_vector_words_Cut(words) ==
  LET n == WordCount(width)
      zeros == [i \in 1..n |-> [aval |-> 0, bval |-> 0]]
  IN  CASE Len(words) = n -> mask_vector_words(words)
        [] Len(words) > n -> SubSeq(words, 1, n)
        [] Len(words) < n -> words \o SubSeq(zeros, Len(words) + 1, n)

(* The words fitted to the signal: masked, cut and masked, or padded.      *)
set_vector_words(words) ==
  LET n == WordCount(width)
      zeros == [i \in 1..n |-> [aval |-> 0, bval |-> 0]]
  IN  CASE Len(words) = n -> mask_vector_words(words)
        [] Len(words) > n -> mask_vector_words(SubSeq(words, 1, n))
        [] Len(words) < n -> words \o SubSeq(zeros, Len(words) + 1, n)

(* What a simulator may return for stored words: the bits that the signal  *)
(* has, and anything above them.                                           *)
Returned(words) ==
  LET clean == mask_vector_words(words)
      junk == 2^Word - 2^(width % Word)
      noisy(na, nb) == [clean EXCEPT ![Len(clean)] = [aval |-> @.aval + na, bval |-> @.bval + nb]]
  IN  IF width % Word = 0 THEN {clean} ELSE {noisy(na, nb) : na \in {0, junk}, nb \in {0, junk}}

(* vpi_put_value.                                                          *)
PutValue(words, ideal) ==
  /\ put' = set_vector_words(words)
  /\ image' \in Returned(put')
  /\ bits' = ideal
  /\ UNCHANGED <<width, offered>>

(* The bits of a number on a signal of this width, most significant first. *)
BitsOf(v) == [k \in 1..width |-> IF Bit(v, width - k) = 1 THEN "1" ELSE "0"]

set_int(type, v) == v < 2^SizeOf[type] /\ PutValue(IntWords(type, v), BitsOf(v))

set_bigint(v) == PutValue([i \in DOMAIN Digits(v) |-> [aval |-> Digits(v)[i], bval |-> 0]], BitsOf(v))

set_logic(s) ==
  LET n == Len(s)
  IN  PutValue(to_vpi_words(from_binstr(s)),
               [k \in 1..width |-> IF width - k < n THEN from_char(s[n - (width - k)]) ELSE "0"])

SignalInit ==
  /\ width \in Widths /\ offered \in BOOLEAN
  /\ image \in Returned([i \in 1..WordCount(width) |-> [aval |-> 2^Word - 1, bval |-> 2^Word - 1]])
  /\ put = <<>>
  /\ bits = [k \in 1..width |-> "x"]

SignalNext ==
  \/ \E v \in Ints : set_bigint(v) \/ \E type \in Small \cup Wide : set_int(type, v)
  \/ \E s \in Strings : set_logic(s)

SignalSpec == SignalInit /\ [][SignalNext]_signalVars
-----------------------------------------------------------------------------
(* What a read ought to give: by the bits, one after the other.            *)
Number(s) == MapThenSumSet(LAMBDA k : IF s[k] = "1" THEN 2^(Len(s) - k) ELSE 0, 1..Len(s))
TwoState(s) == \A k \in 1..Len(s) : s[k] \in {"0", "1"}
Value(s) == IF TwoState(s) THEN Ok(Number(s)) ELSE FourState(s)

(* Whatever was written, in whatever type, and whatever the simulator has  *)
(* in the bits that the signal does not have, each getter gives the bits   *)
(* that the signal has, or refuses: where the type is too small, where a   *)
(* bit is x or z, naming the bits, or where there is no vector value.  Of  *)
(* an object without a size (width 0), which has no first word, this is    *)
(* said of the getters that take all words only: those of one word, and    *)
(* is_high and is_low, panic there.                                        *)
ReadsAreExact ==
  /\ \A type \in Small \cup Wide :
       LET read == IF type \in Small THEN get_small(type) ELSE get_wide(type)
       IN  CASE width > SizeOf[type] -> read = Err("Width")
             [] width <= SizeOf[type] /\ ~offered -> read = Err("Unavailable")
             [] OTHER -> (width = 0 /\ type \in Small) \/ read = Value(bits)
  /\ get_bigint = IF offered THEN Value(bits) ELSE Err("Unavailable")
  /\ get_binstr = IF offered THEN Ok(bits) ELSE Err("Unavailable")
  /\ width > 0 => is_high = Ok(offered /\ bits = <<"1">>) /\ is_low = Ok(offered /\ bits = <<"0">>)

(* A LogicArray is the same value: it comes back from its string and from  *)
(* its words, converts to an integer that fits as the handle does, and to  *)
(* one that does not fit by its low bits.                                  *)
ArraysAreExact ==
  offered =>
    LET v == get_logic.ok
        low(n) == LET m == IF n < width THEN n ELSE width IN SubSeq(bits, width - m + 1, width)
        same(read, n) == read = IF TwoState(bits) THEN Ok(Number(low(n))) ELSE FourState(bits)
    IN  /\ v = from_binstr(bits) /\ to_binstr(v) = bits
        /\ from_vpi_words(to_vpi_words(v), width) = v
        /\ try_bigint(v) = Value(bits)
        /\ try_bool(v) = IF TwoState(bits) THEN Ok(IF Number(bits) = 0 THEN 0 ELSE 1) ELSE FourState(bits)
        /\ \A type \in Small \ {"bool"} : same(try_small(v, type), SizeOf[type])
        /\ \A type \in Wide : same(try_wide(v, type), SizeOf[type])
        /\ \A n \in Ints : to_binstr(from_bigint(n, width)) = BitsOf(n)
        /\ \A n \in Ints : n < 2^SizeOf["u128"] => from_int(n, width) = from_bigint(n, width)

(* The simulator gets as many words as the signal has, and nothing in the  *)
(* bits that it does not have.                                             *)
PutsAreClean ==
  put # <<>> => Len(put) = WordCount(width) /\ put = mask_vector_words(put)

(* Values are the same on both sides of the interface.                     *)
ValuesAreExact == ReadsAreExact /\ ArraysAreExact /\ PutsAreClean
=============================================================================
