---------------------------- MODULE KUtf16_toUtf8 ----------------------------
(***************************************************************************)
(* KUtf16_toUtf8 (_KUtf16_toUtf8.hpp): the conversion of a user name from  *)
(* UTF-16 code units to UTF-8 bytes, which fails on units that it takes    *)
(* for no character.                                                       *)
(***************************************************************************)
EXTENDS Integers, Sequences, SequencesExt

CONSTANT bytes_buf_utf8       \* the bytes of the buffer

ASSUME Utf8Assumption == bytes_buf_utf8 \in Nat /\ bytes_buf_utf8 > 4

IsHigh(u) == 55296 <= u /\ u < 56320      \* 0xd800 .. 0xdbff
IsLow(u)  == 56320 <= u /\ u < 57344      \* 0xdc00 .. 0xdfff

\* Continuation byte of the k-th group of six bits of c, from the right.
Six(c, k) == 128 + ((c \div 64^k) % 64)

\* The bytes of the character c, none if it does not fit in 20 bits.
Encoded(c) ==
    CASE c < 128     -> <<c>>
      [] 128 <= c /\ c < 2048      -> <<192 + (c \div 64), Six(c, 0)>>
      [] 2048 <= c /\ c < 65536    -> <<224 + (c \div 4096), Six(c, 1), Six(c, 0)>>
      [] 65536 <= c /\ c < 1048576 ->
            <<240 + (c \div 262144), Six(c, 2), Six(c, 1), Six(c, 0)>>
      [] OTHER -> <<>>

Failed == [ok |-> FALSE, high |-> 0, out |-> <<>>]

\* Mutant: the offset of the characters above 0xffff is forgotten.
CharacterNoOffset(high, u) ==
    IF high = 0 THEN u ELSE ((high - 55296) * 1024) + (u - 56320)

\* The character of a unit, or of a high surrogate and the unit after it,
\* whatever that is.
Character(high, u) ==
    IF high = 0 THEN u ELSE 65536 + ((high - 55296) * 1024) + (u - 56320)

\* The conversion goes on with unit u.  The room for four bytes is asked for
\* before each character but the first.
Converted(s, u) ==
    IF ~s.ok THEN s
    ELSE IF s.high = 0 /\ Len(s.out) > bytes_buf_utf8 - 4 THEN Failed
    ELSE IF s.high = 0 /\ IsLow(u) THEN Failed
    ELSE IF s.high = 0 /\ IsHigh(u) THEN [s EXCEPT !.high = u]
    ELSE LET bytes == Encoded(Character(s.high, u))
         IN IF bytes = <<>> THEN Failed
            ELSE [s EXCEPT !.high = 0, !.out = @ \o bytes]

\* Cvt_toUtf8: whether it succeeds, and the bytes.  The length is counted
\* down before it is compared with 0: without any unit the conversion runs
\* past the name until it fails.
Cvt_toUtf8(units) ==
    LET s == FoldLeft(Converted, [ok |-> TRUE, high |-> 0, out |-> <<>>], units)
    IN IF units = <<>> \/ s.high # 0 THEN Failed ELSE s

-----------------------------------------------------------------------------
(* What UTF-16 and UTF-8 are, without regard to the code. *)

\* Surrogates come in pairs, high before low.
WellFormed(units) ==
    \A i \in DOMAIN units :
        /\ IsHigh(units[i]) => i < Len(units) /\ IsLow(units[i + 1])
        /\ IsLow(units[i]) => i > 1 /\ IsHigh(units[i - 1])

\* The character of well-formed units that ends with the i-th unit.
CodePoint(units, i) ==
    IF IsLow(units[i])
    THEN 65536 + ((units[i - 1] % 1024) * 1024) + (units[i] % 1024)
    ELSE units[i]

\* UTF-8: the first byte says how many groups of six bits follow its own.
Utf8(c) ==
    LET more == IF c < 128 THEN 0 ELSE IF c < 2048 THEN 1
                ELSE IF c < 65536 THEN 2 ELSE 3
        lead == <<0, 192, 224, 240>>
    IN [i \in 1 .. more + 1 |->
          IF i = 1 THEN lead[more + 1] + (c \div 64^more)
          ELSE 128 + ((c \div 64^(more + 1 - i)) % 64)]

Text(units) ==
    FlattenSeq([i \in DOMAIN units |->
        IF IsHigh(units[i]) THEN <<>> ELSE Utf8(CodePoint(units, i))])

=============================================================================
