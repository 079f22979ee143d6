--------------------------- MODULE NumberStrings ---------------------------
(***************************************************************************)
(* util/STRTOUL.C, util/strtol.c and util/atol.c: numbers in text.  A      *)
(* string is the sequence of the codes of its characters, see Ctype.       *)
(***************************************************************************)
EXTENDS Ctype

CONSTANT LONG_MAX   \* 2^31 - 1 in the program

ASSUME LongAssumption == LONG_MAX \in Nat

ULONG_MAX == 2 * LONG_MAX + 1
LONG_MIN == -LONG_MAX - 1

(* What is left of a number in an unsigned long and in a long.             *)
Unsigned(n) == n % (ULONG_MAX + 1)
Signed(n) == IF Unsigned(n) > LONG_MAX THEN Unsigned(n) - ULONG_MAX - 1 ELSE Unsigned(n)

Blank == 32
Tab == 9
Minus == 45
Plus == 43

DigitValue(c) ==
  CASE c \in Digit0..(Digit0 + 9) -> c - Digit0
    [] c \in UpperA..(UpperA + 25) -> c - UpperA + 10
    [] c \in LowerA..(LowerA + 25) -> c - LowerA + 10
    [] OTHER -> 99
Digits(base) == {c \in Char : DigitValue(c) < base}

AfterSign(s, p) == IF CharAt(s, p) \in {Minus, Plus} THEN p + 1 ELSE p

Has0x(s, p) == CharAt(s, p) = Digit0 /\ CharAt(s, p + 1) \in {UpperA + 23, LowerA + 23}

Radix(s, p, radix) ==
  CASE radix \in {0, 16} /\ Has0x(s, p) -> 16
    [] radix = 0 /\ ~Has0x(s, p) -> IF CharAt(s, p) = Digit0 THEN 8 ELSE 10
    [] OTHER -> radix

(* The remainder is forgotten: the last quotient is always accepted.       *)
Accumulate_NoRemainder(acc, c, radix, lim) ==
  IF acc.state = "overflow" \/ acc.n > lim \div radix
    THEN [acc EXCEPT !.state = "overflow"]
    ELSE [n |-> acc.n * radix + c, state |-> "ok"]

(* One digit more, with the limit split into quotient and remainder.       *)
Accumulate(acc, c, radix, lim) ==
  LET max1 == lim \div radix
      max2 == lim - max1 * radix
      over == acc.n >= max1 /\ (acc.n > max1 \/ c > max2)
  IN IF acc.state = "overflow" \/ over THEN [acc EXCEPT !.state = "overflow"]
     ELSE [n |-> acc.n * radix + c, state |-> "ok"]

(* The loop over the digits from the offset first on, after k of them.     *)
Accumulated(s, first, base, lim) ==
  LET acc[k \in 0..Len(s)] ==
        IF k = 0 THEN [n |-> 0, state |-> "no_number"]
        ELSE Accumulate(acc[k - 1], DigitValue(CharAt(s, first + k - 1)), base, lim)
  IN acc

ScanDigits(s, neg, first, base, lim) ==
  LET end == SkipWhile(s, first, Digits(base))
      acc == Accumulated(s, first, base, lim)[end - first]
  IN [neg |-> neg, n |-> acc.n, state |-> acc.state, end |-> IF end = first THEN 0 ELSE end]

(* What follows the sign.                                                  *)
ScanNumber(s, neg, from, radix, lim) ==
  LET base == Radix(s, from, radix)
      first == IF radix \in {0, 16} /\ Has0x(s, from) THEN from + 2 ELSE from
  IN IF base \in 2..36 THEN ScanDigits(s, neg, first, base, lim)
     ELSE [neg |-> neg, n |-> 0, state |-> "no_radix", end |-> first]

(* What strtoul and strtol have in common: the number n before the sign is *)
(* applied, the state of the conversion, and where it ended.               *)
Scan(s, radix, limit, negative_limit) ==
  LET start == SkipWhile(s, 0, Space)
      neg == CharAt(s, start) = Minus
  IN ScanNumber(s, neg, AfterSign(s, start), radix, IF neg THEN negative_limit ELSE limit)

UnsignedResult(scan) ==
  [end |-> scan.end,
   value |-> CASE scan.state = "ok" -> Unsigned(IF scan.neg THEN -scan.n ELSE scan.n)
               [] scan.state = "overflow" -> ULONG_MAX
               [] OTHER -> 0]
strtoul(s, radix) == UnsignedResult(Scan(s, radix, ULONG_MAX, ULONG_MAX))

SignedResult(scan) ==
  [end |-> scan.end,
   value |-> CASE scan.state = "ok" -> Signed(IF scan.neg THEN -scan.n ELSE scan.n)
               [] scan.state = "overflow" -> IF scan.neg THEN LONG_MIN ELSE LONG_MAX
               [] OTHER -> 0]
strtol(s, radix) == SignedResult(Scan(s, radix, LONG_MAX, -LONG_MIN))

(* No radix, no limit: the sum wraps around, in the loop after k digits.   *)
Wrapped(s, first) ==
  LET sum[k \in 0..Len(s)] ==
        IF k = 0 THEN 0 ELSE Signed(sum[k - 1] * 10 + DigitValue(CharAt(s, first + k - 1)))
  IN sum

atol(s) ==
  LET start == SkipWhile(s, 0, {Blank, Tab})
      from == AfterSign(s, start)
      n == Wrapped(s, from)[SkipWhile(s, from, Digits(10)) - from]
  IN Signed(IF CharAt(s, start) = Minus THEN -n ELSE n)
=============================================================================
