------------------------------ MODULE Vsprintf ------------------------------
(***************************************************************************)
(* util/vsprintf.c.  The format and the result are sequences of character  *)
(* codes; an argument is a record with one of the fields int (what the     *)
(* caller pushed, before the cast to the type of the conversion), str, a   *)
(* string, and null, a null pointer.                                       *)
(***************************************************************************)
EXTENDS NumberStrings

CONSTANTS
  LongBits,    \* of a long and of an int, 32 in the program
  ShortBits    \* of a short, 16

Percent == 37
Dot == 46
Asterisk == 42
Lower(letter) == LowerA + letter     \* letters count from 0
Upper(letter) == UpperA + letter

(* The characters that set a flag.                                         *)
FlagOf == Minus :> "LEFT" @@ Plus :> "PLUS" @@ Blank :> "SPACE"
          @@ 35 :> "SPECIAL" @@ Digit0 :> "ZEROPAD"

Qualifiers == {Lower(7), Lower(11), Upper(11)}     \* h, l, L

(* The bits of a short, without its sign.                                  *)
ShortOf(n) == LET low == n % 2^ShortBits
              IN IF low >= 2^(ShortBits - 1) THEN low - 2^ShortBits ELSE low

digits(d, type) ==
  IF d < 10 THEN Digit0 + d
  ELSE (IF "LARGE" \in type THEN UpperA ELSE LowerA) + d - 10

(* The loop that divides num by base until nothing is left.                *)
RECURSIVE Positional(_, _, _)
Positional(n, base, type) ==
  IF n < base THEN <<digits(n, type)>>
  ELSE Append(Positional(n \div base, base, type), digits(n % base, type))

Fill(c, n) == [i \in 1..Max({n, 0}) |-> c]

(* What is missing is filled up with blanks before the sign, with zeros    *)
(* after it, or with blanks at the end; a precision plays no part in that. *)
FillPlace_NoZeros(type) == IF "LEFT" \in type THEN "end" ELSE "start"
FillPlace(type) ==
  CASE "LEFT" \in type -> "end"
    [] "LEFT" \notin type /\ "ZEROPAD" \in type -> "inside"
    [] OTHER -> "start"

(* The field is at least as wide as size.                                  *)
number(num, base, size, precision, type) ==
  LET negative == "SIGN" \in type /\ num < 0
      sign == CASE negative -> <<Minus>>
                [] "SIGN" \in type /\ ~negative /\ "PLUS" \in type -> <<Plus>>
                [] "SIGN" \in type /\ ~negative /\ "PLUS" \notin type /\ "SPACE" \in type -> <<Blank>>
                [] OTHER -> <<>>
      special == CASE "SPECIAL" \in type /\ base = 16 -> <<Digit0, digits(33, type)>>
                   [] "SPECIAL" \in type /\ base = 8 -> <<Digit0>>
                   [] OTHER -> <<>>
      value == Positional(Unsigned(IF negative THEN -num ELSE num), base, type)
      zeros == Fill(Digit0, precision - Len(value))
      missing == size - Len(sign \o special \o zeros \o value)
      At(where, c) == IF FillPlace(type) = where THEN Fill(c, missing) ELSE <<>>
  IN At("start", Blank) \o sign \o special \o At("inside", Digit0) \o zeros \o value \o At("end", Blank)

-----------------------------------------------------------------------------
(* The parts of a conversion, from the percent sign on.                    *)

skip_atoi(fmt, p) ==
  LET end == SkipWhile(fmt, p, {c \in Char : isdigit(c)})
  IN [value |-> FoldLeft(LAMBDA n, c : Signed(10 * n + c - Digit0), 0, SubSeq(fmt, p + 1, end)),
      next |-> end]

(* A number in the format, an asterisk for the next argument, or nothing.  *)
CountAt(fmt, p, args, default) ==
  CASE isdigit(CharAt(fmt, p)) ->
         [value |-> skip_atoi(fmt, p).value, next |-> skip_atoi(fmt, p).next, args |-> args]
    [] CharAt(fmt, p) = Asterisk ->
         [value |-> Signed(Head(args).int), next |-> p + 1, args |-> Tail(args)]
    [] OTHER -> [value |-> default, next |-> p, args |-> args]

(* The qualifier and the type, behind the precision.                       *)
Typed(fmt, flags, width, precision) ==
  LET qualified == CharAt(fmt, precision.next) \in Qualifiers
      at == IF qualified THEN precision.next + 1 ELSE precision.next
  IN [flags |-> flags, field_width |-> width, precision |-> precision.value,
      qualifier |-> IF qualified THEN CharAt(fmt, precision.next) ELSE NUL,
      type |-> CharAt(fmt, at), next |-> at + 1, args |-> precision.args]

NotNegative(precision) == [precision EXCEPT !.value = Max({@, 0})]

(* A negative width in an argument is the flag for the left side.          *)
Measured(fmt, given, starred, width) ==
  LET left == starred /\ width.value < 0
  IN Typed(fmt, IF left THEN given \cup {"LEFT"} ELSE given,
           IF left THEN -width.value ELSE width.value,
           IF CharAt(fmt, width.next) = Dot
             THEN NotNegative(CountAt(fmt, width.next + 1, width.args, 0))
             ELSE [width EXCEPT !.value = -1])

Conversion(fmt, p, args) ==
  LET end == SkipWhile(fmt, p + 1, DOMAIN FlagOf)
  IN Measured(fmt, {FlagOf[fmt[i]] : i \in (p + 2)..end},
              CharAt(fmt, end) = Asterisk, CountAt(fmt, end, args, -1))

(* The cast of an argument to the type of an integer conversion.           *)
Cast(n, c) ==
  LET signed == c.type \in {Lower(3), Lower(8)}
  IN CASE c.qualifier = Lower(7) -> IF signed THEN ShortOf(n) ELSE n % 2^ShortBits
       [] OTHER -> IF signed THEN Signed(n) ELSE Unsigned(n)

IntegerField(c, n) ==
  LET base == CASE c.type = Lower(14) -> 8 [] c.type \in {Lower(23), Upper(23)} -> 16 [] OTHER -> 10
      more == CASE c.type = Upper(23) -> {"LARGE"} [] c.type \in {Lower(3), Lower(8)} -> {"SIGN"}
                [] OTHER -> {}
  IN number(Cast(n, c), base, c.field_width, c.precision, c.flags \cup more)

PointerField(c, n) ==
  LET full == c.field_width = -1
  IN number(Unsigned(n), 16, IF full THEN LongBits \div 4 ELSE c.field_width, c.precision,
            IF full THEN c.flags \cup {"ZEROPAD"} ELSE c.flags)

Padded(c, s) ==
  LET fill == Fill(Blank, c.field_width - Len(s))
  IN IF "LEFT" \in c.flags THEN s \o fill ELSE fill \o s

strnlen(s, count) == IF count < 0 THEN Len(s) ELSE Min({Len(s), count})

NullText == <<60, 78, 85, 76, 76, 62>>     \* <NULL>

StringField(c, arg) ==
  LET s == IF "null" \in DOMAIN arg THEN NullText ELSE arg.str
  IN Padded(c, SubSeq(s, 1, strnlen(s, c.precision)))

-----------------------------------------------------------------------------
(* What a conversion adds to the result, its arguments being next.  With   *)
(* %n: where it stores how much was written, in how many bits; h does not  *)
(* matter to it.                                                           *)
Unknown(c) == (IF c.type # Percent THEN <<Percent>> ELSE <<>>)
              \o (IF c.type # NUL THEN <<c.type>> ELSE <<>>)

Converted(so_far, c) ==
  LET Write(s, rest) == [so_far EXCEPT !.out = @ \o s, !.args = rest]
  IN CASE c.type = Lower(2) -> Write(Padded(c, <<Head(c.args).int % 256>>), Tail(c.args))
       [] c.type = Lower(18) -> Write(StringField(c, Head(c.args)), Tail(c.args))
       [] c.type = Lower(15) -> Write(PointerField(c, Head(c.args).int), Tail(c.args))
       [] c.type = Lower(13) ->
            [so_far EXCEPT !.stored = Append(@, [value |-> Len(so_far.out), bits |-> LongBits]),
                           !.args = Tail(c.args)]
       [] c.type \in {Lower(14), Lower(23), Upper(23), Lower(3), Lower(8), Lower(20)} ->
            Write(IntegerField(c, Head(c.args).int), Tail(c.args))
       [] OTHER -> Write(Unknown(c), c.args)

(* The loop over the format.  so_far: the result, the arguments that are   *)
(* left, and what conversions %n have stored.                              *)
RECURSIVE Formatted(_, _, _)
Formatted(fmt, p, so_far) ==
  IF CharAt(fmt, p) = NUL THEN so_far
  ELSE IF CharAt(fmt, p) # Percent
    THEN Formatted(fmt, p + 1, [so_far EXCEPT !.out = Append(@, fmt[p + 1])])
  ELSE
    LET c == Conversion(fmt, p, so_far.args)
    IN Formatted(fmt, IF c.type = NUL THEN c.next - 1 ELSE c.next, Converted(so_far, c))

vsprintf(fmt, args) == Formatted(fmt, 0, [out |-> <<>>, args |-> args, stored |-> <<>>])
=============================================================================
