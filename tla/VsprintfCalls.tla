--------------------------- MODULE VsprintfCalls ---------------------------
(***************************************************************************)
(* Calls of vsprintf: conversions of one number with every combination of  *)
(* flags, and formats of several parts, against what they should come to.  *)
(***************************************************************************)
EXTENDS Vsprintf, RoutineCalls

CONSTANTS
  Fields, Pieces   \* conversions of one number; parts of a format, with
                   \* what each of them should come to

Sequences(S, n) == UNION {[1..k -> S] : k \in 0..n}
Joined(list) == FlattenSeq(list)

FormatCalls == [fn : {"vsprintf"}, field : Fields]
PieceCalls == {c \in [fn : {"vsprintf_pieces"}, pieces : Sequences(Pieces, 3)] :
                 \A i \in DOMAIN c.pieces : c.pieces[i].last => i = Len(c.pieces)}

Init == call \in FormatCalls \cup PieceCalls /\ answer = <<>>

Returns(x) == answer = <<>> /\ answer' = <<x>> /\ UNCHANGED call

(* The format of a single conversion and its arguments, from its parts: a  *)
(* width or precision of one digit, or an asterisk and an argument.        *)
Pushed(n) == [int |-> n]
CountText(n, starred) == IF starred THEN <<Asterisk>> ELSE IF n < 0 THEN <<>> ELSE <<Digit0 + n>>
FieldText(f) ==
  <<Percent>> \o SetToSeq({c \in DOMAIN FlagOf : FlagOf[c] \in f.flags})
  \o CountText(f.width, f.starred)
  \o (IF f.precision < 0 THEN <<>> ELSE <<Dot, Digit0 + f.precision>>)
  \o f.qualifier \o <<f.type>>
FieldArgs(f) == IF f.starred THEN <<Pushed(f.width), Pushed(f.number)>> ELSE <<Pushed(f.number)>>

call_vsprintf ==
  \/ call.fn = "vsprintf" /\ Returns(vsprintf(FieldText(call.field), FieldArgs(call.field)))
  \/ /\ call.fn = "vsprintf_pieces"
     /\ Returns(vsprintf(Joined([i \in DOMAIN call.pieces |-> call.pieces[i].format]),
                         Joined([i \in DOMAIN call.pieces |-> call.pieces[i].args])))

Next == call_vsprintf

Spec == Init /\ [][Next]_callVars
-----------------------------------------------------------------------------
SignedTypes == {Lower(3), Lower(8)}
BaseOfType(t) ==
  IF t = Lower(14) THEN 8 ELSE IF t \in {Lower(15), Lower(23), Upper(23)} THEN 16 ELSE 10

(* What C passes on of an argument, of the type that the format names.     *)
Passed(f) ==
  LET bits == IF f.qualifier = <<Lower(7)>> /\ f.type # Lower(15) THEN ShortBits ELSE LongBits
      low == f.number % 2^bits
  IN IF f.type \in SignedTypes /\ low >= 2^(bits - 1) THEN low - 2^bits ELSE low

LeftSide(f) == "LEFT" \in f.flags \/ (f.starred /\ f.width < 0)
Width(f) == IF f.width = -1 /\ ~f.starred THEN 0 ELSE Max({f.width, -f.width})

(* The digits of n in a base, their number being known from its size.      *)
DigitsOf(n, base, large) ==
  LET count == CHOOSE k \in 1..LongBits : n < base^k /\ (k = 1 \/ n >= base^(k - 1))
      value == [i \in 1..count |-> (n \div base^(count - i)) % base]
  IN [i \in 1..count |-> IF value[i] < 10 THEN Digit0 + value[i]
                          ELSE (IF large THEN UpperA ELSE LowerA) + value[i] - 10]

(* ANSI C on a number: its sign if the type has one and it is negative or  *)
(* a flag asks for it, the prefix of the flag #, at least as many digits   *)
(* as the precision says, and the width, filled with blanks on the right   *)
(* with the flag -, with zeros behind the sign and the prefix with the     *)
(* flag 0 and no precision, and else with blanks on the left.  Of %p it    *)
(* says nothing: as %08x, unless a width is given.                         *)
AnsiField(f) ==
  LET n == Passed(f)
      hex == BaseOfType(f.type) = 16
      pointer == f.type = Lower(15) /\ f.width = -1 /\ ~f.starred
      width == IF pointer THEN LongBits \div 4 ELSE Width(f)
      plain == IF n = 0 /\ f.precision = 0 THEN <<>>
               ELSE DigitsOf(Max({n, -n}), BaseOfType(f.type), f.type = Upper(23))
      digitsShown == Fill(Digit0, f.precision - Len(plain)) \o plain
      sign == CASE n < 0 -> <<Minus>>
                [] n >= 0 /\ f.type \in SignedTypes /\ "PLUS" \in f.flags -> <<Plus>>
                [] n >= 0 /\ f.type \in SignedTypes /\ "PLUS" \notin f.flags
                   /\ "SPACE" \in f.flags -> <<Blank>>
                [] OTHER -> <<>>
      prefix == CASE "SPECIAL" \in f.flags /\ hex /\ n # 0 ->
                       <<Digit0, IF f.type = Upper(23) THEN Upper(23) ELSE Lower(23)>>
                  [] "SPECIAL" \in f.flags /\ f.type = Lower(14)
                     /\ (digitsShown = <<>> \/ Head(digitsShown) # Digit0) -> <<Digit0>>
                  [] OTHER -> <<>>
      missing == width - Len(sign \o prefix \o digitsShown)
      zeros == pointer \/ ("ZEROPAD" \in f.flags /\ f.precision < 0)
  IN CASE LeftSide(f) -> sign \o prefix \o digitsShown \o Fill(Blank, missing)
       [] ~LeftSide(f) /\ zeros -> sign \o prefix \o Fill(Digit0, missing) \o digitsShown
       [] OTHER -> Fill(Blank, missing) \o sign \o prefix \o digitsShown

(* Where vsprintf is not what ANSI C says: it fills with zeros although    *)
(* there is a precision; it writes the digit 0 where there should be none, *)
(* the prefix 0x before a 0, and the prefix of %#o before a digit 0.       *)
NotAnsi(f) ==
  LET n == Passed(f)
      special == "SPECIAL" \in f.flags
  IN \/ "ZEROPAD" \in f.flags /\ ~LeftSide(f) /\ f.precision >= 0
     \/ n = 0 /\ f.precision = 0
     \/ special /\ n = 0 /\ BaseOfType(f.type) \in {8, 16}
     \/ special /\ f.type = Lower(14) /\ f.precision > Len(DigitsOf(n, 8, FALSE))

BlanksAtStart(s) == CHOOSE k \in 0..Len(s) :
  (\A i \in 1..k : s[i] = Blank) /\ (k = Len(s) \/ s[k + 1] # Blank)
BlanksAtEnd(s) == BlanksAtStart(Reverse(s))

(* The field of a number is that of ANSI C, but for the cases above.  In   *)
(* these too it reads back as the number, has its width, and is filled up  *)
(* on one side only and only when the number is shorter: with the flag 0   *)
(* by zeros, whatever the precision.                                       *)
FieldIsRight(f, s) ==
  LET bare == SubSeq(s, 1, Len(s) - BlanksAtEnd(s))
      read == IF f.type \in SignedTypes THEN strtol(bare, 10) ELSE strtoul(bare, BaseOfType(f.type))
      signBlank == IF /\ f.type \in SignedTypes /\ Passed(f) >= 0
                      /\ "SPACE" \in f.flags /\ "PLUS" \notin f.flags THEN 1 ELSE 0
      width == Max({Width(f), IF f.type = Lower(15) /\ f.width = -1 /\ ~f.starred
                                THEN LongBits \div 4 ELSE 0})
  IN /\ ~NotAnsi(f) => s = AnsiField(f)
     /\ read.value = Passed(f) /\ read.end = Len(bare)
     /\ Len(s) >= width
     /\ Cardinality({i \in DOMAIN s : isxdigit(s[i])}) >= f.precision
     /\ IF LeftSide(f) THEN BlanksAtStart(s) = signBlank ELSE BlanksAtEnd(s) = 0
     /\ "ZEROPAD" \in f.flags => BlanksAtStart(s) = signBlank
     /\ Len(s) > width => BlanksAtEnd(s) = 0 /\ BlanksAtStart(s) = signBlank

Stores(pieces) ==
  LET at == SelectSeq([i \in DOMAIN pieces |-> i], LAMBDA i : pieces[i].stores)
  IN [j \in DOMAIN at |->
        [value |-> Len(Joined([i \in 1..(at[j] - 1) |-> pieces[i].text])), bits |-> LongBits]]

(* vsprintf writes a number as ANSI C defines it, which utils.im:101 names *)
(* as the description of the format, except in the cases of NotAnsi, and   *)
(* there too so that it reads back in its base (vsprintf.c:146-224).  A    *)
(* format it writes part after part: each conversion takes its own         *)
(* arguments and leaves the others to those behind it, and %n stores how   *)
(* much was written before it (vsprintf.c:226-375).  Three parts are as    *)
(* the code has them and not as in ANSI C: %hn stores an int over a short, *)
(* a negative precision from an argument counts as 0, not as none, and %f  *)
(* is no conversion.                                                       *)
FormatsAsDefined ==
  /\ Answered("vsprintf") => FieldIsRight(call.field, answer[1].out)
  /\ Answered("vsprintf_pieces") =>
       /\ answer[1].out = Joined([i \in DOMAIN call.pieces |-> call.pieces[i].text])
       /\ answer[1].stored = Stores(call.pieces)
       /\ answer[1].args = <<>>
=============================================================================
