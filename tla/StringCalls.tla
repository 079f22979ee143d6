---------------------------- MODULE StringCalls ----------------------------
(***************************************************************************)
(* Calls of the routines of util/ on characters, strings and numbers, and  *)
(* of the code in the skeletons that reads a command line with them, for   *)
(* any arguments, against definitions that do not follow a pointer.        *)
(* strtok keeps a pointer between its calls: those are sequences of calls, *)
(* by several users with a text each.                                      *)
(***************************************************************************)
EXTENDS CommandLine, RoutineCalls

CONSTANTS
  StringArgs, CharSets,   \* arguments of strupr and strpbrk
  Numbers,             \* the parts of a number in a text, and the radix
  Lines,               \* command lines
  Users, Texts, Delimiters, MaxTokens   \* the texts of strtok, what separates
                                        \* tokens, and how many calls follow

(* The parts of a number: blanks, a sign, the mark of radix 16, and what   *)
(* follows, which does not read as one of those that are left out.         *)
Behind(n) == n.prefix \o n.rest

IsNumber(n) ==
  /\ n.blanks \in Seq(Space)
  /\ n.sign \in {<<>>, <<Minus>>, <<Plus>>}
  /\ n.prefix \in {<<>>, <<48, 88>>, <<48, 120>>}                 \* 0X, 0x
  /\ n.rest \in Text
  /\ n.radix \in Nat
  /\ n.sign = <<>> => CharAt(Behind(n), 0) \notin Space \cup {Minus, Plus}
  /\ n.prefix = <<>> => ~Has0x(n.rest, 0)

ASSUME StringsAssumption ==
  /\ StringArgs \subseteq Text
  /\ CharSets \subseteq SUBSET (Char \ {NUL})
  /\ \A n \in Numbers : IsNumber(n)
  /\ Lines \subseteq Text
  /\ Texts \subseteq Text
  /\ Delimiters \subseteq Char \ {NUL}
  /\ MaxTokens \in Nat

VARIABLES
  memory,    \* of the users of strtok: their texts
  next,      \* the static variable: whose text, and the offset
  begun,     \* who has passed a text so far, one after the other
  tokens     \* what strtok has returned since the last of them did

strtokVars == <<memory, next, begun, tokens>>
vars == <<call, answer, memory, next, begun, tokens>>

Nothing == [user |-> "nobody", at |-> Null]

Calls ==
  [fn : {"strtok"}, texts : [Users -> Texts]]
  \cup [fn : {"strtoul", "strtol", "atol"}, number : Numbers]
  \cup [fn : {"ctype"}, char : -1..255]
  \cup [fn : {"strupr"}, string : StringArgs]
  \cup [fn : {"strpbrk"}, string : StringArgs, chars : CharSets]
  \cup [fn : {"mwdd32", "dev32", "sec32", "drv32"}, line : Lines]

Init ==
  /\ call \in Calls
  /\ answer = <<>>
  /\ memory = IF call.fn = "strtok" THEN call.texts ELSE <<>>
  /\ next = Nothing
  /\ begun = <<>>
  /\ tokens = <<>>

Returns(x) ==
  /\ answer = <<>>
  /\ answer' = <<x>>
  /\ UNCHANGED <<call, memory, next, begun, tokens>>

NumberText(n) == n.blanks \o (n.sign \o Behind(n))

call_number ==
  \/ call.fn = "strtoul" /\ Returns(strtoul(NumberText(call.number), call.number.radix))
  \/ call.fn = "strtol" /\ Returns(strtol(NumberText(call.number), call.number.radix))
  \/ call.fn = "atol" /\ Returns(atol(NumberText(call.number)))

AllClasses == {"alnum", "alpha", "cntrl", "digit", "graph", "lower", "print", "punct", "space",
               "upper", "xdigit"}
InClass(c, n) ==
  CASE n = "alnum" -> isalnum(c) [] n = "alpha" -> isalpha(c) [] n = "cntrl" -> iscntrl(c)
    [] n = "digit" -> isdigit(c) [] n = "graph" -> isgraph(c) [] n = "lower" -> islower(c)
    [] n = "print" -> isprint(c) [] n = "punct" -> ispunct(c) [] n = "space" -> isspace(c)
    [] n = "upper" -> isupper(c) [] n = "xdigit" -> isxdigit(c)

call_string ==
  \/ /\ call.fn = "ctype"
     /\ Returns([classes |-> {n \in AllClasses : InClass(call.char, n)},
                 toupper |-> toupper(call.char), tolower |-> tolower(call.char)])
  \/ call.fn = "strupr" /\ Returns(strupr(call.string))
  \/ call.fn = "strpbrk" /\ Returns(strpbrk(call.string, call.chars))

read_command_line ==
  \/ call.fn = "mwdd32" /\ Returns(mwdd32_switches(call.line))
  \/ call.fn = "dev32" /\ Returns(dev32_switches(call.line))
  \/ call.fn = "sec32" /\ Returns(sec32_switches(call.line))
  \/ call.fn = "drv32" /\ Returns(drv32_switches(call.line))
-----------------------------------------------------------------------------
(* strtok for the users: what it returns is the string it points to.       *)

EndOfString(text, at) ==
  CHOOSE i \in at..Len(text) :
    /\ CharAt(text, i) = NUL
    /\ \A k \in at..(i - 1) : CharAt(text, k) # NUL

(* No string of the memory contains a NUL.                                 *)
NullToken == <<NUL>>
Token(text, at) == IF at = Null THEN NullToken ELSE SubSeq(text, at + 1, EndOfString(text, at))

HasBegun(u) == \E i \in DOMAIN begun : begun[i] = u

CallStrtok(u, p) ==
  LET r == strtok_from(memory[u], p, Delimiters)
  IN /\ memory' = [memory EXCEPT ![u] = r.text]
     /\ next' = IF r.next = Null THEN Nothing ELSE [user |-> u, at |-> r.next]
     /\ tokens' = Append(IF begun' = begun THEN tokens ELSE <<>>, Token(r.text, r.result))

strtok_begin(u) ==
  /\ call.fn = "strtok" /\ ~HasBegun(u)
  /\ begun' = Append(begun, u)
  /\ CallStrtok(u, 0)
  /\ UNCHANGED <<call, answer>>

strtok_next ==
  /\ call.fn = "strtok" /\ Len(tokens) < MaxTokens
  /\ begun' = begun
  /\ IF next = Nothing
       THEN tokens' = Append(tokens, NullToken) /\ UNCHANGED <<memory, next>>
       ELSE CallStrtok(next.user, next.at)
  /\ UNCHANGED <<call, answer>>

Next ==
  \/ call_number \/ call_string \/ read_command_line
  \/ \E u \in Users : strtok_begin(u)
  \/ strtok_next

Spec == Init /\ [][Next]_vars
-----------------------------------------------------------------------------
(* What the routines promise.                                              *)

(* The value of a digit: 0 to 9, and 10 for both cases of the letter a.    *)
DigitOf(c) == IF c < 58 THEN c - 48 ELSE (c % 32) + 9
IsDigitOf(c, base) == (c \in 48..57 \/ c \in 65..90 \/ c \in 97..122) /\ DigitOf(c) < base

LongestRun(s, base) ==
  CHOOSE k \in 0..Len(s) :
    /\ \A i \in 1..k : IsDigitOf(s[i], base)
    /\ k = Len(s) \/ ~IsDigitOf(s[k + 1], base)

(* The number the first k digits of s state, without a limit.              *)
Numeral(s, base) ==
  LET value[k \in 0..Len(s)] == IF k = 0 THEN 0 ELSE value[k - 1] * base + DigitOf(s[k])
  IN value

Clamp(n, low, high) == IF n < low THEN low ELSE IF n > high THEN high ELSE n

(* Is the prefix a mark of radix 16?  It is part of the digits if not.     *)
Marked(n, radix) == n.prefix # <<>> /\ radix \in {0, 16}
StatedDigits(n, radix) == IF Marked(n, radix) THEN n.rest ELSE Behind(n)
StatedBase(n, radix) ==
  CASE Marked(n, radix) -> 16
    [] radix = 0 /\ ~Marked(n, radix) -> IF CharAt(Behind(n), 0) = 48 THEN 8 ELSE 10
    [] OTHER -> radix
StatedRun(n, radix) == LongestRun(StatedDigits(n, radix), StatedBase(n, radix))
StatedValue(n, radix) == Numeral(StatedDigits(n, radix), StatedBase(n, radix))[StatedRun(n, radix)]
Negated(n, m) == IF n.sign = <<Minus>> THEN -m ELSE m

StatedEnd(n) ==
  LET before == Len(n.blanks) + Len(n.sign) + (IF Marked(n, n.radix) THEN 2 ELSE 0)
  IN IF StatedBase(n, n.radix) \notin 2..36 THEN before
     ELSE IF StatedRun(n, n.radix) = 0 THEN 0 ELSE before + StatedRun(n, n.radix)

(* atol steps over blanks and tabs only (atol.c:49): a new line, or another *)
(* white space, in front of the number stops it.                           *)
StopsAtol(n) == n.blanks \notin Seq({Blank, Tab})

(* strtoul, strtol and atol return the number that the text states in the  *)
(* radix, or the nearest one a long can hold (atol: what is left of it in a *)
(* long), and end after its last digit, or where they began if there is no *)
(* digit (STRTOUL.C:41-130, strtol.c:41-131, atol.c:41-62).                *)
(* Two things are stated here that are deviations from ANSI C, to which    *)
(* doc/mwdd32/utils.im:38 refers, and no promises: behind a white space    *)
(* that is no blank and no tab atol (utils.im:156) returns 0 and not the   *)
(* number; and the 0 of a mark without a digit behind it is no digit.      *)
NumberIsItsValue ==
  LET n == call.number
      m == StatedValue(n, n.radix)
      counts == StatedBase(n, n.radix) \in 2..36
  IN /\ Answered("strtoul") =>
          /\ answer[1].end = StatedEnd(n)
          /\ answer[1].value = IF ~counts THEN 0
                               ELSE IF m > ULONG_MAX THEN ULONG_MAX ELSE Unsigned(Negated(n, m))
     /\ Answered("strtol") =>
          /\ answer[1].end = StatedEnd(n)
          /\ answer[1].value = IF ~counts THEN 0 ELSE Clamp(Negated(n, m), LONG_MIN, LONG_MAX)
     /\ Answered("atol") /\ ~StopsAtol(n) => answer[1] = Signed(Negated(n, StatedValue(n, 10)))
     /\ Answered("atol") /\ StopsAtol(n) => answer[1] = 0

-----------------------------------------------------------------------------
ASCIIClass(c, n) ==
  LET upper == c \in 65..90
      lower == c \in 97..122
      digit == c \in 48..57
      graph == c \in 33..126
  IN CASE n = "alnum" -> upper \/ lower \/ digit
       [] n = "alpha" -> upper \/ lower
       [] n = "cntrl" -> c \in 0..31 \/ c = 127
       [] n = "digit" -> digit
       [] n = "graph" -> graph
       [] n = "lower" -> lower
       [] n = "print" -> graph \/ c = 32
       [] n = "punct" -> graph /\ ~upper /\ ~lower /\ ~digit
       [] n = "space" -> c \in 9..13 \/ c = 32
       [] n = "upper" -> upper
       [] n = "xdigit" -> digit \/ c \in 65..70 \/ c \in 97..102

Raised(c) == IF c \in 97..122 THEN c - 32 ELSE c
Lowered(c) == IF c \in 65..90 THEN c + 32 ELSE c

(* The classes of the characters are those of ASCII, for the -1 before the *)
(* table too, and a letter has one other case (ctype.c:37-176); strupr     *)
(* raises the letters in place and strpbrk finds the first of the wanted   *)
(* characters (strupr.c:41-53, STRPBRK.C:41-59).                           *)
StringsAsDefined ==
  /\ Answered("ctype") =>
       /\ answer[1].classes = {n \in AllClasses : ASCIIClass(call.char, n)}
       /\ answer[1].toupper = Raised(call.char)
       /\ answer[1].tolower = Lowered(call.char)
  /\ Answered("strupr") => answer[1] = [i \in DOMAIN call.string |-> Raised(call.string[i])]
  /\ Answered("strpbrk") =>
       LET wanted == {i \in DOMAIN call.string : call.string[i] \in call.chars}
       IN \/ wanted = {} /\ answer[1] = Null
          \/ answer[1] + 1 \in wanted /\ \A i \in wanted : answer[1] + 1 <= i

-----------------------------------------------------------------------------
(* A text cut where separators stand: where its blocks begin, which of     *)
(* them begins at i, and what it consists of.                              *)
Separates(text, i) == i \notin DOMAIN text \/ text[i] \in Delimiters
Starts(text) == {i \in DOMAIN text : ~Separates(text, i) /\ Separates(text, i - 1)}
StartsUpTo(text, i) == {j \in Starts(text) : j <= i}
IsBlock(text, i, block) ==
  /\ Separates(text, i + Len(block))
  /\ \A k \in DOMAIN block : ~Separates(text, i + k - 1) /\ block[k] = text[i + k - 1]

IsToken(token, k, text) ==
  \/ token = NullToken /\ Cardinality(Starts(text)) < k
  \/ \E i \in Starts(text) : Cardinality(StartsUpTo(text, i)) = k /\ IsBlock(text, i, token)
CutWhereBlocksEnd(mem, text) ==
  /\ Len(mem) = Len(text)
  /\ \A i \in 1..Len(text) :
       \/ mem[i] = text[i]
       \/ /\ mem[i] = NUL
          /\ Separates(text, i) /\ i - 1 \in 1..Len(text) /\ ~Separates(text, i - 1)

(* The tokens that strtok returns, to whoever calls it, are the blocks of  *)
(* the text that was passed to it last, each of them once, and then null;  *)
(* the texts are changed where a token ends and nowhere else, and a text   *)
(* that was never passed is left alone (strtok.c:36-75).                   *)
TokensAreBlocks ==
  call.fn = "strtok" =>
    /\ \A k \in DOMAIN tokens :
         IF begun = <<>> THEN tokens[k] = NullToken
         ELSE IsToken(tokens[k], k, call.texts[begun[Len(begun)]])
    /\ \A u \in Users : /\ CutWhereBlocksEnd(memory[u], call.texts[u])
                        /\ ~HasBegun(u) => memory[u] = call.texts[u]

-----------------------------------------------------------------------------
(* Where a switch stands in a line: behind the minus or slash at k.        *)
SwitchesAt(line, word) ==
  {k \in DOMAIN line : line[k] \in {Minus, Slash}
                       /\ \A i \in DOMAIN word : Raised(CharAt(line, k + i - 1)) = word[i]}
KnowsIrq(fn) == fn = "drv32"

(* An init routine sees a switch wherever its name follows a minus or a    *)
(* slash, in either case, and no other text; the last interrupt level that *)
(* is given counts, as far as it fits a short (drv32_init_base.c:144-163,  *)
(* mwdd32_init_base.c:160-170).                                            *)
SwitchesAreSeen ==
  \A fn \in {"mwdd32", "dev32", "sec32", "drv32"} :
    Answered(fn) =>
      LET levels == IF KnowsIrq(fn) THEN SwitchesAt(call.line, IrqSwitch) ELSE {}
      IN /\ answer[1].quiet <=> SwitchesAt(call.line, QuietSwitch) # {}
         /\ answer[1].irq_ok <=> levels # {}
         /\ levels = {} => answer[1].irq_level = 0
         /\ \A k \in levels :
              \/ \E j \in levels : j > k
              \/ answer[1].irq_level =
                   strtoul(From(strupr(call.line), k + Len(IrqSwitch)), 0).value % (USHRT_MAX + 1)
=============================================================================
