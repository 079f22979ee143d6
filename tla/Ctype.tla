------------------------------- MODULE Ctype -------------------------------
(***************************************************************************)
(* util/ctype.c and include/os2/ctype.h: the classes of characters.  A     *)
(* character is its code, 0 to 255; a string is the sequence of its codes  *)
(* without the NUL at its end, and a pointer into it an offset from 0.     *)
(***************************************************************************)
EXTENDS Integers, SequencesExt, FiniteSetsExt

Char == 0..255
NUL == 0
Digit0 == 48
UpperA == 65
LowerA == 97

(* Strings end at the first NUL.                                           *)
Text == Seq(Char \ {NUL})

(* The table has an entry for -1.                                          *)
_ctype == [c \in -1..255 |->
  CASE c \in 9..13 -> {"_CNTRL", "_SPACE"}
    [] c \in (0..8) \cup (14..31) \cup {127} -> {"_CNTRL"}
    [] c = 32 -> {"_PRINT", "_SPACE"}
    [] c \in 48..57 -> {"_PRINT", "_DIGIT", "_XDIGIT"}
    [] c \in 65..70 -> {"_PRINT", "_UPPER", "_XDIGIT"}
    [] c \in 71..90 -> {"_PRINT", "_UPPER"}
    [] c \in 97..102 -> {"_PRINT", "_LOWER", "_XDIGIT"}
    [] c \in 103..122 -> {"_PRINT", "_LOWER"}
    [] c \in (33..47) \cup (58..64) \cup (91..96) \cup (123..126) -> {"_PRINT", "_PUNCT"}
    [] OTHER -> {}]

Is(c, classes) == _ctype[c] \cap classes # {}

isalnum(c) == Is(c, {"_UPPER", "_LOWER", "_DIGIT"})
isalpha(c) == Is(c, {"_UPPER", "_LOWER"})
iscntrl(c) == Is(c, {"_CNTRL"})
isdigit(c) == Is(c, {"_DIGIT"})
isgraph(c) == Is(c, {"_PUNCT", "_UPPER", "_LOWER", "_DIGIT"})
islower(c) == Is(c, {"_LOWER"})
isprint(c) == Is(c, {"_PRINT"})
ispunct(c) == Is(c, {"_PUNCT"})
isspace(c) == Is(c, {"_SPACE"})
isupper(c) == Is(c, {"_UPPER"})
isxdigit(c) == Is(c, {"_XDIGIT"})

_toupper(c) == c - LowerA + UpperA
_tolower(c) == c - UpperA + LowerA
toupper(c) == IF islower(c) THEN _toupper(c) ELSE c
tolower(c) == IF isupper(c) THEN _tolower(c) ELSE c

(* The character an offset of a string leads to, and the rest from there.  *)
CharAt(s, p) == IF p < Len(s) THEN s[p + 1] ELSE NUL
From(s, p) == SubSeq(s, p + 1, Len(s))

(* The first offset from p on whose character is not in a class that NUL   *)
(* does not belong to.                                                     *)
SkipWhile(s, p, class) == Min({q \in p..Len(s) : CharAt(s, q) \notin class})

Space == {c \in Char : isspace(c)}
AllBut(class) == Char \ (class \cup {NUL})
=============================================================================
