------------------------------ MODULE Fnmatch ------------------------------
(***************************************************************************)
(* util/fnmatch.c: file names against wildcards.  A string is the sequence *)
(* of its characters, without the terminating null character, and a        *)
(* pointer into a string is an offset.  The functions that only ever       *)
(* return _FNM_MATCH or FNM_NOMATCH are predicates here, and those that    *)
(* call themselves are functions of the two pointers they move.            *)
(*                                                                         *)
(* A definition with a suffix (match_comp_NoImplicitDot) is a faulty variant.*)
(***************************************************************************)
EXTENDS Integers, Sequences

(* The characters the models use, in the order of their codes.             *)
UpperLetters == <<
  "A", "B", "C", "D", "E", "F", "G", "H", "I", "J", "K", "L", "M", "N", "O",
  "P", "Q", "R", "S", "T", "U", "V", "W", "X", "Y", "Z">>
LowerLetters == <<
  "a", "b", "c", "d", "e", "f", "g", "h", "i", "j", "k", "l", "m", "n", "o",
  "p", "q", "r", "s", "t", "u", "v", "w", "x", "y", "z">>
Ascii ==
  <<"!", "*", "-", ".", "/", ":", "?">> \o UpperLetters
  \o <<"[", "\\", "]", "^">> \o LowerLetters

Code(c) == CHOOSE i \in DOMAIN Ascii : Ascii[i] = c

AsciiLetters == {UpperLetters[i] : i \in DOMAIN UpperLetters} \cup {LowerLetters[i] : i \in DOMAIN LowerLetters}

_nls_tolower(c) ==
  IF \E i \in DOMAIN UpperLetters : UpperLetters[i] = c
    THEN LowerLetters[CHOOSE i \in DOMAIN UpperLetters : UpperLetters[i] = c] ELSE c

Styles == {"POSIX", "OS2", "DOS"}
Options == {"NOESCAPE", "PATHNAME", "PERIOD", "IGNORECASE", "PATHPREFIX"}

NoChar == "NUL"
PathChar(s, p) == IF p < Len(s) THEN s[p + 1] ELSE NoChar
Drop(s, k) == SubSeq(s, k + 1, Len(s))

Pointers(s) == 0..Len(s)

(* The first place from p on where s has a character of stop or ends.      *)
Reach(s, p, stop) ==
  CHOOSE q \in p..Len(s) : /\ PathChar(s, q) \in stop \cup {NoChar}
                           /\ \A i \in p..(q - 1) : PathChar(s, i) \notin stop \cup {NoChar}

SkipStars(mask, m) ==
  CHOOSE q \in m..Len(mask) : /\ PathChar(mask, q) # "*"
                              /\ \A i \in m..(q - 1) : PathChar(mask, i) = "*"

Same(c, d, flags) ==
  IF "IGNORECASE" \in flags THEN _nls_tolower(c) = _nls_tolower(d) ELSE c = d
-----------------------------------------------------------------------------
(* The OS/2 and DOS styles, component by component.                        *)

IS_OS2_COMP_SEP == {"/", "\\"}
IS_OS2_COMP_END(c) == c = NoChar \/ c \in IS_OS2_COMP_SEP

skip_comp_os2(s, p) ==
  LET end == Reach(s, p, IS_OS2_COMP_SEP)
  IN IF end = Len(s) THEN end ELSE end + 1

(* case '*': the places of NAME where the loop tries the rest of MASK.     *)
star_os2(name, n, style) ==
  n..Reach(name, n, IS_OS2_COMP_SEP \cup (IF style = "DOS" THEN {"."} ELSE {}))

match_comp_os2(mask, name, mask_at, name_at, style, flags, has_dot) ==
  LET prefix == "PATHPREFIX" \in flags
      match[at \in Pointers(mask) \X Pointers(name)] ==
        LET m == at[1]
            n == at[2]
            c == PathChar(mask, m)
            d == PathChar(name, n)
        IN
        \/ /\ c = NoChar
           /\ d = NoChar \/ (prefix /\ d \in IS_OS2_COMP_SEP)
        \/ /\ c \in IS_OS2_COMP_SEP
           /\ \/ d \in IS_OS2_COMP_SEP
              \/ prefix /\ m + 1 = Len(mask) /\ d = NoChar
        \/ /\ c = "?"
           /\ match[<<m + 1, IF d = "." \/ IS_OS2_COMP_END(d) THEN n ELSE n + 1>>]
        \/ /\ c = "*"
           /\ \E k \in star_os2(name, n, style) : match[<<SkipStars(mask, m), k>>]
        \/ /\ c = "."
           /\ \/ d = "." /\ match[<<m + 1, n + 1>>]
              \/ ~has_dot /\ IS_OS2_COMP_END(d) /\ match[<<m + 1, n>>]
        \/ /\ c \notin {NoChar, "?", "*", "."} \cup IS_OS2_COMP_SEP
           /\ d # NoChar /\ Same(c, d, flags)
           /\ match[<<m + 1, n + 1>>]
  IN match[<<mask_at, name_at>>]

match_comp_NoImplicitDot(mask, name, m, n, style, flags) ==
  match_comp_os2(mask, name, m, n, style, flags, TRUE)

match_comp(mask, name, m, n, style, flags) ==
  match_comp_os2(mask, name, m, n, style, flags,
                 PathChar(name, Reach(name, n, {"."} \cup IS_OS2_COMP_SEP)) = ".")

(* The loop over the components at the end of _fnmatch_unsigned.           *)
match_components(mask, name, mask_at, name_at, style, flags) ==
  LET prefix == "PATHPREFIX" \in flags
      match[at \in Pointers(mask) \X Pointers(name)] ==
        LET m == at[1]
            n == at[2]
        IN
        \/ m = Len(mask) /\ (n = Len(name) \/ prefix)
        \/ /\ m < Len(mask) \/ (n < Len(name) /\ ~prefix)
           /\ match_comp(mask, name, m, n, style, flags)
           /\ match[<<skip_comp_os2(mask, m), skip_comp_os2(name, n)>>]
  IN match[<<mask_at, name_at>>]
-----------------------------------------------------------------------------
(* The Unix style, the whole path at once.                                 *)

(* case '[': the loop over the characters of the set that starts at start, *)
(* for the character c of NAME.                                            *)
scan_set(mask, start, c, flags, invert) ==
  LET Unescaped(p) ==
        IF "NOESCAPE" \notin flags /\ PathChar(mask, p) = "\\" THEN p + 1 ELSE p
      scan[turn \in Pointers(mask) \X BOOLEAN] ==
        LET p == turn[1]
            matched == turn[2]
            from == Unescaped(p)
            range == PathChar(mask, from + 1) = "-" /\ PathChar(mask, from + 2) # "]"
            to == IF range THEN Unescaped(from + 2) ELSE from
            in == Code(PathChar(mask, from)) <= Code(c) /\ Code(c) <= Code(PathChar(mask, to))
        IN IF PathChar(mask, p) = NoChar \/ (PathChar(mask, p) = "]" /\ p # start)
             THEN [end |-> p, matched |-> matched]
           ELSE IF PathChar(mask, from) = NoChar \/ PathChar(mask, to) = NoChar
             THEN [end |-> Len(mask), matched |-> matched]
           ELSE scan[<<to + 1, matched \/ (in # invert)>>]
  IN scan[<<start, FALSE>>]

match_set(mask, m, c, flags) ==
  LET invert == PathChar(mask, m + 1) \in {"!", "^"}
  IN scan_set(mask, m + (IF invert THEN 2 ELSE 1), c, flags, invert)

(* The third pointer is to the start of the current component of NAME.     *)
match_unix(mask, name, mask_at, name_at, flags) ==
  LET prefix == "PATHPREFIX" \in flags
      pathname == "PATHNAME" \in flags
      escapes == "NOESCAPE" \notin flags
      match[at \in Pointers(mask) \X Pointers(name) \X Pointers(name)] ==
        LET m == at[1]
            n == at[2]
            comp == at[3]
            c == PathChar(mask, m)
            d == PathChar(name, n)
            leadingDot == d = "." /\ "PERIOD" \in flags /\ n = comp
            separator == pathname /\ d = "/"
            ahead == IF d = NoChar THEN n ELSE n + 1
        IN
        \/ /\ c = NoChar
           /\ d = NoChar \/ (prefix /\ d = "/")
        \/ /\ c = "?"
           /\ d # NoChar /\ ~separator /\ ~leadingDot
           /\ match[<<m + 1, ahead, comp>>]
        \/ /\ c = "*"
           /\ ~leadingDot
           /\ \E k \in n..Reach(name, n, IF pathname THEN {"/"} ELSE {}) :
                match[<<SkipStars(mask, m), k, comp>>]
        \/ /\ c = "/"
           /\ \/ d = "/"
              \/ /\ prefix /\ d = NoChar
                 /\ \/ PathChar(mask, m + 1) = NoChar
                    \/ escapes /\ PathChar(mask, m + 1) = "\\" /\ PathChar(mask, m + 2) = NoChar
           /\ match[<<m + 1, ahead, IF pathname THEN ahead ELSE comp>>]
        \/ /\ c = "["
           /\ d # NoChar /\ ~separator /\ ~leadingDot
           /\ LET set == match_set(mask, m, d, flags)
              IN \/ /\ set.end = Len(mask)
                    /\ d = "["
                    /\ match[<<m + 1, ahead, comp>>]
                 \/ /\ set.end # Len(mask)
                    /\ set.matched
                    /\ match[<<set.end + 1, ahead, comp>>]
        \/ /\ c = "\\"
           /\ \/ ~escapes /\ d = "\\" /\ match[<<m + 1, ahead, comp>>]
              \/ /\ escapes /\ PathChar(mask, m + 1) \in {"*", "?"}
                 /\ d = PathChar(mask, m + 1)
                 /\ match[<<m + 2, ahead, comp>>]
              \/ /\ escapes /\ PathChar(mask, m + 1) \notin {"*", "?"}
                 /\ match[<<m + 1, n, comp>>]
        \/ /\ c \notin {NoChar, "?", "*", "/", "[", "\\"}
           /\ d # NoChar /\ Same(c, d, flags)
           /\ match[<<m + 1, ahead, comp>>]
  IN match[<<mask_at, name_at, name_at>>]
-----------------------------------------------------------------------------
(* _fnmatch_unsigned                                                       *)

Drive(s) == IF PathChar(s, 0) \in AsciiLetters /\ PathChar(s, 1) = ":" THEN s[1] ELSE "none"
SkipDrive(s) == IF Drive(s) = "none" THEN 0 ELSE 2

SameDrive(mask, name, flags) ==
  \/ Drive(mask) = Drive(name)
  \/ /\ Drive(mask) # "none" /\ Drive(name) # "none"
     /\ "IGNORECASE" \in flags
     /\ _nls_tolower(Drive(mask)) = _nls_tolower(Drive(name))

Colon(s, p) == \E i \in (p + 1)..Len(s) : s[i] = ":"

IsUnc(s, p, separators) == PathChar(s, p) \in separators /\ PathChar(s, p + 1) \in separators

match_os2_style(mask, name, m, n, style, flags) ==
  IF IsUnc(name, n, IS_OS2_COMP_SEP)
    THEN /\ IsUnc(mask, m, IS_OS2_COMP_SEP)
         /\ match_components(mask, name, m + 2, n + 2, style, flags)
    ELSE match_components(mask, name, m, n, style, flags)

(* A separator in MASK, preceded by a backslash or not: where it ends.     *)
UncSep(mask, m) ==
  IF PathChar(mask, m) = "/" THEN m + 1
  ELSE IF PathChar(mask, m) = "\\" /\ PathChar(mask, m + 1) = "/" THEN m + 2 ELSE m

match_unix_style(mask, name, m, n, flags) ==
  LET one == UncSep(mask, m)
      two == UncSep(mask, one)
  IN IF IsUnc(name, n, {"/"})
       THEN /\ m < one /\ one < two
            /\ match_unix(mask, name, two, n + 2, flags)
       ELSE match_unix(mask, name, m, n, flags)

fnmatch(mask, name, style, flags) ==
  LET m == SkipDrive(mask)
      n == SkipDrive(name)
      matches == CASE style = "POSIX" -> match_unix_style(mask, name, m, n, flags)
                   [] OTHER -> match_os2_style(mask, name, m, n, style, flags)
  IN CASE ~SameDrive(mask, name, flags) -> "NOMATCH"
       [] SameDrive(mask, name, flags) /\ Colon(mask, m) -> "ERR"
       [] OTHER -> IF ~Colon(name, n) /\ matches THEN "MATCH" ELSE "NOMATCH"
=============================================================================
