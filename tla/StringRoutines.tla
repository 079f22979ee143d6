--------------------------- MODULE StringRoutines ---------------------------
(***************************************************************************)
(* util/strupr.c, util/STRPBRK.C and util/strtok.c.  A pointer is an       *)
(* offset from the start of its string, Null the null pointer.             *)
(***************************************************************************)
EXTENDS Ctype

Null == -1

strupr(s) == [i \in DOMAIN s |-> IF islower(s[i]) THEN _toupper(s[i]) ELSE s[i]]

(* The end of the string is taken for a character that was looked for.     *)
strpbrk_FindsEnd(s, chars) == SkipWhile(s, 0, AllBut(chars))

strpbrk(s, chars) ==
  LET p == SkipWhile(s, 0, AllBut(chars))
  IN IF CharAt(s, p) = NUL THEN Null ELSE p

(* The separator that ends a token is not stepped over, nor cleared.       *)
strtok_from_NotCut(s, p, separators) ==
  LET result == SkipWhile(s, p, separators)
      end == SkipWhile(s, result, AllBut(separators))
  IN IF end # result THEN [result |-> result, text |-> s, next |-> end]
     ELSE [result |-> Null, text |-> s, next |-> Null]

(* One call of strtok for the memory s, from the offset p on: the token,   *)
(* the memory after the call, and what the static variable next becomes.   *)
strtok_from(s, p, separators) ==
  LET result == SkipWhile(s, p, separators)
      end == SkipWhile(s, result, AllBut(separators))
  IN CASE CharAt(s, end) # NUL ->
            [result |-> result, text |-> [s EXCEPT ![end + 1] = NUL], next |-> end + 1]
       [] CharAt(s, end) = NUL /\ end # result ->
            [result |-> result, text |-> s, next |-> end]
       [] CharAt(s, end) = NUL /\ end = result ->
            [result |-> Null, text |-> s, next |-> Null]
=============================================================================
