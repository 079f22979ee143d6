---------------------------- MODULE FnmatchCalls ----------------------------
(***************************************************************************)
(* Calls of fnmatch in its three styles, for every mask and name of a      *)
(* suite, against definitions that do not follow a pointer: a name matches *)
(* if it can be cut into one piece per item of the mask.                   *)
(***************************************************************************)
EXTENDS Fnmatch, RoutineCalls, SequencesExt

CONSTANT
  Suites   \* what masks and names are made of, how long they are, and the
           \* styles and sets of options they are matched with

items == call.items
name == call.name
style == call.style
flags == call.flags

Lit(c) == [kind |-> "lit", char |-> c]
AnyChar == [kind |-> "any"]
Star == [kind |-> "star"]
(* A backslash that escapes nothing: the end of the mask is behind it, or a *)
(* character that means the same without it.                               *)
Backslash == [kind |-> "backslash"]
(* Members are pairs <<from, to>>, which are equal for a single character. *)
Set(members) == [kind |-> "set", negated |-> FALSE, members |-> members]
NegatedSet(members) == [kind |-> "set", negated |-> TRUE, members |-> members]

Strings(chars, n) == UNION {[1..k -> chars] : k \in 0..n}

Escaped(c) ==
  IF c \in {"*", "?"} /\ "NOESCAPE" \notin flags THEN <<"\\", c>> ELSE <<c>>

WriteMember(m) == IF m[1] = m[2] THEN <<m[1]>> ELSE <<m[1], "-", m[2]>>

WriteItem(item) ==
  CASE item.kind = "lit" -> Escaped(item.char)
    [] item.kind = "any" -> <<"?">>
    [] item.kind = "star" -> <<"*">>
    [] item.kind = "backslash" -> <<"\\">>
    [] OTHER -> <<"[">> \o (IF item.negated THEN <<"!">> ELSE <<>>)
                  \o FlattenSeq([i \in DOMAIN item.members |-> WriteMember(item.members[i])])
                  \o <<"]">>

mask == FlattenSeq([i \in DOMAIN items |-> WriteItem(items[i])])

EscapesNothing(its) ==
  \A i \in 1..(Len(its) - 1) : its[i] = Backslash => its[i + 1] \notin {AnyChar, Star}

FnmatchInit ==
  /\ \E suite \in Suites :
       call \in [fn : {"fnmatch"},
                items : Strings(suite.items, suite.mask_length),
                name : Strings(suite.chars, suite.name_length),
                style : suite.styles,
                flags : suite.options]
  /\ EscapesNothing(call.items)

call_fnmatch ==
  /\ call.fn = "fnmatch" /\ answer = <<>>
  /\ answer' = << fnmatch(mask, name, style, flags) >>
  /\ UNCHANGED call
-----------------------------------------------------------------------------
Piece(s, from, to) == SubSeq(s, from + 1, to)

(* What one character of a mask may stand for in the OS/2 and DOS styles:  *)
(* n[from+1..to].  At the end of a component and before a dot, a question  *)
(* mark may stand for nothing; a dot may stand for the implicit dot of a   *)
(* name without one.                                                       *)
CharStandsFor(c, n, from, to) ==
  LET piece == Piece(n, from, to)
      next == PathChar(n, to)
      dots == {i \in DOMAIN n : n[i] = "."}
  IN CASE c = "*" -> style = "DOS" => \A i \in DOMAIN piece : piece[i] # "."
       [] c = "?" -> \/ Len(piece) = 1 /\ piece[1] # "."
                     \/ Len(piece) = 0 /\ next \in {NoChar, "."}
       [] c = "." -> \/ piece = <<".">>
                     \/ piece = <<>> /\ next = NoChar /\ dots = {}
       [] OTHER -> Len(piece) = 1 /\ Same(c, piece[1], flags)

ComponentMatches(m, n) ==
  \E cut \in [0..Len(m) -> 0..Len(n)] :
    /\ cut[0] = 0 /\ cut[Len(m)] = Len(n)
    /\ \A i \in 1..Len(m) :
         cut[i - 1] <= cut[i] /\ CharStandsFor(m[i], n, cut[i - 1], cut[i])

(* The components of a path, the last one empty after a trailing separator.*)
Components(s) ==
  LET from[p \in Pointers(s)] ==
        LET end == Reach(s, p, IS_OS2_COMP_SEP)
        IN <<Piece(s, p, end)>> \o (IF end = Len(s) THEN <<>> ELSE from[end + 1])
  IN from[0]

PathMatches ==
  LET M == Components(mask)
      N == Components(name)
      prefix == "PATHPREFIX" \in flags
      \* a trailing separator in MASK is ignored with _FNM_PATHPREFIX
      needed == IF prefix /\ M[Len(M)] = <<>> THEN Len(M) - 1 ELSE Len(M)
  IN /\ IF prefix THEN needed <= Len(N) ELSE Len(M) = Len(N)
     /\ \A i \in 1..needed : ComponentMatches(M[i], N[i])
     /\ IsUnc(name, 0, IS_OS2_COMP_SEP) => IsUnc(mask, 0, IS_OS2_COMP_SEP)

(* fnmatch finds a match in the OS/2 and DOS styles exactly when the path  *)
(* can be cut up to match component by component (fnmatch.c:83-89 and      *)
(* 542-549): the search of the asterisk misses no way to match and a       *)
(* question mark that takes a character when it can never prevents one.    *)
MatchesByComponents ==
  Answered("fnmatch") /\ style # "POSIX" =>
    answer[1] = (IF PathMatches THEN "MATCH" ELSE "NOMATCH")
-----------------------------------------------------------------------------
(* Where the first component that is matched against wildcards starts: the *)
(* two separators of a UNC name must be written down, a backslash in front  *)
(* of each or not.                                                         *)
Start == IF IsUnc(name, 0, {"/"}) THEN 2 ELSE 0

StartsComponent(p) ==
  p = Start \/ ("PATHNAME" \in flags /\ p > 0 /\ name[p] = "/")

LeadingDot(p) ==
  /\ "PERIOD" \in flags
  /\ StartsComponent(p)
  /\ PathChar(name, p) = "."

InSet(c, item) ==
  (\E i \in DOMAIN item.members :
     LET m == item.members[i] IN Code(m[1]) <= Code(c) /\ Code(c) <= Code(m[2]))
    # item.negated

(* May the item stand for name[from+1..to]?                                *)
StandsFor(item, from, to) ==
  LET piece == SubSeq(name, from + 1, to)
      separators == IF "PATHNAME" \in flags THEN {"/"} ELSE {}
      reachable == \A i \in DOMAIN piece : piece[i] \notin separators
  IN CASE item.kind = "lit" -> Len(piece) = 1 /\ Same(piece[1], item.char, flags)
       [] item.kind = "any" -> Len(piece) = 1 /\ reachable /\ ~LeadingDot(from)
       [] item.kind = "star" -> reachable /\ ~LeadingDot(from)
       [] item.kind = "backslash" -> piece = <<>>
       [] OTHER -> /\ Len(piece) = 1 /\ reachable /\ ~LeadingDot(from)
                   /\ InSet(piece[1], item)

(* With _FNM_PATHPREFIX the name may go on at a separator, and a separator *)
(* at the end of the mask is ignored at the end of the name, also with one *)
(* backslash behind it.                                                    *)
CutMatches(cut) ==
  LET prefix == "PATHPREFIX" \in flags
      n == Len(items)
  IN /\ \A i \in 1..n :
          LET from == cut[i - 1]
              to == cut[i]
          IN \/ from < Start /\ to = from + 1 /\ items[i] = Lit("/")
             \/ from < Start /\ to = from /\ items[i] = Backslash /\ i < n /\ items[i + 1] = Lit("/")
             \/ from >= Start /\ to >= from /\ StandsFor(items[i], from, to)
             \/ /\ prefix /\ from = Len(name) /\ to = from /\ items[i] = Lit("/")
                /\ i = n \/ (i = n - 1 /\ items[n] = Backslash)
     /\ cut[n] >= Start
     /\ cut[n] = Len(name) \/ (prefix /\ name[cut[n] + 1] = "/")

NameMatches ==
  \E cut \in [0..Len(items) -> 0..Len(name)] : cut[0] = 0 /\ CutMatches(cut)

(* fnmatch finds a match in the POSIX style exactly when there is one, for *)
(* any FNM_PATHNAME, FNM_PERIOD and _FNM_PATHPREFIX and any mask of        *)
(* literal and escaped characters, wildcards, sets and backslashes that    *)
(* escape nothing, one at the end of the mask included (fnmatch.c:424-438). *)
MatchesByItems ==
  Answered("fnmatch") /\ style = "POSIX" =>
    answer[1] = (IF NameMatches THEN "MATCH" ELSE "NOMATCH")

(* fnmatch answers as the definitions by cutting say, in every style.      *)
MatchesAsDefined == MatchesByComponents /\ MatchesByItems

(* fnmatch.c:346-347: "If the first character is a ! or ^, the set matches *)
(* all characters not listed in the set."                                  *)
NegatedSetMatchesOthers ==
  Answered("fnmatch") /\ Len(items) = 1 /\ Len(name) = 1 =>
    \A set \in {items[1]} :
      set.kind = "set" /\ set.negated =>
        (answer[1] = "MATCH" <=>
           \A i \in DOMAIN set.members : set.members[i] # <<name[1], name[1]>>)
=============================================================================
