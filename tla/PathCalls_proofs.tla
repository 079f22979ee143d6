-------------------------- MODULE PathCalls_proofs --------------------------
(***************************************************************************)
(* The security driver of skeleton/ses refuses the files named CONFIG and  *)
(* no others, for paths of any length.                                     *)
(*                                                                         *)
(* match_comp_os2 and match_components call themselves.  Each is a         *)
(* function chosen so that its equation holds, so first there must be such *)
(* a function: Matched says which, without recursion, and TurnsExist and   *)
(* ComponentsAre that it satisfies the equation.  Then the equation must   *)
(* leave no choice: each call moves the pointer into the mask ahead, which *)
(* is eight characters long (TurnsDetermine).                              *)
(***************************************************************************)
EXTENDS PathCalls, TLAPS, WellFoundedInduction

(* A file as it is passed to fnmatch: no separators.                       *)
IsFile(file) ==
  /\ Len(file) \in Nat /\ DOMAIN file = 1..Len(file)
  /\ \A i \in DOMAIN file : file[i] \notin IS_OS2_COMP_SEP \cup {NoChar}

Caseless == {"IGNORECASE"}

(* The mask of the security driver, character by character.                *)
LEMMA MaskIs ==
  /\ Len(ConfigMask) = 8 /\ Pointers(ConfigMask) = 0..8
  /\ PathChar(ConfigMask, 0) = "C" /\ PathChar(ConfigMask, 1) = "O" /\ PathChar(ConfigMask, 2) = "N"
  /\ PathChar(ConfigMask, 3) = "F" /\ PathChar(ConfigMask, 4) = "I" /\ PathChar(ConfigMask, 5) = "G"
  /\ PathChar(ConfigMask, 6) = "." /\ PathChar(ConfigMask, 7) = "*" /\ PathChar(ConfigMask, 8) = NoChar
BY DEF ConfigMask, PathChar, Pointers

(* The null character is at the end of a file and nowhere else.            *)
LEMMA CharAtFile ==
  ASSUME NEW file, IsFile(file), NEW n \in 0..Len(file)
  PROVE  (PathChar(file, n) = NoChar <=> n = Len(file)) /\ PathChar(file, n) \notin IS_OS2_COMP_SEP
<1>0. Len(file) \in Nat
  BY DEF IsFile
<1>1. CASE n < Len(file)
  <2>1. n + 1 \in DOMAIN file /\ PathChar(file, n) = file[n + 1]
    BY <1>1 DEF PathChar, IsFile
  <2>2. file[n + 1] # NoChar /\ file[n + 1] \notin IS_OS2_COMP_SEP
    BY <2>1 DEF IsFile
  <2> QED
    BY <1>0, <1>1, <2>1, <2>2
<1>2. CASE ~(n < Len(file))
  <2>1. n = Len(file)
    BY <1>0, <1>2
  <2>2. PathChar(file, n) = NoChar
    BY <1>2 DEF PathChar
  <2>3. NoChar \notin IS_OS2_COMP_SEP
    BY DEF NoChar, IS_OS2_COMP_SEP
  <2> QED
    BY <2>1, <2>2, <2>3
<1> QED
  BY <1>1, <1>2

(* A scan for characters that do not follow ends at the end ...            *)
LEMMA ReachesEnd ==
  ASSUME NEW file, IsFile(file), NEW p \in 0..Len(file), NEW stop,
         \A q \in p..(Len(file) - 1) : PathChar(file, q) \notin stop
  PROVE  Reach(file, p, stop) = Len(file)
<1>0. Len(file) \in Nat
  BY DEF IsFile
<1> DEFINE Q(q) == /\ PathChar(file, q) \in stop \cup {NoChar}
                   /\ \A i \in p..(q - 1) : PathChar(file, i) \notin stop \cup {NoChar}
<1>1. \A q \in p..(Len(file) - 1) : PathChar(file, q) \notin stop \cup {NoChar}
  BY <1>0, CharAtFile
<1>2. PathChar(file, Len(file)) = NoChar
  BY <1>0 DEF PathChar
<1>3. Q(Len(file)) /\ Len(file) \in p..Len(file)
  BY <1>0, <1>1, <1>2
<1>4. \A q \in p..Len(file) : Q(q) => q = Len(file)
  BY <1>0, <1>1
<1>5. Reach(file, p, stop) = CHOOSE q \in p..Len(file) : Q(q)
  BY DEF Reach
<1> HIDE DEF Q
<1> QED
  BY <1>3, <1>4, <1>5, Zenon

(* ... as does a scan for separators ...                                   *)
LEMMA CompEnds ==
  ASSUME NEW file, IsFile(file), NEW p \in 0..Len(file)
  PROVE  Reach(file, p, IS_OS2_COMP_SEP) = Len(file) /\ skip_comp_os2(file, p) = Len(file)
<1>1. Reach(file, p, IS_OS2_COMP_SEP) = Len(file)
  <2>1. \A q \in p..(Len(file) - 1) : PathChar(file, q) \notin IS_OS2_COMP_SEP
    BY CharAtFile DEF IsFile
  <2> QED
    BY <2>1, ReachesEnd
<1> QED
  BY <1>1 DEF skip_comp_os2

(* ... also in the mask, which has none.                                   *)
LEMMA MaskIsFile == IsFile(ConfigMask)
<1>1. Len(ConfigMask) \in Nat /\ DOMAIN ConfigMask = 1..Len(ConfigMask)
  BY DEF ConfigMask
<1>2. \A i \in DOMAIN ConfigMask : ConfigMask[i] \notin IS_OS2_COMP_SEP \cup {NoChar}
  BY DEF ConfigMask, IS_OS2_COMP_SEP, NoChar
<1> QED
  BY <1>1, <1>2 DEF IsFile

(* Behind its only component, and behind its asterisk, the mask ends.      *)
LEMMA MaskEnds ==
  /\ \A m \in 0..8 : skip_comp_os2(ConfigMask, m) = 8
  /\ SkipStars(ConfigMask, 7) = 8
<1>1. \A m \in 0..8 : skip_comp_os2(ConfigMask, m) = 8
  BY MaskIs, MaskIsFile, CompEnds
<1>2. SkipStars(ConfigMask, 7) = 8
  <2> DEFINE Q(q) == PathChar(ConfigMask, q) # "*" /\ \A i \in 7..(q - 1) : PathChar(ConfigMask, i) = "*"
  <2>1. SkipStars(ConfigMask, 7) = CHOOSE q \in 7..8 : Q(q)
    BY MaskIs DEF SkipStars
  <2>2. 8 \in 7..8 /\ Q(8)
    BY MaskIs DEF NoChar
  <2>3. \A q \in 7..8 : Q(q) => q = 8
    BY MaskIs
  <2> HIDE DEF Q
  <2> QED
    BY <2>1, <2>2, <2>3, Zenon
<1> QED
  BY <1>1, <1>2

(* The letters are all different.                                          *)
LEMMA LettersAre ==
  /\ DOMAIN UpperLetters = 1..26 /\ DOMAIN LowerLetters = 1..26
  /\ \A i, j \in 1..26 : UpperLetters[i] = UpperLetters[j] => i = j
  /\ \A i, j \in 1..26 : LowerLetters[i] = LowerLetters[j] => i = j
  /\ \A i, j \in 1..26 : UpperLetters[i] # LowerLetters[j]
<1>1. DOMAIN UpperLetters = 1..26 /\ DOMAIN LowerLetters = 1..26
  BY DEF UpperLetters, LowerLetters
<1>2. \A i, j \in 1..26 : UpperLetters[i] = UpperLetters[j] => i = j
  BY SMTT(60) DEF UpperLetters
<1>3. \A i, j \in 1..26 : LowerLetters[i] = LowerLetters[j] => i = j
  BY SMTT(60) DEF LowerLetters
<1>4. \A i, j \in 1..26 : UpperLetters[i] # LowerLetters[j]
  BY SMTT(60) DEF UpperLetters, LowerLetters
<1> QED
  BY <1>1, <1>2, <1>3, <1>4

(* Without regard to the case, a letter is the same as a character that    *)
(* strupr would make it.                                                   *)
LEMMA SameLetter ==
  ASSUME NEW i \in 1..26, NEW d
  PROVE  Same(UpperLetters[i], d, Caseless) <=> RaisedLetter(d) = UpperLetters[i]
<1> DEFINE up(c) == \E j \in DOMAIN UpperLetters : UpperLetters[j] = c
           low(c) == \E j \in DOMAIN LowerLetters : LowerLetters[j] = c
<1>1. _nls_tolower(UpperLetters[i]) = LowerLetters[i]
  <2>1. \A j \in DOMAIN UpperLetters : UpperLetters[j] = UpperLetters[i] <=> j = i
    BY LettersAre
  <2>2. (CHOOSE j \in DOMAIN UpperLetters : UpperLetters[j] = UpperLetters[i]) = i
    BY <2>1, LettersAre, Zenon
  <2> QED
    BY <2>2, LettersAre DEF _nls_tolower
<1>2. ASSUME NEW j \in 1..26, d = UpperLetters[j]
      PROVE  (Same(UpperLetters[i], d, Caseless) <=> i = j) /\ (RaisedLetter(d) = UpperLetters[i] <=> i = j)
  <2>1. (CHOOSE k \in DOMAIN UpperLetters : UpperLetters[k] = d) = j
    BY <1>2, LettersAre
  <2>2. _nls_tolower(d) = LowerLetters[j]
    BY <1>2, <2>1, LettersAre DEF _nls_tolower
  <2>3. RaisedLetter(d) = d
    BY <1>2, LettersAre DEF RaisedLetter
  <2> QED
    BY <1>1, <1>2, <2>2, <2>3, LettersAre DEF Same, Caseless
<1>3. ASSUME NEW j \in 1..26, d = LowerLetters[j]
      PROVE  (Same(UpperLetters[i], d, Caseless) <=> i = j) /\ (RaisedLetter(d) = UpperLetters[i] <=> i = j)
  <2>1. (CHOOSE k \in DOMAIN LowerLetters : LowerLetters[k] = d) = j
    BY <1>3, LettersAre
  <2>2. RaisedLetter(d) = UpperLetters[j]
    BY <1>3, <2>1, LettersAre DEF RaisedLetter
  <2>3. _nls_tolower(d) = d
    BY <1>3, LettersAre DEF _nls_tolower
  <2> QED
    BY <1>1, <1>3, <2>2, <2>3, LettersAre DEF Same, Caseless
<1>4. CASE ~up(d) /\ ~low(d)
  <2>1. _nls_tolower(d) = d /\ RaisedLetter(d) = d
    BY <1>4 DEF _nls_tolower, RaisedLetter
  <2>2. d # LowerLetters[i] /\ d # UpperLetters[i]
    BY <1>4, LettersAre
  <2> QED
    BY <1>1, <2>1, <2>2 DEF Same, Caseless
<1> QED
  BY <1>2, <1>3, <1>4, LettersAre

(* The letters of the mask are among them.                                 *)
LEMMA ConfigLetters ==
  \A m \in 0..5 : \E i \in 1..26 : PathChar(ConfigMask, m) = UpperLetters[i]
<1>1. /\ UpperLetters[3] = "C" /\ UpperLetters[15] = "O" /\ UpperLetters[14] = "N"
      /\ UpperLetters[6] = "F" /\ UpperLetters[9] = "I" /\ UpperLetters[7] = "G"
  BY DEF UpperLetters
<1> QED
  BY <1>1, MaskIs

(* The letters of the mask from m on are those of the file from n on, and  *)
(* behind them is a dot, or the name ends and has no dot at all.           *)
DotAt(file, has_dot, n) ==
  n <= Len(file) /\ (PathChar(file, n) = "." \/ (~has_dot /\ n = Len(file)))
Spelled(file, has_dot, m, n) ==
  /\ n + (6 - m) <= Len(file)
  /\ \A i \in m..5 : Same(PathChar(ConfigMask, i), PathChar(file, n + (i - m)), Caseless)
  /\ DotAt(file, has_dot, n + (6 - m))
Matched(file, has_dot, m, n) ==
  \/ m = 8 /\ n = Len(file)
  \/ m = 7
  \/ m < 7 /\ Spelled(file, has_dot, m, n)

(* What a turn of the loop of match_comp_os2 does for this mask and a name *)
(* without separators, if match tells what the turns after it do.          *)
Turn(file, has_dot, match, m, n) ==
  \/ m = 8 /\ PathChar(file, n) = NoChar
  \/ m = 7 /\ \E k \in n..Len(file) : match[<<8, k>>]
  \/ m = 6 /\ PathChar(file, n) = "." /\ match[<<7, n + 1>>]
  \/ m = 6 /\ ~has_dot /\ PathChar(file, n) = NoChar /\ match[<<7, n>>]
  \/ /\ m < 6 /\ PathChar(file, n) # NoChar
     /\ Same(PathChar(ConfigMask, m), PathChar(file, n), Caseless)
     /\ match[<<m + 1, n + 1>>]

(* There is a function whose turns are these: whether the letters match.   *)
LEMMA TurnsExist ==
  ASSUME NEW file, IsFile(file), NEW has_dot \in BOOLEAN
  PROVE  LET found == [p \in (0..8) \X (0..Len(file)) |-> Matched(file, has_dot, p[1], p[2])]
         IN \A m \in 0..8, n \in 0..Len(file) : found[<<m, n>>] <=> Turn(file, has_dot, found, m, n)
<1> DEFINE found == [p \in (0..8) \X (0..Len(file)) |-> Matched(file, has_dot, p[1], p[2])]
<1> SUFFICES ASSUME NEW m \in 0..8, NEW n \in 0..Len(file)
             PROVE  found[<<m, n>>] <=> Turn(file, has_dot, found, m, n)
  OBVIOUS
<1>0. Len(file) \in Nat
  BY DEF IsFile
<1>1. \A i \in 0..8, k \in 0..Len(file) : found[<<i, k>>] <=> Matched(file, has_dot, i, k)
  OBVIOUS
<1> HIDE DEF found
<1>2. PathChar(file, n) = NoChar <=> n = Len(file)
  BY CharAtFile
<1>3. CASE m = 8
  BY <1>1, <1>2, <1>3 DEF Turn, Matched
<1>4. CASE m = 7
  <2>1. found[<<8, Len(file)>>]
    BY <1>0, <1>1 DEF Matched
  <2>2. Len(file) \in n..Len(file)
    BY <1>0
  <2>3. found[<<7, n>>]
    BY <1>1 DEF Matched
  <2> QED
    BY <1>4, <2>1, <2>2, <2>3 DEF Turn
<1>5. CASE m = 6
  <2>1. found[<<m, n>>] <=> Spelled(file, has_dot, 6, n)
    BY <1>1, <1>5 DEF Matched
  <2>2. Spelled(file, has_dot, 6, n) <=> DotAt(file, has_dot, n)
    BY <1>0 DEF Spelled, DotAt
  <2>3. DotAt(file, has_dot, n) <=> PathChar(file, n) = "." \/ (~has_dot /\ n = Len(file))
    BY <1>0 DEF DotAt
  <2>4. PathChar(file, n) = "." => n + 1 \in 0..Len(file)
    BY <1>0, <1>2 DEF NoChar
  <2>5. found[<<7, n>>] /\ (n + 1 \in 0..Len(file) => found[<<7, n + 1>>])
    BY <1>1 DEF Matched
  <2>6. Turn(file, has_dot, found, m, n)
          <=> \/ PathChar(file, n) = "." /\ found[<<7, n + 1>>]
              \/ ~has_dot /\ PathChar(file, n) = NoChar /\ found[<<7, n>>]
    BY <1>5 DEF Turn
  <2> QED
    BY <1>2, <2>1, <2>2, <2>3, <2>4, <2>5, <2>6
<1>6. CASE m < 6
  <2>1. found[<<m, n>>] <=> Spelled(file, has_dot, m, n)
    BY <1>1, <1>6 DEF Matched
  <2>2. Turn(file, has_dot, found, m, n)
          <=> /\ PathChar(file, n) # NoChar
              /\ Same(PathChar(ConfigMask, m), PathChar(file, n), Caseless)
              /\ found[<<m + 1, n + 1>>]
    BY <1>6 DEF Turn
  <2>3. CASE n = Len(file)
    BY <1>0, <1>2, <1>6, <2>1, <2>2, <2>3 DEF Spelled
  <2>4. CASE n < Len(file)
    <3>1. found[<<m + 1, n + 1>>] <=> Spelled(file, has_dot, m + 1, n + 1)
      BY <1>0, <1>1, <1>6, <2>4 DEF Matched
    <3>2. Spelled(file, has_dot, m, n)
            <=> /\ Same(PathChar(ConfigMask, m), PathChar(file, n), Caseless)
                /\ Spelled(file, has_dot, m + 1, n + 1)
      <4>1. \A i \in (m + 1)..5 : n + (i - m) = (n + 1) + (i - (m + 1))
        BY <1>0, <1>6
      <4>2. n + (6 - m) = (n + 1) + (6 - (m + 1)) /\ n + (m - m) = n
        BY <1>0, <1>6
      <4>3. m..5 = {m} \cup (m + 1)..5
        BY <1>6
      <4> QED
        BY <4>1, <4>2, <4>3 DEF Spelled
    <3> QED
      BY <1>2, <2>1, <2>2, <2>4, <3>1, <3>2
  <2> QED
    BY <1>0, <2>3, <2>4
<1> QED
  BY <1>3, <1>4, <1>5, <1>6

(* ... and the turns leave no choice.                                      *)
LEMMA TurnsDetermine ==
  ASSUME NEW file, IsFile(file), NEW has_dot \in BOOLEAN, NEW match,
         \A m \in 0..8, n \in 0..Len(file) : match[<<m, n>>] <=> Turn(file, has_dot, match, m, n)
  PROVE  match[<<0, 0>>] <=> Spelled(file, has_dot, 0, 0)
<1> DEFINE found == [p \in (0..8) \X (0..Len(file)) |-> Matched(file, has_dot, p[1], p[2])]
           Agree(m) == \A n \in 0..Len(file) : match[<<m, n>>] <=> found[<<m, n>>]
<1>0. Len(file) \in Nat /\ 0 \in 0..Len(file)
  BY DEF IsFile
<1>1. \A m \in 0..8, n \in 0..Len(file) : found[<<m, n>>] <=> Turn(file, has_dot, found, m, n)
  BY TurnsExist
<1>2. found[<<0, 0>>] <=> Spelled(file, has_dot, 0, 0)
  BY <1>0 DEF Matched
<1> HIDE DEF found
<1>3. \A n \in 0..Len(file) : PathChar(file, n) # NoChar => n + 1 \in 0..Len(file)
  BY <1>0, CharAtFile
<1>4. Agree(8)
  <2> SUFFICES ASSUME NEW n \in 0..Len(file)
               PROVE  match[<<8, n>>] <=> found[<<8, n>>]
    OBVIOUS
  <2>1. match[<<8, n>>] <=> Turn(file, has_dot, match, 8, n)
    OBVIOUS
  <2>2. found[<<8, n>>] <=> Turn(file, has_dot, found, 8, n)
    BY <1>1
  <2>3. Turn(file, has_dot, match, 8, n) <=> PathChar(file, n) = NoChar
    BY DEF Turn
  <2>4. Turn(file, has_dot, found, 8, n) <=> PathChar(file, n) = NoChar
    BY DEF Turn
  <2> QED
    BY <2>1, <2>2, <2>3, <2>4
<1>5. ASSUME NEW m \in 0..7, Agree(m + 1) PROVE Agree(m)
  <2> SUFFICES ASSUME NEW n \in 0..Len(file)
               PROVE  Turn(file, has_dot, match, m, n) <=> Turn(file, has_dot, found, m, n)
    BY <1>1
  <2>1. CASE m = 7
    <3>1. \A k \in n..Len(file) : match[<<8, k>>] <=> found[<<8, k>>]
      <4>1. m + 1 = 8
        BY <2>1
      <4>2. Agree(8)
        BY <1>5, <4>1
      <4>3. \A k \in n..Len(file) : k \in 0..Len(file)
        BY <1>0
      <4> QED
        BY <4>2, <4>3
    <3>2. Turn(file, has_dot, match, 7, n) <=> \E k \in n..Len(file) : match[<<8, k>>]
      BY DEF Turn
    <3>3. Turn(file, has_dot, found, 7, n) <=> \E k \in n..Len(file) : found[<<8, k>>]
      BY DEF Turn
    <3> QED
      BY <2>1, <3>1, <3>2, <3>3
  <2>2. CASE m = 6
    <3>1. match[<<7, n>>] <=> found[<<7, n>>]
      BY <1>5, <2>2
    <3>2. PathChar(file, n) = "." => (match[<<7, n + 1>>] <=> found[<<7, n + 1>>])
      BY <1>3, <1>5, <2>2 DEF NoChar
    <3> QED
      BY <2>2, <3>1, <3>2 DEF Turn
  <2>3. CASE m < 6
    <3>1. PathChar(file, n) # NoChar => (match[<<m + 1, n + 1>>] <=> found[<<m + 1, n + 1>>])
      BY <1>3, <1>5
    <3> QED
      BY <2>3, <3>1 DEF Turn
  <2> QED
    BY <2>1, <2>2, <2>3
<1>6. Agree(0)
  <2> HIDE DEF Agree
  <2>0. \A m \in 0..7 : Agree(m + 1) => Agree(m)
    BY <1>5
  <2>1. Agree(7 + 1) => Agree(7)
    <3>1. 7 \in 0..7
      OBVIOUS
    <3> QED
      BY <2>0, <3>1, Zenon
  <2>2. Agree(6 + 1) => Agree(6)
    BY <2>0
  <2>3. Agree(5 + 1) => Agree(5)
    BY <2>0
  <2>4. Agree(4 + 1) => Agree(4)
    BY <2>0
  <2>5. Agree(3 + 1) => Agree(3)
    BY <2>0
  <2>6. Agree(2 + 1) => Agree(2)
    BY <2>0
  <2>7. Agree(1 + 1) => Agree(1)
    BY <2>0
  <2>8. Agree(0 + 1) => Agree(0)
    BY <2>0
  <2> QED
    BY <1>4, <2>1, <2>2, <2>3, <2>4, <2>5, <2>6, <2>7, <2>8
<1> QED
  BY <1>0, <1>2, <1>6

(* So match_comp_os2 compares the file with the mask.                      *)
LEMMA CompIs ==
  ASSUME NEW file, IsFile(file), NEW has_dot \in BOOLEAN
  PROVE  match_comp_os2(ConfigMask, file, 0, 0, "OS2", Caseless, has_dot)
           <=> Spelled(file, has_dot, 0, 0)
<1> DEFINE Body(v, m, n) ==
             LET c == PathChar(ConfigMask, m)
                 d == PathChar(file, n)
                 prefix == "PATHPREFIX" \in Caseless
             IN
             \/ /\ c = NoChar
                /\ d = NoChar \/ (prefix /\ d \in IS_OS2_COMP_SEP)
             \/ /\ c \in IS_OS2_COMP_SEP
                /\ \/ d \in IS_OS2_COMP_SEP
                   \/ prefix /\ m + 1 = Len(ConfigMask) /\ d = NoChar
             \/ /\ c = "?"
                /\ v[<<m + 1, IF d = "." \/ IS_OS2_COMP_END(d) THEN n ELSE n + 1>>]
             \/ /\ c = "*"
                /\ \E k \in star_os2(file, n, "OS2") : v[<<SkipStars(ConfigMask, m), k>>]
             \/ /\ c = "."
                /\ \/ d = "." /\ v[<<m + 1, n + 1>>]
                   \/ ~has_dot /\ IS_OS2_COMP_END(d) /\ v[<<m + 1, n>>]
             \/ /\ c \notin {NoChar, "?", "*", "."} \cup IS_OS2_COMP_SEP
                /\ d # NoChar /\ Same(c, d, Caseless)
                /\ v[<<m + 1, n + 1>>]
           Def(v) == [at \in Pointers(ConfigMask) \X Pointers(file) |-> Body(v, at[1], at[2])]
<1>0. Len(file) \in Nat /\ Pointers(ConfigMask) = 0..8 /\ Pointers(file) = 0..Len(file)
  BY MaskIs DEF Pointers, IsFile
<1>1. ASSUME NEW v, NEW m \in 0..8, NEW n \in 0..Len(file)
      PROVE  Body(v, m, n) <=> Turn(file, has_dot, v, m, n)
  <2> DEFINE c == PathChar(ConfigMask, m)
             d == PathChar(file, n)
  <2>1. (d = NoChar <=> n = Len(file)) /\ d \notin IS_OS2_COMP_SEP
    BY CharAtFile
  <2>2. IS_OS2_COMP_END(d) <=> d = NoChar
    BY <2>1 DEF IS_OS2_COMP_END
  <2>3. star_os2(file, n, "OS2") = n..Len(file)
    <3>1. IS_OS2_COMP_SEP \cup (IF "OS2" = "DOS" THEN {"."} ELSE {}) = IS_OS2_COMP_SEP
      OBVIOUS
    <3> QED
      BY <1>0, <3>1, CompEnds DEF star_os2
  <2>4. "PATHPREFIX" \notin Caseless
    BY DEF Caseless
  <2>5. CASE m = 8
    <3>1. c = NoChar
      BY <2>5, MaskIs
    <3> HIDE DEF d
    <3> QED
      BY <2>4, <2>5, <3>1 DEF Turn, NoChar, IS_OS2_COMP_SEP
  <2>6. CASE m = 7
    <3>1. c = "*" /\ SkipStars(ConfigMask, m) = 8
      BY <2>6, MaskIs, MaskEnds
    <3> HIDE DEF d
    <3>2. Body(v, m, n) <=> \E k \in star_os2(file, n, "OS2") : v[<<SkipStars(ConfigMask, m), k>>]
      BY <3>1 DEF NoChar, IS_OS2_COMP_SEP
    <3>3. Turn(file, has_dot, v, m, n) <=> \E k \in n..Len(file) : v[<<8, k>>]
      BY <2>6 DEF Turn
    <3> HIDE DEF Body
    <3> QED
      BY <2>3, <3>1, <3>2, <3>3
  <2>7. CASE m = 6
    <3>1. c = "."
      BY <2>7, MaskIs
    <3> QED
      BY <2>2, <2>7, <3>1 DEF Turn, NoChar, IS_OS2_COMP_SEP
  <2>8. CASE m < 6
    <3>1. c \notin {NoChar, "?", "*", "."} \cup IS_OS2_COMP_SEP
      BY <2>8, MaskIs DEF NoChar, IS_OS2_COMP_SEP
    <3> HIDE DEF c, d
    <3>2. Body(v, m, n) <=> d # NoChar /\ Same(c, d, Caseless) /\ v[<<m + 1, n + 1>>]
      BY <3>1 DEF c, d
    <3>3. Turn(file, has_dot, v, m, n) <=> d # NoChar /\ Same(c, d, Caseless) /\ v[<<m + 1, n + 1>>]
      BY <2>8 DEF Turn, c, d
    <3> QED
      BY <3>2, <3>3
  <2> HIDE DEF Body
  <2> QED
    BY <2>5, <2>6, <2>7, <2>8
<1> HIDE DEF Body
<1> DEFINE found == [p \in (0..8) \X (0..Len(file)) |-> Matched(file, has_dot, p[1], p[2])]
<1>2. found = Def(found)
  <2>1. \A m \in 0..8, n \in 0..Len(file) : Matched(file, has_dot, m, n) <=> Body(found, m, n)
    <3>1. \A m \in 0..8, n \in 0..Len(file) : found[<<m, n>>] <=> Turn(file, has_dot, found, m, n)
      BY TurnsExist
    <3>2. \A m \in 0..8, n \in 0..Len(file) : found[<<m, n>>] <=> Matched(file, has_dot, m, n)
      OBVIOUS
    <3> HIDE DEF found
    <3> QED
      BY <1>1, <3>1, <3>2
  <2>2. \A p \in (0..8) \X (0..Len(file)) : Matched(file, has_dot, p[1], p[2]) = Body(found, p[1], p[2])
    <3>1. \A m \in 0..8, n \in 0..Len(file) : Matched(file, has_dot, m, n) \in BOOLEAN
      BY DEF Matched
    <3>2. \A m \in 0..8, n \in 0..Len(file) : Body(found, m, n) \in BOOLEAN
      BY DEF Body
    <3> HIDE DEF found
    <3> QED
      BY <2>1, <3>1, <3>2
  <2> QED
    BY <1>0, <2>2
<1> DEFINE v == CHOOSE v : v = Def(v)
<1>3. match_comp_os2(ConfigMask, file, 0, 0, "OS2", Caseless, has_dot) <=> v[<<0, 0>>]
  BY DEF match_comp_os2, Body
<1>4. v = Def(v)
  <2> HIDE DEF Def, found
  <2> QED
    BY <1>2, Zenon
<1> HIDE DEF v
<1>5. \A m \in 0..8, n \in 0..Len(file) : v[<<m, n>>] <=> Turn(file, has_dot, v, m, n)
  <2>1. \A m \in 0..8, n \in 0..Len(file) : v[<<m, n>>] = Body(v, m, n)
    <3>1. \A m \in 0..8, n \in 0..Len(file) : Def(v)[<<m, n>>] = Body(v, m, n)
      BY <1>0
    <3> HIDE DEF Def
    <3> QED
      BY <1>4, <3>1
  <2> QED
    BY <1>1, <2>1
<1> QED
  BY <1>3, <1>5, TurnsDetermine

(* The file is called CONFIG, in any case, with or without an extension.   *)
IsConfig(file) ==
  /\ 6 <= Len(file)
  /\ \A i \in 0..5 : RaisedLetter(PathChar(file, i)) = PathChar(ConfigMask, i)
  /\ Len(file) = 6 \/ PathChar(file, 6) = "."

(* A dot has no case and is no letter.                                     *)
LEMMA DotIsNoLetter ==
  \A m \in 0..5 : RaisedLetter(".") # PathChar(ConfigMask, m)
<1>1. \A i \in DOMAIN LowerLetters : LowerLetters[i] # "."
  BY DEF LowerLetters
<1>2. RaisedLetter(".") = "."
  BY <1>1 DEF RaisedLetter
<1> QED
  BY <1>2, MaskIs

(* match_comp finds that the file is called so.                            *)
LEMMA MatchCompIs ==
  ASSUME NEW file, IsFile(file)
  PROVE  match_comp(ConfigMask, file, 0, 0, "OS2", Caseless) <=> IsConfig(file)
<1> DEFINE has_dot == PathChar(file, Reach(file, 0, {"."} \cup IS_OS2_COMP_SEP)) = "."
<1>0. Len(file) \in Nat
  BY DEF IsFile
<1>1. match_comp(ConfigMask, file, 0, 0, "OS2", Caseless) <=> Spelled(file, has_dot, 0, 0)
  <2>1. match_comp(ConfigMask, file, 0, 0, "OS2", Caseless)
          = match_comp_os2(ConfigMask, file, 0, 0, "OS2", Caseless, has_dot)
    BY DEF match_comp
  <2>2. has_dot \in BOOLEAN
    OBVIOUS
  <2> HIDE DEF has_dot
  <2> QED
    BY <2>1, <2>2, CompIs
<1> DEFINE LettersMatch == \A i \in 0..5 : RaisedLetter(PathChar(file, i)) = PathChar(ConfigMask, i)
<1>2. LettersMatch <=> \A i \in 0..5 : Same(PathChar(ConfigMask, i), PathChar(file, 0 + (i - 0)), Caseless)
  <2> SUFFICES ASSUME NEW i \in 0..5
               PROVE  RaisedLetter(PathChar(file, i)) = PathChar(ConfigMask, i)
                        <=> Same(PathChar(ConfigMask, i), PathChar(file, 0 + (i - 0)), Caseless)
    OBVIOUS
  <2>1. PICK k \in 1..26 : PathChar(ConfigMask, i) = UpperLetters[k]
    BY ConfigLetters
  <2>2. 0 + (i - 0) = i
    OBVIOUS
  <2> QED
    BY <2>1, <2>2, SameLetter
<1>3. Spelled(file, has_dot, 0, 0)
        <=> 6 <= Len(file) /\ LettersMatch /\ (PathChar(file, 6) = "." \/ (~has_dot /\ 6 = Len(file)))
  <2> HIDE DEF has_dot, LettersMatch
  <2> QED
    BY <1>2 DEF Spelled, DotAt
<1>4. ASSUME LettersMatch, Len(file) = 6 PROVE ~has_dot
  <2>1. \A q \in 0..5 : PathChar(file, q) # "."
    BY <1>4, DotIsNoLetter
  <2>2. \A q \in 0..(Len(file) - 1) : PathChar(file, q) \notin {"."} \cup IS_OS2_COMP_SEP
    BY <1>4, <2>1, CharAtFile
  <2>3. Reach(file, 0, {"."} \cup IS_OS2_COMP_SEP) = Len(file)
    BY <1>0, <2>2, ReachesEnd
  <2>4. PathChar(file, Len(file)) = NoChar
    BY <1>0, CharAtFile
  <2> QED
    BY <2>3, <2>4 DEF NoChar
<1> QED
  <2> HIDE DEF has_dot
  <2> QED
    BY <1>0, <1>1, <1>3, <1>4 DEF IsConfig

(* Neither has a second component: what match_comp finds is the answer.    *)
LEMMA ComponentsAre ==
  ASSUME NEW file, IsFile(file)
  PROVE  match_components(ConfigMask, file, 0, 0, "OS2", Caseless) <=> IsConfig(file)
<1> DEFINE N == Len(file)
           comp(m, n) == match_comp(ConfigMask, file, m, n, "OS2", Caseless)
           Body(v, m, n) ==
             LET prefix == "PATHPREFIX" \in Caseless
             IN
             \/ m = Len(ConfigMask) /\ (n = Len(file) \/ prefix)
             \/ /\ m < Len(ConfigMask) \/ (n < Len(file) /\ ~prefix)
                /\ comp(m, n)
                /\ v[<<skip_comp_os2(ConfigMask, m), skip_comp_os2(file, n)>>]
           Def(v) == [at \in Pointers(ConfigMask) \X Pointers(file) |-> Body(v, at[1], at[2])]
           found == [p \in (0..8) \X (0..N) |-> (p[1] = 8 /\ p[2] = N) \/ comp(p[1], p[2])]
<1>0. /\ N \in Nat /\ Pointers(ConfigMask) = 0..8 /\ Pointers(file) = 0..N /\ Len(ConfigMask) = 8
      /\ "PATHPREFIX" \notin Caseless
  BY MaskIs DEF Pointers, IsFile, Caseless
<1>1. ASSUME NEW v, NEW m \in 0..8, NEW n \in 0..N
      PROVE  Body(v, m, n) <=> \/ m = 8 /\ n = N
                               \/ ~(m = 8 /\ n = N) /\ comp(m, n) /\ v[<<8, N>>]
  <2>1. skip_comp_os2(ConfigMask, m) = 8 /\ skip_comp_os2(file, n) = N
    BY MaskEnds, CompEnds
  <2>2. (m < 8 \/ n < N) <=> ~(m = 8 /\ n = N)
    BY <1>0
  <2> HIDE DEF comp
  <2> QED
    BY <1>0, <2>1, <2>2
<1> HIDE DEF comp
<1>2. found = Def(found)
  <2>1. \A m \in 0..8, n \in 0..N : found[<<m, n>>] <=> (m = 8 /\ n = N) \/ comp(m, n)
    OBVIOUS
  <2>2. found[<<8, N>>]
    <3>1. 8 \in 0..8 /\ N \in 0..N
      BY <1>0
    <3> HIDE DEF found, N
    <3> QED
      BY <2>1, <3>1
  <2>3. \A m \in 0..8, n \in 0..N : Body(found, m, n) <=> (m = 8 /\ n = N) \/ comp(m, n)
    <3> HIDE DEF found, Body
    <3> QED
      BY <1>1, <2>2
  <2>4. \A m \in 0..8, n \in 0..N : Body(found, m, n) \in BOOLEAN
    OBVIOUS
  <2> HIDE DEF Body
  <2>5. \A m \in 0..8, n \in 0..N : Body(found, m, n) = ((m = 8 /\ n = N) \/ comp(m, n))
    <3> HIDE DEF found
    <3> QED
      BY <2>3, <2>4
  <2>6. Def(found) = [p \in (0..8) \X (0..N) |-> Body(found, p[1], p[2])]
    <3> HIDE DEF found
    <3> QED
      BY <1>0
  <2> QED
    BY <2>5, <2>6
<1> DEFINE v == CHOOSE v : v = Def(v)
<1>3. match_components(ConfigMask, file, 0, 0, "OS2", Caseless) <=> v[<<0, 0>>]
  BY DEF match_components, comp
<1>4. v = Def(v)
  <2> HIDE DEF Def, found
  <2> QED
    BY <1>2, Zenon
<1> HIDE DEF v
<1>5. \A m \in 0..8, n \in 0..N : v[<<m, n>>] = Body(v, m, n)
  <2> HIDE DEF Body
  <2>1. \A m \in 0..8, n \in 0..N : Def(v)[<<m, n>>] = Body(v, m, n)
    BY <1>0
  <2> HIDE DEF Def
  <2> QED
    BY <1>4, <2>1
<1>6. v[<<8, N>>] /\ (v[<<0, 0>>] <=> comp(0, 0) /\ v[<<8, N>>])
  <2> HIDE DEF Body
  <2>1. v[<<8, N>>] = Body(v, 8, N) /\ v[<<0, 0>>] = Body(v, 0, 0)
    BY <1>0, <1>5
  <2>2. 8 \in 0..8 /\ 0 \in 0..8 /\ N \in 0..N /\ 0 \in 0..N
    BY <1>0
  <2>3. \A m \in 0..8, n \in 0..N :
          Body(v, m, n) <=> \/ m = 8 /\ n = N
                            \/ ~(m = 8 /\ n = N) /\ comp(m, n) /\ v[<<8, N>>]
    BY <1>1
  <2>4. Body(v, 8, N)
    <3> HIDE DEF N
    <3> QED
      BY <2>2, <2>3
  <2>5. Body(v, 0, 0) <=> comp(0, 0) /\ v[<<8, N>>]
    <3> HIDE DEF N
    <3> QED
      BY <2>2, <2>3
  <2> QED
    BY <2>1, <2>4, <2>5
<1> QED
  BY <1>3, <1>6, MatchCompIs DEF comp

(* fnmatch matches the files that are called so, but for a colon.          *)
LEMMA FnmatchIs ==
  ASSUME NEW file, IsFile(file)
  PROVE  (fnmatch(ConfigMask, file, "OS2", Caseless) = "MATCH") <=> IsConfig(file) /\ ~Colon(file, 0)
<1>0. Len(file) \in Nat
  BY DEF IsFile
<1>1. Drive(ConfigMask) = "none" /\ SkipDrive(ConfigMask) = 0
  BY MaskIs DEF Drive, SkipDrive
<1>2. ~Colon(ConfigMask, 0)
  BY DEF Colon, ConfigMask
<1>3. CASE Drive(file) = "none"
  <2>1. SkipDrive(file) = 0 /\ SameDrive(ConfigMask, file, Caseless)
    BY <1>1, <1>3 DEF SkipDrive, SameDrive
  <2>2. ~IsUnc(file, 0, IS_OS2_COMP_SEP)
    BY <1>0, CharAtFile DEF IsUnc
  <2>3. match_os2_style(ConfigMask, file, 0, 0, "OS2", Caseless) <=> IsConfig(file)
    BY <2>2, ComponentsAre DEF match_os2_style
  <2>4. fnmatch(ConfigMask, file, "OS2", Caseless)
          = IF ~Colon(file, 0) /\ match_os2_style(ConfigMask, file, 0, 0, "OS2", Caseless)
              THEN "MATCH" ELSE "NOMATCH"
    BY <1>1, <1>2, <2>1 DEF fnmatch
  <2> QED
    BY <2>3, <2>4
<1>4. CASE Drive(file) # "none"
  <2>1. ~SameDrive(ConfigMask, file, Caseless)
    BY <1>1, <1>4 DEF SameDrive
  <2>2. fnmatch(ConfigMask, file, "OS2", Caseless) = "NOMATCH"
    BY <2>1 DEF fnmatch
  <2>3. PathChar(file, 1) = ":"
    BY <1>4 DEF Drive
  <2>4. 2 \in (0 + 1)..Len(file) /\ file[2] = ":"
    BY <1>0, <2>3 DEF PathChar, NoChar
  <2>5. Colon(file, 0)
    BY <2>4 DEF Colon
  <2> QED
    BY <2>2, <2>5
<1> QED
  BY <1>3, <1>4

(* What is no letter has no case.                                          *)
LEMMA NoCase ==
  ASSUME NEW c \in {".", ":", "/", "\\"}, NEW d
  PROVE  RaisedLetter(d) = c <=> d = c
<1>1. \A i \in 1..26 : LowerLetters[i] # c
  BY DEF LowerLetters
<1>2. \A i \in 1..26 : UpperLetters[i] # c
  BY DEF UpperLetters
<1>3. CASE \E i \in 1..26 : LowerLetters[i] = d
  <2>1. PICK i \in 1..26 : LowerLetters[i] = d
    BY <1>3
  <2>2. (CHOOSE j \in DOMAIN LowerLetters : LowerLetters[j] = d) = i
    BY <2>1, LettersAre
  <2>3. RaisedLetter(d) = UpperLetters[i]
    BY <2>1, <2>2, LettersAre DEF RaisedLetter
  <2> QED
    BY <1>1, <1>2, <2>1, <2>3
<1>4. CASE ~\E i \in 1..26 : LowerLetters[i] = d
  BY <1>4, LettersAre DEF RaisedLetter
<1> QED
  BY <1>3, <1>4

(* In upper case, its name is CONFIG, or begins with CONFIG and a dot.     *)
LEMMA InUpperCaseIs ==
  ASSUME NEW file \in Seq(STRING)
  PROVE  LET f == InUpperCase(file)
         IN /\ f = Config \/ IsPrefix(Append(Config, "."), f) <=> IsConfig(file)
            /\ Colon(f, 0) <=> Colon(file, 0)
<1> DEFINE f == InUpperCase(file)
           N == Len(file)
<1>0. N \in Nat /\ DOMAIN file = 1..N
  OBVIOUS
<1>1. DOMAIN f = 1..N /\ Len(f) = N /\ \A i \in 1..N : f[i] = RaisedLetter(file[i])
  BY <1>0 DEF InUpperCase
<1>2. Colon(f, 0) <=> Colon(file, 0)
  BY <1>0, <1>1, NoCase DEF Colon
<1>3. /\ Len(Config) = 6 /\ DOMAIN Config = 1..6
      /\ \A i \in 1..6 : Config[i] = PathChar(ConfigMask, i - 1)
  BY DEF Config, ConfigMask, PathChar
<1>4. \A i \in 1..N : file[i] = PathChar(file, i - 1)
  BY <1>0 DEF PathChar
<1> DEFINE LettersMatch == 6 <= N /\ \A i \in 1..6 : f[i] = Config[i]
<1>5. LettersMatch <=> 6 <= N /\ \A i \in 0..5 : RaisedLetter(PathChar(file, i)) = PathChar(ConfigMask, i)
  <2>1. ASSUME 6 <= N
        PROVE  (\A i \in 1..6 : f[i] = Config[i])
                 <=> \A i \in 0..5 : RaisedLetter(PathChar(file, i)) = PathChar(ConfigMask, i)
    <3>1. \A i \in 1..6 : f[i] = RaisedLetter(PathChar(file, i - 1)) /\ Config[i] = PathChar(ConfigMask, i - 1)
      BY <1>0, <1>1, <1>3, <1>4, <2>1
    <3>2. \A i \in 0..5 : i + 1 \in 1..6 /\ (i + 1) - 1 = i
      OBVIOUS
    <3>3. \A i \in 1..6 : i - 1 \in 0..5
      OBVIOUS
    <3> HIDE DEF f
    <3> QED
      BY <3>1, <3>2, <3>3
  <2> QED
    BY <2>1
<1>6. f = Config <=> LettersMatch /\ N = 6
  <2>1. ASSUME f = Config PROVE LettersMatch /\ N = 6
    <3> HIDE DEF f
    <3>1. N = 6
      BY <1>1, <1>3, <2>1
    <3> QED
      BY <2>1, <3>1
  <2>2. ASSUME LettersMatch, N = 6 PROVE f = Config
    <3>1. DOMAIN f = DOMAIN Config /\ \A i \in DOMAIN f : f[i] = Config[i]
      BY <1>1, <1>3, <2>2
    <3>2. f = [i \in 1..6 |-> f[i]] /\ Config = [i \in 1..6 |-> Config[i]]
      BY <1>0, <1>1, <1>3, <2>2 DEF InUpperCase, Config, ConfigMask
    <3> QED
      BY <1>3, <3>1, <3>2
  <2> QED
    BY <2>1, <2>2
<1>7. IsPrefix(Append(Config, "."), f) <=> LettersMatch /\ 7 <= N /\ f[7] = "."
  <2> DEFINE g == Append(Config, ".")
  <2>1. Len(g) = 7 /\ g[7] = "." /\ \A i \in 1..6 : g[i] = Config[i]
    BY <1>3 DEF Config, ConfigMask
  <2>2. IsPrefix(g, f) <=> 7 <= N /\ SubSeq(g, 1, 7) = SubSeq(f, 1, 7)
    BY <1>1, <2>1 DEF IsPrefix
  <2>3. SubSeq(g, 1, 7) = [i \in 1..7 |-> g[i]]
    BY DEF Config, ConfigMask
  <2>4. 7 <= N => SubSeq(f, 1, 7) = [i \in 1..7 |-> f[i]]
    BY <1>0, <1>1
  <2> HIDE DEF g, f
  <2>5. [i \in 1..7 |-> g[i]] = [i \in 1..7 |-> f[i]] <=> (\A i \in 1..6 : f[i] = Config[i]) /\ f[7] = "."
    <3>1. \A i \in 1..7 : i \in 1..6 \/ i = 7
      OBVIOUS
    <3> QED
      BY <2>1, <3>1
  <2>6. 7 <= N => 6 <= N
    BY <1>0
  <2> HIDE DEF N
  <2>7. IsPrefix(g, f) <=> LettersMatch /\ 7 <= N /\ f[7] = "."
    BY <2>2, <2>3, <2>4, <2>5, <2>6, Zenon
  <2> QED
    BY <2>7 DEF g
<1>8. 7 <= N => (f[7] = "." <=> PathChar(file, 6) = ".")
  <2> SUFFICES ASSUME 7 <= N PROVE f[7] = "." <=> PathChar(file, 6) = "."
    OBVIOUS
  <2>1. 7 \in 1..N /\ PathChar(file, 6) = file[7]
    BY <1>0 DEF PathChar
  <2> QED
    BY <1>1, <2>1, NoCase
<1>9. ~(7 <= N) => PathChar(file, 6) # "."
  BY <1>0 DEF PathChar, NoChar
<1> HIDE DEF f
<1> QED
  BY <1>0, <1>2, <1>5, <1>6, <1>7, <1>8, <1>9 DEF IsConfig, f

(* The numbers below another one, for the theorem about least elements.    *)
Less == {p \in Nat \X Nat : p[1] < p[2]}

(* There is no infinite descent among them.                                *)
LEMMA LessIsWellFounded == IsWellFoundedOn(Less, Nat)
<1>1. OpToRel(<, Nat) = Less
  BY DEF OpToRel, Less
<1> QED
  BY <1>1, NatLessThanWellFounded

(* Of some offsets into a path one is the last.                            *)
LEMMA LastOffset ==
  ASSUME NEW N \in Nat, NEW S \in SUBSET (1..N), S # {}
  PROVE  \E m \in S : \A k \in S : k <= m
<1> DEFINE T == {N - k : k \in S}
<1>1. T \in SUBSET Nat /\ T # {}
  <2>1. \A k \in S : N - k \in Nat
    OBVIOUS
  <2>2. PICK k \in S : TRUE
    OBVIOUS
  <2>3. N - k \in T
    OBVIOUS
  <2> QED
    BY <2>1, <2>3
<1>2. PICK t \in T : \A u \in T : <<u, t>> \notin Less
  <2> HIDE DEF T
  <2> QED
    BY <1>1, LessIsWellFounded, WFMin, Zenon
<1>3. PICK m \in S : t = N - m
  BY <1>2
<1>4. ASSUME NEW k \in S PROVE k <= m
  <2>1. N - k \in T /\ N - k \in Nat /\ N - m \in Nat
    BY <1>1, <1>3
  <2>2. ~(N - k < N - m)
    BY <1>2, <1>3, <2>1 DEF Less
  <2> QED
    BY <2>2
<1> QED
  BY <1>4

(* The loop of OPEN_PRE finds the separator before the last component.     *)
LEMMA LastSeparatorIs ==
  ASSUME NEW path \in Seq(STRING)
  PROVE  /\ \A k \in StartOfName(path) : LastSeparator(path) = k - 1
         /\ StartOfName(path) = {} => LastSeparator(path) = 0
<1> DEFINE found == {i \in DOMAIN path : i > 1 /\ path[i] \in Separators}
           IsLast(i) == i \in found /\ \A j \in found : j <= i
<1>0. Len(path) \in Nat /\ DOMAIN path = 1..Len(path)
  OBVIOUS
<1>1. LastSeparator(path) = IF found = {} THEN 0
                              ELSE (CHOOSE i \in found : \A j \in found : j <= i) - 1
  BY DEF LastSeparator
<1>2. found \in SUBSET (1..Len(path))
  BY <1>0
<1>3. \A i : IsLast(i) <=> i \in StartOfName(path)
  <2>1. ASSUME NEW i, IsLast(i) PROVE i \in StartOfName(path)
    <3>1. i \in 2..Len(path) /\ path[i] \in Separators
      BY <1>0, <2>1
    <3>2. ASSUME NEW j \in (i + 1)..Len(path) PROVE path[j] \notin Separators
      BY <1>0, <2>1, <3>1
    <3> QED
      BY <3>1, <3>2 DEF StartOfName
  <2>2. ASSUME NEW i \in StartOfName(path) PROVE IsLast(i)
    <3>1. /\ i \in 2..Len(path) /\ path[i] \in Separators
          /\ \A j \in (i + 1)..Len(path) : path[j] \notin Separators
      BY DEF StartOfName
    <3> QED
      BY <1>0, <3>1
  <2> QED
    BY <2>1, <2>2
<1>4. ASSUME NEW k \in StartOfName(path) PROVE LastSeparator(path) = k - 1
  <2>1. IsLast(k)
    BY <1>3
  <2>2. \A i \in found : IsLast(i) => i = k
    BY <1>2, <2>1
  <2>3. (CHOOSE i \in found : \A j \in found : j <= i) = k
    <3> HIDE DEF found
    <3> QED
      BY <2>1, <2>2
  <2> QED
    BY <1>1, <2>1, <2>3
<1>5. ASSUME StartOfName(path) = {} PROVE found = {}
  <2> SUFFICES ASSUME found # {} PROVE FALSE
    OBVIOUS
  <2>1. PICK m \in found : \A k \in found : k <= m
    <3> HIDE DEF found
    <3> QED
      BY <1>0, <1>2, LastOffset
  <2> QED
    BY <1>3, <1>5, <2>1
<1> QED
  BY <1>1, <1>4, <1>5

(* What follows that separator is what fnmatch is called for.              *)
LEMMA NameIsFile ==
  ASSUME NEW path \in Seq(STRING), \A i \in DOMAIN path : path[i] # NoChar,
         NEW k \in StartOfName(path)
  PROVE  Drop(path, k) \in Seq(STRING) /\ IsFile(Drop(path, k))
<1> DEFINE file == Drop(path, k)
<1>0. Len(path) \in Nat /\ DOMAIN path = 1..Len(path)
  OBVIOUS
<1>1. /\ k \in 2..Len(path)
      /\ \A j \in (k + 1)..Len(path) : path[j] \notin Separators
  BY DEF StartOfName
<1>2. /\ file \in Seq(STRING) /\ Len(file) = Len(path) - k
      /\ \A i \in 1..(Len(path) - k) : file[i] = path[k + i]
  <2>1. file = [i \in 1..(Len(path) - k) |-> path[k + i]]
    BY <1>0, <1>1 DEF Drop
  <2>2. \A i \in 1..(Len(path) - k) : path[k + i] \in STRING
    <3>1. \A j \in 1..Len(path) : path[j] \in STRING
      OBVIOUS
    <3>2. \A i \in 1..(Len(path) - k) : k + i \in 1..Len(path)
      BY <1>0, <1>1
    <3> QED
      BY <3>1, <3>2
  <2>3. Len(path) - k \in Nat
    BY <1>0, <1>1
  <2> HIDE DEF file
  <2> QED
    BY <2>1, <2>2, <2>3
<1>3. \A i \in 1..Len(file) : file[i] \notin IS_OS2_COMP_SEP \cup {NoChar}
  <2> SUFFICES ASSUME NEW i \in 1..Len(file) PROVE file[i] \notin IS_OS2_COMP_SEP \cup {NoChar}
    OBVIOUS
  <2>1. k + i \in (k + 1)..Len(path) /\ k + i \in DOMAIN path /\ file[i] = path[k + i]
    BY <1>0, <1>1, <1>2
  <2> QED
    BY <1>1, <2>1 DEF Separators, IS_OS2_COMP_SEP
<1>4. Len(file) \in Nat /\ DOMAIN file = 1..Len(file)
  BY <1>2
<1> QED
  BY <1>2, <1>3, <1>4 DEF IsFile

(* An open ends as the first callback says, for the second one passes      *)
(* every file (sec32_OPEN_POST).                                           *)
LEMMA KernelOpenIs ==
  ASSUME NEW path
  PROVE  KernelOpen(path) = OPEN_PRE(path)
<1>1. SecurityImports[PreOpenSlot] = "OPEN_PRE" /\ SecurityImports[PostOpenSlot] = "OPEN_POST"
  BY DEF SecurityImports, PreOpenSlot, PostOpenSlot
<1>2. \A pre : Callback(PreOpenSlot, path, pre) = OPEN_PRE(path)
  BY <1>1 DEF Callback
<1>3. \A pre : Callback(PostOpenSlot, path, pre) = NO_ERROR
  BY <1>1 DEF Callback, OPEN_POST
<1> QED
  BY <1>2, <1>3 DEF KernelOpen, AfterPre

(* A file in a directory is refused if its name is CONFIG, in any case and *)
(* with any extension, and has no colon.                                   *)
LEMMA NamedFile ==
  ASSUME NEW path \in Seq(STRING), \A i \in DOMAIN path : path[i] # NoChar,
         NEW k \in StartOfName(path)
  PROVE  LET file == InUpperCase(Drop(path, k))
         IN KernelOpen(path) = IF /\ file = Config \/ IsPrefix(Append(Config, "."), file)
                                  /\ ~Colon(file, 0)
                                 THEN ERROR_ACCESS_DENIED ELSE NO_ERROR
<1> DEFINE file == Drop(path, k)
<1>1. file \in Seq(STRING) /\ IsFile(file)
  BY NameIsFile
<1>2. LastSeparator(path) = k - 1 /\ k - 1 # 0 /\ (k - 1) + 1 = k
  BY LastSeparatorIs DEF StartOfName
<1>3. OPEN_PRE(path) = IF fnmatch(ConfigMask, file, "OS2", Caseless) = "MATCH"
                         THEN ERROR_ACCESS_DENIED ELSE NO_ERROR
  BY <1>2 DEF OPEN_PRE, Caseless
<1> HIDE DEF file
<1>4. fnmatch(ConfigMask, file, "OS2", Caseless) = "MATCH"
        <=> IsConfig(file) /\ ~Colon(file, 0)
  BY <1>1, FnmatchIs
<1>5. /\ InUpperCase(file) = Config \/ IsPrefix(Append(Config, "."), InUpperCase(file)) <=> IsConfig(file)
      /\ Colon(InUpperCase(file), 0) <=> Colon(file, 0)
  BY <1>1, InUpperCaseIs
<1>6. KernelOpen(path) = IF /\ InUpperCase(file) = Config \/ IsPrefix(Append(Config, "."), InUpperCase(file))
                            /\ ~Colon(InUpperCase(file), 0)
                           THEN ERROR_ACCESS_DENIED ELSE NO_ERROR
  BY <1>3, <1>4, <1>5, KernelOpenIs
<1> QED
  BY <1>6 DEF file

(* Without a directory the driver does not know what to do.                *)
LEMMA NamelessFile ==
  ASSUME NEW path \in Seq(STRING), StartOfName(path) = {}
  PROVE  KernelOpen(path) = ERROR_INVALID_PARAMETER
BY LastSeparatorIs, KernelOpenIs DEF OPEN_PRE

(* CONFIG.SYS itself never passes, wherever it is.                         *)
LEMMA ConfigSysRefused ==
  ASSUME NEW path \in Seq(STRING), \A i \in DOMAIN path : path[i] # NoChar,
         NEW k \in 0..Len(path), InUpperCase(Drop(path, k)) = ConfigSys,
         k = 0 \/ path[k] \in Separators
  PROVE  KernelOpen(path) # NO_ERROR
<1> DEFINE f == InUpperCase(Drop(path, k))
<1>0. Len(path) \in Nat /\ DOMAIN path = 1..Len(path)
  OBVIOUS
<1>1. /\ DOMAIN ConfigSys = 1..10
      /\ \A i \in 1..10 : ConfigSys[i] \notin Separators \cup {":"}
  BY DEF ConfigSys, Config, ConfigMask, Separators
<1>2. Len(ConfigSys) = 10 /\ IsPrefix(Append(Config, "."), ConfigSys)
  BY DEF ConfigSys, Config, ConfigMask, IsPrefix
<1>3. /\ DOMAIN f = 1..(Len(path) - k)
      /\ \A i \in 1..(Len(path) - k) : f[i] = RaisedLetter(path[k + i])
  BY <1>0 DEF InUpperCase, Drop
<1>4. \A j \in (k + 1)..Len(path) : path[j] \notin Separators
  <2> SUFFICES ASSUME NEW j \in (k + 1)..Len(path), path[j] \in Separators PROVE FALSE
    OBVIOUS
  <2>1. j - k \in 1..(Len(path) - k) /\ k + (j - k) = j
    BY <1>0
  <2>2. f[j - k] = path[j]
    BY <1>3, <2>1, NoCase DEF Separators
  <2>3. j - k \in 1..10 /\ f[j - k] = ConfigSys[j - k]
    BY <1>1, <1>3, <2>1
  <2> QED
    BY <1>1, <2>2, <2>3
<1>5. ~Colon(ConfigSys, 0)
  BY <1>1, <1>2 DEF Colon
<1>6. CASE k >= 2
  <2>1. k \in StartOfName(path)
    BY <1>0, <1>4, <1>6 DEF StartOfName
  <2>2. KernelOpen(path) = ERROR_ACCESS_DENIED
    BY <1>2, <1>5, <2>1, NamedFile
  <2> QED
    BY <2>2 DEF ERROR_ACCESS_DENIED, NO_ERROR
<1>7. CASE ~(k >= 2)
  <2>1. StartOfName(path) = {}
    BY <1>0, <1>4, <1>7 DEF StartOfName
  <2> QED
    BY <2>1, NamelessFile DEF ERROR_INVALID_PARAMETER, NO_ERROR
<1> QED
  BY <1>0, <1>6, <1>7

(* An open is answered as KernelOpen says.                                 *)
OpenInv ==
  call.fn = "open" =>
    call.path \in OpenedPaths /\ answer \in {<<>>, <<KernelOpen(call.path)>>}

(* So it is from the first state on.                                       *)
LEMMA OpenInvInvariant == PathSpec => []OpenInv
<1>1. PathInit => OpenInv
  <2>1. FnmatchInit => call.fn = "fnmatch"
    BY DEF FnmatchInit
  <2>2. call \in [fn : {"open"}, path : OpenedPaths] => call.path \in OpenedPaths
    OBVIOUS
  <2> QED
    BY <2>1, <2>2 DEF PathInit, OpenInv
<1>2. OpenInv /\ [PathNext]_callVars => OpenInv'
  <2> SUFFICES ASSUME OpenInv, [PathNext]_callVars PROVE OpenInv'
    OBVIOUS
  <2>1. CASE call_fnmatch
    BY <2>1 DEF call_fnmatch, OpenInv
  <2>2. CASE call_open
    BY <2>2 DEF call_open, OpenInv
  <2>3. CASE UNCHANGED callVars
    BY <2>3 DEF callVars, OpenInv
  <2> QED
    BY <2>1, <2>2, <2>3 DEF PathNext
<1> QED
  BY <1>1, <1>2, PTL DEF PathSpec

(* The security driver refuses every file with the name CONFIG and any     *)
(* extension in every directory, whatever the case, and lets all others    *)
(* pass, for paths of any length and characters (sec32_OPEN_PRE.c:39-63    *)
(* and the case of a mask without sets in fnmatch.c).                      *)
THEOREM PathCalls_OpensAreFiltered ==
  PathSpec => []OpensAreFiltered
<1>1. OpenInv => OpensAreFiltered
  <2> SUFFICES ASSUME OpenInv, call.fn = "open", answer # <<>> PROVE OpensAreFiltered
    BY DEF OpensAreFiltered, Answered
  <2> DEFINE path == call.path
  <2>1. path \in Seq(STRING) /\ \A i \in DOMAIN path : path[i] # NoChar
    BY PathsAssumption DEF OpenInv
  <2>2. answer[1] = KernelOpen(path)
    BY DEF OpenInv
  <2> HIDE DEF path
  <2>3. \A k \in StartOfName(path) :
          LET file == InUpperCase(Drop(path, k))
          IN answer[1] = IF /\ file = Config \/ IsPrefix(Append(Config, "."), file)
                            /\ ~Colon(file, 0)
                           THEN ERROR_ACCESS_DENIED ELSE NO_ERROR
    BY <2>1, <2>2, NamedFile
  <2>4. StartOfName(path) = {} => answer[1] = ERROR_INVALID_PARAMETER
    BY <2>1, <2>2, NamelessFile
  <2>5. answer[1] = NO_ERROR =>
          \A k \in 0..Len(path) :
            k = 0 \/ path[k] \in Separators => InUpperCase(Drop(path, k)) # ConfigSys
    BY <2>1, <2>2, ConfigSysRefused
  <2> QED
    BY <2>3, <2>4, <2>5 DEF OpensAreFiltered, path
<1> QED
  BY <1>1, OpenInvInvariant, PTL
=============================================================================
