------------------------- MODULE StringCalls_proofs -------------------------
EXTENDS StringCalls, TLAPS, WellFoundedInduction, FiniteSetTheorems

(***************************************************************************)
(* Induction.  The natural numbers are well founded, so that a set of them *)
(* has a least element: a statement about all numbers is proved by looking *)
(* at the least one it could be false for.                                 *)
(***************************************************************************)
Less == {p \in Nat \X Nat : p[1] < p[2]}

(* No sequence of natural numbers descends for ever.                       *)
LEMMA LessIsWellFounded == IsWellFoundedOn(Less, Nat)
  BY NatLessThanWellFounded DEF OpToRel, Less

(* A set of natural numbers that is not empty has a least element.         *)
LEMMA LeastElement ==
  ASSUME NEW S \in SUBSET Nat, S # {}
  PROVE  \E m \in S : \A k \in S : m <= k
<1>1. PICK m \in S : \A k \in S : <<k, m>> \notin Less
  BY LessIsWellFounded, WFMin, Zenon
<1>2. \A k \in S : ~(k < m)
  BY <1>1 DEF Less
<1> QED
  BY <1>2

(* Min is that element.                                                    *)
LEMMA MinIsLeast ==
  ASSUME NEW S \in SUBSET Nat, S # {}
  PROVE  Min(S) \in S /\ \A k \in S : Min(S) <= k
<1>1. \E m \in S : \A k \in S : m <= k
  BY LeastElement
<1> QED
  BY <1>1, Zenon DEF Min

(* A set that contains 0 and with each number below a bound the next one   *)
(* contains all numbers up to the bound.                                   *)
LEMMA UpTo ==
  ASSUME NEW N \in Nat, NEW S, 0 \in S,
         \A k \in 0..(N - 1) : k \in S => k + 1 \in S
  PROVE  \A k \in 0..N : k \in S
<1> DEFINE Others == {k \in 0..N : k \notin S}
<1> SUFFICES ASSUME Others # {} PROVE FALSE
  OBVIOUS
<1>0. Others \in SUBSET Nat
  OBVIOUS
<1>1. PICK m \in Others : \A k \in Others : m <= k
  <2> HIDE DEF Others
  <2> QED
    BY <1>0, LeastElement
<1>2. m # 0 /\ m \in 1..N
  OBVIOUS
<1>3. m - 1 \in S
  BY <1>1, <1>2
<1> QED
  BY <1>2, <1>3

(* A function on 0..N may be defined by what it is at 0 and by how each    *)
(* value comes from the one before it.                                     *)
Follows(f, N, start, step) == f[0] = start /\ \A k \in 1..N : f[k] = step[<<f[k - 1], k>>]

(* There is such a function, whatever the start and the step.              *)
LEMMA Recursion ==
  ASSUME NEW N \in Nat, NEW S, NEW start \in S, NEW step \in [S \X (1..N) -> S]
  PROVE  \E f \in [0..N -> S] : Follows(f, N, start, step)
<1> DEFINE Fits(f, n) == f[0] = start /\ \A k \in 1..n : f[k] = step[<<f[k - 1], k>>]
           Good == {n \in 0..N : \E f \in [0..N -> S] : Fits(f, n)}
<1>1. 0 \in Good
  <2>1. Fits([k \in 0..N |-> start], 0)
    OBVIOUS
  <2>2. [k \in 0..N |-> start] \in [0..N -> S]
    OBVIOUS
  <2> HIDE DEF Fits
  <2> QED
    BY <2>1, <2>2
<1>2. ASSUME NEW n \in 0..(N - 1), n \in Good PROVE n + 1 \in Good
  <2>1. PICK f \in [0..N -> S] : Fits(f, n)
    BY <1>2
  <2> DEFINE g == [f EXCEPT ![n + 1] = step[<<f[n], n + 1>>]]
  <2>2. g \in [0..N -> S]
    OBVIOUS
  <2>3. g[0] = start
    BY <2>1
  <2>4. ASSUME NEW k \in 1..(n + 1) PROVE g[k] = step[<<g[k - 1], k>>]
    <3>1. CASE k = n + 1
      <4>1. n + 1 \in 0..N /\ g[n + 1] = step[<<f[n], n + 1>>]
        OBVIOUS
      <4>2. n \in 0..N /\ n # n + 1 /\ (n + 1) - 1 = n
        OBVIOUS
      <4>3. g[n] = f[n]
        BY <4>2
      <4> QED
        BY <3>1, <4>1, <4>2, <4>3
    <3>2. CASE k # n + 1
      BY <3>2, <2>1
    <3> QED
      BY <3>1, <3>2
  <2>5. Fits(g, n + 1)
    BY <2>3, <2>4
  <2> HIDE DEF Fits, g
  <2> QED
    BY <2>2, <2>5
<1>3. N \in Good
  <2> HIDE DEF Good
  <2> QED
    BY <1>1, <1>2, UpTo
<1> QED
  BY <1>3 DEF Follows
-----------------------------------------------------------------------------
(***************************************************************************)
(* Strings.                                                                *)
(***************************************************************************)

(* A character of a string is never NUL, what is behind it is.             *)
LEMMA CharAtIs ==
  ASSUME NEW s \in Text, NEW p \in 0..Len(s)
  PROVE  /\ CharAt(s, p) \in Char
         /\ CharAt(s, p) = NUL <=> p = Len(s)
<1>0. Len(s) \in Nat
  BY DEF Text
<1>1. CASE p = Len(s)
  BY <1>0, <1>1 DEF CharAt, Char, NUL
<1>2. CASE p # Len(s)
  <2>1. p < Len(s) /\ p + 1 \in 1..Len(s)
    BY <1>0, <1>2
  <2>2. s[p + 1] \in Char \ {NUL}
    BY <2>1 DEF Text
  <2> QED
    BY <2>1, <2>2 DEF CharAt
<1> QED
  BY <1>1, <1>2

(* The loop stops at the first character outside of the class.             *)
LEMMA SkipStops ==
  ASSUME NEW s, Len(s) \in Nat, NEW p \in 0..Len(s), NEW class, NUL \notin class
  PROVE  /\ SkipWhile(s, p, class) \in p..Len(s)
         /\ CharAt(s, SkipWhile(s, p, class)) \notin class
         /\ \A q \in p..(SkipWhile(s, p, class) - 1) : CharAt(s, q) \in class
<1> DEFINE Outside == {q \in p..Len(s) : CharAt(s, q) \notin class}
<1>1. Len(s) \in Outside
  BY DEF CharAt
<1>2. Outside \in SUBSET Nat /\ Outside # {}
  BY <1>1
<1>3. /\ Min(Outside) \in Outside
      /\ \A k \in Outside : Min(Outside) <= k
  <2> HIDE DEF Outside
  <2> QED
    BY <1>2, MinIsLeast
<1>4. SkipWhile(s, p, class) = Min(Outside)
  BY DEF SkipWhile
<1> DEFINE w == Min(Outside)
<1>5. w \in p..Len(s) /\ CharAt(s, w) \notin class
  BY <1>3
<1>6. ASSUME NEW q \in p..(w - 1) PROVE CharAt(s, q) \in class
  <2>1. q \in p..Len(s) /\ ~(w <= q)
    BY <1>5
  <2> HIDE DEF w
  <2> QED
    BY <1>3, <2>1 DEF w
<1> HIDE DEF w
<1> QED
  BY <1>4, <1>5, <1>6 DEF w

(* There is only one such place.                                           *)
LEMMA SkipIs ==
  ASSUME NEW s, Len(s) \in Nat, NEW p \in 0..Len(s), NEW class, NUL \notin class,
         NEW r \in p..Len(s), CharAt(s, r) \notin class,
         \A q \in p..(r - 1) : CharAt(s, q) \in class
  PROVE  SkipWhile(s, p, class) = r
<1> DEFINE w == SkipWhile(s, p, class)
<1>1. w \in p..Len(s) /\ CharAt(s, w) \notin class /\ \A q \in p..(w - 1) : CharAt(s, q) \in class
  BY SkipStops
<1> HIDE DEF w
<1>2. ~(w < r)
  BY <1>1
<1>3. ~(r < w)
  BY <1>1
<1> QED
  BY <1>1, <1>2, <1>3 DEF w
-----------------------------------------------------------------------------
(***************************************************************************)
(* Characters.                                                             *)
(***************************************************************************)

(* The bits of the table, one after the other.                             *)
LEMMA TableIs ==
  ASSUME NEW c \in -1..255
  PROVE  /\ "_CNTRL" \in _ctype[c] <=> c \in 0..31 \/ c = 127
         /\ "_SPACE" \in _ctype[c] <=> c \in 9..13 \/ c = 32
         /\ "_PRINT" \in _ctype[c] <=> c \in 32..126
         /\ "_DIGIT" \in _ctype[c] <=> c \in 48..57
         /\ "_UPPER" \in _ctype[c] <=> c \in 65..90
         /\ "_LOWER" \in _ctype[c] <=> c \in 97..122
         /\ "_XDIGIT" \in _ctype[c] <=> c \in 48..57 \/ c \in 65..70 \/ c \in 97..102
         /\ "_PUNCT" \in _ctype[c] <=>
              c \in 33..47 \/ c \in 58..64 \/ c \in 91..96 \/ c \in 123..126
<1>1. CASE c \in 9..13
  <2>1. _ctype[c] = {"_CNTRL", "_SPACE"}
    BY <1>1 DEF _ctype
  <2> QED
    BY <1>1, <2>1
<1>2. CASE c \in (0..8) \cup (14..31) \cup {127}
  <2>1. _ctype[c] = {"_CNTRL"}
    BY <1>2 DEF _ctype
  <2> QED
    BY <1>2, <2>1
<1>3. CASE c = 32
  <2>1. _ctype[c] = {"_PRINT", "_SPACE"}
    BY <1>3 DEF _ctype
  <2> QED
    BY <1>3, <2>1
<1>4. CASE c \in 48..57
  <2>1. _ctype[c] = {"_PRINT", "_DIGIT", "_XDIGIT"}
    BY <1>4 DEF _ctype
  <2> QED
    BY <1>4, <2>1
<1>5. CASE c \in 65..70
  <2>1. _ctype[c] = {"_PRINT", "_UPPER", "_XDIGIT"}
    BY <1>5 DEF _ctype
  <2> QED
    BY <1>5, <2>1
<1>6. CASE c \in 71..90
  <2>1. _ctype[c] = {"_PRINT", "_UPPER"}
    BY <1>6 DEF _ctype
  <2> QED
    BY <1>6, <2>1
<1>7. CASE c \in 97..102
  <2>1. _ctype[c] = {"_PRINT", "_LOWER", "_XDIGIT"}
    BY <1>7 DEF _ctype
  <2> QED
    BY <1>7, <2>1
<1>8. CASE c \in 103..122
  <2>1. _ctype[c] = {"_PRINT", "_LOWER"}
    BY <1>8 DEF _ctype
  <2> QED
    BY <1>8, <2>1
<1>9. CASE c \in (33..47) \cup (58..64) \cup (91..96) \cup (123..126)
  <2>1. _ctype[c] = {"_PRINT", "_PUNCT"}
    BY <1>9 DEF _ctype
  <2> QED
    BY <1>9, <2>1
<1>10. CASE c \in {-1} \cup (128..255)
  <2>1. _ctype[c] = {}
    BY <1>10 DEF _ctype
  <2> QED
    BY <1>10, <2>1
<1> QED
  BY <1>1, <1>2, <1>3, <1>4, <1>5, <1>6, <1>7, <1>8, <1>9, <1>10

(* The macros of ctype.h, one after the other.                             *)
LEMMA ClassesAre ==
  ASSUME NEW c \in -1..255
  PROVE  /\ isalnum(c) <=> c \in 65..90 \/ c \in 97..122 \/ c \in 48..57
         /\ isalpha(c) <=> c \in 65..90 \/ c \in 97..122
         /\ iscntrl(c) <=> c \in 0..31 \/ c = 127
         /\ isdigit(c) <=> c \in 48..57
         /\ isgraph(c) <=> c \in 33..126
         /\ islower(c) <=> c \in 97..122
         /\ isprint(c) <=> c \in 32..126
         /\ ispunct(c) <=> c \in 33..47 \/ c \in 58..64 \/ c \in 91..96 \/ c \in 123..126
         /\ isspace(c) <=> c \in 9..13 \/ c = 32
         /\ isupper(c) <=> c \in 65..90
         /\ isxdigit(c) <=> c \in 48..57 \/ c \in 65..70 \/ c \in 97..102
<1> DEFINE t == _ctype[c]
<1>0. ASSUME NEW bits PROVE Is(c, bits) <=> \E b \in bits : b \in t
  BY DEF Is
<1>1. Is(c, {"_UPPER", "_LOWER", "_DIGIT"}) <=> "_UPPER" \in t \/ "_LOWER" \in t \/ "_DIGIT" \in t
  BY <1>0
<1>2. Is(c, {"_UPPER", "_LOWER"}) <=> "_UPPER" \in t \/ "_LOWER" \in t
  BY <1>0
<1>3. Is(c, {"_PUNCT", "_UPPER", "_LOWER", "_DIGIT"}) <=>
        "_PUNCT" \in t \/ "_UPPER" \in t \/ "_LOWER" \in t \/ "_DIGIT" \in t
  BY <1>0
<1>4. isalnum(c) <=> c \in 65..90 \/ c \in 97..122 \/ c \in 48..57
  BY <1>1, TableIs DEF isalnum
<1>5. isalpha(c) <=> c \in 65..90 \/ c \in 97..122
  BY <1>2, TableIs DEF isalpha
<1>6. iscntrl(c) <=> c \in 0..31 \/ c = 127
  BY TableIs DEF iscntrl, Is
<1>7. isdigit(c) <=> c \in 48..57
  BY TableIs DEF isdigit, Is
<1>8. isgraph(c) <=> c \in 33..126
  BY <1>3, TableIs DEF isgraph
<1>9. islower(c) <=> c \in 97..122
  BY TableIs DEF islower, Is
<1>10. isprint(c) <=> c \in 32..126
  BY TableIs DEF isprint, Is
<1>11. ispunct(c) <=> c \in 33..47 \/ c \in 58..64 \/ c \in 91..96 \/ c \in 123..126
  BY TableIs DEF ispunct, Is
<1>12. isspace(c) <=> c \in 9..13 \/ c = 32
  BY TableIs DEF isspace, Is
<1>13. isupper(c) <=> c \in 65..90
  BY TableIs DEF isupper, Is
<1>14. isxdigit(c) <=> c \in 48..57 \/ c \in 65..70 \/ c \in 97..102
  BY TableIs DEF isxdigit, Is
<1> QED
  BY <1>4, <1>5, <1>6, <1>7, <1>8, <1>9, <1>10, <1>11, <1>12, <1>13, <1>14

(* Every class is the one ASCII says.                                      *)
LEMMA InClassIs ==
  ASSUME NEW c \in -1..255, NEW n \in AllClasses
  PROVE  InClass(c, n) <=> ASCIIClass(c, n)
<1>1. CASE n = "alnum"
  BY <1>1, ClassesAre DEF InClass, ASCIIClass
<1>2. CASE n = "alpha"
  BY <1>2, ClassesAre DEF InClass, ASCIIClass
<1>3. CASE n = "cntrl"
  BY <1>3, ClassesAre DEF InClass, ASCIIClass
<1>4. CASE n = "digit"
  BY <1>4, ClassesAre DEF InClass, ASCIIClass
<1>5. CASE n = "graph"
  BY <1>5, ClassesAre DEF InClass, ASCIIClass
<1>6. CASE n = "lower"
  BY <1>6, ClassesAre DEF InClass, ASCIIClass
<1>7. CASE n = "print"
  BY <1>7, ClassesAre DEF InClass, ASCIIClass
<1>8. CASE n = "punct"
  BY <1>8, ClassesAre DEF InClass, ASCIIClass
<1>9. CASE n = "space"
  BY <1>9, ClassesAre DEF InClass, ASCIIClass
<1>10. CASE n = "upper"
  BY <1>10, ClassesAre DEF InClass, ASCIIClass
<1>11. CASE n = "xdigit"
  BY <1>11, ClassesAre DEF InClass, ASCIIClass
<1> QED
  BY <1>1, <1>2, <1>3, <1>4, <1>5, <1>6, <1>7, <1>8, <1>9, <1>10, <1>11 DEF AllClasses

(* A letter has one other case.                                            *)
LEMMA OtherCase ==
  ASSUME NEW c \in -1..255
  PROVE  toupper(c) = Raised(c) /\ tolower(c) = Lowered(c)
  BY ClassesAre DEF toupper, tolower, _toupper, _tolower, Raised, Lowered, UpperA, LowerA

(* strupr raises the letters of a string where they stand.                 *)
LEMMA StruprIs ==
  ASSUME NEW s \in Text
  PROVE  /\ strupr(s) = [i \in DOMAIN s |-> Raised(s[i])]
         /\ strupr(s) \in Text
         /\ Len(strupr(s)) = Len(s)
         /\ \A p \in 0..Len(s) : CharAt(strupr(s), p) = Raised(CharAt(s, p))
<1>0. Len(s) \in Nat /\ DOMAIN s = 1..Len(s)
  BY DEF Text
<1>1. ASSUME NEW i \in DOMAIN s
      PROVE  /\ s[i] \in Char \ {NUL}
             /\ (IF islower(s[i]) THEN _toupper(s[i]) ELSE s[i]) = Raised(s[i])
             /\ Raised(s[i]) \in Char \ {NUL}
  <2>1. s[i] \in Char \ {NUL}
    BY DEF Text
  <2>2. s[i] \in -1..255
    BY <2>1 DEF Char
  <2>3. islower(s[i]) <=> s[i] \in 97..122
    BY <2>2, ClassesAre
  <2>4. (IF islower(s[i]) THEN _toupper(s[i]) ELSE s[i]) = Raised(s[i])
    BY <2>2, <2>3 DEF _toupper, Raised, UpperA, LowerA
  <2>5. Raised(s[i]) \in Char \ {NUL}
    BY <2>1 DEF Raised, Char, NUL
  <2> QED
    BY <2>1, <2>4, <2>5
<1>2. strupr(s) = [i \in DOMAIN s |-> Raised(s[i])]
  BY <1>1 DEF strupr
<1>3. strupr(s) \in Text /\ Len(strupr(s)) = Len(s)
  BY <1>0, <1>1, <1>2 DEF Text
<1>4. ASSUME NEW p \in 0..Len(s) PROVE CharAt(strupr(s), p) = Raised(CharAt(s, p))
  <2>1. CASE p < Len(s)
    <3>1. p + 1 \in DOMAIN s
      BY <1>0, <2>1
    <3> QED
      BY <1>2, <1>3, <2>1, <3>1 DEF CharAt
  <2>2. CASE p = Len(s)
    BY <1>0, <1>3, <2>2 DEF CharAt, Raised, NUL
  <2>3. p < Len(s) \/ p = Len(s)
    <3>1. Len(s) \in Nat
      BY DEF Text
    <3> QED
      BY <3>1
  <2> QED
    BY <2>1, <2>2, <2>3
<1> QED
  BY <1>2, <1>3, <1>4

(* strpbrk finds the first of the characters it looks for.                 *)
LEMMA StrpbrkFinds ==
  ASSUME NEW s \in Text, NEW chars \in SUBSET (Char \ {NUL})
  PROVE  LET r == strpbrk(s, chars)
         IN \/ /\ r = Null
               /\ \A q \in 0..Len(s) : CharAt(s, q) \notin chars
            \/ /\ r \in 0..(Len(s) - 1) /\ CharAt(s, r) \in chars
               /\ \A q \in 0..(r - 1) : CharAt(s, q) \notin chars
<1> DEFINE w == SkipWhile(s, 0, AllBut(chars))
<1>0. Len(s) \in Nat
  BY DEF Text
<1>1. NUL \notin AllBut(chars)
  BY DEF AllBut
<1>2. /\ w \in 0..Len(s)
      /\ CharAt(s, w) \notin AllBut(chars)
      /\ \A q \in 0..(w - 1) : CharAt(s, q) \in AllBut(chars)
  BY <1>0, <1>1, SkipStops
<1>3. strpbrk(s, chars) = IF CharAt(s, w) = NUL THEN Null ELSE w
  BY DEF strpbrk
<1> HIDE DEF w
<1>4. \A q \in 0..(w - 1) : CharAt(s, q) \notin chars
  BY <1>2 DEF AllBut
<1>5. CASE CharAt(s, w) = NUL
  <2>1. w = Len(s)
    BY <1>2, <1>5, CharAtIs
  <2>2. NUL \notin chars
    OBVIOUS
  <2> QED
    BY <1>0, <1>3, <1>4, <1>5, <2>1, <2>2
<1>6. CASE CharAt(s, w) # NUL
  <2>1. w # Len(s) /\ CharAt(s, w) \in Char
    BY <1>2, <1>6, CharAtIs
  <2>2. CharAt(s, w) \in chars
    BY <1>2, <1>6, <2>1 DEF AllBut
  <2> QED
    BY <1>0, <1>2, <1>3, <1>4, <1>6, <2>1, <2>2
<1> QED
  BY <1>5, <1>6
-----------------------------------------------------------------------------
(***************************************************************************)
(* strtok.                                                                 *)
(***************************************************************************)

(* What separates blocks, in terms of the character at an offset.          *)
LEMMA SeparatesIs ==
  ASSUME NEW text \in Text, NEW q \in 0..Len(text)
  PROVE  Separates(text, q + 1) <=> CharAt(text, q) \in Delimiters \cup {NUL}
<1>0. Len(text) \in Nat
  BY DEF Text
<1>1. CASE q = Len(text)
  <2>1. q + 1 \notin DOMAIN text
    BY <1>0, <1>1 DEF Text
  <2> QED
    BY <1>0, <1>1, <2>1 DEF Separates, CharAt
<1>2. CASE q # Len(text)
  <2>1. q < Len(text)
    BY <1>0, <1>2
  <2>2. q + 1 \in DOMAIN text
    BY <1>0, <2>1 DEF Text
  <2>3. text[q + 1] # NUL
    BY <2>2 DEF Text
  <2> QED
    BY <2>1, <2>2, <2>3 DEF Separates, CharAt
<1> QED
  BY <1>1, <1>2

(* The blocks begin inside of the text, so that they can be counted.       *)
LEMMA StartsAreFinite ==
  ASSUME NEW text \in Text, NEW i \in Int
  PROVE  /\ Starts(text) \subseteq 1..Len(text)
         /\ IsFiniteSet(Starts(text)) /\ IsFiniteSet(StartsUpTo(text, i))
<1>1. Len(text) \in Nat /\ Starts(text) \subseteq 1..Len(text)
  BY DEF Starts, Text
<1>2. IsFiniteSet(1..Len(text))
  BY <1>1, FS_Interval
<1>3. StartsUpTo(text, i) \subseteq 1..Len(text)
  BY <1>1 DEF StartsUpTo
<1> QED
  BY <1>1, <1>2, <1>3, FS_Subset

(* Behind a place where no block goes on, the separators are skipped: the  *)
(* next block begins behind them, or there is none.                        *)
LEMMA NextStart ==
  ASSUME NEW text \in Text, NEW p \in 0..Len(text), NEW r \in p..Len(text),
         p = Len(text) \/ Separates(text, p),
         CharAt(text, r) \notin Delimiters,
         \A q \in p..(r - 1) : CharAt(text, q) \in Delimiters
  PROVE  /\ r = Len(text) => Starts(text) = StartsUpTo(text, p)
         /\ r # Len(text) => /\ r + 1 \in Starts(text) \ StartsUpTo(text, p)
                             /\ StartsUpTo(text, r + 1) = StartsUpTo(text, p) \cup {r + 1}
<1>0. Len(text) \in Nat
  BY DEF Text
<1>1. ASSUME NEW j \in Starts(text), p < j, j <= r PROVE FALSE
  <2>1. j \in Int /\ j - 1 \in p..(r - 1) /\ j - 1 \in 0..Len(text) /\ (j - 1) + 1 = j
    BY <1>0, <1>1, StartsAreFinite
  <2>2. Separates(text, (j - 1) + 1)
    BY <1>1, <2>1, SeparatesIs
  <2>3. Separates(text, j)
    BY <2>1, <2>2
  <2> QED
    BY <1>1, <2>3 DEF Starts
<1>2. CASE r = Len(text)
  <2>1. ASSUME NEW j \in Starts(text) PROVE j <= p
    BY <1>0, <1>1, <1>2, StartsAreFinite
  <2> QED
    BY <1>2, <2>1 DEF StartsUpTo
<1>3. CASE r # Len(text)
  <2>1. r + 1 \in 1..Len(text)
    BY <1>0, <1>3
  <2>2. ~Separates(text, r + 1)
    <3>1. r \in 0..Len(text)
      BY <1>0
    <3> QED
      BY <1>0, <1>3, <3>1, SeparatesIs, CharAtIs
  <2>3. Separates(text, (r + 1) - 1)
    <3>1. CASE r = p
      BY <1>0, <1>3, <3>1
    <3>2. CASE r # p
      <4>1. r - 1 \in p..(r - 1) /\ r - 1 \in 0..Len(text) /\ (r - 1) + 1 = (r + 1) - 1
        BY <1>0, <3>2
      <4>2. Separates(text, (r - 1) + 1)
        BY <4>1, SeparatesIs
      <4> QED
        BY <4>1, <4>2
    <3> QED
      BY <3>1, <3>2
  <2>4. r + 1 \in Starts(text)
    BY <1>0, <2>1, <2>2, <2>3 DEF Starts, Text
  <2>5. ASSUME NEW j \in Starts(text) PROVE j <= r + 1 <=> j <= p \/ j = r + 1
    BY <1>0, <1>1, StartsAreFinite
  <2>6. ~(r + 1 <= p)
    BY <1>0
  <2>7. StartsUpTo(text, r + 1) = StartsUpTo(text, p) \cup {r + 1}
    BY <2>4, <2>5 DEF StartsUpTo
  <2>8. r + 1 \notin StartsUpTo(text, p)
    BY <2>6 DEF StartsUpTo
  <2> QED
    BY <1>3, <2>4, <2>7, <2>8
<1> QED
  BY <1>2, <1>3

(* Where a block has begun, and up to behind its end, no other one begins. *)
LEMMA WithinBlock ==
  ASSUME NEW text \in Text, NEW r \in 0..Len(text), NEW e \in r..Len(text), r # e,
         CharAt(text, e) \in Delimiters \cup {NUL},
         \A q \in r..(e - 1) : CharAt(text, q) \notin Delimiters \cup {NUL}
  PROVE  /\ StartsUpTo(text, e) = StartsUpTo(text, r + 1)
         /\ StartsUpTo(text, e + 1) = StartsUpTo(text, r + 1)
         /\ Separates(text, e + 1)
         /\ \A i \in (r + 1)..e : ~Separates(text, i)
<1>0. Len(text) \in Nat
  BY DEF Text
<1>1. Separates(text, e + 1)
  BY <1>0, SeparatesIs
<1>2. ASSUME NEW i \in (r + 1)..e PROVE ~Separates(text, i)
  <2>1. i - 1 \in r..(e - 1) /\ i - 1 \in 0..Len(text) /\ (i - 1) + 1 = i
    BY <1>0
  <2>2. ~Separates(text, (i - 1) + 1)
    BY <2>1, SeparatesIs
  <2> QED
    BY <2>1, <2>2
<1>3. ASSUME NEW j \in Starts(text), r + 1 < j, j <= e + 1 PROVE FALSE
  <2>1. CASE j = e + 1
    BY <1>1, <2>1 DEF Starts
  <2>2. CASE j # e + 1
    <3>1. j - 1 \in (r + 1)..e
      BY <1>0, <1>3, <2>2, StartsAreFinite
    <3> QED
      BY <1>2, <3>1 DEF Starts
  <2> QED
    BY <2>1, <2>2
<1>4. ASSUME NEW j \in Starts(text)
      PROVE  (j <= e <=> j <= r + 1) /\ (j <= e + 1 <=> j <= r + 1)
  BY <1>0, <1>3, StartsAreFinite
<1> QED
  BY <1>1, <1>2, <1>4 DEF StartsUpTo

(* A string ends at the first NUL, so that a token is what stands between  *)
(* where it begins and there.                                              *)
LEMMA TokenIs ==
  ASSUME NEW mem \in Seq(Char), NEW r \in 0..Len(mem), NEW e \in r..Len(mem),
         CharAt(mem, e) = NUL,
         \A q \in r..(e - 1) : CharAt(mem, q) # NUL
  PROVE  /\ Token(mem, r) = SubSeq(mem, r + 1, e)
         /\ Len(Token(mem, r)) = e - r
         /\ \A k \in 1..(e - r) : Token(mem, r)[k] = mem[r + k]
<1>0. Len(mem) \in Nat
  OBVIOUS
<1>1. ASSUME NEW i \in r..Len(mem), CharAt(mem, i) = NUL,
             \A k \in r..(i - 1) : CharAt(mem, k) # NUL
      PROVE  i = e
  BY <1>0, <1>1
<1>2. EndOfString(mem, r) = e
  BY <1>1, Zenon DEF EndOfString
<1>3. r # Null
  BY <1>0 DEF Null
<1>4. Token(mem, r) = SubSeq(mem, r + 1, e)
  BY <1>2, <1>3 DEF Token
<1>5. /\ Len(SubSeq(mem, r + 1, e)) = e - r
      /\ \A k \in 1..(e - r) : SubSeq(mem, r + 1, e)[k] = mem[r + k]
  BY <1>0
<1> QED
  BY <1>4, <1>5

(* What one call of strtok does to the memory of a text that is cut up to  *)
(* the offset p: the next block is returned and cut off, ...               *)
FindsBlock(text, mem, p, r) ==
  /\ r.next \in (p + 1)..Len(text)
  /\ r.next = Len(text) \/ Separates(text, r.next)
  /\ \E i \in Starts(text) \ StartsUpTo(text, p) :
       /\ IsBlock(text, i, Token(r.text, r.result))
       /\ Token(r.text, r.result) \in Seq(Char)
       /\ StartsUpTo(text, i) = StartsUpTo(text, p) \cup {i}
       /\ StartsUpTo(text, r.next) = StartsUpTo(text, p) \cup {i}
  /\ r.text \in Seq(Char) /\ Len(r.text) = Len(text)
  /\ \A i \in (r.next + 1)..Len(text) : r.text[i] = text[i]
  /\ \A i \in 1..Len(text) :
       \/ r.text[i] = mem[i]
       \/ /\ r.text[i] = NUL
          /\ Separates(text, i) /\ i - 1 \in 1..Len(text) /\ ~Separates(text, i - 1)

(* ... or there is none and the search is over.                            *)
FindsNothing(text, mem, p, r) ==
  /\ r.next = Null /\ r.text = mem
  /\ Token(r.text, r.result) = NullToken
  /\ Starts(text) = StartsUpTo(text, p)

(* One search of strtok behind p, in memory in which only the text up to p *)
(* has been cut, finds the next block or nothing (strtok.c:53-74).         *)
LEMMA StrtokFinds ==
  ASSUME NEW text \in Text, NEW mem \in Seq(Char), Len(mem) = Len(text),
         NEW p \in 0..Len(text), p = Len(text) \/ Separates(text, p),
         \A i \in (p + 1)..Len(text) : mem[i] = text[i]
  PROVE  \/ FindsBlock(text, mem, p, strtok_from(mem, p, Delimiters))
         \/ FindsNothing(text, mem, p, strtok_from(mem, p, Delimiters))
<1> DEFINE N == Len(text)
           r == SkipWhile(mem, p, Delimiters)
           e == SkipWhile(mem, r, AllBut(Delimiters))
           result == strtok_from(mem, p, Delimiters)
<1>0. N \in Nat
  BY DEF Text
<1>1. ASSUME NEW q \in p..N PROVE CharAt(mem, q) = CharAt(text, q)
  BY <1>0 DEF CharAt
<1>2. NUL \notin Delimiters /\ NUL \notin AllBut(Delimiters)
  BY StringsAssumption DEF AllBut
<1>3. /\ r \in p..N /\ CharAt(mem, r) \notin Delimiters
      /\ \A q \in p..(r - 1) : CharAt(mem, q) \in Delimiters
  BY <1>0, <1>2, SkipStops
<1>4. /\ e \in r..N /\ CharAt(mem, e) \notin AllBut(Delimiters)
      /\ \A q \in r..(e - 1) : CharAt(mem, q) \in AllBut(Delimiters)
  <2> HIDE DEF r
  <2> QED
    BY <1>0, <1>2, <1>3, SkipStops
<1>5. result = CASE CharAt(mem, e) # NUL ->
                      [result |-> r, text |-> [mem EXCEPT ![e + 1] = NUL], next |-> e + 1]
                 [] CharAt(mem, e) = NUL /\ e # r ->
                      [result |-> r, text |-> mem, next |-> e]
                 [] CharAt(mem, e) = NUL /\ e = r ->
                      [result |-> Null, text |-> mem, next |-> Null]
  BY DEF strtok_from
<1> HIDE DEF N, r, e, result
<1>6. /\ CharAt(text, r) \notin Delimiters
      /\ \A q \in p..(r - 1) : CharAt(text, q) \in Delimiters
  BY <1>0, <1>1, <1>3
<1>7. /\ CharAt(text, e) \in Delimiters \cup {NUL}
      /\ \A q \in r..(e - 1) : CharAt(text, q) \notin Delimiters \cup {NUL}
  <2>1. e \in 0..N /\ e \in p..N
    BY <1>0, <1>3, <1>4
  <2>2. CharAt(text, e) \in Char
    BY <2>1, CharAtIs DEF N
  <2>3. CharAt(text, e) \notin AllBut(Delimiters)
    BY <1>1, <1>4, <2>1
  <2>4. ASSUME NEW q \in r..(e - 1) PROVE CharAt(text, q) \in AllBut(Delimiters)
    <3>1. q \in p..N
      BY <1>0, <1>3, <1>4
    <3> QED
      BY <1>1, <1>4, <3>1
  <2> QED
    BY <2>2, <2>3, <2>4 DEF AllBut
<1>8. r \in p..Len(text) /\ e \in r..Len(text) /\ r \in 0..Len(text) /\ e \in 0..Len(text)
  BY <1>0, <1>3, <1>4 DEF N
<1>9. /\ r = N => Starts(text) = StartsUpTo(text, p)
      /\ r # N => /\ r + 1 \in Starts(text) \ StartsUpTo(text, p)
                  /\ StartsUpTo(text, r + 1) = StartsUpTo(text, p) \cup {r + 1}
  BY <1>6, <1>8, NextStart DEF N
<1>10. CASE e = r
  <2>1. CharAt(text, r) = NUL
    BY <1>6, <1>7, <1>10
  <2>2. r = N
    BY <1>8, <2>1, CharAtIs DEF N
  <2>3. CharAt(mem, e) = NUL
    BY <1>1, <1>3, <1>10, <2>1
  <2>4. result = [result |-> Null, text |-> mem, next |-> Null]
    BY <1>5, <1>10, <2>3
  <2>5. FindsNothing(text, mem, p, result)
    BY <1>9, <2>2, <2>4 DEF FindsNothing, Token
  <2> QED
    BY <2>5 DEF result
<1>11. CASE e # r
  <2>1. r # N
    BY <1>0, <1>3, <1>4, <1>11
  <2>2. /\ StartsUpTo(text, e) = StartsUpTo(text, r + 1)
        /\ StartsUpTo(text, e + 1) = StartsUpTo(text, r + 1)
        /\ Separates(text, e + 1)
        /\ \A i \in (r + 1)..e : ~Separates(text, i)
    BY <1>7, <1>8, <1>11, WithinBlock
  <2>3. ASSUME NEW after \in Seq(Char), Len(after) = N,
               \A i \in (r + 1)..e : after[i] = text[i],
               CharAt(after, e) = NUL
        PROVE  IsBlock(text, r + 1, Token(after, r)) /\ Token(after, r) \in Seq(Char)
    <3>1. ASSUME NEW q \in r..(e - 1) PROVE CharAt(after, q) # NUL
      <4>1. q + 1 \in (r + 1)..e /\ q < N /\ q \in r..(e - 1)
        BY <1>0, <1>3, <1>4
      <4>2. CharAt(after, q) = CharAt(text, q)
        BY <2>3, <4>1 DEF CharAt, N
      <4> QED
        BY <1>7, <4>2
    <3>2. r \in 0..Len(after) /\ e \in r..Len(after)
      BY <1>8, <2>3 DEF N
    <3>3. /\ Len(Token(after, r)) = e - r
          /\ \A k \in 1..(e - r) : Token(after, r)[k] = after[r + k]
          /\ Token(after, r) = SubSeq(after, r + 1, e)
      BY <2>3, <3>1, <3>2, TokenIs
    <3>4. Token(after, r) \in Seq(Char)
      <4>1. \A i \in (r + 1)..e : i \in 1..Len(after)
        BY <1>0, <1>3, <1>4, <2>3
      <4> QED
        BY <3>3, <4>1, <1>0, <1>3, <1>4
    <3>5. DOMAIN Token(after, r) = 1..(e - r)
      BY <3>3, <3>4
    <3>6. Separates(text, (r + 1) + Len(Token(after, r)))
      <4>1. (r + 1) + (e - r) = e + 1
        BY <1>0, <1>3, <1>4
      <4> QED
        BY <2>2, <3>3, <4>1
    <3>7. ASSUME NEW k \in 1..(e - r)
          PROVE  /\ ~Separates(text, (r + 1) + k - 1)
                 /\ Token(after, r)[k] = text[(r + 1) + k - 1]
      <4>1. (r + 1) + k - 1 = r + k /\ r + k \in (r + 1)..e
        <5>1. r \in Int /\ e \in Int
          BY <1>0, <1>3, <1>4
        <5> HIDE <1>3, <1>4
        <5> QED
          BY <5>1
      <4> QED
        BY <2>2, <2>3, <3>3, <4>1
    <3> QED
      BY <3>4, <3>5, <3>6, <3>7 DEF IsBlock
  <2>4. \A i \in (r + 1)..e : mem[i] = text[i]
    <3>1. \A i \in (r + 1)..e : i \in (p + 1)..Len(text)
      BY <1>0, <1>3, <1>4 DEF N
    <3> QED
      BY <3>1
  <2>5. CASE CharAt(mem, e) = NUL
    <3>1. result = [result |-> r, text |-> mem, next |-> e]
      BY <1>5, <1>11, <2>5
    <3>2. e = N
      <4>1. CharAt(text, e) = NUL
        BY <1>0, <1>1, <1>3, <1>4, <2>5
      <4> QED
        BY <1>8, <4>1, CharAtIs DEF N
    <3>3. e \in (p + 1)..N
      BY <1>0, <1>3, <1>4, <1>11
    <3>4. IsBlock(text, r + 1, Token(mem, r)) /\ Token(mem, r) \in Seq(Char)
      BY <2>3, <2>4, <2>5 DEF N
    <3>5. \A i \in (e + 1)..N : mem[i] = text[i]
      BY <1>0, <3>2
    <3>6. FindsBlock(text, mem, p, result)
      BY <1>9, <2>1, <2>2, <3>1, <3>2, <3>3, <3>4, <3>5 DEF FindsBlock, N
    <3> QED
      BY <3>6 DEF result
  <2>6. CASE CharAt(mem, e) # NUL
    <3> DEFINE cut == [mem EXCEPT ![e + 1] = NUL]
    <3>1. result = [result |-> r, text |-> cut, next |-> e + 1]
      BY <1>5, <2>6
    <3>2. e < N
      <4>1. e # N
        BY <1>0, <2>6 DEF CharAt, N
      <4> QED
        BY <1>0, <1>4, <4>1, <1>3
    <3>3. e + 1 \in (p + 1)..N /\ e + 1 \in 1..N /\ (e + 1) - 1 \in 1..N
      BY <1>0, <1>3, <1>4, <1>11, <3>2
    <3>4. cut \in Seq(Char) /\ Len(cut) = N
      BY <1>0, <3>3 DEF N, NUL, Char
    <3>5. \A i \in 1..N : i # e + 1 => cut[i] = mem[i]
      BY <1>0 DEF N
    <3>6. cut[e + 1] = NUL
      BY <1>0, <3>3 DEF N
    <3> HIDE DEF cut
    <3>7. CharAt(cut, e) = NUL
      BY <3>2, <3>4, <3>6 DEF CharAt
    <3>8. \A i \in (r + 1)..e : cut[i] = text[i]
      <4>1. \A i \in (r + 1)..e : i \in 1..N /\ i # e + 1
        BY <1>0, <1>3, <1>4
      <4> QED
        BY <2>4, <3>5, <4>1
    <3>9. IsBlock(text, r + 1, Token(cut, r)) /\ Token(cut, r) \in Seq(Char)
      BY <2>3, <3>4, <3>7, <3>8
    <3>10. \A i \in ((e + 1) + 1)..N : cut[i] = text[i]
      <4>1. \A i \in ((e + 1) + 1)..N : i \in 1..N /\ i # e + 1 /\ i \in (p + 1)..N
        BY <1>0, <1>3, <1>4
      <4> QED
        BY <3>5, <4>1 DEF N
    <3>11. ~Separates(text, (e + 1) - 1)
      <4>1. (e + 1) - 1 \in (r + 1)..e
        BY <1>0, <1>3, <1>4, <1>11
      <4> QED
        BY <2>2, <4>1
    <3>12. FindsBlock(text, mem, p, result)
      BY <1>9, <2>1, <2>2, <3>1, <3>3, <3>4, <3>5, <3>6, <3>9, <3>10, <3>11
      DEF FindsBlock, N
    <3> QED
      BY <3>12 DEF result
  <2> QED
    BY <2>5, <2>6
<1> QED
  BY <1>10, <1>11

(***************************************************************************)
(* The inductive invariant: where the static pointer stands in the text    *)
(* that is being cut.  n tokens have been returned, mem is the memory of   *)
(* the text.                                                               *)
(***************************************************************************)
CutUpTo(text, mem, at, n) ==
  /\ at \in 0..Len(text)
  /\ at = Len(text) \/ Separates(text, at)
  /\ Cardinality(StartsUpTo(text, at)) = n
  /\ \A i \in (at + 1)..Len(text) : mem[i] = text[i]
CutUp(text, n) == Cardinality(Starts(text)) < n

(* One call of strtok: its token is the next block, and the pointer stands *)
(* behind it; or there is no other one.                                    *)
LEMMA StrtokStep ==
  ASSUME NEW text \in Text, NEW mem \in Seq(Char), NEW at, NEW n \in Nat,
         CutWhereBlocksEnd(mem, text), CutUpTo(text, mem, at, n)
  PROVE  LET r == strtok_from(mem, at, Delimiters)
         IN /\ r.text \in Seq(Char) /\ CutWhereBlocksEnd(r.text, text)
            /\ Token(r.text, r.result) \in Seq(Char)
            /\ IsToken(Token(r.text, r.result), n + 1, text)
            /\ r.next = Null => CutUp(text, n + 1)
            /\ r.next # Null => CutUpTo(text, r.text, r.next, n + 1)
<1> DEFINE r == strtok_from(mem, at, Delimiters)
<1>0. Len(text) \in Nat /\ Len(mem) = Len(text) /\ at \in 0..Len(text)
  BY DEF Text, CutWhereBlocksEnd, CutUpTo
<1>1. FindsBlock(text, mem, at, r) \/ FindsNothing(text, mem, at, r)
  BY <1>0, StrtokFinds DEF CutUpTo
<1>2. IsFiniteSet(StartsUpTo(text, at))
  BY <1>0, StartsAreFinite
<1>3. Cardinality(StartsUpTo(text, at)) = n
  BY DEF CutUpTo
<1> HIDE DEF r
<1>4. CASE FindsNothing(text, mem, at, r)
  <2>1. CutUp(text, n + 1)
    BY <1>3, <1>4 DEF FindsNothing, CutUp
  <2>2. NullToken \in Seq(Char)
    BY DEF NullToken, NUL, Char
  <2>3. IsToken(NullToken, n + 1, text)
    BY <2>1 DEF CutUp, IsToken
  <2> QED
    BY <1>4, <2>1, <2>2, <2>3 DEF FindsNothing, r
<1>5. CASE FindsBlock(text, mem, at, r)
  <2>1. PICK i \in Starts(text) \ StartsUpTo(text, at) :
          /\ IsBlock(text, i, Token(r.text, r.result))
          /\ Token(r.text, r.result) \in Seq(Char)
          /\ StartsUpTo(text, i) = StartsUpTo(text, at) \cup {i}
          /\ StartsUpTo(text, r.next) = StartsUpTo(text, at) \cup {i}
    BY <1>5 DEF FindsBlock
  <2>2. Cardinality(StartsUpTo(text, at) \cup {i}) = n + 1
    BY <1>2, <1>3, <2>1, FS_AddElement
  <2>3. IsToken(Token(r.text, r.result), n + 1, text)
    BY <2>1, <2>2 DEF IsToken
  <2>4. r.next \in (at + 1)..Len(text) /\ r.next # Null /\ r.next \in 0..Len(text)
    BY <1>0, <1>5 DEF FindsBlock, Null
  <2>5. CutUpTo(text, r.text, r.next, n + 1)
    BY <1>5, <2>1, <2>2, <2>4 DEF FindsBlock, CutUpTo
  <2>6. CutWhereBlocksEnd(r.text, text)
    BY <1>0, <1>5 DEF FindsBlock, CutWhereBlocksEnd
  <2>7. r.text \in Seq(Char)
    BY <1>5 DEF FindsBlock
  <2> QED
    BY <2>1, <2>3, <2>4, <2>5, <2>6, <2>7 DEF r
<1> QED
  BY <1>1, <1>4, <1>5

(* Who has begun, what is returned, and the memory of the users.           *)
StrtokType ==
  /\ begun \in Seq(Users)
  /\ tokens \in Seq(Seq(Char))
  /\ memory \in [Users -> Seq(Char)]
NextStands ==
  IF begun = <<>> THEN next = Nothing
  ELSE LET u == begun[Len(begun)]
       IN \/ next = Nothing /\ CutUp(call.texts[u], Len(tokens))
          \/ next # Nothing /\ next.user = u
             /\ CutUpTo(call.texts[u], memory[u], next.at, Len(tokens))

StrtokInv ==
  /\ call \in Calls
  /\ call.fn = "strtok" => StrtokType /\ NextStands
  /\ TokensAreBlocks

(* The strtok calls and the arguments of the others are what they are.     *)
LEMMA CallsAre ==
  ASSUME call \in Calls
  PROVE  /\ call.fn = "strtok" => call.texts \in [Users -> Text]
         /\ call.fn \in {"strtoul", "strtol", "atol"} => IsNumber(call.number)
         /\ call.fn = "ctype" => call.char \in -1..255
         /\ call.fn = "strupr" => call.string \in Text
         /\ call.fn = "strpbrk" => call.string \in Text /\ call.chars \in SUBSET (Char \ {NUL})
         /\ call.fn \in {"mwdd32", "dev32", "sec32", "drv32"} => call.line \in Text
<1>1. CASE call \in [fn : {"strtok"}, texts : [Users -> Texts]]
  BY <1>1, StringsAssumption
<1>2. CASE call \in [fn : {"strtoul", "strtol", "atol"}, number : Numbers]
  BY <1>2, StringsAssumption
<1>3. CASE call \in [fn : {"ctype"}, char : -1..255]
  BY <1>3
<1>4. CASE call \in [fn : {"strupr"}, string : StringArgs]
  BY <1>4, StringsAssumption
<1>5. CASE call \in [fn : {"strpbrk"}, string : StringArgs, chars : CharSets]
  BY <1>5, StringsAssumption
<1>6. CASE call \in [fn : {"mwdd32", "dev32", "sec32", "drv32"}, line : Lines]
  BY <1>6, StringsAssumption
<1> QED
  BY <1>1, <1>2, <1>3, <1>4, <1>5, <1>6 DEF Calls

(* A call of strtok for the memory of u, which is cut up to p.             *)
LEMMA CallStrtokStep ==
  ASSUME StrtokType, call.texts \in [Users -> Text], call' = call,
         NEW u \in Users, NEW p, NEW before \in Seq(Seq(Char)),
         before = IF begun' = begun THEN tokens ELSE <<>>,
         \A k \in DOMAIN before : IsToken(before[k], k, call.texts[u]),
         CutWhereBlocksEnd(memory[u], call.texts[u]),
         CutUpTo(call.texts[u], memory[u], p, Len(before)),
         begun' \in Seq(Users), begun' # <<>>, begun'[Len(begun')] = u,
         CallStrtok(u, p)
  PROVE  /\ StrtokType' /\ NextStands'
         /\ \A k \in DOMAIN tokens' : IsToken(tokens'[k], k, call.texts[u])
         /\ CutWhereBlocksEnd(memory'[u], call.texts[u])
         /\ \A v \in Users : v # u => memory'[v] = memory[v]
<1> DEFINE text == call.texts[u]
           r == strtok_from(memory[u], p, Delimiters)
           token == Token(r.text, r.result)
           n == Len(before)
<1>0. text \in Text /\ memory[u] \in Seq(Char) /\ n \in Nat
  BY DEF StrtokType
<1>1. /\ r.text \in Seq(Char) /\ CutWhereBlocksEnd(r.text, text)
      /\ token \in Seq(Char) /\ IsToken(token, n + 1, text)
      /\ r.next = Null => CutUp(text, n + 1)
      /\ r.next # Null => CutUpTo(text, r.text, r.next, n + 1)
  BY <1>0, StrtokStep
<1>2. /\ memory' = [memory EXCEPT ![u] = r.text]
      /\ next' = IF r.next = Null THEN Nothing ELSE [user |-> u, at |-> r.next]
      /\ tokens' = Append(before, token)
  BY DEF CallStrtok
<1> HIDE DEF r, token, text
<1>3. /\ memory' \in [Users -> Seq(Char)] /\ memory'[u] = r.text
      /\ \A v \in Users : v # u => memory'[v] = memory[v]
  BY <1>1, <1>2 DEF StrtokType
<1>4. /\ tokens' \in Seq(Seq(Char)) /\ Len(tokens') = n + 1
      /\ DOMAIN tokens' = 1..(n + 1)
      /\ tokens'[n + 1] = token
      /\ \A k \in 1..n : tokens'[k] = before[k] /\ k \in DOMAIN before
  BY <1>1, <1>2
<1>5. StrtokType'
  BY <1>3, <1>4 DEF StrtokType
<1>6. \A k \in DOMAIN tokens' : IsToken(tokens'[k], k, text)
  <2>1. ASSUME NEW k \in 1..(n + 1) PROVE IsToken(tokens'[k], k, text)
    <3>1. CASE k = n + 1
      BY <1>1, <1>4, <3>1
    <3>2. CASE k # n + 1
      <4>1. k \in 1..n
        BY <1>0, <3>2
      <4> QED
        BY <1>4, <4>1 DEF text
    <3> QED
      BY <3>1, <3>2
  <2> QED
    BY <1>4, <2>1
<1>7. NextStands'
  <2>1. CASE r.next = Null
    <3>1. next' = Nothing /\ CutUp(text, Len(tokens'))
      BY <1>1, <1>2, <1>4, <2>1
    <3> QED
      BY <3>1 DEF NextStands, text
  <2>2. CASE r.next # Null
    <3>1. next' = [user |-> u, at |-> r.next] /\ CutUpTo(text, memory'[u], r.next, Len(tokens'))
      BY <1>1, <1>2, <1>3, <1>4, <2>2
    <3>2. next' # Nothing /\ next'.user = u /\ next'.at = r.next
      BY <2>2, <3>1 DEF Nothing
    <3> QED
      BY <3>1, <3>2 DEF NextStands, text
  <2> QED
    BY <2>1, <2>2
<1> QED
  BY <1>1, <1>3, <1>5, <1>6, <1>7 DEF text

(* Before a text is cut, it is cut up to its start.                        *)
LEMMA NotCutYet ==
  ASSUME NEW text \in Text
  PROVE  CutWhereBlocksEnd(text, text) /\ CutUpTo(text, text, 0, 0)
<1>1. StartsUpTo(text, 0) = {}
  <2>1. ASSUME NEW j \in StartsUpTo(text, 0)
        PROVE  FALSE
    <3>1. j \in DOMAIN text /\ j <= 0
      BY <2>1 DEF StartsUpTo, Starts
    <3>2. j \in Nat /\ j >= 1
      BY <3>1 DEF Text
    <3> QED
      BY <3>1, <3>2
  <2> QED
    BY <2>1
<1>2. Cardinality(StartsUpTo(text, 0)) = 0
  BY <1>1, FS_EmptySet
<1>3. 0 \notin DOMAIN text /\ Len(text) \in Nat
  BY DEF Text
<1> QED
  BY <1>2, <1>3 DEF CutWhereBlocksEnd, CutUpTo, Separates

(* It holds initially: nothing has been cut.                               *)
LEMMA StrtokInit == Init => StrtokInv
<1> SUFFICES ASSUME Init PROVE StrtokInv
  OBVIOUS
<1>1. call \in Calls /\ begun = <<>> /\ tokens = <<>> /\ next = Nothing
  BY DEF Init
<1>2. CASE call.fn = "strtok"
  <2>1. memory = call.texts /\ call.texts \in [Users -> Text]
    BY <1>1, <1>2, CallsAre DEF Init
  <2>2. Text \subseteq Seq(Char)
    BY DEF Text
  <2>3. StrtokType
    BY <1>1, <2>1, <2>2 DEF StrtokType
  <2>4. NextStands
    BY <1>1 DEF NextStands
  <2>5. TokensAreBlocks
    BY <1>1, <2>1, NotCutYet DEF TokensAreBlocks
  <2> QED
    BY <1>1, <2>3, <2>4, <2>5 DEF StrtokInv
<1>3. CASE call.fn # "strtok"
  BY <1>1, <1>3 DEF StrtokInv, TokensAreBlocks
<1> QED
  BY <1>2, <1>3

(* A user who passes a text gets its first block.                          *)
LEMMA StrtokBegin ==
  ASSUME StrtokInv, NEW u \in Users, strtok_begin(u)
  PROVE  StrtokInv'
<1>1. /\ call.fn = "strtok" /\ call' = call /\ call \in Calls
      /\ StrtokType /\ NextStands /\ TokensAreBlocks
      /\ begun' = Append(begun, u) /\ CallStrtok(u, 0) /\ ~HasBegun(u)
  BY DEF StrtokInv, strtok_begin
<1>2. call.texts \in [Users -> Text] /\ call.texts[u] \in Text
  BY <1>1, CallsAre
<1>3. /\ begun \in Seq(Users) /\ begun' \in Seq(Users)
      /\ begun' # <<>> /\ begun' # begun /\ begun'[Len(begun')] = u
      /\ \A v \in Users : HasBegun(v) => HasBegun(v)'
      /\ HasBegun(u)'
  <2>1. begun \in Seq(Users)
    BY <1>1 DEF StrtokType
  <2>2. /\ begun' \in Seq(Users) /\ Len(begun') = Len(begun) + 1
        /\ DOMAIN begun' = 1..(Len(begun) + 1) /\ DOMAIN begun = 1..Len(begun)
        /\ Len(begun) \in Nat
        /\ begun'[Len(begun) + 1] = u
        /\ \A i \in 1..Len(begun) : begun'[i] = begun[i]
    BY <1>1, <2>1
  <2>3. begun' # <<>> /\ begun' # begun
    BY <2>2
  <2>4. \A v \in Users : HasBegun(v) => HasBegun(v)'
    BY <2>2 DEF HasBegun
  <2>5. HasBegun(u)'
    <3>1. Len(begun) + 1 \in DOMAIN begun'
      BY <2>2
    <3> QED
      BY <2>2, <3>1 DEF HasBegun
  <2> QED
    BY <2>1, <2>2, <2>3, <2>4, <2>5
<1>4. memory[u] = call.texts[u]
  BY <1>1 DEF TokensAreBlocks
<1>5. CutWhereBlocksEnd(memory[u], call.texts[u]) /\ CutUpTo(call.texts[u], memory[u], 0, Len(<<>>))
  BY <1>2, <1>4, NotCutYet
<1>6. /\ StrtokType' /\ NextStands'
      /\ \A k \in DOMAIN tokens' : IsToken(tokens'[k], k, call.texts[u])
      /\ CutWhereBlocksEnd(memory'[u], call.texts[u])
      /\ \A v \in Users : v # u => memory'[v] = memory[v]
  <2> DEFINE before == <<>>
  <2>1. before \in Seq(Seq(Char)) /\ before = IF begun' = begun THEN tokens ELSE <<>>
    BY <1>3
  <2>2. \A k \in DOMAIN before : IsToken(before[k], k, call.texts[u])
    OBVIOUS
  <2>3. CutUpTo(call.texts[u], memory[u], 0, Len(before))
    BY <1>5
  <2> HIDE DEF before
  <2> QED
    BY <1>1, <1>2, <1>3, <1>5, <2>1, <2>2, <2>3, CallStrtokStep
<1>7. TokensAreBlocks'
  <2>1. ASSUME NEW v \in Users
        PROVE  /\ CutWhereBlocksEnd(memory'[v], call.texts[v])
               /\ ~HasBegun(v)' => memory'[v] = call.texts[v]
    BY <1>1, <1>3, <1>6 DEF TokensAreBlocks
  <2> QED
    BY <1>1, <1>3, <1>6, <2>1 DEF TokensAreBlocks
<1> QED
  BY <1>1, <1>6, <1>7 DEF StrtokInv

(* Who calls strtok again gets the next block of the text that was passed  *)
(* last, or null again.                                                    *)
LEMMA StrtokNext ==
  ASSUME StrtokInv, strtok_next
  PROVE  StrtokInv'
<1>1. /\ call.fn = "strtok" /\ call' = call /\ call \in Calls
      /\ StrtokType /\ NextStands /\ TokensAreBlocks
      /\ begun' = begun
  BY DEF StrtokInv, strtok_next
<1>2. call.texts \in [Users -> Text] /\ begun \in Seq(Users) /\ tokens \in Seq(Seq(Char))
  BY <1>1, CallsAre DEF StrtokType
<1>3. CASE next = Nothing
  <2>1. tokens' = Append(tokens, NullToken) /\ memory' = memory /\ next' = next
    BY <1>3 DEF strtok_next
  <2>2. /\ tokens' \in Seq(Seq(Char)) /\ Len(tokens') = Len(tokens) + 1 /\ Len(tokens) \in Nat
        /\ DOMAIN tokens' = 1..(Len(tokens) + 1) /\ DOMAIN tokens = 1..Len(tokens)
        /\ tokens'[Len(tokens) + 1] = NullToken
        /\ \A k \in 1..Len(tokens) : tokens'[k] = tokens[k]
    <3>1. NullToken \in Seq(Char)
      BY DEF NullToken, NUL, Char
    <3> QED
      BY <1>2, <2>1, <3>1
  <2>3. StrtokType'
    BY <1>1, <2>1, <2>2 DEF StrtokType
  <2>4. CASE begun = <<>>
    <3>1. NextStands'
      BY <1>1, <1>3, <2>1, <2>4 DEF NextStands
    <3>2. \A k \in DOMAIN tokens' : tokens'[k] = NullToken
      BY <1>1, <2>2, <2>4 DEF TokensAreBlocks
    <3>3. TokensAreBlocks'
      BY <1>1, <2>1, <2>4, <3>2 DEF TokensAreBlocks, HasBegun
    <3> QED
      BY <1>1, <2>3, <3>1, <3>3 DEF StrtokInv
  <2>5. CASE begun # <<>>
    <3> DEFINE text == call.texts[begun[Len(begun)]]
    <3>1. CutUp(text, Len(tokens))
      BY <1>1, <1>3, <2>5 DEF NextStands
    <3>2. text \in Text
      <4>1. begun[Len(begun)] \in Users
        BY <1>2, <2>5
      <4> QED
        BY <1>2, <4>1
    <3>3. Cardinality(Starts(text)) \in Nat
      BY <3>2, StartsAreFinite, FS_CardinalityType
    <3>4. CutUp(text, Len(tokens')) /\ IsToken(NullToken, Len(tokens'), text)
      BY <2>2, <3>1, <3>3 DEF CutUp, IsToken
    <3>5. NextStands'
      BY <1>1, <1>3, <2>1, <2>5, <3>4 DEF NextStands
    <3>6. \A k \in DOMAIN tokens : IsToken(tokens[k], k, text)
      BY <1>1, <2>5 DEF TokensAreBlocks
    <3>7. \A k \in DOMAIN tokens' : IsToken(tokens'[k], k, text)
      <4> HIDE DEF text
      <4>1. SUFFICES ASSUME NEW k \in DOMAIN tokens' PROVE IsToken(tokens'[k], k, text)
        OBVIOUS
      <4>2. CASE k = Len(tokens')
        BY <2>2, <3>4, <4>2
      <4>3. CASE k # Len(tokens')
        <5>1. k \in 1..Len(tokens)
          BY <2>2, <4>1, <4>3
        <5> QED
          BY <2>2, <3>6, <5>1
      <4> QED
        BY <4>2, <4>3
    <3>8. TokensAreBlocks'
      BY <1>1, <2>1, <2>5, <3>7 DEF TokensAreBlocks, HasBegun
    <3> QED
      BY <1>1, <2>3, <3>5, <3>8 DEF StrtokInv
  <2> QED
    BY <2>4, <2>5
<1>4. CASE next # Nothing
  <2> DEFINE u == begun[Len(begun)]
  <2>1. /\ begun # <<>> /\ next.user = u
        /\ CutUpTo(call.texts[u], memory[u], next.at, Len(tokens))
    BY <1>1, <1>4 DEF NextStands
  <2>2. u \in Users
    BY <1>2, <2>1
  <2>3. CallStrtok(u, next.at)
    BY <1>4, <2>1 DEF strtok_next
  <2>4. /\ CutWhereBlocksEnd(memory[u], call.texts[u])
        /\ \A k \in DOMAIN tokens : IsToken(tokens[k], k, call.texts[u])
    BY <1>1, <2>1, <2>2 DEF TokensAreBlocks
  <2>5. begun'[Len(begun')] = u /\ begun' \in Seq(Users) /\ begun' # <<>>
    BY <1>1, <1>2, <2>1
  <2>6. HasBegun(u)
    <3>1. Len(begun) \in DOMAIN begun
      BY <1>2, <2>1
    <3> QED
      BY <3>1 DEF HasBegun
  <2>7. tokens = IF begun' = begun THEN tokens ELSE <<>>
    BY <1>1
  <2> HIDE DEF u
  <2>8. /\ StrtokType' /\ NextStands'
        /\ \A k \in DOMAIN tokens' : IsToken(tokens'[k], k, call.texts[u])
        /\ CutWhereBlocksEnd(memory'[u], call.texts[u])
        /\ \A v \in Users : v # u => memory'[v] = memory[v]
    BY <1>1, <1>2, <2>1, <2>2, <2>3, <2>4, <2>5, <2>7, CallStrtokStep
  <2>9. ASSUME NEW v \in Users
        PROVE  /\ CutWhereBlocksEnd(memory'[v], call.texts[v])
               /\ ~HasBegun(v)' => memory'[v] = call.texts[v]
    <3>1. HasBegun(v)' <=> HasBegun(v)
      BY <1>1 DEF HasBegun
    <3> QED
      BY <1>1, <2>6, <2>8, <3>1 DEF TokensAreBlocks
  <2>10. TokensAreBlocks'
    BY <1>1, <2>5, <2>8, <2>9 DEF TokensAreBlocks
  <2> QED
    BY <1>1, <2>8, <2>10 DEF StrtokInv
<1> QED
  BY <1>3, <1>4

(* The other calls have no part in it.                                     *)
LEMMA StrtokOthers ==
  ASSUME StrtokInv,
         UNCHANGED vars \/ call_number \/ call_string \/ read_command_line
  PROVE  StrtokInv'
<1>1. call' = call /\ memory' = memory /\ next' = next /\ begun' = begun /\ tokens' = tokens
  BY DEF vars, call_number, call_string, read_command_line, Returns
<1>2. TokensAreBlocks'
  BY <1>1 DEF StrtokInv, TokensAreBlocks, HasBegun
<1> QED
  BY <1>1, <1>2 DEF StrtokInv, StrtokType, NextStands

(* strtok cuts the text that was passed last into its blocks, whoever      *)
(* calls it, and changes nothing else (strtok.c:36-75).                    *)
THEOREM StringCalls_TokensAreBlocks == Spec => []TokensAreBlocks
<1>1. Init => StrtokInv
  BY StrtokInit
<1>2. StrtokInv /\ [Next]_vars => StrtokInv'
  BY StrtokBegin, StrtokNext, StrtokOthers DEF Next
<1>3. StrtokInv => TokensAreBlocks
  BY DEF StrtokInv
<1> QED
  BY <1>1, <1>2, <1>3, PTL DEF Spec
-----------------------------------------------------------------------------
(***************************************************************************)
(* The other calls: what was called, and what it has returned.             *)
(***************************************************************************)
AnswerInv ==
  /\ call \in Calls
  /\ Answered("strtoul") => answer[1] = strtoul(NumberText(call.number), call.number.radix)
  /\ Answered("strtol") => answer[1] = strtol(NumberText(call.number), call.number.radix)
  /\ Answered("atol") => answer[1] = atol(NumberText(call.number))
  /\ Answered("ctype") =>
       answer[1] = [classes |-> {n \in AllClasses : InClass(call.char, n)},
                    toupper |-> toupper(call.char), tolower |-> tolower(call.char)]
  /\ Answered("strupr") => answer[1] = strupr(call.string)
  /\ Answered("strpbrk") => answer[1] = strpbrk(call.string, call.chars)
  /\ Answered("mwdd32") => answer[1] = mwdd32_switches(call.line)
  /\ Answered("dev32") => answer[1] = dev32_switches(call.line)
  /\ Answered("sec32") => answer[1] = sec32_switches(call.line)
  /\ Answered("drv32") => answer[1] = drv32_switches(call.line)

(* It holds initially, when nothing has been returned, and no call changes *)
(* what another has returned.                                              *)
LEMMA AnswersAre == Spec => []AnswerInv
<1>1. Init => AnswerInv
  BY DEF Init, AnswerInv, Answered
<1>2. ASSUME AnswerInv, [Next]_vars PROVE AnswerInv'
  <2>1. CASE call' = call /\ answer' = answer
    BY <1>2, <2>1 DEF AnswerInv, Answered
  <2>2. ASSUME NEW x, Returns(x)
        PROVE  call' = call /\ answer' # <<>> /\ answer'[1] = x
    BY <2>2 DEF Returns
  <2>3. CASE call_number
    BY <1>2, <2>2, <2>3 DEF AnswerInv, Answered, call_number
  <2>4. CASE call_string
    BY <1>2, <2>2, <2>4 DEF AnswerInv, Answered, call_string
  <2>5. CASE read_command_line
    BY <1>2, <2>2, <2>5 DEF AnswerInv, Answered, read_command_line
  <2>6. (UNCHANGED vars \/ strtok_next \/ \E u \in Users : strtok_begin(u))
          => call' = call /\ answer' = answer
    BY DEF vars, strtok_next, strtok_begin
  <2> QED
    BY <1>2, <2>1, <2>3, <2>4, <2>5, <2>6 DEF Next
<1> QED
  BY <1>1, <1>2, PTL DEF Spec

(* The classes of characters are those of ASCII, strupr raises the letters *)
(* of any string in place and strpbrk finds the first of the wanted        *)
(* characters (ctype.c:37-176, strupr.c:41-53, STRPBRK.C:41-59).           *)
THEOREM StringCalls_StringsAsDefined == Spec => []StringsAsDefined
<1>1. ASSUME AnswerInv PROVE StringsAsDefined
  <2>1. CASE Answered("ctype")
    <3>1. call.fn = "ctype" /\ call.char \in -1..255
      BY <1>1, <2>1, CallsAre DEF AnswerInv, Answered
    <3>2. /\ answer[1].classes = {n \in AllClasses : InClass(call.char, n)}
          /\ answer[1].toupper = toupper(call.char)
          /\ answer[1].tolower = tolower(call.char)
      BY <1>1, <2>1 DEF AnswerInv
    <3>3. \A n \in AllClasses : InClass(call.char, n) <=> ASCIIClass(call.char, n)
      BY <3>1, InClassIs
    <3>4. toupper(call.char) = Raised(call.char) /\ tolower(call.char) = Lowered(call.char)
      BY <3>1, OtherCase
    <3>5. {n \in AllClasses : InClass(call.char, n)} = {n \in AllClasses : ASCIIClass(call.char, n)}
      BY <3>3
    <3> QED
      BY <3>1, <3>2, <3>4, <3>5 DEF StringsAsDefined, Answered
  <2>2. CASE Answered("strupr")
    BY <1>1, <2>2, CallsAre, StruprIs DEF AnswerInv, Answered, StringsAsDefined
  <2>3. CASE Answered("strpbrk")
    <3> DEFINE s == call.string
               r == answer[1]
               wanted == {i \in DOMAIN s : s[i] \in call.chars}
    <3>1. /\ call.fn = "strpbrk" /\ s \in Text /\ call.chars \in SUBSET (Char \ {NUL})
          /\ r = strpbrk(s, call.chars)
      BY <1>1, <2>3, CallsAre DEF AnswerInv, Answered
    <3>2. Len(s) \in Nat /\ wanted \subseteq 1..Len(s)
      BY <3>1 DEF Text
    <3>3. \A i \in wanted : i - 1 \in 0..Len(s) /\ CharAt(s, i - 1) \in call.chars
      BY <3>2 DEF CharAt
    <3>4. CASE r = Null /\ \A q \in 0..Len(s) : CharAt(s, q) \notin call.chars
      <4>1. wanted = {}
        BY <3>3, <3>4
      <4> QED
        BY <3>1, <3>4, <4>1 DEF StringsAsDefined, Answered
    <3>5. CASE /\ r \in 0..(Len(s) - 1) /\ CharAt(s, r) \in call.chars
               /\ \A q \in 0..(r - 1) : CharAt(s, q) \notin call.chars
      <4>1. r + 1 \in DOMAIN s /\ s[r + 1] = CharAt(s, r)
        BY <3>1, <3>2, <3>5 DEF CharAt, Text
      <4>2. r + 1 \in wanted
        BY <3>5, <4>1
      <4>3. ASSUME NEW i \in wanted PROVE r + 1 <= i
        <5>1. i \in Nat /\ r \in Nat /\ i - 1 \in 0..Len(s) /\ CharAt(s, i - 1) \in call.chars
          BY <3>2, <3>3, <3>5
        <5>2. ~(i - 1 \in 0..(r - 1))
          BY <3>5, <5>1
        <5> QED
          BY <5>1, <5>2
      <4> QED
        BY <3>1, <4>2, <4>3 DEF StringsAsDefined, Answered
    <3> QED
      BY <3>1, <3>4, <3>5, StrpbrkFinds
  <2>4. CASE ~Answered("ctype") /\ ~Answered("strupr") /\ ~Answered("strpbrk")
    BY <2>4 DEF StringsAsDefined
  <2> QED
    BY <2>1, <2>2, <2>3, <2>4
<1> QED
  BY <1>1, AnswersAre, PTL
-----------------------------------------------------------------------------
(***************************************************************************)
(* Arithmetic.                                                             *)
(***************************************************************************)

(* Division leaves a remainder smaller than the divisor.                   *)
LEMMA Division ==
  ASSUME NEW a \in Int, NEW m \in Nat, m > 0
  PROVE  /\ a \div m \in Int /\ a % m \in 0..(m - 1)
         /\ a = (a \div m) * m + (a % m)
  OBVIOUS

(* Which remainder: there is only one.                                     *)
LEMMA Remainder ==
  ASSUME NEW x \in Int, NEW m \in Nat, NEW j \in Int, NEW r \in Int,
         0 <= r, r < m, x = j * m + r
  PROVE  x % m = r
  OBVIOUS

(* A product grows with its factors.                                       *)
LEMMA Growing ==
  ASSUME NEW a \in Int, NEW b \in Int, NEW m \in Nat, a <= b
  PROVE  a * m \in Int /\ b * m \in Int /\ a * m <= b * m
  OBVIOUS

(* The test for an overflow is exact: it divides the limit instead of      *)
(* multiplying the number, which might not fit.                            *)
LEMMA OverflowIs ==
  ASSUME NEW n \in Nat, NEW c \in Nat, NEW base \in Nat, c < base, NEW lim \in Nat
  PROVE  LET max1 == lim \div base
             max2 == lim - max1 * base
         IN n >= max1 /\ (n > max1 \/ c > max2) <=> n * base + c > lim
  OBVIOUS

(* What is left of a number in a long differs from it by a multiple of     *)
(* what an unsigned long can hold, and one more.                           *)
LEMMA SignedIs ==
  ASSUME NEW n \in Int
  PROVE  /\ Signed(n) \in LONG_MIN..LONG_MAX
         /\ Unsigned(n) \in 0..ULONG_MAX
         /\ \E j \in Int : Signed(n) = n + j * (ULONG_MAX + 1)
         /\ n \in LONG_MIN..LONG_MAX => Signed(n) = n
         /\ n \in 0..ULONG_MAX => Unsigned(n) = n
<1> DEFINE m == ULONG_MAX + 1
           d == n \div m
           u == n % m
<1>1. LONG_MAX \in Nat /\ ULONG_MAX = 2 * LONG_MAX + 1 /\ LONG_MIN = -LONG_MAX - 1
  BY LongAssumption DEF ULONG_MAX, LONG_MIN
<1>2. m \in Nat /\ m > 0 /\ m = 2 * LONG_MAX + 2
  BY <1>1
<1> HIDE DEF m
<1>3. d \in Int /\ u \in 0..(m - 1) /\ n = d * m + u
  BY <1>2, Division
<1>4. Unsigned(n) = u /\ m = ULONG_MAX + 1
  BY DEF Unsigned, m
<1> HIDE DEF d, u
<1>5. Signed(n) = IF u > LONG_MAX THEN u - m ELSE u
  BY <1>1, <1>2, <1>3, <1>4 DEF Signed
<1>6. \E j \in Int : Signed(n) = n + j * m
  <2>1. n + (-d) * m = u /\ n + (-d - 1) * m = u - m /\ -d \in Int /\ -d - 1 \in Int
    BY <1>2, <1>3
  <2> QED
    BY <1>5, <2>1
<1>7. ASSUME n \in 0..(m - 1) PROVE u = n
  <2>1. n % m = n
    <3>1. n = 0 * m + n /\ 0 <= n /\ n < m
      BY <1>2, <1>7
    <3> QED
      BY <1>2, <3>1, Remainder
  <2> QED
    BY <1>2, <2>1 DEF u
<1>8. ASSUME n < 0, n >= -m PROVE u = n + m
  <2>1. n % m = n + m
    <3>1. n = (-1) * m + (n + m) /\ 0 <= n + m /\ n + m < m /\ n + m \in Int /\ -1 \in Int
      BY <1>2, <1>8
    <3> QED
      BY <1>2, <3>1, Remainder
  <2> QED
    BY <1>2, <2>1 DEF u
<1>9. n \in LONG_MIN..LONG_MAX => Signed(n) = n
  BY <1>1, <1>2, <1>5, <1>7, <1>8
<1> QED
  BY <1>1, <1>2, <1>3, <1>4, <1>5, <1>6, <1>7, <1>9

(* Calculating with what is left of a number is as good as calculating     *)
(* with the number itself.                                                 *)
LEMMA SignedAgain ==
  ASSUME NEW n \in Int, NEW j \in Int
  PROVE  Signed(n + j * (ULONG_MAX + 1)) = Signed(n)
<1> DEFINE m == ULONG_MAX + 1
           u == n % m
<1>1. LONG_MAX \in Nat /\ m \in Nat /\ m > 0
  BY LongAssumption DEF ULONG_MAX
<1>2. n \div m \in Int /\ u \in 0..(m - 1) /\ n = (n \div m) * m + u
  <2> HIDE DEF m
  <2> QED
    BY <1>1, Division
<1>3. PICK d \in Int : n = d * m + u
  BY <1>2
<1> HIDE DEF m, u
<1>4. n + j * m = (d + j) * m + u
  BY <1>1, <1>2, <1>3
<1>5. (n + j * m) % m = u
  <2>1. d + j \in Int /\ n + j * m \in Int /\ u \in Int /\ 0 <= u /\ u < m
    BY <1>1, <1>2, <1>3
  <2> QED
    BY <1>1, <1>4, <2>1, Remainder
<1>6. Unsigned(n + j * m) = Unsigned(n)
  BY <1>5 DEF Unsigned, m, u
<1> QED
  BY <1>6 DEF Signed, m
-----------------------------------------------------------------------------
(***************************************************************************)
(* Numbers: what a numeral is.                                             *)
(***************************************************************************)

(* A digit of a base is one to the loop and to the definition, and has the *)
(* same value for both.                                                    *)
LEMMA DigitIs ==
  ASSUME NEW c \in Char, NEW base \in 2..36
  PROVE  /\ c \in Digits(base) <=> IsDigitOf(c, base)
         /\ c \in Digits(base) => DigitValue(c) = DigitOf(c) /\ DigitOf(c) \in 0..(base - 1)
         /\ DigitValue(c) \in Nat /\ DigitOf(c) \in Int
         /\ NUL \notin Digits(base)
<1>0. c \in 0..255
  BY DEF Char
<1>1. c \in 48..57 => DigitValue(c) = c - 48
  BY DEF DigitValue, Digit0, UpperA, LowerA
<1>2. c \in 65..90 => DigitValue(c) = c - 65 + 10
  BY DEF DigitValue, Digit0, UpperA, LowerA
<1>3. c \in 97..122 => DigitValue(c) = c - 97 + 10
  BY DEF DigitValue, Digit0, UpperA, LowerA
<1>4. c \notin 48..57 /\ c \notin 65..90 /\ c \notin 97..122 => DigitValue(c) = 99
  BY DEF DigitValue, Digit0, UpperA, LowerA
<1>5. c \in 48..57 => DigitOf(c) = c - 48
  BY DEF DigitOf
<1>6. c \in 65..90 => DigitOf(c) = c - 65 + 10
  BY DEF DigitOf
<1>7. c \in 97..122 => DigitOf(c) = c - 97 + 10
  BY DEF DigitOf
<1>8. c \in Digits(base) <=> DigitValue(c) < base
  BY DEF Digits
<1>9. DigitOf(c) \in Int
  BY <1>0 DEF DigitOf
<1>10. DigitValue(0) = 99
  BY DEF DigitValue, Digit0, UpperA, LowerA
<1>11. NUL \notin Digits(base)
  BY <1>10 DEF Digits, NUL
<1>12. DigitValue(c) \in Nat
  BY <1>0, <1>1, <1>2, <1>3, <1>4
<1>13. c \in Digits(base) <=> IsDigitOf(c, base)
  BY <1>0, <1>1, <1>2, <1>3, <1>4, <1>5, <1>6, <1>7, <1>8 DEF IsDigitOf
<1>14. c \in Digits(base) => DigitValue(c) = DigitOf(c) /\ DigitOf(c) \in 0..(base - 1)
  BY <1>0, <1>1, <1>2, <1>3, <1>4, <1>5, <1>6, <1>7, <1>8
<1> QED
  BY <1>9, <1>11, <1>12, <1>13, <1>14

(* The numeral is defined: each digit multiplies by the base what is in    *)
(* front of it.                                                            *)
LEMMA NumeralIs ==
  ASSUME NEW d \in Text, NEW base \in Nat
  PROVE  /\ Numeral(d, base) \in [0..Len(d) -> Int]
         /\ Numeral(d, base)[0] = 0
         /\ \A k \in 1..Len(d) :
              Numeral(d, base)[k] = Numeral(d, base)[k - 1] * base + DigitOf(d[k])
<1> DEFINE N == Len(d)
           Def(v) == [k \in 0..N |-> IF k = 0 THEN 0 ELSE v[k - 1] * base + DigitOf(d[k])]
           step == [p \in Int \X (1..N) |-> p[1] * base + DigitOf(d[p[2]])]
<1>0. N \in Nat /\ \A k \in 1..N : d[k] \in Char
  BY DEF Text
<1>1. \A k \in 1..N : DigitOf(d[k]) \in Int
  <2>1. \A c \in Char : DigitOf(c) \in Int
    BY DEF DigitOf, Char
  <2> QED
    BY <1>0, <2>1
<1>2. step \in [Int \X (1..N) -> Int]
  BY <1>1
<1>3. PICK f \in [0..N -> Int] : Follows(f, N, 0, step)
  <2>1. 0 \in Int
    OBVIOUS
  <2> HIDE DEF step, N
  <2> QED
    BY <1>0, <1>2, <2>1, Recursion, Zenon
<1>4. f = Def(f)
  <2>1. ASSUME NEW k \in 0..N PROVE f[k] = Def(f)[k]
    <3>1. CASE k = 0
      BY <1>3, <3>1 DEF Follows
    <3>2. CASE k # 0
      <4>1. k \in 1..N /\ k - 1 \in 0..N
        BY <1>0, <3>2
      <4>2. f[k - 1] \in Int /\ f[k] = step[<<f[k - 1], k>>]
        BY <1>3, <4>1 DEF Follows
      <4> QED
        BY <3>2, <4>1, <4>2
    <3> QED
      BY <3>1, <3>2
  <2> QED
    BY <2>1
<1>5. Numeral(d, base) = CHOOSE v : v = Def(v)
  BY DEF Numeral
<1>6. Numeral(d, base) = Def(Numeral(d, base))
  <2> HIDE DEF Def
  <2> QED
    BY <1>4, <1>5, Zenon
<1> DEFINE v == Numeral(d, base)
<1>7. v = Def(v)
  BY <1>6
<1> HIDE DEF v
<1>8. v[0] = 0 /\ \A k \in 1..N : v[k] = v[k - 1] * base + DigitOf(d[k])
  BY <1>0, <1>7
<1>9. v \in [0..N -> Int]
  <2> DEFINE S == {k \in 0..N : v[k] \in Int}
  <2>1. 0 \in S
    BY <1>0, <1>8
  <2>2. ASSUME NEW k \in 0..(N - 1), k \in S PROVE k + 1 \in S
    <3>1. k + 1 \in 1..N /\ (k + 1) - 1 = k
      BY <1>0
    <3>2. v[k + 1] = v[k] * base + DigitOf(d[k + 1])
      BY <1>8, <3>1
    <3> QED
      BY <1>1, <2>2, <3>1, <3>2
  <2>3. \A k \in 0..N : k \in S
    <3> HIDE DEF S
    <3> QED
      BY <1>0, <2>1, <2>2, UpTo
  <2>4. \A k \in 0..N : v[k] \in Int
    BY <2>3
  <2>5. v = [k \in 0..N |-> v[k]]
    BY <1>7
  <2> QED
    BY <2>4, <2>5
<1> QED
  BY <1>8, <1>9 DEF v

(* The digits that a text begins with.                                     *)
LEMMA RunIs ==
  ASSUME NEW d \in Text, NEW base \in 2..36
  PROVE  /\ LongestRun(d, base) \in 0..Len(d)
         /\ CharAt(d, LongestRun(d, base)) \notin Digits(base)
         /\ \A q \in 0..(LongestRun(d, base) - 1) : CharAt(d, q) \in Digits(base)
<1> DEFINE N == Len(d)
           w == SkipWhile(d, 0, Digits(base))
           IsRun(k) == /\ \A i \in 1..k : IsDigitOf(d[i], base)
                       /\ k = N \/ ~IsDigitOf(d[k + 1], base)
<1>0. N \in Nat /\ \A i \in 1..N : d[i] \in Char
  BY DEF Text
<1>1. NUL \notin Digits(base)
  <2>1. 0 \in Char
    BY DEF Char
  <2> QED
    BY <2>1, DigitIs
<1>2. /\ w \in 0..N /\ CharAt(d, w) \notin Digits(base)
      /\ \A q \in 0..(w - 1) : CharAt(d, q) \in Digits(base)
  BY <1>0, <1>1, SkipStops
<1> HIDE DEF w
<1>3. \A i \in 1..N : CharAt(d, i - 1) \in Digits(base) <=> IsDigitOf(d[i], base)
  <2>1. ASSUME NEW i \in 1..N PROVE CharAt(d, i - 1) = d[i]
    BY <1>0 DEF CharAt
  <2> QED
    BY <1>0, <2>1, DigitIs
<1>4. ASSUME NEW i \in 1..w PROVE IsDigitOf(d[i], base)
  <2>1. i \in 1..N /\ i - 1 \in 0..(w - 1)
    BY <1>0, <1>2
  <2> QED
    BY <1>2, <1>3, <2>1
<1>5. w = N \/ ~IsDigitOf(d[w + 1], base)
  <2>1. CASE w # N
    <3>1. w + 1 \in 1..N /\ (w + 1) - 1 = w
      BY <1>0, <1>2, <2>1
    <3> QED
      BY <1>2, <1>3, <3>1
  <2> QED
    BY <2>1
<1>6. IsRun(w)
  BY <1>4, <1>5
<1> DEFINE k == LongestRun(d, base)
<1>7. k = CHOOSE j \in 0..N : IsRun(j)
  BY DEF LongestRun
<1>8. k \in 0..N /\ IsRun(k)
  <2> HIDE DEF IsRun, N, k
  <2> QED
    BY <1>2, <1>6, <1>7, Zenon
<1> HIDE DEF k
<1>9. CharAt(d, k) \notin Digits(base)
  <2>1. CASE k = N
    BY <1>0, <1>1, <2>1 DEF CharAt
  <2>2. CASE k # N
    <3>1. k + 1 \in 1..N /\ (k + 1) - 1 = k
      BY <1>0, <1>8, <2>2
    <3> QED
      BY <1>3, <1>8, <2>2, <3>1
  <2> QED
    BY <2>1, <2>2
<1>10. ASSUME NEW q \in 0..(k - 1) PROVE CharAt(d, q) \in Digits(base)
  <2>1. q + 1 \in 1..N /\ q + 1 \in 1..k /\ (q + 1) - 1 = q
    BY <1>0, <1>8
  <2> QED
    BY <1>3, <1>8, <2>1
<1> QED
  BY <1>8, <1>9, <1>10 DEF k

(* The digits of the run have values, and each of them makes the number    *)
(* greater, if not equal.                                                  *)
LEMMA RunCounts ==
  ASSUME NEW d \in Text, NEW base \in 2..36
  PROVE  /\ \A k \in 0..LongestRun(d, base) : Numeral(d, base)[k] \in Nat
         /\ \A k \in 1..LongestRun(d, base) :
              /\ DigitValue(CharAt(d, k - 1)) \in 0..(base - 1)
              /\ Numeral(d, base)[k]
                   = Numeral(d, base)[k - 1] * base + DigitValue(CharAt(d, k - 1))
              /\ Numeral(d, base)[k - 1] <= Numeral(d, base)[k]
<1> DEFINE v == Numeral(d, base)
           run == LongestRun(d, base)
<1>0. run \in 0..Len(d) /\ Len(d) \in Nat /\ run \in Nat
  <2>1. Len(d) \in Nat
    BY DEF Text
  <2>2. run \in 0..Len(d)
    BY RunIs
  <2> HIDE DEF run
  <2> QED
    BY <2>1, <2>2
<1>1. base \in Nat /\ v[0] = 0 /\ \A k \in 1..Len(d) : v[k] = v[k - 1] * base + DigitOf(d[k])
  BY NumeralIs
<1>2. ASSUME NEW k \in 1..run
      PROVE  /\ DigitValue(CharAt(d, k - 1)) \in 0..(base - 1)
             /\ v[k] = v[k - 1] * base + DigitValue(CharAt(d, k - 1))
  <2>1. k - 1 \in 0..(run - 1) /\ k \in 1..Len(d) /\ k - 1 \in 0..Len(d) /\ k - 1 < Len(d)
    BY <1>0
  <2>2. CharAt(d, k - 1) \in Digits(base) /\ CharAt(d, k - 1) = d[k] /\ CharAt(d, k - 1) \in Char
    <3>1. CharAt(d, k - 1) \in Digits(base)
      BY <2>1, RunIs
    <3>2. CharAt(d, k - 1) = d[k]
      BY <2>1 DEF CharAt
    <3> QED
      BY <2>1, <3>1, <3>2, CharAtIs
  <2>3. DigitValue(CharAt(d, k - 1)) = DigitOf(d[k]) /\ DigitOf(d[k]) \in 0..(base - 1)
    BY <2>2, DigitIs
  <2> QED
    BY <1>1, <2>1, <2>3
<1> HIDE DEF v, run
<1>3. ASSUME NEW k \in 1..run, v[k - 1] \in Nat
      PROVE  v[k] \in Nat /\ v[k - 1] <= v[k]
  <2>1. base - 1 \in Nat /\ 0 <= base - 1
    OBVIOUS
  <2>2. 0 * (base - 1) <= v[k - 1] * (base - 1) /\ v[k - 1] * (base - 1) \in Int
    BY <1>3, <2>1, Growing
  <2>3. v[k - 1] * base = v[k - 1] * (base - 1) + v[k - 1]
    BY <1>3, <2>1
  <2>4. v[k - 1] <= v[k - 1] * base /\ v[k - 1] * base \in Int
    BY <1>3, <2>2, <2>3
  <2> QED
    BY <1>2, <1>3, <2>4
<1>4. \A k \in 0..run : v[k] \in Nat
  <2> DEFINE S == {k \in 0..run : v[k] \in Nat}
  <2>1. 0 \in S
    BY <1>0, <1>1
  <2>2. ASSUME NEW k \in 0..(run - 1), k \in S PROVE k + 1 \in S
    <3>1. k + 1 \in 1..run /\ (k + 1) - 1 = k /\ k + 1 \in 0..run
      BY <1>0
    <3> QED
      BY <1>3, <2>2, <3>1
  <2> HIDE DEF S
  <2>3. \A k \in 0..run : k \in S
    BY <1>0, <2>1, <2>2, UpTo
  <2> QED
    BY <2>3 DEF S
<1>5. ASSUME NEW k \in 1..run PROVE v[k - 1] <= v[k]
  <2>1. k - 1 \in 0..run
    BY <1>0
  <2> QED
    BY <1>3, <1>4, <2>1
<1> QED
  BY <1>2, <1>4, <1>5 DEF v, run
-----------------------------------------------------------------------------
(***************************************************************************)
(* Numbers: what the loops make of a numeral.                              *)
(***************************************************************************)

(* Behind first there is d and nothing else.                               *)
Ends(s, first, d) ==
  /\ Len(s) = first + Len(d)
  /\ \A q \in Nat : CharAt(s, first + q) = CharAt(d, q)

States == [n : Int, state : {"no_number", "ok", "overflow"}]

(* One digit more: the number stays exact until it exceeds the limit, and  *)
(* then the state says so.                                                 *)
LEMMA AccumulateIs ==
  ASSUME NEW acc \in States, NEW c \in Nat, NEW base \in Nat, base > 0, NEW lim \in Nat
  PROVE  /\ Accumulate(acc, c, base, lim) \in States
         /\ acc.state = "overflow" => Accumulate(acc, c, base, lim).state = "overflow"
         /\ acc.state # "overflow" /\ acc.n \in Nat /\ c < base =>
              Accumulate(acc, c, base, lim)
                = IF acc.n * base + c > lim THEN [acc EXCEPT !.state = "overflow"]
                  ELSE [n |-> acc.n * base + c, state |-> "ok"]
<1> DEFINE max1 == lim \div base
           max2 == lim - max1 * base
           over == acc.n >= max1 /\ (acc.n > max1 \/ c > max2)
           stopped == [acc EXCEPT !.state = "overflow"]
           counted == [n |-> acc.n * base + c, state |-> "ok"]
<1>1. Accumulate(acc, c, base, lim) = IF acc.state = "overflow" \/ over THEN stopped ELSE counted
  BY DEF Accumulate
<1>2. stopped \in States /\ stopped.state = "overflow" /\ counted \in States
  <2>1. acc.n * base + c \in Int
    BY DEF States
  <2> QED
    BY <2>1 DEF States
<1>3. acc.n \in Nat /\ c < base => (over <=> acc.n * base + c > lim)
  BY OverflowIs
<1> HIDE DEF over, stopped, counted
<1>4. Accumulate(acc, c, base, lim) \in States
  BY <1>1, <1>2
<1>5. acc.state = "overflow" => Accumulate(acc, c, base, lim).state = "overflow"
  BY <1>1, <1>2
<1>6. acc.state # "overflow" /\ acc.n \in Nat /\ c < base =>
        Accumulate(acc, c, base, lim) = IF acc.n * base + c > lim THEN stopped ELSE counted
  BY <1>1, <1>3
<1> QED
  BY <1>4, <1>5, <1>6 DEF stopped, counted

(* What stands anywhere in a text has a value as a digit.                  *)
LEMMA DigitAt ==
  ASSUME NEW s \in Text, NEW q \in Nat
  PROVE  DigitValue(CharAt(s, q)) \in Nat
<1>0. Len(s) \in Nat
  BY DEF Text
<1>1. CharAt(s, q) \in Char
  <2>1. CASE q < Len(s)
    <3>1. q \in 0..Len(s)
      BY <1>0, <2>1
    <3> QED
      BY <3>1, CharAtIs
  <2>2. CASE ~(q < Len(s))
    BY <2>2 DEF CharAt, Char, NUL
  <2> QED
    BY <2>1, <2>2
<1> QED
  BY <1>1, DigitIs

(* The loop is defined.                                                    *)
LEMMA AccumulatedIs ==
  ASSUME NEW s \in Text, NEW first \in Nat, NEW base \in 2..36, NEW lim \in Nat
  PROVE  LET acc == Accumulated(s, first, base, lim)
         IN /\ acc \in [0..Len(s) -> States]
            /\ acc[0] = [n |-> 0, state |-> "no_number"]
            /\ \A k \in 1..Len(s) :
                 acc[k] = Accumulate(acc[k - 1], DigitValue(CharAt(s, first + k - 1)), base, lim)
<1> DEFINE N == Len(s)
           start == [n |-> 0, state |-> "no_number"]
           digit(k) == DigitValue(CharAt(s, first + k - 1))
           Def(a) == [k \in 0..N |-> IF k = 0 THEN start
                                     ELSE Accumulate(a[k - 1], digit(k), base, lim)]
           step == [p \in States \X (1..N) |-> Accumulate(p[1], digit(p[2]), base, lim)]
<1>0. N \in Nat /\ base \in Nat /\ base > 0
  BY DEF Text
<1>1. ASSUME NEW k \in 1..N PROVE digit(k) \in Nat
  <2>1. first + k - 1 \in Nat
    BY <1>0
  <2> QED
    BY <2>1, DigitAt
<1>2. start \in States
  BY DEF States
<1>3. step \in [States \X (1..N) -> States]
  <2>1. ASSUME NEW p \in States \X (1..N)
        PROVE  Accumulate(p[1], digit(p[2]), base, lim) \in States
    <3>1. p[1] \in States /\ p[2] \in 1..N
      OBVIOUS
    <3>2. digit(p[2]) \in Nat
      BY <1>1, <3>1
    <3> HIDE DEF digit
    <3> QED
      BY <1>0, <3>1, <3>2, AccumulateIs
  <2> QED
    BY <2>1
<1>4. PICK f \in [0..N -> States] : Follows(f, N, start, step)
  <2> HIDE DEF step, N, start
  <2> QED
    BY <1>0, <1>2, <1>3, Recursion, Zenon
<1> HIDE DEF digit, start
<1>5. f = Def(f)
  <2>1. ASSUME NEW k \in 0..N PROVE f[k] = Def(f)[k]
    <3>1. CASE k = 0
      BY <1>4, <3>1 DEF Follows
    <3>2. CASE k # 0
      <4>1. k \in 1..N /\ k - 1 \in 0..N
        BY <1>0, <3>2
      <4>2. f[k - 1] \in States /\ f[k] = step[<<f[k - 1], k>>]
        BY <1>4, <4>1 DEF Follows
      <4> QED
        BY <3>2, <4>1, <4>2
    <3> QED
      BY <3>1, <3>2
  <2> QED
    BY <2>1
<1>6. Accumulated(s, first, base, lim) = CHOOSE a : a = Def(a)
  BY DEF Accumulated, digit, start
<1>7. Accumulated(s, first, base, lim) = Def(Accumulated(s, first, base, lim))
  <2> HIDE DEF Def
  <2> QED
    BY <1>5, <1>6, Zenon
<1> DEFINE a == Accumulated(s, first, base, lim)
<1>8. a = Def(a)
  BY <1>7
<1> HIDE DEF a
<1>9. a[0] = start /\ \A k \in 1..N : a[k] = Accumulate(a[k - 1], digit(k), base, lim)
  BY <1>0, <1>8
<1>10. a \in [0..N -> States]
  <2> DEFINE S == {k \in 0..N : a[k] \in States}
  <2>1. 0 \in S
    BY <1>0, <1>2, <1>9
  <2>2. ASSUME NEW k \in 0..(N - 1), k \in S PROVE k + 1 \in S
    <3>1. k + 1 \in 1..N /\ (k + 1) - 1 = k /\ k + 1 \in 0..N
      BY <1>0
    <3>2. a[k + 1] = Accumulate(a[k], digit(k + 1), base, lim)
      BY <1>9, <3>1
    <3>3. digit(k + 1) \in Nat /\ a[k] \in States
      BY <1>1, <2>2, <3>1
    <3>4. Accumulate(a[k], digit(k + 1), base, lim) \in States
      BY <1>0, <3>3, AccumulateIs
    <3> QED
      BY <3>1, <3>2, <3>4
  <2>3. \A k \in 0..N : k \in S
    <3> HIDE DEF S
    <3> QED
      BY <1>0, <2>1, <2>2, UpTo
  <2>4. a = [k \in 0..N |-> a[k]]
    BY <1>8
  <2> QED
    BY <2>3, <2>4
<1> QED
  BY <1>9, <1>10 DEF a, digit, start

(* The loops over the digits pass all that d begins with and none of what  *)
(* is behind them.                                                         *)
LEMMA SkipDigits ==
  ASSUME NEW s \in Text, NEW first \in Nat, NEW d \in Text, Ends(s, first, d),
         NEW base \in 2..36
  PROVE  SkipWhile(s, first, Digits(base)) = first + LongestRun(d, base)
<1> DEFINE run == LongestRun(d, base)
<1>0. Len(d) \in Nat /\ Len(s) \in Nat /\ Len(s) = first + Len(d)
  <2>1. Len(d) \in Nat /\ Len(s) \in Nat
    BY DEF Text
  <2>2. Len(s) = first + Len(d)
    BY DEF Ends
  <2> QED
    BY <2>1, <2>2
<1>1. /\ run \in 0..Len(d) /\ CharAt(d, run) \notin Digits(base)
      /\ \A q \in 0..(run - 1) : CharAt(d, q) \in Digits(base)
  BY RunIs
<1>2. NUL \notin Digits(base)
  <2>1. 0 \in Char
    BY DEF Char
  <2> QED
    BY <2>1, DigitIs
<1> DEFINE r == first + run
<1> HIDE DEF run
<1>3. r \in first..Len(s) /\ first \in 0..Len(s) /\ Len(s) \in Nat
  BY <1>0, <1>1
<1>4. CharAt(s, r) \notin Digits(base)
  BY <1>0, <1>1 DEF Ends
<1>5. ASSUME NEW q \in first..(r - 1) PROVE CharAt(s, q) \in Digits(base)
  <2>1. q - first \in 0..(run - 1) /\ q - first \in 0..Len(d) /\ first + (q - first) = q
    BY <1>0, <1>1
  <2>2. CharAt(s, first + (q - first)) = CharAt(d, q - first)
    BY <1>0, <2>1 DEF Ends
  <2> QED
    BY <1>1, <2>1, <2>2
<1> HIDE DEF r
<1>6. SkipWhile(s, first, Digits(base)) = r
  BY <1>2, <1>3, <1>4, <1>5, SkipIs
<1> QED
  BY <1>6 DEF r, run

(* The loop over the digits passes all that d begins with and none of what *)
(* is behind them, and comes to the number they state if that is within    *)
(* the limit, and otherwise to an overflow.                                *)
ScansTo(scan, neg, first, d, base, lim) ==
  LET run == LongestRun(d, base)
      m == Numeral(d, base)[run]
  IN /\ m \in Nat /\ scan.neg = neg
     /\ scan.end = IF run = 0 THEN 0 ELSE first + run
     /\ run = 0 => scan.state = "no_number" /\ m = 0
     /\ run # 0 /\ m <= lim => scan.state = "ok" /\ scan.n = m
     /\ run # 0 /\ m > lim => scan.state = "overflow"

(* The loop of strtoul and strtol does that.                               *)
LEMMA ScanDigitsIs ==
  ASSUME NEW s \in Text, NEW first \in Nat, NEW d \in Text, Ends(s, first, d),
         NEW base \in 2..36, NEW lim \in Nat, NEW neg
  PROVE  ScansTo(ScanDigits(s, neg, first, base, lim), neg, first, d, base, lim)
<1> DEFINE run == LongestRun(d, base)
           v == Numeral(d, base)
           acc == Accumulated(s, first, base, lim)
           end == SkipWhile(s, first, Digits(base))
           Right(k) == /\ k = 0 => acc[k] = [n |-> 0, state |-> "no_number"]
                       /\ k > 0 /\ v[k] <= lim => acc[k] = [n |-> v[k], state |-> "ok"]
                       /\ k > 0 /\ v[k] > lim => acc[k].state = "overflow"
<1>0. /\ Len(d) \in Nat /\ Len(s) \in Nat /\ Len(s) = first + Len(d)
      /\ base \in Nat /\ base > 0
  <2>1. Len(d) \in Nat /\ Len(s) \in Nat
    BY DEF Text
  <2>2. Len(s) = first + Len(d)
    BY DEF Ends
  <2>3. base \in Nat /\ base > 0
    OBVIOUS
  <2> QED
    BY <2>1, <2>2, <2>3
<1>1. /\ run \in 0..Len(d) /\ CharAt(d, run) \notin Digits(base)
      /\ \A q \in 0..(run - 1) : CharAt(d, q) \in Digits(base)
  BY RunIs
<1>2. end = first + run
  BY SkipDigits
<1>3. /\ \A k \in 0..run : v[k] \in Nat
      /\ \A k \in 1..run :
           /\ DigitValue(CharAt(d, k - 1)) \in 0..(base - 1)
           /\ v[k] = v[k - 1] * base + DigitValue(CharAt(d, k - 1))
           /\ v[k - 1] <= v[k]
  BY RunCounts
<1>4. v[0] = 0
  BY <1>0, NumeralIs
<1>5. /\ acc \in [0..Len(s) -> States]
      /\ acc[0] = [n |-> 0, state |-> "no_number"]
      /\ \A k \in 1..Len(s) :
           acc[k] = Accumulate(acc[k - 1], DigitValue(CharAt(s, first + k - 1)), base, lim)
  BY AccumulatedIs
<1> HIDE DEF run, v, acc, end
<1>6. ASSUME NEW k \in 1..run, Right(k - 1) PROVE Right(k)
  <2> DEFINE c == DigitValue(CharAt(d, k - 1))
             was == acc[k - 1]
  <2>1. k - 1 \in 0..Len(d) /\ k - 1 \in 0..run /\ k \in 0..run /\ k \in 1..Len(s)
        /\ k - 1 \in 0..Len(s) /\ first + k - 1 = first + (k - 1)
    BY <1>0, <1>1
  <2>2. CharAt(s, first + k - 1) = CharAt(d, k - 1)
    BY <1>0, <2>1 DEF Ends
  <2>3. acc[k] = Accumulate(was, c, base, lim) /\ was \in States
    BY <1>5, <2>1, <2>2
  <2>4. /\ c \in Nat /\ c < base /\ v[k] = v[k - 1] * base + c
        /\ v[k - 1] \in Nat /\ v[k] \in Nat /\ v[k - 1] <= v[k]
    BY <1>0, <1>3, <2>1
  <2>9. was \in States /\ c \in Nat /\ base \in Nat /\ base > 0 /\ c < base /\ lim \in Nat
    BY <1>0, <2>3, <2>4
  <2> HIDE DEF c, was
  <2>5. was.state = "overflow" => acc[k].state = "overflow"
    <3>1. was.state = "overflow" => Accumulate(was, c, base, lim).state = "overflow"
      BY <2>9, AccumulateIs
    <3> QED
      BY <2>3, <3>1
  <2>6. was.state # "overflow" /\ was.n \in Nat =>
          acc[k] = IF was.n * base + c > lim THEN [was EXCEPT !.state = "overflow"]
                   ELSE [n |-> was.n * base + c, state |-> "ok"]
    <3>1. was.state # "overflow" /\ was.n \in Nat =>
            Accumulate(was, c, base, lim)
              = IF was.n * base + c > lim THEN [was EXCEPT !.state = "overflow"]
                ELSE [n |-> was.n * base + c, state |-> "ok"]
      BY <2>9, AccumulateIs
    <3> QED
      BY <2>3, <3>1
  <2>7. CASE v[k - 1] > lim
    <3>1. k - 1 # 0 /\ k - 1 > 0
      BY <1>4, <2>1, <2>7
    <3>2. was.state = "overflow"
      BY <1>6, <2>7, <3>1 DEF was
    <3>3. v[k] > lim
      BY <2>4, <2>7
    <3>4. k > 0
      BY <1>1
    <3> QED
      BY <2>4, <2>5, <3>2, <3>3, <3>4
  <2>8. CASE v[k - 1] <= lim
    <3>1. was.state # "overflow" /\ was.n = v[k - 1]
      <4>1. CASE k - 1 = 0
        BY <1>4, <1>6, <4>1 DEF was
      <4>2. CASE k - 1 # 0
        <5>1. k - 1 > 0
          BY <2>1, <4>2
        <5> QED
          BY <1>6, <2>8, <5>1 DEF was
      <4> QED
        BY <4>1, <4>2
    <3>2. acc[k] = IF v[k] > lim THEN [was EXCEPT !.state = "overflow"]
                   ELSE [n |-> v[k], state |-> "ok"]
      BY <2>4, <2>6, <3>1
    <3>3. v[k] > lim => acc[k].state = "overflow"
      BY <2>3, <3>2 DEF States
    <3>4. v[k] <= lim => acc[k] = [n |-> v[k], state |-> "ok"]
      BY <2>4, <3>2
    <3> QED
      BY <3>3, <3>4
  <2> QED
    BY <2>4, <2>7, <2>8
<1>7. Right(run)
  <2> DEFINE S == {k \in 0..run : Right(k)}
  <2>1. 0 \in S
    BY <1>1, <1>5
  <2>2. ASSUME NEW k \in 0..(run - 1), k \in S PROVE k + 1 \in S
    <3>1. k + 1 \in 1..run /\ (k + 1) - 1 = k /\ k + 1 \in 0..run
      BY <1>1
    <3>2. Right(k)
      BY <2>2
    <3> HIDE DEF Right
    <3>3. Right(k + 1)
      BY <1>6, <3>1, <3>2
    <3> QED
      BY <3>1, <3>3
  <2>3. run \in Nat
    BY <1>0, <1>1
  <2> HIDE DEF S
  <2>4. \A k \in 0..run : k \in S
    BY <2>1, <2>2, <2>3, UpTo
  <2>5. run \in S
    BY <2>3, <2>4
  <2> QED
    BY <2>5 DEF S
<1>8. v[run] \in Nat /\ run \in Nat
  BY <1>0, <1>1, <1>3
<1>9. end - first = run /\ (end = first <=> run = 0) /\ end = first + run
  BY <1>2, <1>8
<1> DEFINE scan == ScanDigits(s, neg, first, base, lim)
<1>10. /\ scan.neg = neg /\ scan.n = acc[end - first].n /\ scan.state = acc[end - first].state
       /\ scan.end = IF end = first THEN 0 ELSE end
  BY DEF ScanDigits, acc, end
<1> HIDE DEF scan
<1>11. /\ v[run] \in Nat /\ scan.neg = neg
       /\ scan.end = IF run = 0 THEN 0 ELSE first + run
       /\ run = 0 => scan.state = "no_number" /\ v[run] = 0
       /\ run # 0 /\ v[run] <= lim => scan.state = "ok" /\ scan.n = v[run]
       /\ run # 0 /\ v[run] > lim => scan.state = "overflow"
  BY <1>4, <1>7, <1>8, <1>9, <1>10
<1> QED
  BY <1>11 DEF ScansTo, scan, run, v
-----------------------------------------------------------------------------
(***************************************************************************)
(* Numbers: where the parts of one are.                                    *)
(***************************************************************************)

(* A text after another text.                                              *)
LEMMA Joined ==
  ASSUME NEW a \in Text, NEW b \in Text
  PROVE  /\ a \o b \in Text /\ Len(a \o b) = Len(a) + Len(b)
         /\ Ends(a \o b, Len(a), b)
         /\ \A q \in 0..(Len(a) - 1) : CharAt(a \o b, q) = a[q + 1] /\ q + 1 \in 1..Len(a)
<1>1. Len(a) \in Nat /\ Len(b) \in Nat
  BY DEF Text
<1>2. a \o b \in Text /\ Len(a \o b) = Len(a) + Len(b)
  BY DEF Text
<1>3. /\ \A i \in 1..Len(a) : (a \o b)[i] = a[i]
      /\ \A i \in (Len(a) + 1)..(Len(a) + Len(b)) : (a \o b)[i] = b[i - Len(a)]
  BY DEF Text
<1> DEFINE t == a \o b
<1> HIDE DEF t
<1>4. ASSUME NEW q \in Nat PROVE CharAt(t, Len(a) + q) = CharAt(b, q)
  <2>1. CASE q < Len(b)
    <3>1. /\ Len(a) + q + 1 \in (Len(a) + 1)..(Len(a) + Len(b)) /\ Len(a) + q + 1 - Len(a) = q + 1
          /\ Len(a) + q < Len(a) + Len(b)
      BY <1>1, <2>1
    <3> QED
      BY <1>2, <1>3, <2>1, <3>1 DEF CharAt, t
  <2>2. CASE ~(q < Len(b))
    <3>1. ~(Len(a) + q < Len(a) + Len(b))
      BY <1>1, <2>2
    <3> QED
      BY <1>2, <2>2, <3>1 DEF CharAt, t
  <2> QED
    BY <2>1, <2>2
<1>5. ASSUME NEW q \in 0..(Len(a) - 1)
      PROVE  CharAt(t, q) = a[q + 1] /\ q + 1 \in 1..Len(a)
  <2>1. q + 1 \in 1..Len(a) /\ q < Len(a) + Len(b)
    BY <1>1
  <2> QED
    BY <1>2, <1>3, <2>1 DEF CharAt, t
<1> QED
  BY <1>2, <1>4, <1>5 DEF Ends, t

(* The end of the end of a text.                                           *)
LEMMA EndsTwice ==
  ASSUME NEW s, NEW p \in Nat, NEW b, Ends(s, p, b), NEW q \in Nat, NEW d \in Text, Ends(b, q, d)
  PROVE  Ends(s, p + q, d)
<1>1. Len(d) \in Nat
  BY DEF Text
<1>2. Len(s) = (p + q) + Len(d)
  BY <1>1 DEF Ends
<1>3. ASSUME NEW i \in Nat PROVE CharAt(s, p + q + i) = CharAt(d, i)
  <2>1. q + i \in Nat /\ p + q + i = p + (q + i)
    OBVIOUS
  <2>2. CharAt(s, p + (q + i)) = CharAt(b, q + i)
    BY <2>1 DEF Ends
  <2>3. CharAt(b, q + i) = CharAt(d, i)
    BY DEF Ends
  <2> QED
    BY <2>1, <2>2, <2>3
<1> QED
  BY <1>2, <1>3 DEF Ends

(* What is neither blank nor part of a number.                             *)
LEMMA SpaceIs ==
  /\ Space \subseteq Char \ {NUL}
  /\ Minus \notin Space /\ Plus \notin Space
  /\ Blank \in Space /\ Tab \in Space
  /\ \A c \in Space : c \notin Digits(10)
<1>1. \A c \in Char : c \in -1..255 /\ c \in Int
  BY DEF Char
<1>2. ASSUME NEW c \in Char PROVE c \in Space <=> c \in 9..13 \/ c = 32
  BY <1>1, ClassesAre DEF Space
<1>3. ASSUME NEW c \in Space PROVE c \in Char \ {NUL} /\ c \notin Digits(10)
  <2>1. c \in Char
    BY DEF Space
  <2>2. c \in 9..13 \/ c = 32
    BY <1>2, <2>1
  <2>3. ~IsDigitOf(c, 10) /\ c # NUL
    BY <2>2 DEF IsDigitOf, NUL
  <2> QED
    BY <2>1, <2>3, DigitIs
<1>4. Minus \in Char /\ Plus \in Char /\ Blank \in Char /\ Tab \in Char
  BY DEF Char, Minus, Plus, Blank, Tab
<1>5. Minus \notin Space /\ Plus \notin Space /\ Blank \in Space /\ Tab \in Space
  BY <1>2, <1>4 DEF Minus, Plus, Blank, Tab
<1> QED
  BY <1>3, <1>5

(* The parts of a number.                                                  *)
LEMMA PartsAre ==
  ASSUME NEW n, IsNumber(n)
  PROVE  LET s == NumberText(n)
             start == Len(n.blanks)
             from == Len(n.blanks) + Len(n.sign)
         IN /\ s \in Text /\ Behind(n) \in Text /\ n.rest \in Text
            /\ start \in Nat /\ Len(n.sign) \in Nat
            /\ \A q \in 0..(start - 1) :
                 CharAt(s, q) = n.blanks[q + 1] /\ q + 1 \in 1..start /\ CharAt(s, q) \in Space
            /\ CharAt(s, start) \notin Space
            /\ AfterSign(s, start) = from
            /\ CharAt(s, start) = Minus <=> n.sign = <<Minus>>
            /\ Ends(s, from, Behind(n))
            /\ n.prefix # <<>> => Ends(s, from + 2, n.rest)
            /\ Has0x(s, from) <=> n.prefix # <<>>
            /\ CharAt(s, from) = CharAt(Behind(n), 0)
<1> DEFINE s == NumberText(n)
           start == Len(n.blanks)
           from == Len(n.blanks) + Len(n.sign)
           behind == Behind(n)
           after == n.sign \o behind
<1>1. n.blanks \in Text
  BY SpaceIs DEF IsNumber, Text
<1>2. n.sign \in Text /\ n.sign \in {<<>>, <<Minus>>, <<Plus>>}
  <2>1. Minus \in Char \ {NUL} /\ Plus \in Char \ {NUL}
    BY DEF Minus, Plus, Char, NUL
  <2>2. <<>> \in Text
    BY DEF Text
  <2>3. \A c \in Char \ {NUL} : <<c>> \in Text
    BY DEF Text
  <2>4. n.sign \in {<<>>, <<Minus>>, <<Plus>>}
    BY DEF IsNumber
  <2> QED
    BY <2>1, <2>2, <2>3, <2>4
<1>3. n.prefix \in Text /\ n.prefix \in {<<>>, <<48, 88>>, <<48, 120>>} /\ n.rest \in Text
  <2>1. 48 \in Char \ {NUL} /\ 88 \in Char \ {NUL} /\ 120 \in Char \ {NUL}
    BY DEF Char, NUL
  <2>2. <<>> \in Text
    BY DEF Text
  <2>3. \A b, c \in Char \ {NUL} : <<b, c>> \in Text
    BY DEF Text
  <2>4. n.prefix \in {<<>>, <<48, 88>>, <<48, 120>>} /\ n.rest \in Text
    BY DEF IsNumber
  <2> QED
    BY <2>1, <2>2, <2>3, <2>4
<1>4. behind = n.prefix \o n.rest /\ behind \in Text /\ Ends(behind, Len(n.prefix), n.rest)
  BY <1>3, Joined DEF Behind
<1> HIDE DEF behind
<1>5. after \in Text /\ Ends(after, Len(n.sign), behind)
  BY <1>2, <1>4, Joined
<1>6. s = n.blanks \o after
  BY DEF NumberText, behind
<1> HIDE DEF s, after
<1>7. /\ s \in Text /\ Ends(s, start, after)
      /\ \A q \in 0..(start - 1) : CharAt(s, q) = n.blanks[q + 1] /\ q + 1 \in 1..start
  BY <1>1, <1>5, <1>6, Joined
<1>8. start \in Nat /\ Len(n.sign) \in Nat
  BY <1>1, <1>2 DEF Text
<1>8a. from \in Nat /\ from + 0 = from /\ start + 0 = start
  <2>1. \A a, b \in Nat : a + b \in Nat /\ (a + b) + 0 = a + b /\ a + 0 = a
    OBVIOUS
  <2> QED
    BY <1>8, <2>1, Zenon
<1>9. Ends(s, from, behind)
  BY <1>4, <1>5, <1>7, <1>8, EndsTwice
<1>10. \A q \in 0..(start - 1) : CharAt(s, q) \in Space
  <2>1. \A i \in 1..start : n.blanks[i] \in Space
    BY DEF IsNumber
  <2> QED
    BY <1>7, <2>1
<1> DEFINE p == from
<1> HIDE DEF p
<1>11. CharAt(s, from) = CharAt(behind, 0) /\ CharAt(s, from + 1) = CharAt(behind, 1)
  <2>1. \A q \in Nat : CharAt(s, p + q) = CharAt(behind, q)
    BY <1>9 DEF Ends, p
  <2>2. CharAt(s, p + 0) = CharAt(behind, 0) /\ CharAt(s, p + 1) = CharAt(behind, 1)
    BY <2>1
  <2>3. p + 0 = p
    BY <1>8a DEF p
  <2>4. CharAt(s, p) = CharAt(behind, 0)
    BY <2>2, <2>3
  <2> QED
    BY <2>2, <2>4 DEF p
<1>12. CharAt(s, start) = CharAt(after, 0)
  <2>1. \A q \in Nat : CharAt(s, start + q) = CharAt(after, q)
    BY <1>7 DEF Ends
  <2>2. CharAt(s, start + 0) = CharAt(after, 0)
    BY <2>1
  <2> QED
    BY <1>8a, <2>2
<1>13. /\ CharAt(s, start) \notin Space
       /\ AfterSign(s, start) = from
       /\ CharAt(s, start) = Minus <=> n.sign = <<Minus>>
  <2>1. CASE n.sign = <<>>
    <3>1. Len(n.sign) = 0
      BY <2>1
    <3>2. from = start
      BY <1>8, <3>1
    <3>3. CharAt(behind, 0) \notin Space \cup {Minus, Plus}
      BY <2>1 DEF IsNumber, behind
    <3> QED
      BY <1>11, <2>1, <3>2, <3>3 DEF AfterSign
  <2>2. CASE n.sign # <<>>
    <3>1. Len(n.sign) = 1 /\ n.sign[1] \in {Minus, Plus} /\ (n.sign[1] = Minus <=> n.sign = <<Minus>>)
      BY <1>2, <2>2 DEF Minus, Plus
    <3>2. CharAt(after, 0) = n.sign[1]
      <4>1. 0 \in 0..(Len(n.sign) - 1) /\ 0 + 1 = 1
        BY <3>1
      <4> QED
        BY <1>2, <1>4, <4>1, Joined DEF after
    <3>3. from = start + 1
      BY <1>8, <3>1
    <3> QED
      BY <1>12, <3>1, <3>2, <3>3, SpaceIs DEF AfterSign
  <2> QED
    BY <2>1, <2>2
<1>14. n.prefix # <<>> => Len(n.prefix) = 2 /\ n.prefix[1] = 48 /\ n.prefix[2] \in {88, 120}
  BY <1>3
<1>15. ASSUME n.prefix # <<>> PROVE Ends(s, from + 2, n.rest)
  <2>1. Ends(behind, 2, n.rest)
    BY <1>4, <1>14, <1>15
  <2>2. p \in Nat /\ 2 \in Nat /\ Ends(s, p, behind)
    BY <1>8a, <1>9 DEF p
  <2>3. Ends(s, p + 2, n.rest)
    BY <1>3, <2>1, <2>2, EndsTwice
  <2> QED
    BY <2>3 DEF p
<1>16. Has0x(s, from) <=> n.prefix # <<>>
  <2>0. \A t, q : Has0x(t, q) <=> CharAt(t, q) = 48 /\ CharAt(t, q + 1) \in {88, 120}
    BY DEF Has0x, Digit0, UpperA, LowerA
  <2>3. Has0x(s, from) <=> CharAt(behind, 0) = 48 /\ CharAt(behind, 1) \in {88, 120}
    <3>1. Has0x(s, p) <=> CharAt(s, p) = 48 /\ CharAt(s, p + 1) \in {88, 120}
      BY <2>0
    <3> QED
      BY <1>11, <3>1 DEF p
  <2>1. CASE n.prefix # <<>>
    <3>1. 0 \in 0..(Len(n.prefix) - 1) /\ 1 \in 0..(Len(n.prefix) - 1) /\ 0 + 1 = 1 /\ 1 + 1 = 2
      BY <1>14, <2>1
    <3>2. CharAt(behind, 0) = n.prefix[0 + 1] /\ CharAt(behind, 1) = n.prefix[1 + 1]
      BY <1>3, <1>4, <3>1, Joined
    <3>3. CharAt(behind, 0) = 48 /\ CharAt(behind, 1) \in {88, 120}
      BY <1>14, <2>1, <3>1, <3>2
    <3> QED
      BY <2>1, <2>3, <3>3, Zenon
  <2>2. CASE n.prefix = <<>>
    <3>1. ~(CharAt(n.rest, 0) = 48 /\ CharAt(n.rest, 1) \in {88, 120})
      <4>1. ~Has0x(n.rest, 0)
        BY <2>2 DEF IsNumber
      <4>2. Has0x(n.rest, 0) <=> CharAt(n.rest, 0) = 48 /\ CharAt(n.rest, 0 + 1) \in {88, 120}
        BY <2>0
      <4> QED
        BY <4>1, <4>2
    <3>2. CharAt(behind, 0) = CharAt(n.rest, 0) /\ CharAt(behind, 1) = CharAt(n.rest, 1)
      <4>1. Ends(behind, 0, n.rest)
        BY <1>4, <2>2
      <4>2. CharAt(behind, 0 + 0) = CharAt(n.rest, 0) /\ CharAt(behind, 0 + 1) = CharAt(n.rest, 1)
        BY <4>1 DEF Ends
      <4> QED
        BY <4>2
    <3> QED
      BY <2>2, <2>3, <3>1, <3>2
  <2> QED
    BY <2>1, <2>2
<1> QED
  BY <1>3, <1>4, <1>7, <1>8, <1>9, <1>10, <1>11, <1>13, <1>15, <1>16 DEF s, behind
-----------------------------------------------------------------------------
(***************************************************************************)
(* Numbers: strtoul and strtol.                                            *)
(***************************************************************************)

(* The radix that the code reads off the text, and where it looks for the  *)
(* first digit, are the stated ones.                                       *)
LEMMA RadixIs ==
  ASSUME NEW n, IsNumber(n)
  PROVE  LET s == NumberText(n)
             from == Len(n.blanks) + Len(n.sign)
             first == from + (IF Marked(n, n.radix) THEN 2 ELSE 0)
         IN /\ Radix(s, from, n.radix) = StatedBase(n, n.radix)
            /\ (IF n.radix \in {0, 16} /\ Has0x(s, from) THEN from + 2 ELSE from) = first
            /\ first \in Nat
            /\ StatedDigits(n, n.radix) \in Text
            /\ Ends(s, first, StatedDigits(n, n.radix))
<1> DEFINE s == NumberText(n)
           from == Len(n.blanks) + Len(n.sign)
           first == from + (IF Marked(n, n.radix) THEN 2 ELSE 0)
<1>1. /\ Behind(n) \in Text /\ n.rest \in Text
      /\ Len(n.blanks) \in Nat /\ Len(n.sign) \in Nat
      /\ Ends(s, from, Behind(n))
      /\ n.prefix # <<>> => Ends(s, from + 2, n.rest)
      /\ Has0x(s, from) <=> n.prefix # <<>>
      /\ CharAt(s, from) = CharAt(Behind(n), 0)
  BY PartsAre
<1>2. from \in Nat /\ from + 0 = from /\ from + 2 \in Nat
  <2>1. \A a, b \in Nat : a + b \in Nat /\ (a + b) + 0 = a + b /\ (a + b) + 2 \in Nat
    OBVIOUS
  <2> QED
    BY <1>1, <2>1, Zenon
<1> HIDE DEF s, from
<1>3. Marked(n, n.radix) <=> n.radix \in {0, 16} /\ Has0x(s, from)
  BY <1>1 DEF Marked
<1>4. Radix(s, from, n.radix) = StatedBase(n, n.radix)
  <2>1. CASE Marked(n, n.radix)
    BY <1>3, <2>1 DEF Radix, StatedBase
  <2>2. CASE ~Marked(n, n.radix) /\ n.radix = 0
    <3>1. ~Has0x(s, from)
      BY <1>3, <2>2
    <3> QED
      BY <1>1, <2>2, <3>1 DEF Radix, StatedBase, Digit0
  <2>3. CASE ~Marked(n, n.radix) /\ n.radix # 0
    <3>1. ~(n.radix \in {0, 16} /\ Has0x(s, from))
      BY <1>3, <2>3
    <3> QED
      BY <2>3, <3>1 DEF Radix, StatedBase
  <2> QED
    BY <2>1, <2>2, <2>3
<1>5. (IF n.radix \in {0, 16} /\ Has0x(s, from) THEN from + 2 ELSE from) = first /\ first \in Nat
  BY <1>2, <1>3
<1>6. StatedDigits(n, n.radix) \in Text /\ Ends(s, first, StatedDigits(n, n.radix))
  <2>1. CASE Marked(n, n.radix)
    <3>1. n.prefix # <<>>
      BY <2>1 DEF Marked
    <3> QED
      BY <1>1, <2>1, <3>1 DEF StatedDigits
  <2>2. CASE ~Marked(n, n.radix)
    <3>1. first = from
      BY <1>2, <2>2
    <3> QED
      BY <1>1, <2>2, <3>1 DEF StatedDigits
  <2> QED
    BY <2>1, <2>2
<1> QED
  BY <1>4, <1>5, <1>6 DEF s, from

(* The scan finds the sign and the end of the stated number, and comes to  *)
(* its value, to an overflow, or to nothing if there is none.              *)
LEMMA ScanIs ==
  ASSUME NEW n, IsNumber(n), NEW limit \in Nat, NEW nlimit \in Nat
  PROVE  LET scan == Scan(NumberText(n), n.radix, limit, nlimit)
             lim == IF n.sign = <<Minus>> THEN nlimit ELSE limit
             run == StatedRun(n, n.radix)
             m == StatedValue(n, n.radix)
         IN /\ scan.neg <=> n.sign = <<Minus>>
            /\ scan.end = StatedEnd(n)
            /\ StatedBase(n, n.radix) \notin 2..36 => scan.state = "no_radix"
            /\ StatedBase(n, n.radix) \in 2..36 =>
                 /\ m \in Nat
                 /\ run = 0 => scan.state = "no_number" /\ m = 0
                 /\ run # 0 /\ m <= lim => scan.state = "ok" /\ scan.n = m
                 /\ run # 0 /\ m > lim => scan.state = "overflow"
<1> DEFINE s == NumberText(n)
           start == Len(n.blanks)
           from == Len(n.blanks) + Len(n.sign)
           first == from + (IF Marked(n, n.radix) THEN 2 ELSE 0)
           neg == CharAt(s, start) = Minus
           lim == IF n.sign = <<Minus>> THEN nlimit ELSE limit
           base == StatedBase(n, n.radix)
           d == StatedDigits(n, n.radix)
           scan == Scan(s, n.radix, limit, nlimit)
<1>1. /\ s \in Text /\ start \in Nat
      /\ \A q \in 0..(start - 1) : CharAt(s, q) \in Space
      /\ CharAt(s, start) \notin Space
      /\ AfterSign(s, start) = from
      /\ neg <=> n.sign = <<Minus>>
      /\ Ends(s, from, Behind(n)) /\ Behind(n) \in Text /\ Len(n.sign) \in Nat
  BY PartsAre
<1>2. /\ Radix(s, from, n.radix) = base
      /\ (IF n.radix \in {0, 16} /\ Has0x(s, from) THEN from + 2 ELSE from) = first
      /\ first \in Nat /\ d \in Text /\ Ends(s, first, d)
  BY RadixIs
<1> HIDE DEF s, base, d
<1>3. SkipWhile(s, 0, Space) = start
  <2>1. Len(s) \in Nat
    BY <1>1 DEF Text
  <2>2. start \in 0..Len(s)
    <3>1. Len(s) = from + Len(Behind(n)) /\ Len(Behind(n)) \in Nat
      BY <1>1 DEF Ends, Text
    <3>2. \A a, b, c, t \in Nat : t = (a + b) + c => a <= t
      OBVIOUS
    <3>3. start <= Len(s)
      BY <1>1, <2>1, <3>1, <3>2
    <3> QED
      BY <1>1, <2>1, <3>3
  <2>3. NUL \notin Space /\ 0 \in 0..Len(s)
    BY <2>1, SpaceIs
  <2> DEFINE r == start
  <2>4. r \in 0..Len(s) /\ CharAt(s, r) \notin Space /\ \A q \in 0..(r - 1) : CharAt(s, q) \in Space
    BY <1>1, <2>2
  <2> HIDE DEF r
  <2>5. SkipWhile(s, 0, Space) = r
    BY <2>1, <2>3, <2>4, SkipIs
  <2> QED
    BY <2>5 DEF r
<1>4. scan = ScanNumber(s, neg, from, n.radix, lim)
  BY <1>1, <1>3 DEF Scan
<1> HIDE DEF start, from, scan
<1>5. scan = IF base \in 2..36 THEN ScanDigits(s, neg, first, base, lim)
             ELSE [neg |-> neg, n |-> 0, state |-> "no_radix", end |-> first]
  BY <1>2, <1>4 DEF ScanNumber
<1> DEFINE before == Len(n.blanks) + Len(n.sign) + (IF Marked(n, n.radix) THEN 2 ELSE 0)
           run == StatedRun(n, n.radix)
           m == StatedValue(n, n.radix)
<1>6. StatedEnd(n) = IF base \notin 2..36 THEN first ELSE IF run = 0 THEN 0 ELSE first + run
  BY DEF StatedEnd, base, from, start
<1>7. run = LongestRun(d, base) /\ m = Numeral(d, base)[run]
  BY DEF StatedRun, StatedValue, d, base
<1> HIDE DEF first, run, m
<1>8. /\ scan.neg <=> n.sign = <<Minus>>
      /\ scan.end = StatedEnd(n)
      /\ base \notin 2..36 => scan.state = "no_radix"
      /\ base \in 2..36 =>
           /\ m \in Nat
           /\ run = 0 => scan.state = "no_number" /\ m = 0
           /\ run # 0 /\ m <= lim => scan.state = "ok" /\ scan.n = m
           /\ run # 0 /\ m > lim => scan.state = "overflow"
  <2>1. CASE base \notin 2..36
    <3>1. scan = [neg |-> neg, n |-> 0, state |-> "no_radix", end |-> first]
      BY <1>5, <2>1
    <3>2. StatedEnd(n) = first
      BY <1>6, <2>1
    <3>3. scan.neg = neg /\ scan.end = first /\ scan.state = "no_radix"
      BY <3>1
    <3> QED
      BY <1>1, <2>1, <3>2, <3>3, Zenon
  <2>2. CASE base \in 2..36
    <3>1. lim \in Nat
      OBVIOUS
    <3> HIDE DEF neg, lim
    <3>2. scan = ScanDigits(s, neg, first, base, lim)
      BY <1>5, <2>2
    <3>3. ScansTo(scan, neg, first, d, base, lim)
      <4>1. s \in Text /\ first \in Nat /\ d \in Text /\ Ends(s, first, d)
            /\ base \in 2..36 /\ lim \in Nat
        BY <1>1, <1>2, <2>2, <3>1, Zenon
      <4>2. ScansTo(ScanDigits(s, neg, first, base, lim), neg, first, d, base, lim)
        BY <4>1, ScanDigitsIs, Zenon
      <4> QED
        BY <3>2, <4>2, Zenon
    <3>4. /\ m \in Nat /\ scan.neg = neg
          /\ scan.end = IF run = 0 THEN 0 ELSE first + run
          /\ run = 0 => scan.state = "no_number" /\ m = 0
          /\ run # 0 /\ m <= lim => scan.state = "ok" /\ scan.n = m
          /\ run # 0 /\ m > lim => scan.state = "overflow"
      BY <1>7, <3>3, Zenon DEF ScansTo
    <3>5. scan.end = StatedEnd(n)
      BY <1>6, <2>2, <3>4
    <3>6. scan.neg <=> n.sign = <<Minus>>
      BY <1>1, <3>4, Zenon DEF neg
    <3> QED
      BY <2>2, <3>4, <3>5, <3>6, Zenon
  <2> QED
    BY <2>1, <2>2, Zenon
<1> QED
  BY <1>8 DEF scan, s, base, run, m

(* What strtoul and strtol return for a number.                            *)
LEMMA UnsignedValue ==
  ASSUME NEW n, IsNumber(n)
  PROVE  LET r == strtoul(NumberText(n), n.radix)
             m == StatedValue(n, n.radix)
         IN /\ r.end = StatedEnd(n)
            /\ r.value = IF StatedBase(n, n.radix) \notin 2..36 THEN 0
                         ELSE IF m > ULONG_MAX THEN ULONG_MAX ELSE Unsigned(Negated(n, m))
<1> DEFINE scan == Scan(NumberText(n), n.radix, ULONG_MAX, ULONG_MAX)
           r == strtoul(NumberText(n), n.radix)
           base == StatedBase(n, n.radix)
           run == StatedRun(n, n.radix)
           m == StatedValue(n, n.radix)
<1>0. ULONG_MAX \in Nat
  BY LongAssumption DEF ULONG_MAX
<1>1. /\ scan.neg <=> n.sign = <<Minus>>
      /\ scan.end = StatedEnd(n)
      /\ base \notin 2..36 => scan.state = "no_radix"
      /\ base \in 2..36 =>
           /\ m \in Nat
           /\ run = 0 => scan.state = "no_number" /\ m = 0
           /\ run # 0 /\ m <= ULONG_MAX => scan.state = "ok" /\ scan.n = m
           /\ run # 0 /\ m > ULONG_MAX => scan.state = "overflow"
  <2>1. (IF n.sign = <<Minus>> THEN ULONG_MAX ELSE ULONG_MAX) = ULONG_MAX
    OBVIOUS
  <2> HIDE DEF base, run, m, scan
  <2> QED
    BY <1>0, <2>1, ScanIs, Zenon DEF base, run, m, scan
<1>2. /\ r.end = scan.end
      /\ scan.state = "ok" => r.value = Unsigned(IF scan.neg THEN -scan.n ELSE scan.n)
      /\ scan.state = "overflow" => r.value = ULONG_MAX
      /\ scan.state \in {"no_radix", "no_number"} => r.value = 0
  BY DEF strtoul, UnsignedResult
<1> HIDE DEF r, scan, base, run, m
<1>3. CASE base \notin 2..36
  BY <1>1, <1>2, <1>3 DEF r, base
<1>4. CASE base \in 2..36
  <2>1. CASE run = 0
    <3>1. m = 0 /\ Negated(n, m) = 0 /\ r.value = 0
      BY <1>1, <1>2, <1>4, <2>1 DEF Negated
    <3>2. Unsigned(0) = 0
      <4>1. 0 \in 0..ULONG_MAX
        BY <1>0
      <4> QED
        BY <4>1, SignedIs
    <3> QED
      BY <1>0, <1>1, <1>2, <1>4, <3>1, <3>2 DEF r, base, m
  <2>2. CASE run # 0 /\ m > ULONG_MAX
    BY <1>1, <1>2, <1>4, <2>2 DEF r, base, m
  <2>3. CASE run # 0 /\ ~(m > ULONG_MAX)
    <3>1. m <= ULONG_MAX
      BY <1>0, <1>1, <1>4, <2>3
    <3>2. r.value = Unsigned(Negated(n, m))
      BY <1>1, <1>2, <1>4, <2>3, <3>1 DEF Negated
    <3> QED
      BY <1>1, <1>2, <1>4, <2>3, <3>2 DEF r, base, m
  <2> QED
    BY <2>1, <2>2, <2>3
<1> QED
  BY <1>3, <1>4

(* The same for strtol, with the limits of a long.                         *)
LEMMA SignedValue ==
  ASSUME NEW n, IsNumber(n)
  PROVE  LET r == strtol(NumberText(n), n.radix)
             m == StatedValue(n, n.radix)
         IN /\ r.end = StatedEnd(n)
            /\ r.value = IF StatedBase(n, n.radix) \notin 2..36 THEN 0
                         ELSE Clamp(Negated(n, m), LONG_MIN, LONG_MAX)
<1> DEFINE scan == Scan(NumberText(n), n.radix, LONG_MAX, -LONG_MIN)
           r == strtol(NumberText(n), n.radix)
           lim == IF n.sign = <<Minus>> THEN -LONG_MIN ELSE LONG_MAX
           base == StatedBase(n, n.radix)
           run == StatedRun(n, n.radix)
           m == StatedValue(n, n.radix)
<1>0. LONG_MAX \in Nat /\ LONG_MIN = -LONG_MAX - 1 /\ -LONG_MIN = LONG_MAX + 1 /\ -LONG_MIN \in Nat
  BY LongAssumption DEF LONG_MIN
<1>1. /\ scan.neg <=> n.sign = <<Minus>>
      /\ scan.end = StatedEnd(n)
      /\ base \notin 2..36 => scan.state = "no_radix"
      /\ base \in 2..36 =>
           /\ m \in Nat
           /\ run = 0 => scan.state = "no_number" /\ m = 0
           /\ run # 0 /\ m <= lim => scan.state = "ok" /\ scan.n = m
           /\ run # 0 /\ m > lim => scan.state = "overflow"
  BY <1>0, ScanIs, Zenon
<1>2. /\ r.end = scan.end
      /\ scan.state = "ok" => r.value = Signed(IF scan.neg THEN -scan.n ELSE scan.n)
      /\ scan.state = "overflow" => r.value = IF scan.neg THEN LONG_MIN ELSE LONG_MAX
      /\ scan.state \in {"no_radix", "no_number"} => r.value = 0
  BY DEF strtol, SignedResult
<1> HIDE DEF r, scan, base, run, m
<1>3. CASE base \notin 2..36
  BY <1>1, <1>2, <1>3 DEF r, base
<1>4. CASE base \in 2..36
  <2> DEFINE v == Negated(n, m)
  <2>0. m \in Nat /\ v \in Int /\ v = IF n.sign = <<Minus>> THEN -m ELSE m
    BY <1>1, <1>4 DEF Negated
  <2>1. r.value = Clamp(v, LONG_MIN, LONG_MAX)
    <3>1. CASE run = 0
      <4>1. m = 0 /\ v = 0 /\ r.value = 0
        BY <1>1, <1>2, <1>4, <2>0, <3>1
      <4> QED
        BY <1>0, <4>1 DEF Clamp
    <3>2. CASE run # 0 /\ m > lim
      <4>1. r.value = IF n.sign = <<Minus>> THEN LONG_MIN ELSE LONG_MAX
        BY <1>1, <1>2, <1>4, <3>2
      <4>2. IF n.sign = <<Minus>> THEN v < LONG_MIN ELSE v > LONG_MAX
        BY <1>0, <2>0, <3>2
      <4> HIDE DEF v
      <4> QED
        BY <1>0, <2>0, <4>1, <4>2 DEF Clamp
    <3>3. CASE run # 0 /\ m <= lim
      <4>1. r.value = Signed(v)
        BY <1>1, <1>2, <1>4, <2>0, <3>3
      <4>2. LONG_MIN <= v /\ v <= LONG_MAX
        BY <1>0, <2>0, <3>3
      <4>3. LONG_MIN \in Int /\ LONG_MAX \in Int
        BY <1>0
      <4> HIDE DEF v
      <4>4. Signed(v) = v
        BY <2>0, <4>2, <4>3, SignedIs
      <4> QED
        BY <2>0, <4>1, <4>2, <4>3, <4>4 DEF Clamp
    <3>4. lim \in Nat
      BY <1>0
    <3> HIDE DEF lim
    <3> QED
      BY <2>0, <3>1, <3>2, <3>3, <3>4
  <2> QED
    BY <1>1, <1>2, <1>4, <2>1 DEF r, base, m
<1> QED
  BY <1>3, <1>4
-----------------------------------------------------------------------------
(***************************************************************************)
(* Numbers: atol.                                                          *)
(***************************************************************************)

(* The loop of atol is defined.                                            *)
LEMMA WrappedIs ==
  ASSUME NEW s \in Text, NEW first \in Nat
  PROVE  /\ Wrapped(s, first)[0] = 0
         /\ \A k \in 1..Len(s) :
              Wrapped(s, first)[k]
                = Signed(Wrapped(s, first)[k - 1] * 10 + DigitValue(CharAt(s, first + k - 1)))
<1> DEFINE N == Len(s)
           digit(k) == DigitValue(CharAt(s, first + k - 1))
           Def(a) == [k \in 0..N |-> IF k = 0 THEN 0 ELSE Signed(a[k - 1] * 10 + digit(k))]
           step == [p \in Int \X (1..N) |-> Signed(p[1] * 10 + digit(p[2]))]
<1>0. N \in Nat
  BY DEF Text
<1>1. ASSUME NEW k \in 1..N PROVE digit(k) \in Nat
  <2>1. first + k - 1 \in Nat
    BY <1>0
  <2> QED
    BY <2>1, DigitAt
<1> HIDE DEF digit
<1>2. step \in [Int \X (1..N) -> Int]
  <2>1. ASSUME NEW p \in Int \X (1..N) PROVE Signed(p[1] * 10 + digit(p[2])) \in Int
    <3>1. p[1] \in Int /\ p[2] \in 1..N
      OBVIOUS
    <3>2. p[1] * 10 + digit(p[2]) \in Int
      BY <1>1, <3>1
    <3>3. LONG_MIN \in Int /\ LONG_MAX \in Int
      BY LongAssumption DEF LONG_MIN
    <3> QED
      BY <3>2, <3>3, SignedIs
  <2> QED
    BY <2>1
<1>3. PICK f \in [0..N -> Int] : Follows(f, N, 0, step)
  <2>1. 0 \in Int
    OBVIOUS
  <2> HIDE DEF step, N
  <2> QED
    BY <1>0, <1>2, <2>1, Recursion, Zenon
<1>4. f = Def(f)
  <2>1. ASSUME NEW k \in 0..N PROVE f[k] = Def(f)[k]
    <3>1. CASE k = 0
      BY <1>3, <3>1 DEF Follows
    <3>2. CASE k # 0
      <4>1. k \in 1..N /\ k - 1 \in 0..N
        BY <1>0, <3>2
      <4>2. f[k - 1] \in Int /\ f[k] = step[<<f[k - 1], k>>]
        BY <1>3, <4>1 DEF Follows
      <4> QED
        BY <3>2, <4>1, <4>2
    <3> QED
      BY <3>1, <3>2
  <2> QED
    BY <2>1
<1>5. Wrapped(s, first) = CHOOSE a : a = Def(a)
  BY DEF Wrapped, digit
<1>6. Wrapped(s, first) = Def(Wrapped(s, first))
  <2> HIDE DEF Def
  <2> QED
    BY <1>4, <1>5, Zenon
<1> DEFINE a == Wrapped(s, first)
<1>7. a = Def(a)
  BY <1>6
<1> HIDE DEF a
<1>8. a[0] = 0 /\ \A k \in 1..N : a[k] = Signed(a[k - 1] * 10 + digit(k))
  BY <1>0, <1>7
<1> QED
  BY <1>8 DEF a, digit

(* The sum of atol is what is left in a long of the number that the digits *)
(* read so far state.                                                      *)
LEMMA WrappedCounts ==
  ASSUME NEW s \in Text, NEW first \in Nat, NEW d \in Text, Ends(s, first, d)
  PROVE  LET run == LongestRun(d, 10)
         IN Numeral(d, 10)[run] \in Nat /\ Wrapped(s, first)[run] = Signed(Numeral(d, 10)[run])
<1> DEFINE run == LongestRun(d, 10)
           v == Numeral(d, 10)
           sum == Wrapped(s, first)
           M == ULONG_MAX + 1
<1>0. /\ Len(d) \in Nat /\ Len(s) \in Nat /\ Len(s) = first + Len(d)
      /\ 10 \in 2..36 /\ 10 \in Nat
  <2>1. Len(d) \in Nat /\ Len(s) \in Nat
    BY DEF Text
  <2>2. Len(s) = first + Len(d)
    BY DEF Ends
  <2> QED
    BY <2>1, <2>2
<1>1. run \in 0..Len(d)
  BY <1>0, RunIs
<1>2. /\ \A k \in 0..run : v[k] \in Nat
      /\ \A k \in 1..run : /\ DigitValue(CharAt(d, k - 1)) \in 0..(10 - 1)
                           /\ v[k] = v[k - 1] * 10 + DigitValue(CharAt(d, k - 1))
  BY <1>0, RunCounts
<1>3. v[0] = 0
  BY <1>0, NumeralIs
<1>4. sum[0] = 0 /\ \A k \in 1..Len(s) :
                      sum[k] = Signed(sum[k - 1] * 10 + DigitValue(CharAt(s, first + k - 1)))
  BY WrappedIs
<1>5. M \in Nat /\ M = ULONG_MAX + 1 /\ LONG_MIN <= 0 /\ 0 <= LONG_MAX
      /\ LONG_MIN \in Int /\ LONG_MAX \in Int
  BY LongAssumption DEF ULONG_MAX, LONG_MIN
<1> HIDE DEF run, v, sum, M
<1>6. ASSUME NEW k \in 1..run, sum[k - 1] = Signed(v[k - 1])
      PROVE  sum[k] = Signed(v[k])
  <2> DEFINE c == DigitValue(CharAt(d, k - 1))
  <2>1. k - 1 \in 0..Len(d) /\ k - 1 \in 0..run /\ k \in 0..run /\ k \in 1..Len(s)
        /\ first + k - 1 = first + (k - 1) /\ k - 1 \in Nat
    BY <1>0, <1>1
  <2>2. CharAt(s, first + k - 1) = CharAt(d, k - 1)
    BY <1>0, <2>1 DEF Ends
  <2>3. sum[k] = Signed(sum[k - 1] * 10 + c)
    BY <1>4, <2>1, <2>2
  <2>4. c \in Nat /\ v[k] = v[k - 1] * 10 + c /\ v[k - 1] \in Nat /\ v[k] \in Int
    BY <1>2, <2>1
  <2>5. PICK j \in Int : sum[k - 1] = v[k - 1] + j * M
    <3> DEFINE w == v[k - 1]
    <3>1. w \in Int
      BY <2>4
    <3> HIDE DEF w
    <3>2. \E j \in Int : Signed(w) = w + j * (ULONG_MAX + 1)
      BY <3>1, SignedIs
    <3> QED
      BY <1>5, <1>6, <3>2 DEF w
  <2> HIDE DEF c
  <2>6. sum[k - 1] * 10 + c = v[k] + (10 * j) * M /\ 10 * j \in Int
    BY <1>5, <2>4, <2>5
  <2> DEFINE i == 10 * j
  <2>7. sum[k - 1] * 10 + c = v[k] + i * (ULONG_MAX + 1) /\ i \in Int
    BY <1>5, <2>6
  <2> HIDE DEF i
  <2>8. Signed(v[k] + i * (ULONG_MAX + 1)) = Signed(v[k])
    BY <2>4, <2>7, SignedAgain
  <2> QED
    BY <2>3, <2>7, <2>8
<1>7. sum[0] = Signed(v[0])
  <2>1. Signed(0) = 0
    BY <1>5, SignedIs
  <2> QED
    BY <1>3, <1>4, <2>1
<1>8. sum[run] = Signed(v[run])
  <2> DEFINE S == {k \in 0..run : sum[k] = Signed(v[k])}
  <2>1. 0 \in S
    BY <1>0, <1>1, <1>7
  <2>2. ASSUME NEW k \in 0..(run - 1), k \in S PROVE k + 1 \in S
    <3>1. k + 1 \in 1..run /\ (k + 1) - 1 = k /\ k + 1 \in 0..run
      BY <1>0, <1>1
    <3> QED
      BY <1>6, <2>2, <3>1
  <2>3. run \in Nat /\ run \in 0..run
    BY <1>0, <1>1
  <2> HIDE DEF S
  <2>4. \A k \in 0..run : k \in S
    BY <2>1, <2>2, <2>3, UpTo
  <2> QED
    BY <2>3, <2>4 DEF S
<1>9. v[run] \in Nat
  BY <1>0, <1>1, <1>2
<1> QED
  BY <1>8, <1>9 DEF run, v, sum

(* What atol returns for a number: it steps over blanks and tabs only, and *)
(* another blank stops it in front of the number.                          *)
LEMMA AtolValue ==
  ASSUME NEW n, IsNumber(n)
  PROVE  atol(NumberText(n)) = IF StopsAtol(n) THEN 0
                               ELSE Signed(Negated(n, StatedValue(n, 10)))
<1> DEFINE s == NumberText(n)
           start == Len(n.blanks)
           from == Len(n.blanks) + Len(n.sign)
           d == Behind(n)
           skip == SkipWhile(s, 0, {Blank, Tab})
           begin == AfterSign(s, skip)
           sum == Wrapped(s, begin)[SkipWhile(s, begin, Digits(10)) - begin]
<1>1. /\ s \in Text /\ d \in Text
      /\ start \in Nat /\ Len(n.sign) \in Nat
      /\ \A q \in 0..(start - 1) :
           CharAt(s, q) = n.blanks[q + 1] /\ q + 1 \in 1..start /\ CharAt(s, q) \in Space
      /\ CharAt(s, start) \notin Space
      /\ AfterSign(s, start) = from
      /\ CharAt(s, start) = Minus <=> n.sign = <<Minus>>
      /\ Ends(s, from, d)
  BY PartsAre
<1>2. n.blanks \in Seq(Space)
  BY DEF IsNumber
<1>3. atol(s) = Signed(IF CharAt(s, skip) = Minus THEN -sum ELSE sum)
  BY DEF atol
<1>4. StatedValue(n, 10) = Numeral(d, 10)[LongestRun(d, 10)]
  <2>1. StatedDigits(n, 10) = d /\ StatedBase(n, 10) = 10
    BY DEF StatedDigits, StatedBase, Marked
  <2> QED
    BY <2>1 DEF StatedValue, StatedRun
<1>5. from \in Nat /\ start <= Len(s) /\ Len(s) \in Nat
  <2>1. Len(s) = from + Len(d) /\ Len(d) \in Nat /\ Len(s) \in Nat
    <3> HIDE DEF s, d, from, start
    <3>1. Len(d) \in Nat /\ Len(s) \in Nat
      BY <1>1 DEF Text
    <3>2. Len(s) = from + Len(d)
      BY <1>1 DEF Ends
    <3> QED
      BY <3>1, <3>2
  <2>2. \A a, b, c, t \in Nat : t = (a + b) + c => a <= t /\ a + b \in Nat
    OBVIOUS
  <2> QED
    BY <1>1, <2>1, <2>2
<1>6. /\ NUL \notin {Blank, Tab} /\ 0 \in 0..Len(s)
      /\ Minus \notin Space /\ Plus \notin Space /\ Blank \in Space /\ Tab \in Space
      /\ \A c \in Space : c \notin Digits(10)
  BY <1>5, SpaceIs DEF NUL, Blank, Tab
<1> HIDE DEF s, start, from, d, skip, begin, sum
<1>6a. StopsAtol(n) <=> n.blanks \notin Seq({Blank, Tab})
  BY DEF StopsAtol
<1>7. CASE n.blanks \in Seq({Blank, Tab})
  <2>1. skip = start
    <3>1. \A q \in 0..(start - 1) : CharAt(s, q) \in {Blank, Tab}
      <4>1. \A i \in 1..start : n.blanks[i] \in {Blank, Tab}
        BY <1>7 DEF start
      <4> QED
        BY <1>1, <4>1
    <3>2. CharAt(s, start) \notin {Blank, Tab}
      BY <1>1, <1>6
    <3>3. start \in 0..Len(s)
      BY <1>1, <1>5
    <3> QED
      BY <1>5, <1>6, <3>1, <3>2, <3>3, SkipIs DEF skip
  <2>2. begin = from /\ (CharAt(s, skip) = Minus <=> n.sign = <<Minus>>)
    BY <1>1, <2>1 DEF begin
  <2> DEFINE run == LongestRun(d, 10)
             m == Numeral(d, 10)[run]
  <2>3. SkipWhile(s, from, Digits(10)) - from = run
    <3>1. 10 \in 2..36 /\ Len(d) \in Nat
      BY <1>1 DEF Text
    <3>2. SkipWhile(s, from, Digits(10)) = from + run
      BY <1>1, <1>5, <3>1, SkipDigits
    <3>3. run \in 0..Len(d)
      BY <1>1, <3>1, RunIs
    <3> HIDE DEF run
    <3> QED
      BY <1>5, <3>1, <3>2, <3>3
  <2>4. m \in Nat /\ sum = Signed(m)
    <3>1. m \in Nat /\ Wrapped(s, from)[run] = Signed(m)
      BY <1>1, <1>5, WrappedCounts
    <3> QED
      BY <2>2, <2>3, <3>1 DEF sum
  <2> HIDE DEF m, run
  <2>5. m \in Int /\ StatedValue(n, 10) = m
    BY <1>4, <2>4 DEF m, run
  <2>6. PICK j \in Int : sum = m + j * (ULONG_MAX + 1)
    BY <2>4, <2>5, SignedIs
  <2>7. CASE n.sign = <<Minus>>
    <3> DEFINE i == -j
               o == -m
    <3>1. ULONG_MAX + 1 \in Int
      BY LongAssumption DEF ULONG_MAX
    <3>2. i \in Int /\ o \in Int /\ -sum = o + i * (ULONG_MAX + 1)
      BY <2>5, <2>6, <3>1
    <3> HIDE DEF i, o
    <3>3. Signed(-sum) = Signed(o)
      BY <3>2, SignedAgain
    <3>4. atol(s) = Signed(-sum) /\ Negated(n, m) = o
      BY <1>3, <2>2, <2>7 DEF Negated, o
    <3> QED
      BY <1>6a, <1>7, <2>5, <3>3, <3>4 DEF s
  <2>8. CASE n.sign # <<Minus>>
    <3>1. Signed(sum) = Signed(m)
      BY <2>5, <2>6, SignedAgain
    <3>2. atol(s) = Signed(sum) /\ Negated(n, m) = m
      BY <1>3, <2>2, <2>8 DEF Negated
    <3> QED
      BY <1>6a, <1>7, <2>5, <3>1, <3>2 DEF s
  <2> QED
    BY <2>7, <2>8
<1>8. CASE n.blanks \notin Seq({Blank, Tab})
  <2>1. /\ skip \in 0..Len(s) /\ CharAt(s, skip) \notin {Blank, Tab}
        /\ \A q \in 0..(skip - 1) : CharAt(s, q) \in {Blank, Tab}
    BY <1>5, <1>6, SkipStops DEF skip
  <2>2. skip < start
    <3>1. PICK i \in 1..start : n.blanks[i] \notin {Blank, Tab}
      <4>1. SUFFICES ASSUME \A i \in 1..start : n.blanks[i] \in {Blank, Tab} PROVE FALSE
        OBVIOUS
      <4>2. n.blanks \in Seq({Blank, Tab})
        BY <1>2, <4>1 DEF start
      <4> QED
        BY <1>8, <4>2
    <3>2. i - 1 \in 0..(start - 1) /\ (i - 1) + 1 = i
      BY <1>1
    <3>3. CharAt(s, i - 1) \notin {Blank, Tab}
      BY <1>1, <3>1, <3>2
    <3>4. ~(i - 1 < skip)
      BY <1>1, <2>1, <3>2, <3>3
    <3> QED
      BY <1>1, <1>5, <2>1, <3>2, <3>4
  <2>3. CharAt(s, skip) \in Space
    BY <1>1, <2>1, <2>2
  <2>4. begin = skip /\ CharAt(s, skip) # Minus
    BY <1>6, <2>3 DEF begin, AfterSign
  <2>5. SkipWhile(s, begin, Digits(10)) = begin
    <3>1. CharAt(s, begin) \notin Digits(10)
      BY <1>6, <2>3, <2>4
    <3>2. begin \in 0..Len(s) /\ begin \in begin..Len(s)
      BY <1>5, <2>1, <2>4
    <3>3. NUL \notin Digits(10)
      <4>1. 0 \in Char /\ 10 \in 2..36
        BY DEF Char
      <4> QED
        BY <4>1, DigitIs
    <3>4. \A q \in begin..(begin - 1) : CharAt(s, q) \in Digits(10)
      BY <3>2
    <3> QED
      BY <1>5, <3>1, <3>2, <3>3, <3>4, SkipIs
  <2>6. sum = 0
    <3>1. begin \in Nat /\ begin - begin = 0
      BY <1>5, <2>1, <2>4
    <3>2. Wrapped(s, begin)[0] = 0
      BY <1>1, <3>1, WrappedIs
    <3> QED
      BY <2>5, <3>1, <3>2 DEF sum
  <2>7. Signed(0) = 0
    <3>1. LONG_MIN <= 0 /\ 0 <= LONG_MAX /\ LONG_MIN \in Int /\ LONG_MAX \in Int
      BY LongAssumption DEF LONG_MIN
    <3> QED
      BY <3>1, SignedIs
  <2> QED
    BY <1>3, <1>6a, <1>8, <2>4, <2>6, <2>7 DEF s
<1> QED
  BY <1>7, <1>8

(* strtoul and strtol return the number that the text states, or the       *)
(* nearest that fits, and how far they read; atol the number modulo the    *)
(* range of a long if nothing but blanks and tabs is in front of it, and 0 *)
(* if another white space is, unlike ANSI C (STRTOUL.C:41-130,             *)
(* strtol.c:41-131, atol.c:41-62): for texts of any length and a long of   *)
(* any size.                                                               *)
THEOREM StringCalls_NumberIsItsValue == Spec => []NumberIsItsValue
<1>1. ASSUME AnswerInv PROVE NumberIsItsValue
  <2> DEFINE n == call.number
             m == StatedValue(n, n.radix)
             base == StatedBase(n, n.radix)
             long == IF base \notin 2..36 THEN 0 ELSE Clamp(Negated(n, m), LONG_MIN, LONG_MAX)
             unsigned == IF base \notin 2..36 THEN 0
                         ELSE IF m > ULONG_MAX THEN ULONG_MAX ELSE Unsigned(Negated(n, m))
             short == IF StopsAtol(n) THEN 0
                      ELSE Signed(Negated(n, StatedValue(n, 10)))
  <2>1. call.fn \in {"strtoul", "strtol", "atol"} => IsNumber(n)
    BY <1>1, CallsAre DEF AnswerInv
  <2>2. Answered("strtoul") => answer[1].end = StatedEnd(n) /\ answer[1].value = unsigned
    <3>1. SUFFICES ASSUME Answered("strtoul")
                   PROVE  answer[1].end = StatedEnd(n) /\ answer[1].value = unsigned
      OBVIOUS
    <3>2. IsNumber(n) /\ answer[1] = strtoul(NumberText(n), n.radix)
      BY <1>1, <2>1, <3>1 DEF AnswerInv, Answered
    <3> HIDE DEF n
    <3> QED
      BY <3>2, UnsignedValue
  <2>3. Answered("strtol") => answer[1].end = StatedEnd(n) /\ answer[1].value = long
    <3>1. SUFFICES ASSUME Answered("strtol")
                   PROVE  answer[1].end = StatedEnd(n) /\ answer[1].value = long
      OBVIOUS
    <3>2. IsNumber(n) /\ answer[1] = strtol(NumberText(n), n.radix)
      BY <1>1, <2>1, <3>1 DEF AnswerInv, Answered
    <3> HIDE DEF n
    <3> QED
      BY <3>2, SignedValue
  <2>4. Answered("atol") => answer[1] = short
    <3>1. SUFFICES ASSUME Answered("atol") PROVE answer[1] = short
      OBVIOUS
    <3>2. IsNumber(n) /\ answer[1] = atol(NumberText(n))
      BY <1>1, <2>1, <3>1 DEF AnswerInv, Answered
    <3> HIDE DEF n
    <3> QED
      BY <3>2, AtolValue
  <2>5. /\ long = IF ~(base \in 2..36) THEN 0 ELSE Clamp(Negated(n, m), LONG_MIN, LONG_MAX)
        /\ unsigned = IF ~(base \in 2..36) THEN 0
                      ELSE IF m > ULONG_MAX THEN ULONG_MAX ELSE Unsigned(Negated(n, m))
    OBVIOUS
  <2>6. Answered("atol") => answer[1] = IF StopsAtol(n) THEN 0
                                        ELSE Signed(Negated(n, StatedValue(n, 10)))
    BY <2>4
  <2> HIDE DEF long, unsigned, short
  <2> QED
    BY <2>2, <2>3, <2>5, <2>6 DEF NumberIsItsValue
<1> QED
  BY <1>1, AnswersAre, PTL
-----------------------------------------------------------------------------
(***************************************************************************)
(* Command lines.                                                          *)
(***************************************************************************)

(* The rest of a text.                                                     *)
LEMMA FromIs ==
  ASSUME NEW s \in Text, NEW p \in 0..Len(s)
  PROVE  From(s, p) \in Text /\ Len(From(s, p)) = Len(s) - p /\ Ends(s, p, From(s, p))
<1> DEFINE N == Len(s)
           t == From(s, p)
<1>0. N \in Nat /\ p \in Nat /\ p <= N /\ \A i \in 1..N : s[i] \in Char \ {NUL}
  BY DEF Text
<1>1. /\ t \in Seq(Char \ {NUL}) /\ Len(t) = N - p
      /\ \A i \in 1..(N - p) : t[i] = s[p + i]
  <2>1. \A i \in (p + 1)..N : i \in 1..N /\ s[i] \in Char \ {NUL}
    BY <1>0
  <2>2. Len(t) = N - p
    BY <1>0, <2>1 DEF From
  <2>3. \A i \in 1..(N - p) : t[i] = s[p + i] /\ p + i \in (p + 1)..N
    BY <1>0 DEF From
  <2>4. t \in Seq(Char \ {NUL})
    BY <1>0, <2>1 DEF From
  <2> QED
    BY <2>2, <2>3, <2>4
<1> HIDE DEF t
<1>2. ASSUME NEW q \in Nat PROVE CharAt(s, p + q) = CharAt(t, q)
  <2>1. CASE q < N - p
    <3>1. q + 1 \in 1..(N - p) /\ p + q < N /\ p + q + 1 = p + (q + 1)
      BY <1>0, <2>1
    <3> QED
      BY <1>1, <2>1, <3>1 DEF CharAt
  <2>2. CASE ~(q < N - p)
    <3>1. ~(p + q < N)
      BY <1>0, <2>2
    <3> QED
      BY <1>1, <2>2, <3>1 DEF CharAt
  <2> QED
    BY <2>1, <2>2
<1>3. N = p + (N - p)
  BY <1>0
<1> QED
  BY <1>1, <1>2, <1>3 DEF Ends, Text, t

(* A digit is neither a minus nor a slash.                                 *)
LEMMA DigitsOf ==
  ASSUME NEW c \in Char
  PROVE  /\ c \in Digits(8) \cup Digits(10) => c \in 48..57
         /\ c \in Digits(16) => c # Minus /\ c # Slash
         /\ c \in Space => c # Minus /\ c # Slash
<1>1. 8 \in 2..36 /\ 10 \in 2..36 /\ 16 \in 2..36
  OBVIOUS
<1>2. c \in 0..255
  BY DEF Char
<1>3. c \in Digits(8) => IsDigitOf(c, 8)
  BY <1>1, DigitIs
<1>4. c \in Digits(10) => IsDigitOf(c, 10)
  BY <1>1, DigitIs
<1>5. c \in Digits(16) => IsDigitOf(c, 16)
  BY <1>1, DigitIs
<1>6. c \in 65..90 => DigitOf(c) = c - 55
  BY DEF DigitOf
<1>7. c \in 97..122 => DigitOf(c) = c - 87
  BY DEF DigitOf
<1>8. IsDigitOf(c, 8) \/ IsDigitOf(c, 10) => c \in 48..57
  BY <1>2, <1>6, <1>7 DEF IsDigitOf
<1>9. IsDigitOf(c, 16) => c # Minus /\ c # Slash
  BY DEF IsDigitOf, Minus, Slash
<1>10. c \in Space => c # Minus /\ c # Slash
  <2>1. c \in Space => c \in 9..13 \/ c = 32
    <3>1. c \in -1..255
      BY <1>2
    <3> QED
      BY <3>1, ClassesAre DEF Space
  <2> QED
    BY <2>1 DEF Minus, Slash
<1> QED
  BY <1>3, <1>4, <1>5, <1>8, <1>9, <1>10

(* Where strtoul ends, whatever it reads: within the text, and a minus in  *)
(* front of that is the sign, with a digit behind it.                      *)
LEMMA StrtoulEnds ==
  ASSUME NEW t \in Text
  PROVE  LET end == strtoul(t, 0).end
         IN /\ end \in 0..Len(t)
            /\ \A q \in 0..(end - 1) :
                 /\ CharAt(t, q) # Slash
                 /\ CharAt(t, q) = Minus => CharAt(t, q + 1) \in 48..57
<1> DEFINE N == Len(t)
           start == SkipWhile(t, 0, Space)
           from == AfterSign(t, start)
           base == Radix(t, from, 0)
           first == IF Has0x(t, from) THEN from + 2 ELSE from
           stop == SkipWhile(t, first, Digits(base))
           end == strtoul(t, 0).end
<1>0. N \in Nat /\ \A q \in 0..N : CharAt(t, q) \in Char /\ (CharAt(t, q) = NUL <=> q = N)
  BY CharAtIs DEF Text
<1>1. base \in 2..36 /\ end = IF stop = first THEN 0 ELSE stop
  <2>1. base \in 2..36
    BY DEF Radix
  <2>2. 0 \in {0, 16}
    OBVIOUS
  <2> HIDE DEF base, start
  <2>3. first = IF 0 \in {0, 16} /\ Has0x(t, from) THEN from + 2 ELSE from
    BY <2>2
  <2> QED
    BY <2>1, <2>3 DEF strtoul, UnsignedResult, Scan, ScanNumber, ScanDigits, base, start
<1>2. /\ start \in 0..N
      /\ \A q \in 0..(start - 1) : CharAt(t, q) \in Space
  BY <1>0, SpaceIs, SkipStops
<1> HIDE DEF start
<1>3. from \in start..N /\ from <= start + 1 /\ (from = start + 1 \/ from = start)
      /\ (from # start => CharAt(t, start) \in {Minus, Plus})
  <2>1. CASE CharAt(t, start) \in {Minus, Plus}
    <3>1. CharAt(t, start) # NUL
      BY <2>1 DEF Minus, Plus, NUL
    <3>2. start # N
      BY <1>0, <1>2, <3>1
    <3> QED
      BY <1>0, <1>2, <2>1, <3>2 DEF AfterSign
  <2>2. CASE CharAt(t, start) \notin {Minus, Plus}
    BY <1>0, <1>2, <2>2 DEF AfterSign
  <2> QED
    BY <2>1, <2>2
<1> HIDE DEF from
<1>4. Has0x(t, from) => CharAt(t, from) = 48 /\ CharAt(t, from + 1) \in {88, 120}
  BY DEF Has0x, Digit0, UpperA, LowerA
<1>5. /\ first \in from..N
      /\ Has0x(t, from) => first = from + 2
      /\ ~Has0x(t, from) => first = from
  <2>1. CASE Has0x(t, from)
    <3>1. from # N
      BY <1>0, <1>3, <1>4, <2>1 DEF NUL
    <3>2. from + 1 \in 0..N
      BY <1>0, <1>2, <1>3, <3>1
    <3>3. from + 1 # N
      BY <1>0, <1>4, <2>1, <3>2 DEF NUL
    <3>4. from + 2 \in from..N
      BY <1>0, <1>2, <1>3, <3>2, <3>3
    <3> QED
      BY <2>1, <3>4
  <2>2. CASE ~Has0x(t, from)
    <3>1. from \in from..N
      BY <1>0, <1>2, <1>3
    <3> QED
      BY <2>2, <3>1
  <2> QED
    BY <2>1, <2>2
<1>6. (Has0x(t, from) => base = 16) /\ (~Has0x(t, from) => base \in {8, 10})
  BY DEF Radix
<1> HIDE DEF first, base
<1>7. stop \in first..N /\ \A q \in first..(stop - 1) : CharAt(t, q) \in Digits(base)
  <2>1. first \in 0..N
    BY <1>2, <1>3, <1>5
  <2>2. NUL \notin Digits(base)
    <3>1. 0 \in Char
      BY DEF Char
    <3> QED
      BY <1>1, <3>1, DigitIs
  <2> QED
    BY <1>0, <2>1, <2>2, SkipStops DEF stop
<1> HIDE DEF stop
<1>8. end \in 0..N
  BY <1>0, <1>1, <1>2, <1>3, <1>5, <1>7
<1> HIDE DEF end
<1>9. ASSUME NEW q \in 0..(end - 1)
      PROVE  CharAt(t, q) # Slash /\ (CharAt(t, q) = Minus => CharAt(t, q + 1) \in 48..57)
  <2>1. end = stop /\ stop # first
    BY <1>1
  <2>2. q \in 0..N /\ CharAt(t, q) \in Char
    BY <1>0, <1>8
  <2>3. CASE q < start
    <3>1. q \in 0..(start - 1)
      BY <2>3, <1>2
    <3> QED
      BY <1>2, <2>2, <3>1, DigitsOf
  <2>4. CASE q >= start /\ q < from
    <3>1. q = start /\ q + 1 = from /\ CharAt(t, q) \in {Minus, Plus}
      BY <1>2, <1>3, <2>4
    <3>2. CharAt(t, from) \in 48..57
      <4>1. CASE Has0x(t, from)
        BY <1>4, <4>1
      <4>2. CASE ~Has0x(t, from)
        <5>1. from \in first..(stop - 1) /\ base \in {8, 10} /\ from \in 0..N
          BY <1>2, <1>3, <1>5, <1>6, <1>7, <2>1, <4>2
        <5>2. CharAt(t, from) \in Digits(8) \cup Digits(10) /\ CharAt(t, from) \in Char
          BY <1>0, <1>7, <5>1
        <5> QED
          BY <5>2, DigitsOf
      <4> QED
        BY <4>1, <4>2
    <3> QED
      BY <3>1, <3>2 DEF Minus, Plus, Slash
  <2>5. CASE q >= from /\ q < first
    <3>1. Has0x(t, from) /\ (q = from \/ q = from + 1)
      BY <1>2, <1>3, <1>5, <2>5
    <3> QED
      BY <1>4, <3>1 DEF Minus, Slash
  <2>6. CASE q >= first
    <3>1. q \in first..(stop - 1)
      BY <1>2, <1>3, <1>5, <1>7, <2>1, <2>6
    <3>2. CharAt(t, q) \in Digits(8) \cup Digits(10) \cup Digits(16)
      BY <1>6, <1>7, <3>1
    <3>3. CharAt(t, q) # Minus /\ CharAt(t, q) # Slash
      BY <2>2, <3>2, DigitsOf DEF Minus, Slash
    <3> QED
      BY <3>3
  <2> QED
    BY <1>2, <1>3, <1>5, <2>3, <2>4, <2>5, <2>6
<1> QED
  BY <1>8, <1>9 DEF end

(* Where a switch stands in a line in capital letters, and the level that  *)
(* is given there.                                                         *)
Switched(s, word) == {k \in 1..Len(s) : s[k] \in {Minus, Slash} /\ StartsWith(s, k, word)}
Level(s, k) == strtoul(From(s, k + Len(IrqSwitch)), 0).value % (USHRT_MAX + 1)

(* The switches in capital letters are those of the line in either case.   *)
LEMMA SwitchedIs ==
  ASSUME NEW line \in Text, NEW word \in {QuietSwitch, IrqSwitch}
  PROVE  Switched(strupr(line), word) = SwitchesAt(line, word)
<1> DEFINE s == strupr(line)
           N == Len(line)
<1>0. /\ N \in Nat /\ Len(s) = N /\ DOMAIN line = 1..N
      /\ \A i \in 1..N : line[i] \in Char /\ s[i] = Raised(line[i])
  BY StruprIs DEF Text
<1> HIDE DEF s
<1>1. ASSUME NEW q \in Nat PROVE CharAt(s, q) = Raised(CharAt(line, q))
  <2>1. CASE q < N
    <3>1. q + 1 \in 1..N
      BY <1>0, <2>1
    <3> QED
      BY <1>0, <2>1, <3>1 DEF CharAt
  <2>2. CASE ~(q < N)
    <3>1. Raised(NUL) = NUL
      BY DEF Raised, NUL
    <3> QED
      BY <1>0, <2>2, <3>1 DEF CharAt
  <2> QED
    BY <2>1, <2>2
<1>2. \A i \in 1..N : s[i] \in {Minus, Slash} <=> line[i] \in {Minus, Slash}
  <2>1. \A c \in 0..255 : Raised(c) \in {45, 47} <=> c \in {45, 47}
    BY DEF Raised
  <2>2. \A c \in Char : Raised(c) \in {Minus, Slash} <=> c \in {Minus, Slash}
    BY <2>1 DEF Minus, Slash, Char
  <2>3. ASSUME NEW i \in 1..N PROVE s[i] \in {Minus, Slash} <=> line[i] \in {Minus, Slash}
    <3>1. line[i] \in Char /\ s[i] = Raised(line[i])
      BY <1>0
    <3>2. Raised(line[i]) \in {Minus, Slash} <=> line[i] \in {Minus, Slash}
      BY <2>2, <3>1
    <3> QED
      BY <3>1, <3>2
  <2> QED
    BY <2>3
<1>3. ASSUME NEW k \in 1..N, NEW i \in DOMAIN word
      PROVE  CharAt(s, k + i - 1) = Raised(CharAt(line, k + i - 1))
  <2>1. DOMAIN word \subseteq Nat
    BY DEF QuietSwitch, IrqSwitch
  <2>2. k + i - 1 \in Nat
    BY <1>0, <2>1
  <2> QED
    BY <1>1, <2>2
<1>4. \A k \in 1..N : StartsWith(s, k, word)
                        <=> \A i \in DOMAIN word : Raised(CharAt(line, k + i - 1)) = word[i]
  BY <1>3 DEF StartsWith
<1> QED
  BY <1>0, <1>2, <1>4 DEF Switched, SwitchesAt, s

(* The words of the switches.                                              *)
LEMMA WordsAre ==
  ASSUME NEW s, NEW k \in Nat
  PROVE  /\ Len(IrqSwitch) = 10 /\ QuietSwitch # IrqSwitch
         /\ StartsWith(s, k, QuietSwitch) => CharAt(s, k) = 81
         /\ StartsWith(s, k, IrqSwitch) =>
              /\ CharAt(s, k) = 73 /\ CharAt(s, k + 9) = 58
              /\ \A q \in k..(k + 9) : CharAt(s, q) \notin {Minus, Slash, NUL}
<1>1. Len(IrqSwitch) = 10 /\ Len(QuietSwitch) = 1 /\ DOMAIN IrqSwitch = 1..10 /\ DOMAIN QuietSwitch = 1..1
  BY DEF IrqSwitch, QuietSwitch
<1>2. QuietSwitch[1] = 81 /\ IrqSwitch[1] = 73 /\ IrqSwitch[10] = 58
  BY DEF IrqSwitch, QuietSwitch
<1>3. \A i \in 1..10 : IrqSwitch[i] \in {73, 82, 81, 95, 76, 69, 86, 58}
  <2>1. /\ IrqSwitch[1] = 73 /\ IrqSwitch[2] = 82 /\ IrqSwitch[3] = 81 /\ IrqSwitch[4] = 95
        /\ IrqSwitch[5] = 76 /\ IrqSwitch[6] = 69 /\ IrqSwitch[7] = 86 /\ IrqSwitch[8] = 69
        /\ IrqSwitch[9] = 76 /\ IrqSwitch[10] = 58
    BY DEF IrqSwitch
  <2>2. \A i \in 1..10 : i = 1 \/ i = 2 \/ i = 3 \/ i = 4 \/ i = 5
                         \/ i = 6 \/ i = 7 \/ i = 8 \/ i = 9 \/ i = 10
    OBVIOUS
  <2> QED
    BY <2>1, <2>2
<1>4. k + 1 - 1 = k /\ k + 10 - 1 = k + 9
  OBVIOUS
<1>5. ASSUME StartsWith(s, k, QuietSwitch) PROVE CharAt(s, k) = 81
  <2>1. CharAt(s, k + 1 - 1) = QuietSwitch[1]
    BY <1>1, <1>5 DEF StartsWith
  <2> QED
    BY <1>2, <1>4, <2>1
<1>6. ASSUME StartsWith(s, k, IrqSwitch)
      PROVE  /\ CharAt(s, k) = 73 /\ CharAt(s, k + 9) = 58
             /\ \A q \in k..(k + 9) : CharAt(s, q) \notin {Minus, Slash, NUL}
  <2>1. \A i \in 1..10 : CharAt(s, k + i - 1) = IrqSwitch[i]
    BY <1>1, <1>6 DEF StartsWith
  <2>2. CharAt(s, k + 1 - 1) = 73 /\ CharAt(s, k + 10 - 1) = 58
    BY <1>2, <2>1
  <2>3. ASSUME NEW q \in k..(k + 9) PROVE CharAt(s, q) \notin {Minus, Slash, NUL}
    <3>1. q - k + 1 \in 1..10 /\ k + (q - k + 1) - 1 = q
      OBVIOUS
    <3>2. CharAt(s, q) = IrqSwitch[q - k + 1]
      BY <2>1, <3>1
    <3> QED
      BY <1>3, <3>1, <3>2 DEF Minus, Slash, NUL
  <2> QED
    BY <1>4, <2>2, <2>3
<1> QED
  BY <1>1, <1>5, <1>6

(* The search stops at the next minus or slash.                            *)
LEMMA NextIs ==
  ASSUME NEW s \in Text, NEW p \in 0..Len(s)
  PROVE  LET ahead == strpbrk(From(s, p), {Minus, Slash})
             at == p + ahead + 1
         IN \/ /\ ahead = Null
               /\ \A k \in (p + 1)..Len(s) : s[k] \notin {Minus, Slash}
            \/ /\ ahead # Null /\ at \in (p + 1)..Len(s) /\ s[at] \in {Minus, Slash}
               /\ \A k \in (p + 1)..(at - 1) : s[k] \notin {Minus, Slash}
<1> DEFINE t == From(s, p)
           N == Len(s)
           C == {Minus, Slash}
           ahead == strpbrk(t, C)
<1>0. N \in Nat /\ p \in Nat /\ p <= N
  BY DEF Text
<1>1. t \in Text /\ Len(t) = N - p /\ \A q \in Nat : CharAt(s, p + q) = CharAt(t, q)
  BY FromIs DEF Ends
<1>2. C \in SUBSET (Char \ {NUL})
  BY DEF Minus, Slash, Char, NUL
<1> HIDE DEF t, C
<1>3. \/ ahead = Null /\ \A q \in 0..Len(t) : CharAt(t, q) \notin C
      \/ /\ ahead \in 0..(Len(t) - 1) /\ CharAt(t, ahead) \in C
         /\ \A q \in 0..(ahead - 1) : CharAt(t, q) \notin C
  BY <1>1, <1>2, StrpbrkFinds
<1> HIDE DEF ahead
<1>4. ASSUME NEW k \in (p + 1)..N
      PROVE  s[k] = CharAt(t, k - p - 1) /\ k - p - 1 \in 0..(N - p - 1)
  <2>1. k - p - 1 \in Nat /\ p + (k - p - 1) = k - 1 /\ k - 1 < N /\ k - 1 + 1 = k
    BY <1>0
  <2>2. CharAt(s, k - 1) = s[k]
    BY <2>1 DEF CharAt
  <2>3. CharAt(s, p + (k - p - 1)) = CharAt(t, k - p - 1)
    BY <1>1, <2>1
  <2> QED
    BY <1>0, <2>1, <2>2, <2>3
<1>5. CASE ahead = Null /\ \A q \in 0..Len(t) : CharAt(t, q) \notin C
  <2>1. ASSUME NEW k \in (p + 1)..N PROVE s[k] \notin C
    <3>1. k - p - 1 \in 0..Len(t)
      BY <1>0, <1>1, <1>4
    <3> QED
      BY <1>4, <1>5, <3>1
  <2> QED
    BY <1>5, <2>1 DEF ahead, t, C
<1>6. CASE /\ ahead \in 0..(Len(t) - 1) /\ CharAt(t, ahead) \in C
           /\ \A q \in 0..(ahead - 1) : CharAt(t, q) \notin C
  <2> DEFINE at == p + ahead + 1
  <2>1. at \in (p + 1)..N /\ at - p - 1 = ahead /\ ahead # Null
    <3>1. ahead \in 0..(N - p - 1)
      BY <1>1, <1>6
    <3> QED
      BY <1>0, <3>1 DEF Null
  <2> HIDE DEF at
  <2>2. s[at] \in C
    BY <1>4, <1>6, <2>1
  <2>3. ASSUME NEW k \in (p + 1)..(at - 1) PROVE s[k] \notin C
    <3>1. k \in (p + 1)..N /\ k - p - 1 \in 0..(ahead - 1)
      BY <1>0, <2>1
    <3> QED
      BY <1>4, <1>6, <3>1
  <2> QED
    BY <2>1, <2>2, <2>3 DEF at, ahead, t, C
<1> QED
  BY <1>3, <1>5, <1>6

(* The init routines know one switch or two.                               *)
Known == {{QuietSwitch}, {QuietSwitch, IrqSwitch}}
IrqsOf(s, known) == IF IrqSwitch \in known THEN Switched(s, IrqSwitch) ELSE {}

(* Behind the minus or slash at at there is one of the switches, or none,  *)
(* and none is stepped over.                                               *)
Passes(s, quiets, irqs, at, found, sw) ==
  /\ sw = [p |-> sw.p, found |-> sw.found]
  /\ sw.p \in at..Len(s)
  /\ \A k \in (at + 1)..sw.p : k \notin quiets /\ k \notin irqs
  /\ \/ /\ at \in quiets /\ at \notin irqs
        /\ sw.found = [found EXCEPT !.quiet = TRUE]
     \/ /\ at \notin quiets /\ at \in irqs
        /\ sw.found = [found EXCEPT !.irq_ok = TRUE, !.irq_level = Level(s, at)]
     \/ /\ at \notin quiets /\ at \notin irqs
        /\ sw.found = found

(* The body of the loop tells the switches apart like that.                *)
LEMMA SwitchIs ==
  ASSUME NEW s \in Text, NEW at \in 1..Len(s), s[at] \in {Minus, Slash}, NEW known \in Known, NEW found
  PROVE  Passes(s, Switched(s, QuietSwitch), IrqsOf(s, known), at, found,
                Switch(s, known, at, found))
<1> DEFINE N == Len(s)
           b == at + Len(IrqSwitch)
           number == strtoul(From(s, b), 0)
           Q == StartsWith(s, at, QuietSwitch)
           I == IrqSwitch \in known /\ StartsWith(s, at, IrqSwitch)
           sw == Switch(s, known, at, found)
           quiets == Switched(s, QuietSwitch)
           irqs == IrqsOf(s, known)
<1>0. N \in Nat /\ at \in Nat /\ at \in at..N
  BY DEF Text
<1>1. Q => ~I
  BY <1>0, WordsAre
<1>2. (at \in quiets <=> Q) /\ (at \in irqs <=> I)
  BY DEF Switched, IrqsOf
<1>3. /\ Q => sw = [p |-> at, found |-> [found EXCEPT !.quiet = TRUE]]
      /\ ~Q /\ I => sw = [p |-> b + number.end,
                          found |-> [found EXCEPT !.irq_ok = TRUE, !.irq_level = Level(s, at)]]
      /\ ~Q /\ ~I => sw = [p |-> at, found |-> found]
  <2>1. QuietSwitch \in known
    BY DEF Known
  <2> QED
    BY <2>1 DEF Switch, Level
<1>3a. sw = [p |-> sw.p, found |-> sw.found]
  <2> HIDE DEF Q, I, sw, number, b
  <2> QED
    BY <1>3
<1> HIDE DEF Q, sw
<1>4. CASE Q
  <2>1. sw.p = at /\ sw.found = [found EXCEPT !.quiet = TRUE]
    BY <1>3, <1>4
  <2>2. \A k \in (at + 1)..at : FALSE
    BY <1>0
  <2> HIDE DEF I, quiets, irqs
  <2> QED
    BY <1>0, <1>1, <1>2, <1>3a, <1>4, <2>1, <2>2 DEF Passes, sw, quiets, irqs
<1>5. CASE ~Q /\ ~I
  <2>1. sw.p = at /\ sw.found = found
    BY <1>3, <1>5
  <2>2. \A k \in (at + 1)..at : FALSE
    BY <1>0
  <2> HIDE DEF I, quiets, irqs
  <2> QED
    BY <1>0, <1>2, <1>3a, <1>5, <2>1, <2>2 DEF Passes, sw, quiets, irqs
<1>6. CASE ~Q /\ I
  <2> DEFINE t == From(s, b)
             end == number.end
  <2>0. b = at + 10
    BY <1>0, WordsAre
  <2>1. /\ CharAt(s, at + 9) = 58
        /\ \A q \in at..(at + 9) : CharAt(s, q) \notin {Minus, Slash, NUL}
    BY <1>0, <1>6, WordsAre
  <2>2. b \in 0..N /\ b \in Nat
    <3>1. at + 9 < N
      <4>1. CharAt(s, at + 9) # NUL
        BY <2>1 DEF NUL
      <4> QED
        BY <4>1 DEF CharAt
    <3> QED
      BY <1>0, <2>0, <3>1
  <2> HIDE DEF b
  <2>3. t \in Text /\ Len(t) = N - b /\ \A q \in Nat : CharAt(s, b + q) = CharAt(t, q)
    BY <2>2, FromIs DEF Ends
  <2> HIDE DEF t
  <2>4. /\ end \in 0..Len(t)
        /\ \A q \in 0..(end - 1) :
             /\ CharAt(t, q) # Slash
             /\ CharAt(t, q) = Minus => CharAt(t, q + 1) \in 48..57
    BY <2>3, StrtoulEnds DEF t
  <2> HIDE DEF end
  <2>5. sw.p = b + end /\ sw.found = [found EXCEPT !.irq_ok = TRUE, !.irq_level = Level(s, at)]
    BY <1>3, <1>6 DEF end
  <2>6. sw.p \in at..N
    <3>1. end \in 0..(N - b)
      BY <2>3, <2>4
    <3>2. sw.p = b + end
      BY <2>5
    <3> QED
      BY <1>0, <2>0, <2>2, <3>1, <3>2
  <2>7. ASSUME NEW k \in (at + 1)..(b + end), NEW word \in {QuietSwitch, IrqSwitch}
        PROVE  k \notin Switched(s, word)
    <3>0. k \in Nat /\ k \in 1..N /\ k - 1 \in Nat /\ k - 1 + 1 = k
      BY <1>0, <2>0, <2>2, <2>3, <2>4
    <3>1. CharAt(s, k - 1) = s[k]
      BY <1>0, <3>0 DEF CharAt
    <3>2. CASE k <= b
      <4>1. k - 1 \in at..(at + 9)
        BY <1>0, <2>0, <3>0, <3>2
      <4> QED
        BY <2>1, <3>1, <4>1 DEF Switched
    <3>3. CASE ~(k <= b)
      <4> DEFINE q == k - 1 - b
      <4>1. q \in 0..(end - 1) /\ q \in Nat /\ q + 1 \in Nat /\ b + q = k - 1 /\ b + (q + 1) = k
        BY <2>2, <2>3, <2>4, <3>0, <3>3
      <4> HIDE DEF q
      <4>2. CharAt(t, q) = s[k] /\ CharAt(t, q + 1) = CharAt(s, k)
        BY <2>3, <3>1, <4>1
      <4>3. StartsWith(s, k, word) => CharAt(s, k) \in {81, 73}
        BY <3>0, WordsAre
      <4>4. s[k] \in {Minus, Slash} => CharAt(s, k) \in 48..57
        BY <2>4, <4>1, <4>2
      <4> QED
        BY <4>3, <4>4 DEF Switched
    <3> QED
      BY <3>2, <3>3
  <2>8. \A k \in (at + 1)..sw.p : k \notin quiets /\ k \notin irqs
    BY <2>5, <2>7 DEF IrqsOf
  <2> HIDE DEF I, quiets, irqs
  <2> QED
    BY <1>2, <1>3a, <1>6, <2>5, <2>6, <2>8 DEF Passes, sw, quiets, irqs
<1> QED
  BY <1>4, <1>5, <1>6

(* What the loop has found when the pointer is at an offset: whether there *)
(* is a switch up to there, and the last of the levels.                    *)
Loops(s) ==
  [p : 0..Len(s),
   found : [quiet : BOOLEAN, irq_ok : BOOLEAN, irq_level : {0} \cup {Level(s, k) : k \in 1..Len(s)}]]
Seen(s, quiets, irqs, loop) ==
  /\ loop.found.quiet <=> \E k \in quiets : k <= loop.p
  /\ loop.found.irq_ok <=> \E k \in irqs : k <= loop.p
  /\ (\A k \in irqs : k > loop.p) => loop.found.irq_level = 0
  /\ \A k \in irqs : k <= loop.p =>
       \/ \E j \in irqs : j > k /\ j <= loop.p
       \/ loop.found.irq_level = Level(s, k)

(* One search more: it is true of the switches that are passed as well.    *)
LEMMA SearchStep ==
  ASSUME NEW s \in Text, NEW known \in Known, NEW loop \in Loops(s),
         Seen(s, Switched(s, QuietSwitch), IrqsOf(s, known), loop)
  PROVE  LET after == Search(s, known, loop)
         IN /\ after \in Loops(s)
            /\ Seen(s, Switched(s, QuietSwitch), IrqsOf(s, known), after)
            /\ \/ after.p > loop.p
               \/ after = loop /\ \A k \in (loop.p + 1)..Len(s) : s[k] \notin {Minus, Slash}
<1> DEFINE N == Len(s)
           quiets == Switched(s, QuietSwitch)
           irqs == IrqsOf(s, known)
           ahead == strpbrk(From(s, loop.p), {Minus, Slash})
           at == loop.p + ahead + 1
           after == Search(s, known, loop)
           p == loop.p
           found == loop.found
           q == after.p
           then == after.found
           Levels == {0} \cup {Level(s, k) : k \in 1..N}
<1>0. N \in Nat /\ p \in 0..N /\ quiets \subseteq 1..N /\ irqs \subseteq 1..N
  BY DEF Text, Loops, Switched, IrqsOf
<1>1. /\ loop = [p |-> p, found |-> found]
      /\ found = [quiet |-> found.quiet, irq_ok |-> found.irq_ok, irq_level |-> found.irq_level]
      /\ found.quiet \in BOOLEAN /\ found.irq_ok \in BOOLEAN /\ found.irq_level \in Levels
  BY DEF Loops
<1>2. after = IF ahead = Null THEN loop ELSE Switch(s, known, at, found)
  BY DEF Search
<1>3. \/ /\ ahead = Null
         /\ \A k \in (p + 1)..N : s[k] \notin {Minus, Slash}
      \/ /\ ahead # Null /\ at \in (p + 1)..N /\ s[at] \in {Minus, Slash}
         /\ \A k \in (p + 1)..(at - 1) : s[k] \notin {Minus, Slash}
  BY <1>0, NextIs
<1>4. \A k \in 1..N : s[k] \notin {Minus, Slash} => k \notin quiets /\ k \notin irqs
  BY DEF Switched, IrqsOf
<1> HIDE DEF ahead, at, quiets, irqs
<1>5. CASE ahead = Null
  BY <1>2, <1>3, <1>5 DEF after, quiets, irqs
<1>6. CASE ahead # Null
  <2>1. /\ at \in (p + 1)..N /\ at \in 1..N /\ s[at] \in {Minus, Slash}
        /\ \A k \in (p + 1)..(at - 1) : k \notin quiets /\ k \notin irqs
    BY <1>0, <1>3, <1>4, <1>6
  <2>2. after = Switch(s, known, at, found)
    BY <1>2, <1>6
  <2>2a. Passes(s, quiets, irqs, at, found, after)
    BY <2>1, <2>2, SwitchIs, Zenon DEF quiets, irqs
  <2>3. /\ q \in at..N
        /\ \A k \in (at + 1)..q : k \notin quiets /\ k \notin irqs
        /\ \/ /\ at \in quiets /\ at \notin irqs
              /\ then = [found EXCEPT !.quiet = TRUE]
           \/ /\ at \notin quiets /\ at \in irqs
              /\ then = [found EXCEPT !.irq_ok = TRUE, !.irq_level = Level(s, at)]
           \/ /\ at \notin quiets /\ at \notin irqs
              /\ then = found
    <3> HIDE DEF after, found
    <3> QED
      BY <2>2a DEF Passes
  <2>4. after = [p |-> q, found |-> then]
    <3> HIDE DEF after, found
    <3> QED
      BY <2>2a DEF Passes
  <2>5. /\ then = [quiet |-> then.quiet, irq_ok |-> then.irq_ok, irq_level |-> then.irq_level]
        /\ then.quiet \in BOOLEAN /\ then.irq_ok \in BOOLEAN /\ then.irq_level \in Levels
        /\ then.quiet <=> found.quiet \/ at \in quiets
        /\ then.irq_ok <=> found.irq_ok \/ at \in irqs
        /\ then.irq_level = IF at \in irqs THEN Level(s, at) ELSE found.irq_level
    <3> DEFINE level == Level(s, at)
    <3>1. level \in Levels
      BY <2>1
    <3> HIDE DEF level, Levels, then, found
    <3>2. CASE at \in quiets /\ at \notin irqs /\ then = [found EXCEPT !.quiet = TRUE]
      BY <1>1, <3>2
    <3>3. CASE at \notin quiets /\ at \in irqs
               /\ then = [found EXCEPT !.irq_ok = TRUE, !.irq_level = level]
      BY <1>1, <3>1, <3>3 DEF level
    <3>4. CASE at \notin quiets /\ at \notin irqs /\ then = found
      BY <1>1, <3>4
    <3> QED
      BY <2>3, <3>2, <3>3, <3>4 DEF level
  <2> HIDE DEF after
  <2>6. after \in Loops(s) /\ q > p
    <3>1. q \in 0..N /\ q > p
      BY <1>0, <2>1, <2>3
    <3> QED
      BY <2>4, <2>5, <3>1 DEF Loops
  <2>7. \A k \in 1..N : k <= q /\ (k \in quiets \/ k \in irqs) => k <= p \/ k = at
    BY <1>0, <2>1, <2>3
  <2>8. p \in Nat /\ q \in Nat /\ p < at /\ at <= q /\ at \in Nat
    BY <1>0, <2>1, <2>3
  <2>9. /\ found.quiet <=> \E k \in quiets : k <= p
        /\ found.irq_ok <=> \E k \in irqs : k <= p
        /\ (\A k \in irqs : k > p) => found.irq_level = 0
        /\ \A k \in irqs : k <= p =>
             \/ \E j \in irqs : j > k /\ j <= p
             \/ found.irq_level = Level(s, k)
    BY DEF Seen, quiets, irqs
  <2> HIDE DEF p, q, found, then
  <2>10. then.quiet <=> \E k \in quiets : k <= q
    BY <1>0, <2>5, <2>7, <2>8, <2>9
  <2>11. then.irq_ok <=> \E k \in irqs : k <= q
    BY <1>0, <2>5, <2>7, <2>8, <2>9
  <2>12. (\A k \in irqs : k > q) => then.irq_level = 0
    BY <1>0, <2>5, <2>8, <2>9
  <2>13. ASSUME NEW k \in irqs, k <= q
         PROVE  (\E j \in irqs : j > k /\ j <= q) \/ then.irq_level = Level(s, k)
    <3>1. CASE k = at
      BY <2>5, <2>13, <3>1
    <3>2. CASE k <= p /\ at \in irqs
      BY <1>0, <2>8, <3>2
    <3>3. CASE k <= p /\ at \notin irqs
      <4>1. (\E j \in irqs : j > k /\ j <= p) \/ found.irq_level = Level(s, k)
        BY <2>9, <2>13, <3>3
      <4> QED
        BY <1>0, <2>5, <2>8, <3>3, <4>1
    <3> QED
      BY <1>0, <2>7, <2>13, <3>1, <3>2, <3>3
  <2>14. Seen(s, quiets, irqs, after)
    BY <2>10, <2>11, <2>12, <2>13 DEF Seen, q, then
  <2> QED
    BY <2>6, <2>14 DEF after, quiets, irqs, q, p
<1> QED
  BY <1>5, <1>6

(* Every search leaves the loop with the truth about what it has passed,   *)
(* and either moves on or finds nothing: the last one has passed them all. *)
LEMMA SwitchesIs ==
  ASSUME NEW s \in Text, NEW known \in Known
  PROVE  LET quiets == Switched(s, QuietSwitch)
             irqs == IrqsOf(s, known)
             found == Switches(s, known)
         IN /\ found.quiet <=> quiets # {}
            /\ found.irq_ok <=> irqs # {}
            /\ irqs = {} => found.irq_level = 0
            /\ \A k \in irqs : (\E j \in irqs : j > k) \/ found.irq_level = Level(s, k)
<1> DEFINE N == Len(s)
           quiets == Switched(s, QuietSwitch)
           irqs == IrqsOf(s, known)
           start == [p |-> 0, found |-> NothingFound]
           S == {loop \in Loops(s) : Seen(s, quiets, irqs, loop)}
           step == [w \in S \X (1..N) |-> Search(s, known, w[1])]
           Def(a) == [k \in 0..N |-> IF k = 0 THEN start ELSE Search(s, known, a[k - 1])]
           a == Searched(s, known)
           Nothing_from(loop) == \A k \in (loop.p + 1)..N : s[k] \notin {Minus, Slash}
<1>0. N \in Nat /\ quiets \subseteq 1..N /\ irqs \subseteq 1..N
  BY DEF Text, Switched, IrqsOf
<1>1. start \in S
  <2>1. start \in Loops(s)
    BY <1>0 DEF Loops, NothingFound
  <2>2. (\A k \in quiets : ~(k <= 0)) /\ (\A k \in irqs : ~(k <= 0))
    BY <1>0
  <2>3. start.p = 0 /\ start.found.quiet = FALSE /\ start.found.irq_ok = FALSE
        /\ start.found.irq_level = 0
    BY DEF NothingFound
  <2> HIDE DEF start, quiets, irqs
  <2>4. Seen(s, quiets, irqs, start)
    BY <2>2, <2>3 DEF Seen
  <2> QED
    BY <2>1, <2>4
<1>2. ASSUME NEW loop \in S
      PROVE  /\ Search(s, known, loop) \in S
             /\ \/ Search(s, known, loop).p > loop.p
                \/ Search(s, known, loop) = loop /\ Nothing_from(loop)
  BY SearchStep
<1>3. step \in [S \X (1..N) -> S]
  <2>1. ASSUME NEW w \in S \X (1..N) PROVE Search(s, known, w[1]) \in S
    <3>1. w[1] \in S
      BY Zenon
    <3> HIDE DEF S
    <3> QED
      BY <1>2, <3>1
  <2> HIDE DEF S
  <2> QED
    BY <2>1
<1> HIDE DEF S, start
<1>4. PICK f \in [0..N -> S] : Follows(f, N, start, step)
  <2> HIDE DEF step, N
  <2> QED
    BY <1>0, <1>1, <1>3, Recursion, Zenon
<1>5. f = Def(f)
  <2>1. ASSUME NEW k \in 0..N PROVE f[k] = Def(f)[k]
    <3>1. CASE k = 0
      BY <1>4, <3>1 DEF Follows
    <3>2. CASE k # 0
      <4>1. k \in 1..N /\ k - 1 \in 0..N
        BY <1>0, <3>2
      <4>2. f[k - 1] \in S /\ f[k] = step[<<f[k - 1], k>>]
        BY <1>4, <4>1 DEF Follows
      <4> QED
        BY <3>2, <4>1, <4>2
    <3> QED
      BY <3>1, <3>2
  <2> QED
    BY <2>1
<1>6. a = CHOOSE loop : loop = Def(loop)
  BY DEF Searched, start
<1>7. a = Def(a)
  <2> HIDE DEF Def, a
  <2> QED
    BY <1>5, <1>6, Zenon
<1> HIDE DEF a
<1>8. a[0] = start /\ \A k \in 1..N : a[k] = Search(s, known, a[k - 1])
  BY <1>0, <1>7
<1> HIDE DEF Nothing_from
<1> DEFINE Right(k) == a[k] \in S /\ (a[k].p >= k \/ Nothing_from(a[k]))
<1>9. Right(N)
  <2> DEFINE R == {k \in 0..N : Right(k)}
  <2>1. 0 \in R
    <3>1. start.p = 0
      BY DEF start
    <3> QED
      BY <1>0, <1>1, <1>8, <3>1
  <2>2. ASSUME NEW k \in 0..(N - 1), k \in R PROVE k + 1 \in R
    <3>1. k + 1 \in 1..N /\ (k + 1) - 1 = k /\ k + 1 \in 0..N /\ k \in Nat
      BY <1>0
    <3>2. a[k] \in S /\ (a[k].p >= k \/ Nothing_from(a[k])) /\ a[k + 1] = Search(s, known, a[k])
      BY <1>8, <2>2, <3>1
    <3>3. a[k + 1] \in S /\ (a[k + 1].p > a[k].p \/ (a[k + 1] = a[k] /\ Nothing_from(a[k])))
      BY <1>2, <3>2
    <3>4. a[k].p \in Nat /\ a[k + 1].p \in Nat
      BY <1>0, <3>2, <3>3 DEF S, Loops
    <3>5. CASE a[k + 1] = a[k] /\ Nothing_from(a[k])
      BY <3>1, <3>3, <3>5
    <3>6. CASE a[k + 1].p > a[k].p /\ a[k].p >= k
      BY <3>1, <3>3, <3>4, <3>6
    <3>7. CASE a[k + 1].p > a[k].p /\ Nothing_from(a[k])
      <4>1. Nothing_from(a[k + 1])
        BY <1>0, <3>4, <3>7 DEF Nothing_from
      <4> QED
        BY <3>1, <3>3, <4>1
    <3> QED
      BY <3>2, <3>3, <3>5, <3>6, <3>7
  <2>3. N \in 0..N
    BY <1>0
  <2> HIDE DEF R
  <2>4. \A k \in 0..N : k \in R
    BY <1>0, <2>1, <2>2, UpTo
  <2>5. N \in R
    BY <2>3, <2>4
  <2> QED
    BY <2>5 DEF R
<1> DEFINE loop == a[N]
           found == loop.found
<1>10. /\ loop.p \in 0..N
       /\ found.quiet <=> \E k \in quiets : k <= loop.p
       /\ found.irq_ok <=> \E k \in irqs : k <= loop.p
       /\ (\A k \in irqs : k > loop.p) => found.irq_level = 0
       /\ \A k \in irqs : k <= loop.p =>
            \/ \E j \in irqs : j > k /\ j <= loop.p
            \/ found.irq_level = Level(s, k)
  BY <1>9 DEF S, Seen, Loops
<1>11. (\A k \in quiets : k <= loop.p) /\ (\A k \in irqs : k <= loop.p)
  <2>1. CASE loop.p >= N
    BY <1>0, <1>10, <2>1
  <2>2. CASE Nothing_from(loop)
    <3>1. \A k \in 1..N : k \in quiets \/ k \in irqs => s[k] \in {Minus, Slash}
      BY DEF Switched, IrqsOf
    <3> HIDE DEF quiets, irqs
    <3> QED
      BY <1>0, <1>10, <2>2, <3>1 DEF Nothing_from
  <2> QED
    BY <1>9, <2>1, <2>2
<1>12. Switches(s, known) = found
  BY DEF Switches, a
<1> HIDE DEF quiets, irqs, found
<1>13. /\ found.quiet <=> quiets # {}
       /\ found.irq_ok <=> irqs # {}
       /\ irqs = {} => found.irq_level = 0
       /\ \A k \in irqs : (\E j \in irqs : j > k) \/ found.irq_level = Level(s, k)
  BY <1>10, <1>11
<1> QED
  BY <1>12, <1>13 DEF quiets, irqs

(* The init routines see the switches of a command line, each in either    *)
(* case and wherever it stands, and nothing that is none; the last level   *)
(* counts: for lines of any length (drv32_init_base.c:144-163,             *)
(* mwdd32_init_base.c:160-170).                                            *)
THEOREM StringCalls_SwitchesAreSeen == Spec => []SwitchesAreSeen
<1>1. ASSUME AnswerInv PROVE SwitchesAreSeen
  <2> SUFFICES ASSUME NEW fn \in {"mwdd32", "dev32", "sec32", "drv32"}, Answered(fn)
               PROVE  LET levels == IF KnowsIrq(fn) THEN SwitchesAt(call.line, IrqSwitch) ELSE {}
                      IN /\ answer[1].quiet <=> SwitchesAt(call.line, QuietSwitch) # {}
                         /\ answer[1].irq_ok <=> levels # {}
                         /\ levels = {} => answer[1].irq_level = 0
                         /\ \A k \in levels :
                              \/ \E j \in levels : j > k
                              \/ answer[1].irq_level = Level(strupr(call.line), k)
    BY DEF SwitchesAreSeen, Level
  <2> DEFINE line == call.line
             s == strupr(line)
             known == IF KnowsIrq(fn) THEN {QuietSwitch, IrqSwitch} ELSE {QuietSwitch}
             levels == IF KnowsIrq(fn) THEN SwitchesAt(line, IrqSwitch) ELSE {}
  <2>1. call.fn = fn /\ line \in Text
    BY <1>1, CallsAre DEF AnswerInv, Answered
  <2>2. answer[1] = Switches(s, known)
    BY <1>1 DEF AnswerInv, KnowsIrq, mwdd32_switches, dev32_switches, sec32_switches, drv32_switches
  <2>3. s \in Text /\ known \in Known
    BY <2>1, StruprIs DEF Known
  <2>4. IrqSwitch \in known <=> KnowsIrq(fn)
    <3>1. QuietSwitch # IrqSwitch
      <4>1. 0 \in Nat
        OBVIOUS
      <4> QED
        BY <4>1, WordsAre
    <3> QED
      BY <3>1
  <2>5. Switched(s, QuietSwitch) = SwitchesAt(line, QuietSwitch) /\ IrqsOf(s, known) = levels
    <3> HIDE DEF line, known
    <3>1. Switched(s, QuietSwitch) = SwitchesAt(line, QuietSwitch)
      BY <2>1, SwitchedIs
    <3>2. Switched(s, IrqSwitch) = SwitchesAt(line, IrqSwitch)
      BY <2>1, SwitchedIs
    <3> QED
      BY <2>4, <3>1, <3>2 DEF IrqsOf
  <2> HIDE DEF s, known, line, levels
  <2>6. LET found == Switches(s, known)
            irqs == IrqsOf(s, known)
        IN /\ found.quiet <=> Switched(s, QuietSwitch) # {}
           /\ found.irq_ok <=> irqs # {}
           /\ irqs = {} => found.irq_level = 0
           /\ \A k \in irqs : (\E j \in irqs : j > k) \/ found.irq_level = Level(s, k)
    BY <2>3, SwitchesIs
  <2>7. /\ answer[1].quiet <=> SwitchesAt(line, QuietSwitch) # {}
        /\ answer[1].irq_ok <=> levels # {}
        /\ levels = {} => answer[1].irq_level = 0
        /\ \A k \in levels : (\E j \in levels : j > k) \/ answer[1].irq_level = Level(s, k)
    BY <2>2, <2>5, <2>6
  <2> QED
    BY <2>7 DEF s, line, levels
<1> QED
  BY <1>1, AnswersAre, PTL
=============================================================================
