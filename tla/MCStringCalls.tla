--------------------------- MODULE MCStringCalls ---------------------------
(* The arguments for model-checking StringCalls.                           *)
EXTENDS StringCalls

Sequences(S, n) == UNION {[1..k -> S] : k \in 0..n}

(* The letters with their neighbours in the table.                         *)
Codes == {64, 65, 90, 91, 96, 97, 122, 123, 255}
MCStrings == Sequences(Codes, 3)
MCCharSets == kSubset(2, Codes)

(* Numbers that reach the limits of 8 bits and exceed them, with digits    *)
(* that some radices have and others do not; and what may stand around.    *)
Marks == {<<>>, <<48, 88>>, <<48, 120>>}                         \* 0X, 0x
NumberSet(blanks, rests, radices) ==
  {n \in [blanks : blanks, sign : {<<>>, <<Minus>>, <<Plus>>}, prefix : Marks,
          rest : rests, radix : radices] : IsNumber(n)}

MCNumbers ==
  NumberSet({<<>>}, Sequences({48, 49, 55, 57, 102, 90}, 3), {0, 1, 2, 8, 10, 16, 36, 37})
  \cup NumberSet({<<>>}, [1..9 -> {48, 49}], {2})
  \cup NumberSet({<<>>, <<Blank, Tab>>, <<10, Blank>>},
                 {d \o t : d \in Sequences({49, 50, 56}, 3), t \in {<<33, 49>>, <<Minus>>, <<102>>}},
                 {0, 10, 16})

(* A command line is made of these.                                        *)
Irq == <<105, 82, 81, 95, 76, 69, 86, 69, 76, 58>>                        \* iRQ_LEVEL:
LinePieces ==
  {<<Minus>>, <<Slash>>, <<81>>, <<113>>, <<65>>, <<Blank>>, IrqSwitch, Irq,
   <<53>>, <<48, 120, 49, 70>>}
MCLines == {FlattenSeq(pieces) : pieces \in Sequences(LinePieces, 4)}

(* Blanks and commas separate tokens.                                      *)
MCTexts == Sequences({97, 32, 44}, 3) \cup {<<32, 97, 44, 32, 98, 32>>, <<97, 32, 98, 44, 97>>}
=============================================================================
