-------------------------- MODULE MCVsprintfCalls --------------------------
(* The arguments for model-checking VsprintfCalls.                         *)
EXTENDS VsprintfCalls

FlagSets == SUBSET {"LEFT", "PLUS", "SPACE", "SPECIAL", "ZEROPAD"}
FieldSet(widths, starred, precisions, numbers) ==
  [flags : FlagSets, width : widths, starred : starred, precision : precisions,
   qualifier : {<<>>, <<Lower(7)>>, <<Lower(11)>>},
   type : {Lower(3), Lower(20), Lower(14), Lower(23), Upper(23), Lower(15)},
   number : numbers]

(* Widths and precisions below, at and above what the numbers need.        *)
MCFields ==
  FieldSet({-1, 2, 6}, {FALSE}, {-1, 0, 4}, {0, 7, -1, 127, -128})
  \cup FieldSet({-6, 5}, {TRUE}, {-1, 3}, {0, -1, 200})

(* Parts of a format, what they take and what they should come to.         *)
StringArg(s) == [str |-> s]
NullArg == [null |-> TRUE]
Piece1(format, args, text) ==
  [format |-> format, args |-> args, text |-> text, stores |-> FALSE, last |-> FALSE]
Letters3 == <<97, 98, 99>>
MCPieces == {
  Piece1(<<97>>, <<>>, <<97>>),                                           \* a
  Piece1(<<37, 37>>, <<>>, <<37>>),                                       \* %%
  Piece1(<<37, 99>>, <<Pushed(65)>>, <<65>>),                             \* %c
  Piece1(<<37, 51, 99>>, <<Pushed(66)>>, <<32, 32, 66>>),                 \* %3c
  Piece1(<<37, 45, 51, 99>>, <<Pushed(67)>>, <<67, 32, 32>>),             \* %-3c
  Piece1(<<37, 100>>, <<Pushed(-5)>>, <<45, 53>>),                        \* %d
  Piece1(<<37, 115>>, <<StringArg(Letters3)>>, Letters3),                 \* %s
  Piece1(<<37, 53, 115>>, <<StringArg(Letters3)>>, <<32, 32>> \o Letters3),   \* %5s
  Piece1(<<37, 45, 42, 115>>, <<Pushed(4), StringArg(Letters3)>>, Letters3 \o <<32>>),  \* %-*s
  Piece1(<<37, 42, 46, 42, 115>>, <<Pushed(-3), Pushed(2), StringArg(Letters3)>>,
         <<97, 98, 32>>),                                                 \* %*.*s
  Piece1(<<37, 46, 48, 115>>, <<StringArg(Letters3)>>, <<>>),             \* %.0s
  Piece1(<<37, 115>>, <<NullArg>>, NullText),                             \* %s
  Piece1(<<37, 35, 120>>, <<Pushed(31)>>, <<48, 120, 49, 102>>),          \* %#x
  Piece1(<<37, 46, 42, 115>>, <<Pushed(-1), StringArg(Letters3)>>, <<>>), \* %.*s, not as in ANSI C
  Piece1(<<37, 102>>, <<>>, <<37, 102>>),                                 \* %f, not as in ANSI C
  Piece1(<<37, 122>>, <<>>, <<37, 122>>),                                 \* %z
  [Piece1(<<37, 110>>, <<Pushed(0)>>, <<>>) EXCEPT !.stores = TRUE],      \* %n
  [Piece1(<<37, 104, 110>>, <<Pushed(0)>>, <<>>) EXCEPT !.stores = TRUE], \* %hn, not as in ANSI C
  [Piece1(<<37, 108, 110>>, <<Pushed(0)>>, <<>>) EXCEPT !.stores = TRUE], \* %ln
  [Piece1(<<37>>, <<>>, <<37>>) EXCEPT !.last = TRUE],                    \* % at the end
  [Piece1(<<37, 53>>, <<>>, <<37>>) EXCEPT !.last = TRUE] }               \* %5 at the end
=============================================================================
