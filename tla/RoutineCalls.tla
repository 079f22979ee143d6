---------------------------- MODULE RoutineCalls ----------------------------
(***************************************************************************)
(* A call of a routine of util/ or of the skeletons, and its answer.       *)
(***************************************************************************)

VARIABLES
  call,    \* the function that is called and its arguments
  answer   \* <<>> before the call, <<what it returns>> after it

callVars == <<call, answer>>

Answered(fn) == call.fn = fn /\ answer # <<>>
=============================================================================
