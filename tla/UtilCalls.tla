----------------------------- MODULE UtilCalls -----------------------------
(***************************************************************************)
(* A call of any routine of util/, or of the code of the skeletons that is *)
(* built from them.  Only strtok keeps anything between its calls.         *)
(***************************************************************************)
EXTENDS StringCalls, PathCalls

CONSTANTS LongBits, ShortBits, Fields, Pieces   \* as in VsprintfCalls

ASSUME BitsAssumption ==
  /\ LongBits \in Nat \ {0} /\ LONG_MAX = 2^(LongBits - 1) - 1
  /\ ShortBits \in 1..LongBits

Formats == INSTANCE VsprintfCalls

UtilInit ==
  \/ Init
  \/ /\ Formats!Init \/ PathInit
     /\ memory = <<>> /\ next = Nothing /\ begun = <<>> /\ tokens = <<>>

UtilNext ==
  \/ Next
  \/ (Formats!Next \/ PathNext) /\ UNCHANGED strtokVars

UtilSpec == UtilInit /\ [][UtilNext]_vars
-----------------------------------------------------------------------------
(* vsprintf writes numbers that read back, part by part (vsprintf.c:146-   *)
(* 375, see VsprintfCalls).                                                *)
FormatsAsDefined == Formats!FormatsAsDefined
=============================================================================
