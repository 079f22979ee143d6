---------------------------- MODULE SelectorPool ----------------------------
(***************************************************************************)
(* What the clients of DevHlp32_AllocGDTSelector, DevHlp32_FreeGDTSelector *)
(* and fsh32_dovolio may rely on: a call that allocates selectors gives    *)
(* its caller all of them at once or none, nobody else ever gets a         *)
(* selector before its owner gave it back, and a selector disappears from  *)
(* the pool only if the kernel refused to take it back.                    *)
(***************************************************************************)
CONSTANTS Callers, Selectors

VARIABLES
  kept,     \* the selectors each caller owns
  lost      \* those the kernel did not take back

Owned == UNION {kept[c] : c \in Callers}

Init ==
  /\ kept = [c \in Callers |-> {}]
  /\ lost = {}

Take(c, S) ==
  /\ S \subseteq Selectors \ (Owned \cup lost)
  /\ kept' = [kept EXCEPT ![c] = @ \cup S]
  /\ UNCHANGED lost

GiveBack(c, s) ==
  /\ s \in kept[c]
  /\ kept' = [kept EXCEPT ![c] = @ \ {s}]
  /\ UNCHANGED lost

Lose(s) ==
  /\ s \in Selectors \ (Owned \cup lost)
  /\ lost' = lost \cup {s}
  /\ UNCHANGED kept

Next ==
  \/ \E c \in Callers, S \in SUBSET Selectors : Take(c, S)
  \/ \E c \in Callers, s \in Selectors : GiveBack(c, s)
  \/ \E s \in Selectors : Lose(s)

Spec == Init /\ [][Next]_<<kept, lost>>
=============================================================================
