---------------------------- MODULE GdtSelectors ----------------------------
(***************************************************************************)
(* The routines that allocate GDT selectors at run time:                   *)
(*                                                                         *)
(*   DevHlp32_AllocGDTSelector   a loop over AllocOneGDTSelector, which    *)
(*                               gives back what it got if one call fails  *)
(*   DevHlp32_FreeGDTSelector    one DevHelp call                          *)
(*   fsh32_dovolio               allocates a selector, maps the caller's   *)
(*                               buffer to it, does the I/O through it and *)
(*                               frees it                                  *)
(*                                                                         *)
(* The pool belongs to the kernel and is shared by all threads; every      *)
(* DevHelp call may fail, and FSH_DOVOLIO blocks, so that other threads    *)
(* run between any two steps.                                              *)
(*                                                                         *)
(* As in Mwdd32, a definition with a suffix (rollback_ToFirst) is a faulty *)
(* variant that only serves to show that the properties can fail.          *)
(***************************************************************************)
EXTENDS Naturals, FiniteSets

CONSTANTS
  Callers,      \* threads
  Selectors,    \* the selectors of the GDT that drivers may allocate
  MaxCount      \* the most selectors a caller asks for in one call

ASSUME SelectorsAssumption == IsFiniteSet(Selectors)
ASSUME MaxCountAssumption == MaxCount \in Nat

VARIABLES
  free,     \* selectors in the kernel's pool
  lost,     \* selectors whose DevHlp_FreeGDTSelector failed after an error
  pc,       \* the step caller c is at
  count,    \* what caller c asked for
  got,      \* psel[0..i-1] of its call, or the sel of fsh32_dovolio
  kept,     \* selectors caller c owns since a call returned them
  maps,     \* whose buffer a selector addresses, if it was ever made to
  rc,       \* return code of the call of c that runs or returned last
  io,       \* what FSH_DOVOLIO did in that call
  pcSec     \* has its *pcSec been updated?

vars == <<free, lost, pc, count, got, kept, maps, rc, io, pcSec>>
dovolio == <<maps, io, pcSec>>

AllocSteps == {"alloc", "rollback"}
DovolioSteps == {"dv_alloc", "dv_map", "dv_io", "dv_free"}
Codes == {"none", "no_error", "error"}

Init ==
  /\ free = Selectors
  /\ lost = {}
  /\ pc = [c \in Callers |-> "idle"]
  /\ count = [c \in Callers |-> 0]
  /\ got = [c \in Callers |-> {}]
  /\ kept = [c \in Callers |-> {}]
  /\ maps = [s \in Selectors |-> {}]
  /\ rc = [c \in Callers |-> "none"]
  /\ io = [c \in Callers |-> "none"]
  /\ pcSec = [c \in Callers |-> FALSE]

Goto(c, step) == pc' = [pc EXCEPT ![c] = step]
Code(c, code) == rc' = [rc EXCEPT ![c] = code]
-----------------------------------------------------------------------------
(* DevHlp32_AllocGDTSelector: no property tells the slots of the caller's  *)
(* array apart, so it is the set of its first i entries.                   *)
call_AllocGDTSelector(c, n) ==
  /\ pc[c] = "idle"
  /\ Goto(c, "alloc")
  /\ Code(c, "no_error")
  /\ count' = [count EXCEPT ![c] = n]
  /\ UNCHANGED <<free, lost, got, kept, dovolio>>

(* DevHlp32_AllocOneGDTSelector and the body of the loop.                  *)
AllocOneGDTSelector(c) ==
  /\ pc[c] = "alloc"
  /\ Cardinality(got[c]) < count[c]
  /\ \/ \E s \in free :
          /\ free' = free \ {s}
          /\ got' = [got EXCEPT ![c] = @ \cup {s}]
          /\ UNCHANGED <<pc, rc>>
     \/ /\ Goto(c, "rollback")
        /\ Code(c, "error")
        /\ UNCHANGED <<free, got>>
  /\ UNCHANGED <<lost, count, kept, dovolio>>

(* The loop ends with i = count: the selectors are the caller's.           *)
return_AllocGDTSelector_RollsBack(c) ==
  /\ pc[c] = "alloc"
  /\ Cardinality(got[c]) >= count[c]
  /\ Goto(c, "idle")
  /\ kept' = [kept EXCEPT ![c] = @ \cup got[c]]
  /\ got' = [got EXCEPT ![c] = {}]
  /\ free' = free \cup got[c]
  /\ UNCHANGED <<lost, count, rc, dovolio>>

return_AllocGDTSelector(c) ==
  /\ pc[c] = "alloc"
  /\ Cardinality(got[c]) >= count[c]
  /\ Goto(c, "idle")
  /\ kept' = [kept EXCEPT ![c] = @ \cup got[c]]
  /\ got' = [got EXCEPT ![c] = {}]
  /\ UNCHANGED <<free, lost, count, rc, dovolio>>

(* while (i) DevHlp32_FreeGDTSelector(psel[--i]), whose return code nobody *)
(* looks at.                                                               *)
rollback_ToFirst(c) ==
  /\ pc[c] = "rollback"
  /\ \/ /\ Cardinality(got[c]) > 1
        /\ \E s \in got[c] :
             /\ got' = [got EXCEPT ![c] = @ \ {s}]
             /\ free' = free \cup {s}
        /\ UNCHANGED pc
     \/ /\ Cardinality(got[c]) <= 1
        /\ Goto(c, "idle")
        /\ got' = [got EXCEPT ![c] = {}]
        /\ UNCHANGED free
  /\ UNCHANGED <<lost, count, kept, rc, dovolio>>

rollback_KeepsWhatItGot(c) ==
  /\ pc[c] = "rollback"
  /\ Goto(c, "idle")
  /\ kept' = [kept EXCEPT ![c] = @ \cup got[c]]
  /\ got' = [got EXCEPT ![c] = {}]
  /\ UNCHANGED <<free, lost, count, rc, dovolio>>

rollback_Restart(c) ==
  /\ pc[c] = "rollback"
  /\ \/ \E s \in got[c] :
          /\ got' = [got EXCEPT ![c] = @ \ {s}]
          /\ free' = free \cup {s}
          /\ UNCHANGED <<pc, rc>>
     \/ /\ got[c] = {}
        /\ Goto(c, "alloc")
        /\ Code(c, "no_error")
        /\ UNCHANGED <<got, free>>
  /\ UNCHANGED <<lost, count, kept, dovolio>>

rollback(c) ==
  /\ pc[c] = "rollback"
  /\ \/ \E s \in got[c] :
          /\ got' = [got EXCEPT ![c] = @ \ {s}]
          /\ \/ free' = free \cup {s} /\ UNCHANGED lost
             \/ lost' = lost \cup {s} /\ UNCHANGED free
          /\ UNCHANGED pc
     \/ /\ got[c] = {}
        /\ Goto(c, "idle")
        /\ UNCHANGED <<got, free, lost>>
  /\ UNCHANGED <<count, kept, rc, dovolio>>

(* DevHlp32_FreeGDTSelector of a selector the caller owns.  A caller that  *)
(* is told of an error still owns it.                                      *)
FreeGDTSelector(c, s) ==
  /\ pc[c] = "idle"
  /\ s \in kept[c]
  /\ \/ /\ kept' = [kept EXCEPT ![c] = @ \ {s}]
        /\ free' = free \cup {s}
        /\ Code(c, "no_error")
     \/ /\ UNCHANGED <<kept, free>>
        /\ Code(c, "error")
  /\ UNCHANGED <<lost, pc, count, got, dovolio>>
-----------------------------------------------------------------------------
(* fsh32_dovolio, one action per call of the kernel.                       *)

call_dovolio(c) ==
  /\ pc[c] = "idle"
  /\ Goto(c, "dv_alloc")
  /\ Code(c, "no_error")
  /\ io' = [io EXCEPT ![c] = "none"]
  /\ pcSec' = [pcSec EXCEPT ![c] = FALSE]
  /\ UNCHANGED <<free, lost, count, got, kept, maps>>

dovolio_alloc(c) ==
  /\ pc[c] = "dv_alloc"
  /\ \/ \E s \in free :
          /\ free' = free \ {s}
          /\ got' = [got EXCEPT ![c] = {s}]
          /\ Goto(c, "dv_map")
          /\ UNCHANGED rc
     \/ /\ Goto(c, "idle")
        /\ Code(c, "error")
        /\ UNCHANGED <<free, got>>
  /\ UNCHANGED <<lost, count, kept, dovolio>>

(* DevHlp_LinToGDTSelector: after an error the I/O is skipped, but not the *)
(* release of the selector.                                                *)
dovolio_map_Ignored(c) ==
  /\ pc[c] = "dv_map"
  /\ Goto(c, "dv_io")
  /\ \E s \in got[c] : maps' \in {maps, [maps EXCEPT ![s] = {c}]}
  /\ UNCHANGED <<free, lost, count, got, kept, rc, io, pcSec>>

dovolio_map(c) ==
  /\ pc[c] = "dv_map"
  /\ \/ /\ \E s \in got[c] : maps' = [maps EXCEPT ![s] = {c}]
        /\ Goto(c, "dv_io")
        /\ UNCHANGED rc
     \/ /\ Goto(c, "dv_free")
        /\ Code(c, "error")
        /\ UNCHANGED maps
  /\ UNCHANGED <<free, lost, count, got, kept, io, pcSec>>

dovolio_io(c) ==
  /\ pc[c] = "dv_io"
  /\ Goto(c, "dv_free")
  /\ \E code \in {"no_error", "error"} :
       /\ io' = [io EXCEPT ![c] = code]
       /\ Code(c, code)
  /\ UNCHANGED <<free, lost, count, got, kept, maps, pcSec>>

(* An error of DevHlp_FreeGDTSelector takes the place of the return code;  *)
(* *pcSec is written only if nothing failed.                               *)
dovolio_free_LastCode(c) ==
  /\ pc[c] = "dv_free"
  /\ Goto(c, "idle")
  /\ got' = [got EXCEPT ![c] = {}]
  /\ \/ /\ free' = free \cup got[c]
        /\ Code(c, "no_error")
        /\ pcSec' = [pcSec EXCEPT ![c] = TRUE]
        /\ UNCHANGED lost
     \/ /\ lost' = lost \cup got[c]
        /\ Code(c, "error")
        /\ UNCHANGED <<free, pcSec>>
  /\ UNCHANGED <<count, kept, maps, io>>

dovolio_free(c) ==
  /\ pc[c] = "dv_free"
  /\ Goto(c, "idle")
  /\ got' = [got EXCEPT ![c] = {}]
  /\ \/ /\ free' = free \cup got[c]
        /\ pcSec' = [pcSec EXCEPT ![c] = (rc[c] = "no_error")]
        /\ UNCHANGED <<lost, rc>>
     \/ /\ lost' = lost \cup got[c]
        /\ Code(c, "error")
        /\ UNCHANGED <<free, pcSec>>
  /\ UNCHANGED <<count, kept, maps, io>>
-----------------------------------------------------------------------------
Running(c) ==
  \/ AllocOneGDTSelector(c) \/ return_AllocGDTSelector(c) \/ rollback(c)
  \/ dovolio_alloc(c) \/ dovolio_map(c) \/ dovolio_io(c) \/ dovolio_free(c)

Next ==
  \E c \in Callers :
    \/ \E n \in 0..MaxCount : call_AllocGDTSelector(c, n)
    \/ \E s \in Selectors : FreeGDTSelector(c, s)
    \/ call_dovolio(c)
    \/ Running(c)

Spec == Init /\ [][Next]_vars

(* Every kernel call returns.                                              *)
FairSpec == Spec /\ \A c \in Callers : WF_vars(Running(c))
-----------------------------------------------------------------------------
TypeOK ==
  /\ free \subseteq Selectors
  /\ lost \subseteq Selectors
  /\ pc \in [Callers -> {"idle"} \cup AllocSteps \cup DovolioSteps]
  /\ count \in [Callers -> 0..MaxCount]
  /\ got \in [Callers -> SUBSET Selectors]
  /\ kept \in [Callers -> SUBSET Selectors]
  /\ maps \in [Selectors -> SUBSET Callers]
  /\ rc \in [Callers -> Codes]
  /\ io \in [Callers -> Codes]
  /\ pcSec \in [Callers -> BOOLEAN]

(* No selector has two owners and none vanishes: each one is in the pool,  *)
(* or belongs to exactly one caller, as a selector that it owns or as one  *)
(* its running call holds, or was lost in a DevHlp_FreeGDTSelector that    *)
(* failed on an error path.  Between calls a caller holds only what it     *)
(* owns.                                                                   *)
Holds(c) == got[c] \cup kept[c]

EveryoneHasTheirOwn ==
  /\ \A c \in Callers : got[c] \cap kept[c] = {}
  /\ \A c, d \in Callers : c # d => Holds(c) \cap Holds(d) = {}
  /\ \A c \in Callers : Holds(c) \cap (free \cup lost) = {}
  /\ free \cap lost = {}
  /\ Selectors = free \cup lost \cup UNION {Holds(c) : c \in Callers}
  /\ \A c \in Callers : pc[c] = "idle" => got[c] = {}

(* While FSH_DOVOLIO runs, the selector of its transfer address still      *)
(* addresses the buffer of its caller, whatever the other threads do in    *)
(* the meantime.                                                           *)
TransfersOwnBuffer ==
  \A c \in Callers :
    pc[c] = "dv_io" => \A s \in got[c] : maps[s] = {c}

(* fsh32_dovolio updates *pcSec only after the kernel did the I/O without  *)
(* an error, and an error of the I/O is not masked by the release of the   *)
(* selector that follows it.                                               *)
SectorsCountedOnSuccess ==
  \A c \in Callers :
    /\ pcSec[c] => io[c] = "no_error"
    /\ pc[c] \in DovolioSteps => ~pcSec[c]
    /\ pc[c] = "dv_free" /\ io[c] = "error" => rc[c] = "error"

(* A call of DevHlp32_AllocGDTSelector that returns NO_ERROR has given its *)
(* caller as many selectors as it asked for, one that fails none; and a    *)
(* selector leaves a caller only when the caller frees it.                 *)
AllOrNothingStep ==
  \A c \in Callers :
    /\ pc[c] \in AllocSteps /\ pc'[c] = "idle" =>
         Cardinality(kept'[c]) =
           Cardinality(kept[c]) + (IF rc'[c] = "no_error" THEN count[c] ELSE 0)
    /\ kept[c] \subseteq kept'[c] \/ pc[c] = "idle"

AllOrNothing == [][AllOrNothingStep]_vars

(* Every call returns.                                                     *)
CallsReturn == \A c \in Callers : pc[c] # "idle" ~> pc[c] = "idle"

Pool == INSTANCE SelectorPool

(* To a client both routines look like one step that gives all selectors   *)
(* or none (DevHlp32_AllocGDTSelector: "In case of error we should free    *)
(* successfuly allocated GDT selectors").                                  *)
ImplementsPool == Pool!Spec
=============================================================================
