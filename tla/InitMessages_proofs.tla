------------------------- MODULE InitMessages_proofs -------------------------
(***************************************************************************)
(* Theorems about the init routines and the messages they log, for any set *)
(* of drivers and any number of interrupts.  First of a routine alone: the *)
(* invariant ties what has been acquired so far to the place the routine   *)
(* is at.  In front of a call everything before it has succeeded, and once *)
(* the routine returns, the status word says whether all of it did.        *)
(***************************************************************************)
EXTENDS InitMessages, TLAPS

Returning == pc \in {"return", "done"}
Succeeded == Returning /\ ~Failed(status)
AfterLocking == pc \in {"set_import", "get_export", "answer"} \/ Succeeded

(* A DEVICE driver that is dropped after dev32_init had succeeded.         *)
LostAtTheEnd ==
  /\ pc = "done"
  /\ kind = "device"
  /\ status = STERR \cup ERROR_I24_GEN_FAILURE \cup STDON

StatusInv ==
  /\ ~Returning => status = {}
  /\ pc # "done" => verdict = "none"
  /\ pc = "done" => verdict = IF Failed(status) THEN "dropped" ELSE "kept"

SupportInv ==
  (pc \notin {"pre_init", "export"} /\ ~Returning) \/ Succeeded
     => services /\ TKSSBase

LockInv ==
  /\ AfterLocking => locked = Segments
  /\ pc = "lock_code" => "data32" \in locked
  /\ "code32" \in locked => AfterLocking \/ LostAtTheEnd

ReplyInv ==
  /\ Succeeded => reply = "sizes"
  /\ reply = "sizes" => Succeeded

HookInv ==
  /\ irq = "hooked" => services /\ TKSSBase /\ (pc = "unset_irq" \/ irq_refused)
  /\ pc \in {"set_import", "get_export"} => kind = "ses"
  /\ imports => kind = "ses" /\ (pc \in {"get_export", "answer"} \/ Succeeded)

IInv == TypeOK /\ StatusInv /\ SupportInv /\ LockInv /\ ReplyInv /\ HookInv

(* The words that the routines build, and what the kernel reads in them.   *)
LEMMA Words ==
  /\ Failed(STERR \cup ERROR_I24_QUIET_INIT_FAIL)
  /\ Failed(STERR \cup ERROR_I24_GEN_FAILURE)
  /\ ~Failed({})
  /\ \A word : Failed(word \cup STDON) <=> Failed(word)
  /\ {} \cup STERR \cup ERROR_I24_QUIET_INIT_FAIL = STERR \cup ERROR_I24_QUIET_INIT_FAIL
  /\ {} \cup STERR \cup ERROR_I24_GEN_FAILURE = STERR \cup ERROR_I24_GEN_FAILURE
  /\ ErrorCode(STERR \cup ERROR_I24_GEN_FAILURE \cup STDON) = ERROR_I24_GEN_FAILURE
BY DEF Failed, ErrorCode, STERR, STDON, STECODE, ERROR_I24_QUIET_INIT_FAIL,
       ERROR_I24_GEN_FAILURE

(* The type invariant needs no help: every step builds a word of the list. *)
LEMMA TypeStep == TypeOK /\ StatusInv /\ [Next]_vars => TypeOK'
<1> SUFFICES ASSUME TypeOK, StatusInv, [Next]_vars PROVE TypeOK'
  OBVIOUS
<1> USE DEF TypeOK, StatusInv, Returning, Failures, Proceed, Fail, option, support,
            request, hooks, vector
<1>1. CASE mwdd32_pre_init_base \/ device_init \/ drv32_attach \/ sec32_attach
  <2>1. CASE mwdd32_pre_init_base
    BY <1>1, <2>1, Words DEF mwdd32_pre_init_base
  <2>2. CASE device_init
    BY <1>1, <2>2, Words DEF device_init
  <2>3. CASE drv32_attach \/ sec32_attach
    BY <1>1, <2>3, Words DEF drv32_attach, sec32_attach
  <2> QED
    BY <1>1, <2>1, <2>2, <2>3
<1>2. CASE export \/ packet \/ command_line
  BY <1>2, Words DEF export, packet, command_line
<1>3. CASE set_irq \/ unset_irq
  BY <1>3, Words DEF set_irq, unset_irq
<1>4. CASE lock_data \/ lock_code
  BY <1>4, Words DEF lock_data, lock_code, AfterLocks, Segments
<1>5. CASE set_import \/ get_export \/ answer
  BY <1>5, Words DEF set_import, get_export, answer
<1>6. CASE return
  BY <1>6, Words DEF return, Return
<1>7. CASE device_return
  <2>1. UNCHANGED <<kind, irq_ok, services, TKSSBase, locked, irq, irq_refused,
                    irq_count, imports, exports>>
    BY <1>7 DEF device_return
  <2>2. reply' \in {"devhelp", "zero", "sizes"}
    BY <1>7 DEF device_return
  <2>3. pc' = "done" /\ verdict' \in {"none", "kept", "dropped"}
    BY <1>7 DEF device_return, Return
  <2>4. \A word : (word \cup STDON) \cup STDON = word \cup STDON
    OBVIOUS
  <2>5. status' \in {word \cup STDON : word \in {{}} \cup Failures}
    BY <1>7, <2>4 DEF device_return, Return
  <2> QED
    BY <2>1, <2>2, <2>3, <2>5
<1>8. CASE drv32_irq
  BY <1>8, MaxIrqsAssumption DEF drv32_irq
<1>9. CASE UNCHANGED vars
  BY <1>9 DEF vars
<1> QED
  BY <1>1, <1>2, <1>3, <1>4, <1>5, <1>6, <1>7, <1>8, <1>9 DEF Next, Routine

(* LockSegments locks both segments when neither call fails.               *)
LEMMA BothLocks ==
  ASSUME NEW S, S \subseteq Segments, "data32" \in S
  PROVE  S \cup {"code32"} = Segments
<1>1. ASSUME NEW x PROVE x \in S \cup {"code32"} <=> x \in Segments
  BY <1>1 DEF Segments
<1> QED
  BY <1>1

(* One step per call of the routines.                                      *)
LEMMA Inductive == IInv /\ [Next]_vars => IInv'
<1> SUFFICES ASSUME IInv, [Next]_vars PROVE IInv'
  OBVIOUS
<1>0. TypeOK'
  BY TypeStep DEF IInv
<1> USE <1>0, Words
    DEF IInv, StatusInv, SupportInv, LockInv, ReplyInv, HookInv, Returning,
        Succeeded, AfterLocking, LostAtTheEnd, Proceed, Fail, option, support,
        request, hooks, vector, Segments
<1>1. CASE mwdd32_pre_init_base
  BY <1>1 DEF mwdd32_pre_init_base
<1>2. CASE device_init
  BY <1>2 DEF device_init
<1>3. CASE drv32_attach \/ sec32_attach
  BY <1>3 DEF drv32_attach, sec32_attach
<1>4. CASE export
  BY <1>4 DEF export
<1>5. CASE packet
  BY <1>5 DEF packet
<1>6. CASE command_line
  BY <1>6 DEF command_line
<1>7. CASE set_irq \/ unset_irq
  BY <1>7 DEF set_irq, unset_irq
<1>8. CASE lock_data
  BY <1>8 DEF lock_data
<1>9. CASE lock_code
  <2>1. "data32" \in locked /\ locked \subseteq Segments
    BY <1>9 DEF lock_code, TypeOK
  <2>2. locked \cup {"code32"} = Segments
    BY ONLY <2>1, BothLocks
  <2>3. status = {}
    BY <1>9 DEF lock_code
  <2>4. CASE locked' = locked \cup {"code32"} /\ Proceed(AfterLocks)
    BY <1>9, <2>2, <2>3, <2>4 DEF lock_code, AfterLocks
  <2>5. CASE locked' = locked /\ Fail
    BY <1>9, <2>3, <2>5 DEF lock_code
  <2> QED
    BY <1>9, <2>4, <2>5 DEF lock_code
<1>10. CASE set_import \/ get_export
  BY <1>10 DEF set_import, get_export
<1>11. CASE answer
  BY <1>11 DEF answer
<1>12. CASE return
  BY <1>12 DEF return, Return
<1>13. CASE device_return
  BY <1>13 DEF device_return, Return
<1>14. CASE drv32_irq
  BY <1>14 DEF drv32_irq
<1>15. CASE UNCHANGED vars
  BY <1>15 DEF vars
<1> QED
  BY <1>1, <1>2, <1>3, <1>4, <1>5, <1>6, <1>7, <1>8, <1>9, <1>10, <1>11,
     <1>12, <1>13, <1>14, <1>15 DEF Next, Routine

(* The invariant holds in every reachable state.                           *)
LEMMA Invariance == Spec => []IInv
<1>1. Init => IInv
  <2> SUFFICES ASSUME Init PROVE IInv
    OBVIOUS
  <2>1. irq_ok \in BOOLEAN
    BY Zenon DEF Init
  <2>2. irq_count \in 0..MaxIrqs
    BY MaxIrqsAssumption DEF Init
  <2>3. TypeOK
    BY <2>1, <2>2 DEF Init, TypeOK
  <2>4. StatusInv /\ SupportInv /\ LockInv /\ ReplyInv /\ HookInv
    BY DEF Init, StatusInv, SupportInv, LockInv, ReplyInv, HookInv,
           Returning, Succeeded, AfterLocking, LostAtTheEnd
  <2> QED
    BY <2>3, <2>4 DEF IInv
<1> QED
  BY <1>1, Inductive, PTL DEF Spec

(* TypeOK: no routine ever builds a status word outside the list.          *)
THEOREM TypeCorrect == Spec => []TypeOK
<1>1. IInv => TypeOK
  BY DEF IInv
<1> QED
  BY <1>1, Invariance, PTL

(* KeptIsResident: what the kernel keeps is locked, served, sized, and has *)
(* let go of the interrupt vector, unless the kernel refused that.         *)
THEOREM ResidentWhenKept == Spec => []KeptIsResident
<1>1. IInv => KeptIsResident
  BY DEF IInv, TypeOK, StatusInv, SupportInv, LockInv, ReplyInv, HookInv,
         KeptIsResident, AfterLocking, Succeeded, Returning
<1> QED
  BY <1>1, Invariance, PTL

(* DroppedIsForgotten: no callback leads into a driver that the kernel     *)
(* drops, and no interrupt vector but one that it refused to release.      *)
THEOREM ForgottenWhenDropped == Spec => []DroppedIsForgotten
<1>1. IInv => DroppedIsForgotten
  BY Words
  DEF IInv, TypeOK, StatusInv, LockInv, ReplyInv, HookInv, DroppedIsForgotten,
      AfterLocking, Succeeded, Returning, LostAtTheEnd
<1> QED
  BY <1>1, Invariance, PTL

(* CallableIsPrepared: a driver is never called, by interrupt or callback, *)
(* before the services it needs are there.                                 *)
THEOREM PreparedWhenCallable == Spec => []CallableIsPrepared
<1>1. IInv => CallableIsPrepared
  BY DEF IInv, SupportInv, LockInv, HookInv, CallableIsPrepared, AfterLocking,
         Succeeded, Returning
<1> QED
  BY <1>1, Invariance, PTL

(* What InitContract lets the phase of a driver do in one step.            *)
PhaseStep(from, to) ==
  \/ from = to
  \/ from = "new" /\ to = "served"
  \/ from = "served" /\ to = "initialised"
  \/ from = "initialised" /\ to = "accepted"
  \/ from \in {"new", "served", "initialised"} /\ to = "rejected"

(* No call makes the phase of the driver go anywhere else.                 *)
LEMMA PhaseMoves == IInv /\ [Next]_vars => PhaseStep(Phase, Phase')
<1> SUFFICES ASSUME IInv, [Next]_vars PROVE PhaseStep(Phase, Phase')
  OBVIOUS
<1> USE Words
    DEF IInv, StatusInv, SupportInv, Returning, Succeeded, PhaseStep, Phase,
        Proceed, Fail, option, support, request, hooks, vector
<1>1. CASE mwdd32_pre_init_base \/ device_init \/ drv32_attach \/ sec32_attach
  BY <1>1 DEF mwdd32_pre_init_base, device_init, drv32_attach, sec32_attach
<1>2. CASE export \/ packet \/ command_line
  BY <1>2 DEF export, packet, command_line
<1>3. CASE set_irq \/ unset_irq \/ lock_data \/ lock_code
  BY <1>3 DEF set_irq, unset_irq, lock_data, lock_code, AfterLocks
<1>4. CASE set_import \/ get_export \/ answer
  BY <1>4 DEF set_import, get_export, answer
<1>5. CASE return
  BY <1>5 DEF return, Return
<1>6. CASE device_return
  BY <1>6 DEF device_return, Return
<1>7. CASE drv32_irq
  BY <1>7 DEF drv32_irq
<1>8. CASE UNCHANGED vars
  BY <1>8 DEF vars
<1> QED
  BY <1>1, <1>2, <1>3, <1>4, <1>5, <1>6, <1>7, <1>8 DEF Next, Routine

(* The contract of initialisation, but for its fairness: each routine is   *)
(* served before it works, and accepted only after it succeeded.           *)
THEOREM ContractKept == Spec => Contract!Spec
<1>1. Init => Contract!Init
  BY Words DEF Init, Contract!Init, Phase
<1>2. IInv /\ [Next]_vars
        => [Contract!Next]_([c \in {"driver"} |-> Phase])
  <2> SUFFICES ASSUME IInv, [Next]_vars
               PROVE  [Contract!Next]_([c \in {"driver"} |-> Phase])
    OBVIOUS
  <2> DEFINE phase == [c \in {"driver"} |-> Phase]
  <2>1. PhaseStep(Phase, Phase')
    BY PhaseMoves
  <2>2. phase' = [phase EXCEPT !["driver"] = Phase'] /\ phase["driver"] = Phase
    OBVIOUS
  <2>3. CASE Phase = Phase'
    BY <2>2, <2>3
  <2>4. CASE Phase = "new" /\ Phase' = "served"
    BY <2>2, <2>4 DEF Contract!Next, Contract!Serve, Contract!Move
  <2>5. CASE Phase = "served" /\ Phase' = "initialised"
    BY <2>2, <2>5 DEF Contract!Next, Contract!RunInit, Contract!Move
  <2>6. CASE Phase = "initialised" /\ Phase' = "accepted"
    BY <2>2, <2>6 DEF Contract!Next, Contract!Accept, Contract!Move
  <2>7. CASE Phase \in {"new", "served", "initialised"} /\ Phase' = "rejected"
    BY <2>2, <2>7
    DEF Contract!Next, Contract!Reject, Contract!Move, Contract!Phases,
        Contract!Final
  <2> QED
    BY <2>1, <2>3, <2>4, <2>5, <2>6, <2>7 DEF PhaseStep
<1> QED
  BY <1>1, <1>2, Invariance, PTL DEF Spec, Contract!Spec
-----------------------------------------------------------------------------
(* The routine and its messages.  What is proved of an init routine alone  *)
(* and of DevHlp32_SaveMessage alone holds of the two together: every step *)
(* of the composition is a step of each or leaves it alone.                *)

(* A step of the composition is one of the init routine, or leaves it.     *)
LEMMA InitRefined == SpecAll => Spec
<1>1. InitAll => Init
  BY DEF InitAll
<1>2. [NextAll]_allVars => [Next]_vars
  <2> SUFFICES ASSUME [NextAll]_allVars PROVE [Next]_vars
    OBVIOUS
  <2>1. CASE Work
    BY <2>1 DEF Work, Next
  <2>2. CASE Say
    BY <2>2 DEF Say
  <2>3. CASE Saving
    BY <2>3 DEF Saving
  <2>4. CASE Interrupt
    BY <2>4 DEF Interrupt, Next
  <2>5. CASE UNCHANGED allVars
    BY <2>5 DEF allVars
  <2> QED
    BY <2>1, <2>2, <2>3, <2>4, <2>5 DEF NextAll
<1> QED
  BY <1>1, <1>2, PTL DEF SpecAll, Spec

(* The routine holds one selector that it may still give back, and it is   *)
(* the one in the table.                                                   *)
HoldsOne ==
  /\ msg_seg \in Selectors \ refused
  /\ held = refused \cup {msg_seg}

(* What the segments address and which selectors are held at each step.    *)
(* The error exit is entered with the segments exchanged or not.           *)
StepInv ==
  /\ msg_pc = "idle" => ds = "FLAT" /\ es = "FLAT" /\ held = refused
  /\ msg_pc = "alloc" => ds = "FLAT" /\ es = "DATA16" /\ held = refused
  /\ msg_pc = "map" => ds = "FLAT" /\ es = "DATA16" /\ HoldsOne
  /\ msg_pc = "save" => ds = "DATA16" /\ es = "FLAT" /\ HoldsOne /\ mapped = {msg_seg}
  /\ msg_pc = "error_2" => HoldsOne /\ (ds = "DATA16" <=> es = "FLAT")
  /\ msg_pc = "free" => HoldsOne /\ (ds = "FLAT" => es = "FLAT" /\ ax = msg_seg)

SaveInv == Message!TypeOK /\ StepInv

(* It holds before the first message.                                      *)
LEMMA SaveInvInit == Message!Init => SaveInv
BY DEF Message!Init, SaveInv, Message!TypeOK, StepInv, Message!Segments, Message!Codes

(* Every step of DevHlp32_SaveMessage keeps it.                            *)
LEMMA SaveInvNext == SaveInv /\ (Message!Next \/ UNCHANGED message) => SaveInv'
<1> SUFFICES ASSUME SaveInv, Message!Next \/ UNCHANGED message PROVE SaveInv'
  OBVIOUS
<1> USE DEF SaveInv, Message!TypeOK, StepInv, HoldsOne, Message!Segments, Message!Codes,
    Message!Goto, Message!registers
<1>1. CASE Message!call_SaveMessage
  BY <1>1 DEF Message!call_SaveMessage
<1>2. CASE Message!alloc
  <2>1. CASE \E s \in Selectors \ held :
                 held' = held \cup {s} /\ msg_seg' = s /\ Message!Goto("map")
                 /\ UNCHANGED <<Message!registers, result>>
    BY <1>2, <2>1 DEF Message!alloc
  <2>2. CASE Message!Leave("error") /\ UNCHANGED <<held, msg_seg>>
    BY <1>2, <2>2 DEF Message!alloc, Message!Leave
  <2> QED
    BY <1>2, <2>1, <2>2 DEF Message!alloc
<1>3. CASE Message!map
  BY <1>3 DEF Message!map
<1>4. CASE Message!save
  BY <1>4 DEF Message!save
<1>5. CASE Message!error_2
  BY <1>5 DEF Message!error_2
<1>6. CASE Message!free
  <2>1. CASE held' = held \ {ax} /\ Message!Leave(rc) /\ UNCHANGED refused
    BY <1>6, <2>1 DEF Message!free, Message!Leave
  <2>2. CASE refused' = refused \cup {ax} /\ Message!Leave("error") /\ UNCHANGED held
    BY <1>6, <2>2 DEF Message!free, Message!Leave
  <2> QED
    BY <1>6, <2>1, <2>2 DEF Message!free
<1>7. CASE Message!jump_wild
  BY <1>7 DEF Message!jump_wild
<1>8. CASE UNCHANGED message
  BY <1>8 DEF message
<1> QED
  BY <1>1, <1>2, <1>3, <1>4, <1>5, <1>6, <1>7, <1>8 DEF Message!Next

(* So it holds throughout, for any selectors, whatever routine logs the    *)
(* messages and whatever interrupts it.                                    *)
THEOREM SegmentsFollowed == SpecAll => []SaveInv
<1>1. InitAll => SaveInv
  BY SaveInvInit DEF InitAll
<1>2. SaveInv /\ [NextAll]_allVars => SaveInv'
  <2> SUFFICES ASSUME SaveInv, [NextAll]_allVars PROVE SaveInv'
    OBVIOUS
  <2>1. Message!Next \/ UNCHANGED message
    BY DEF NextAll, Work, Say, Saving, Interrupt, allVars, Message!Next
  <2> QED
    BY <2>1, SaveInvNext
<1> QED
  BY <1>1, <1>2, PTL DEF SpecAll

(* To DevHlp32_SaveMessage an init routine is a caller like any other.     *)
THEOREM MessagesRefined == SpecAll => Message!Spec
<1>1. InitAll => Message!Init
  BY DEF InitAll
<1>2. [NextAll]_allVars => [Message!Next]_(Message!vars)
  BY DEF NextAll, Work, Say, Saving, Interrupt, allVars, message, Message!Next, Message!vars
<1> QED
  BY <1>1, <1>2, PTL DEF SpecAll, Message!Spec

(* However it is interrupted by messages, a driver that the kernel keeps   *)
(* is resident, and holds no vector that it could have released.           *)
THEOREM ResidentDespiteMessages == SpecAll => []KeptIsResident
BY InitRefined, ResidentWhenKept

(* A driver that the kernel drops after any messages is registered with    *)
(* nobody, a vector that the kernel refused to release apart.              *)
THEOREM ForgottenDespiteMessages == SpecAll => []DroppedIsForgotten
BY InitRefined, ForgottenWhenDropped

(* Nothing can be called too early, while a message is saved either.       *)
THEOREM PreparedDespiteMessages == SpecAll => []CallableIsPrepared
BY InitRefined, PreparedWhenCallable

(* The contract of initialisation, its liveness apart, is kept with any    *)
(* messages.                                                               *)
THEOREM ContractDespiteMessages == SpecAll => Contract!Spec
BY InitRefined, ContractKept

(* The kernel saves the message of the call, through this call's selector, *)
(* whatever routine logs it.                                               *)
THEOREM InitMessagesNamed == SpecAll => []TableNamesMessage
<1>1. SaveInv => TableNamesMessage
  BY DEF SaveInv, StepInv, HoldsOne, TableNamesMessage, Message!TableNamesMessage
<1> QED
  BY <1>1, SegmentsFollowed, PTL

(* Every path on which the kernel can be reached gives its selector back:  *)
(* no call made by an init routine loses one.                              *)
THEOREM InitLosesNothing == SpecAll => []NothingLeftAllocated
<1>1. SaveInv => NothingLeftAllocated
  BY DEF SaveInv, StepInv, HoldsOne, NothingLeftAllocated, Message!NothingLeftAllocated
<1> QED
  BY <1>1, SegmentsFollowed, PTL
=============================================================================
