---------------------------- MODULE InitMessages ----------------------------
(***************************************************************************)
(* The init routine of one driver together with the messages it logs: the  *)
(* banner, unless -Q is on the command line, and what the sample base      *)
(* driver says of its IRQ.  The routine waits in DevHlp32_SaveMessage and  *)
(* does not look at what it returns, while interrupts may arrive.          *)
(*                                                                         *)
(* When the kernel cannot map the message, the error exit of               *)
(* DevHlp32_SaveMessage jumps through the wrong segment (SaveMessage), and *)
(* the boot ends there: msg_pc = "wild".                                   *)
(***************************************************************************)
EXTENDS DriverInit

CONSTANTS Selectors, Other      \* as in SaveMessage

VARIABLES
  quiet,       \* is -Q on the command line?
  pending,     \* has the routine come to a message?
  msg_pc,      \* where DevHlp32_SaveMessage is
  ds, es, msg_seg, ax, held, refused, mapped, rc, result     \* as in SaveMessage

Message == INSTANCE SaveMessage WITH pc <- msg_pc

message == <<msg_pc, ds, es, msg_seg, ax, held, refused, mapped, rc, result>>
allVars == <<vars, quiet, pending, message>>

InitAll ==
  /\ Init
  /\ Message!Init
  /\ quiet \in BOOLEAN
  /\ pending = FALSE

(* The next step of the init routine, and whether a message follows it.    *)
Work ==
  /\ ~pending /\ msg_pc = "idle"
  /\ Routine
  /\ pending' = (pc \in {"set_irq", "unset_irq"} \/ (pc' = "answer" /\ ~quiet))
  /\ UNCHANGED <<quiet, message>>

Say ==
  /\ pending
  /\ pending' = FALSE
  /\ Message!call_SaveMessage
  /\ UNCHANGED <<vars, quiet>>

Saving ==
  /\ msg_pc # "idle"
  /\ Message!Next
  /\ UNCHANGED <<vars, quiet, pending>>

Interrupt == drv32_irq /\ UNCHANGED <<quiet, pending, message>>

NextAll == Work \/ Say \/ Saving \/ Interrupt

SpecAll == InitAll /\ [][NextAll]_allVars

(* The boot waits for the routine, and the kernel returns from its         *)
(* services.                                                               *)
FairSpecAll == SpecAll /\ WF_allVars(Work \/ Say \/ Saving)
-----------------------------------------------------------------------------
(* The message that the kernel saves is the one of this call, and no call  *)
(* of DevHlp32_SaveMessage loses a selector, wherever an init routine is   *)
(* and whatever interrupts it.                                             *)
TableNamesMessage == Message!TableNamesMessage
NothingLeftAllocated == Message!NothingLeftAllocated

(* Nothing that happens to a message changes the outcome of the            *)
(* initialisation: each of the four routines goes on as InitContract       *)
(* promises and comes to its answer, unless the error exit of              *)
(* DevHlp32_SaveMessage ran away with the processor.                       *)
ImplementsContract ==
  /\ Contract!Spec
  /\ <>(verdict # "none" \/ msg_pc = "wild")
=============================================================================
