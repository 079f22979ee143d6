------------------------------ MODULE DriverInit ------------------------------
(***************************************************************************)
(* The 32 bits init routine of one driver, from the kernel's INIT packet   *)
(* to the status the kernel reads: mwdd32_init_base, drv32_init_base,      *)
(* sec32_init_base and dev32_init.  They share their shape (pointers to    *)
(* FLAT, command line, LockSegments, answer) and differ in how they come   *)
(* by the DevHelp services and in what they do before and after the locks. *)
(* InitProtocol shows the way of several drivers through mwdd32.sys; here  *)
(* that way is one step and the rest of the init routine is many.          *)
(*                                                                         *)
(* Messages (DevHlp32_SaveMessage, option -Q) are added in InitMessages.   *)
(* Names with a suffix (lock_code_Ignored) are mutations, as in Mwdd32.    *)
(***************************************************************************)
EXTENDS Reqpkt

CONSTANTS
  Kinds,     \* the drivers considered
  MaxIrqs    \* bound on the interrupts that arrive

ASSUME KindsAssumption == Kinds \subseteq {"mwdd32", "basedev", "ses", "device"}
ASSUME MaxIrqsAssumption == MaxIrqs \in Nat

VARIABLES
  kind,        \* which init routine runs
  irq_ok,      \* is IRQ_LEVEL: on the command line?
  pc,          \* the next call of it
  services,    \* may DevHlp32_* be called?
  TKSSBase,    \* may __StackToFlat be called?
  reply,       \* the union of the INIT packet: "devhelp", "zero", "sizes"
  locked,      \* its segments that are locked in memory
  irq,         \* the interrupt vector: "free", "hooked"
  irq_refused, \* history: has the kernel refused to release the vector?
  irq_count,   \* interrupts that drv32_irq has served
  imports,     \* has the kernel taken the driver's security callbacks?
  exports,     \* has the kernel filled in SecurityExports?
  status,      \* the status word built so far
  verdict      \* of the kernel: "none", "kept", "dropped"

vars == <<kind, irq_ok, pc, services, TKSSBase, reply, locked, irq, irq_refused,
          irq_count, imports, exports, status, verdict>>
request == <<reply, status, verdict>>
support == <<services, TKSSBase>>
vector == <<irq, irq_refused>>
hooks == <<irq, irq_refused, irq_count, imports, exports>>
option == <<kind, irq_ok>>

Segments == {"data32", "code32"}

(* Only the sample base driver knows the IRQ_LEVEL option.                 *)
Init ==
  /\ kind \in Kinds
  /\ irq_ok \in {FALSE, kind = "basedev"}
  /\ pc = "pre_init"
  /\ services = FALSE
  /\ TKSSBase = FALSE
  /\ reply = "devhelp"
  /\ locked = {}
  /\ irq = "free"
  /\ irq_refused = FALSE
  /\ irq_count = 0
  /\ imports = FALSE
  /\ exports = FALSE
  /\ status = {}
  /\ verdict = "none"

(* status |= STERR + ERROR_I24_QUIET_INIT_FAIL, the same in every branch.  *)
Fail ==
  /\ pc' = "return"
  /\ status' = status \cup STERR \cup ERROR_I24_QUIET_INIT_FAIL
  /\ UNCHANGED verdict

Proceed(to) == pc' = to /\ UNCHANGED <<status, verdict>>
-----------------------------------------------------------------------------
(* mwdd32.sys serves itself: the entry point of the packet is DevHelp2,    *)
(* and GetDOSVar leads to the table that holds TKSSBase.                   *)
mwdd32_pre_init_base ==
  /\ pc = "pre_init"
  /\ kind = "mwdd32"
  /\ services' = TRUE
  /\ \/ TKSSBase' = TRUE /\ Proceed("packet")
     \/ TKSSBase' = TKSSBase /\ Fail
  /\ UNCHANGED <<option, reply, locked, hooks>>

(* device_init opens mwdd32$ and sends it the ioctl of Mwdd32, in the      *)
(* middle of which dev32_init is called.                                   *)
device_init ==
  /\ pc = "pre_init"
  /\ kind = "device"
  /\ \/ /\ services' = TRUE
        /\ TKSSBase' = TRUE
        /\ Proceed("packet")
     \/ /\ services' = services
        /\ TKSSBase' \in {TKSSBase, TRUE}
        /\ pc' = "return"
        /\ status' = status \cup STERR \cup ERROR_I24_GEN_FAILURE
        /\ UNCHANGED verdict
  /\ UNCHANGED <<option, reply, locked, hooks>>

(* A base driver attaches to mwdd32$, which may not have been loaded.      *)
drv32_attach ==
  /\ pc = "pre_init"
  /\ kind = "basedev"
  /\ Proceed("export") \/ Fail
  /\ UNCHANGED <<option, support, reply, locked, hooks>>

sec32_attach ==
  /\ pc = "pre_init"
  /\ kind = "ses"
  /\ reply' = "zero"
  /\ Proceed("export") \/ Fail
  /\ UNCHANGED <<option, support, locked, hooks>>

(* The IDC call, described in Mwdd32: TKSSBase is set even when the        *)
(* version of the client's DevHelp32 is refused.                           *)
export_Ignored ==
  /\ pc = "export"
  /\ TKSSBase' = TRUE
  /\ services' \in BOOLEAN
  /\ Proceed("packet")
  /\ UNCHANGED <<option, reply, locked, hooks>>

export ==
  /\ pc = "export"
  /\ TKSSBase' = TRUE
  /\ \/ services' = TRUE /\ Proceed("packet")
     \/ services' = services /\ Fail
  /\ UNCHANGED <<option, reply, locked, hooks>>

(* VirtToLin of the packet; drv32_init_base then clears its answer.        *)
packet ==
  /\ pc = "packet"
  /\ \/ /\ Proceed("command_line")
        /\ reply' = IF kind = "basedev" THEN "zero" ELSE reply
     \/ /\ Fail
        /\ UNCHANGED reply
  /\ UNCHANGED <<option, support, locked, hooks>>

(* VirtToLin of the init arguments and of the command line.                *)
command_line ==
  /\ pc = "command_line"
  /\ Proceed(IF irq_ok THEN "set_irq" ELSE "lock_data") \/ Fail
  /\ UNCHANGED <<option, support, reply, locked, hooks>>

(* The vector may be in use, which drv32_init_base only reports.           *)
set_irq ==
  /\ pc = "set_irq"
  /\ \/ irq' = "hooked" /\ Proceed("unset_irq")
     \/ irq' = irq /\ Proceed("lock_data")
  /\ UNCHANGED <<option, support, reply, locked, irq_refused, irq_count, imports, exports>>

unset_irq_Missing ==
  /\ pc = "unset_irq"
  /\ Proceed("lock_data")
  /\ UNCHANGED <<option, support, reply, locked, hooks>>

(* The kernel may refuse.  DevHlp32_UnSetIRQ clears EAX without a look at  *)
(* the carry flag, so that the routine goes on as if the vector were free, *)
(* and its branch for a release that fails is never taken.                 *)
unset_irq ==
  /\ pc = "unset_irq"
  /\ \/ irq' = "free" /\ irq_refused' = irq_refused
     \/ irq' = irq /\ irq_refused' = TRUE
  /\ Proceed("lock_data")
  /\ UNCHANGED <<option, support, reply, locked, irq_count, imports, exports>>

(* drv32_stub_IRQ and drv32_irq, which sends an EOI through DevHelp32.     *)
(* What an interrupt meets in the memory of a dropped driver is anything.  *)
drv32_irq ==
  /\ irq = "hooked"
  /\ verdict # "dropped"
  /\ irq_count < MaxIrqs
  /\ irq_count' = irq_count + 1
  /\ UNCHANGED <<option, pc, support, request, locked, vector, imports, exports>>

(* LockSegments: DGROUP first, then CODE32; a failure undoes nothing.      *)
lock_data ==
  /\ pc = "lock_data"
  /\ \/ locked' = locked \cup {"data32"} /\ Proceed("lock_code")
     \/ locked' = locked /\ Fail
  /\ UNCHANGED <<option, support, reply, hooks>>

AfterLocks == IF kind = "ses" THEN "set_import" ELSE "answer"

lock_code_Ignored ==
  /\ pc = "lock_code"
  /\ locked' \in {locked, locked \cup {"code32"}}
  /\ Proceed(AfterLocks)
  /\ UNCHANGED <<option, support, reply, hooks>>

lock_code ==
  /\ pc = "lock_code"
  /\ \/ locked' = locked \cup {"code32"} /\ Proceed(AfterLocks)
     \/ locked' = locked /\ Fail
  /\ UNCHANGED <<option, support, reply, hooks>>

(* DevHlp32_Security returns NO_ERROR whatever the kernel answers, so the  *)
(* two error branches of sec32_init_base are never taken.                  *)
set_import ==
  /\ pc = "set_import"
  /\ imports' \in BOOLEAN
  /\ Proceed("get_export")
  /\ UNCHANGED <<option, support, reply, locked, vector, irq_count, exports>>

get_export ==
  /\ pc = "get_export"
  /\ exports' \in BOOLEAN
  /\ Proceed("answer")
  /\ UNCHANGED <<option, support, reply, locked, vector, irq_count, imports>>

(* codeend and dataend overwrite the DevHelp entry point of the packet.    *)
answer ==
  /\ pc = "answer"
  /\ reply' = "sizes"
  /\ Proceed("return")
  /\ UNCHANGED <<option, support, locked, hooks>>

(* return (status | STDON): the kernel keeps a driver without STERR.       *)
Return_AnyStatus(word) ==
  /\ pc' = "done"
  /\ status' = word \cup STDON
  /\ verdict' = "kept"

Return(word) ==
  /\ pc' = "done"
  /\ status' = word \cup STDON
  /\ verdict' = IF Failed(word) THEN "dropped" ELSE "kept"

return ==
  /\ pc = "return"
  /\ kind # "device"
  /\ Return(status)
  /\ UNCHANGED <<option, support, reply, locked, hooks>>

(* After dev32_init, the ioctl may still fail at an unlock, and the close  *)
(* may fail: device_init then has a status of its own.  The 16 bits stub   *)
(* clears the answer of a failed init.                                     *)
device_return ==
  /\ pc = "return"
  /\ kind = "device"
  /\ \/ Return(status)
     \/ Return(STERR \cup ERROR_I24_GEN_FAILURE)
  /\ reply' = IF Failed(status') THEN "zero" ELSE reply
  /\ UNCHANGED <<option, support, locked, hooks>>

Routine ==
  \/ mwdd32_pre_init_base \/ device_init \/ drv32_attach \/ sec32_attach
  \/ export \/ packet \/ command_line \/ set_irq \/ unset_irq \/ lock_data
  \/ lock_code \/ set_import \/ get_export \/ answer \/ return
  \/ device_return

Next == Routine \/ drv32_irq

Spec == Init /\ [][Next]_vars
-----------------------------------------------------------------------------
Failures == {STERR \cup ERROR_I24_QUIET_INIT_FAIL, STERR \cup ERROR_I24_GEN_FAILURE}

(* Every status is one the routines may build: nothing or one failure,     *)
(* with STDON once it is returned.                                         *)
TypeOK ==
  /\ kind \in Kinds
  /\ irq_ok \in BOOLEAN
  /\ pc \in {"pre_init", "export", "packet", "command_line", "set_irq",
             "unset_irq", "lock_data", "lock_code", "set_import",
             "get_export", "answer", "return", "done"}
  /\ services \in BOOLEAN
  /\ TKSSBase \in BOOLEAN
  /\ reply \in {"devhelp", "zero", "sizes"}
  /\ locked \subseteq Segments
  /\ irq \in {"free", "hooked"}
  /\ irq_refused \in BOOLEAN
  /\ irq_count \in 0..MaxIrqs
  /\ imports \in BOOLEAN
  /\ exports \in BOOLEAN
  /\ status \in {{}} \cup Failures \cup {word \cup STDON : word \in {{}} \cup Failures}
  /\ verdict \in {"none", "kept", "dropped"}

(* A driver that stays in memory can run there: both of its 32 bits        *)
(* segments are locked, the DevHelp services and __StackToFlat work, the   *)
(* kernel knows the sizes of the 16 bits segments, and the interrupt       *)
(* vector that the init routine tried out is free again, unless the kernel *)
(* has refused to release it: that refusal DevHlp32_UnSetIRQ does not      *)
(* report, and the driver stays with the vector.                           *)
KeptIsResident ==
  verdict = "kept" =>
    /\ locked = Segments
    /\ services /\ TKSSBase
    /\ reply = "sizes"
    /\ irq = "hooked" => irq_refused

(* The kernel drops a driver that reports a failure, and then nothing may  *)
(* lead into it: no interrupt vector, no security callback, no segment     *)
(* sizes in the packet.  There are two exceptions.  A vector that the      *)
(* kernel has refused to release, which the routine is not told, leads     *)
(* into the base driver that is dropped because LockSegments fails after   *)
(* it.  And its code stays locked if a DEVICE driver is dropped although   *)
(* its own init routine succeeded, because mwdd32$ could not be closed or  *)
(* an unlock failed.                                                       *)
DroppedIsForgotten ==
  verdict = "dropped" =>
    /\ irq = "hooked" => irq_refused
    /\ ~imports
    /\ reply # "sizes"
    /\ "code32" \in locked =>
         kind = "device" /\ ErrorCode(status) = ERROR_I24_GEN_FAILURE

(* From the moment the kernel may call into the driver, what the called    *)
(* code needs is there: the EOI of drv32_irq goes through DevHelp32, and   *)
(* the security callbacks run in the context of any thread.  A vector that *)
(* is not released needs it long after the init routine, which locks the   *)
(* segments only then: see KeptIsResident.                                 *)
CallableIsPrepared ==
  /\ irq = "hooked" => services /\ TKSSBase
  /\ imports => services /\ TKSSBase /\ locked = Segments

Phase ==
  CASE verdict = "kept" -> "accepted"
    [] verdict = "dropped" -> "rejected"
    [] verdict = "none" /\ pc = "return" /\ ~Failed(status) -> "initialised"
    [] verdict = "none" /\ ~(pc = "return" /\ ~Failed(status)) ->
         IF services /\ TKSSBase THEN "served" ELSE "new"

Contract == INSTANCE InitContract
              WITH Clients <- {"driver"}, phase <- [c \in {"driver"} |-> Phase]

(* samples.im:165-169: a security driver must at least pass its callbacks  *)
(* to the kernel and retrieve the kernel's entry points.                   *)
KeptSesIsRegistered ==
  verdict = "kept" /\ kind = "ses" => imports /\ exports
=============================================================================
