---------------------------- MODULE InitProtocol ----------------------------
(***************************************************************************)
(* The boot: the kernel works through CONFIG.SYS, and every driver or file *)
(* system that uses mwdd32.sys attaches to it from its own init routine.   *)
(*                                                                         *)
(*   IFS      FS_INIT          open, ioctl 0x41, close on mwdd32$          *)
(*   DEVICE   device_init      open, ioctl 0x42, close on mwdd32$          *)
(*   BASEDEV  xxx32_init_base  AttachDD and a call of the IDC entry point  *)
(*                                                                         *)
(* Unlike Mwdd32 on its own, which takes any request from any thread, the  *)
(* statements run here one at a time and every request is one that the     *)
(* skeletons build.                                                        *)
(***************************************************************************)
EXTENDS Mwdd32

CONSTANTS Ifs, Devices, Basedevs

ASSUME ClientsAssumption ==
  /\ Callers = Ifs \cup Devices \cup Basedevs
  /\ Basedevs \cap (Ifs \cup Devices) = {}
  /\ Ifs \cap Devices = {}
  /\ MaxRequests >= 3    \* open, ioctl, close

VARIABLES
  mwdd32,   \* has the kernel loaded mwdd32.sys?
  step,     \* where the 16 bits or base init routine of client c stands
  result    \* what that routine told the kernel

bootVars == <<mwdd32, step, result>>
allVars == <<vars, bootVars>>

Ring3 == Ifs \cup Devices

OpenPacket == [NoPacket EXCEPT !.cmd = OPEN]
ClosePacket == [NoPacket EXCEPT !.cmd = CLOSE]
IoctlPacket(c) ==
  [cmd |-> GENERIC_IOCTL,
   func |-> IF c \in Ifs THEN "INIT_FSD" ELSE "INIT_DEVICE",
   magic_in |-> TRUE, pTKSSBase |-> TRUE, pDevHelp32 |-> TRUE]

ExportCall ==
  [interface |-> "new", func |-> 1, pTKSSBase |-> TRUE, pDevHelp32 |-> TRUE]

ASSUME BootRequestsAssumption ==
  /\ {OpenPacket, ClosePacket} \cup {IoctlPacket(c) : c \in Ring3} \subseteq Requests
  /\ ExportCall \in IdcCalls

(* The DevHelp32 of the skeletons has the magic number and the version of  *)
(* the header they were built with, which may be newer than mwdd32.sys.    *)
BootInit ==
  /\ Init
  /\ \A c \in Callers : table[c].magic
  /\ mwdd32 = "absent"
  /\ step = [c \in Callers |-> "waiting"]
  /\ result = [c \in Callers |-> "none"]

Processed(S) == \A c \in S : step[c] = "done"

(* One statement at a time, the BASEDEV statements before the others.      *)
MayStart(c) ==
  /\ step[c] = "waiting"
  /\ \A d \in Callers : step[d] \in {"waiting", "done"}
  /\ c \in Ring3 => Processed(Basedevs)

(* BASEDEV=MWDD32.SYS, anywhere among the BASEDEV statements.  Only if its *)
(* init succeeds can the device be opened or attached to.                  *)
LoadMwdd32 ==
  /\ mwdd32 = "absent"
  /\ \A c \in Callers : step[c] \in {"waiting", "done"}
  /\ \A c \in Ring3 : step[c] = "waiting"
  /\ mwdd32' \in {"ready", "failed"}
  /\ UNCHANGED <<vars, step, result>>

Step(c, to) == step' = [step EXCEPT ![c] = to]

Finish(c, told) ==
  /\ Step(c, "done")
  /\ result' = [result EXCEPT ![c] = told]
  /\ UNCHANGED <<vars, mwdd32>>

Send(c, p, to) ==
  /\ stub_strategy(c, p)
  /\ Step(c, to)
  /\ UNCHANGED <<mwdd32, result>>

(* FS_INIT and device_init, up to DOS16OPEN.                               *)
Begin(c) ==
  /\ c \in Ring3
  /\ MayStart(c)
  /\ \/ /\ mwdd32 = "ready"
        /\ Send(c, OpenPacket, "opening")
     \/ /\ mwdd32 # "ready"
        /\ Finish(c, "error")

Returned(c, from) == step[c] = from /\ pc[c] = "idle"

(* DOS16OPEN has returned: DOS16DEVIOCTL.                                  *)
Opened_Assumed(c) ==
  Returned(c, "opening") /\ ~Failed(status[c]) /\ Send(c, IoctlPacket(c), "ioctl")

Opened(c) ==
  /\ Returned(c, "opening")
  /\ \/ ~Failed(status[c]) /\ Send(c, IoctlPacket(c), "ioctl")
     \/ Failed(status[c]) /\ Finish(c, "error")

(* DOS16DEVIOCTL has returned: DOS16CLOSE, but not after an error.         *)
Answered_NoClose(c) ==
  /\ Returned(c, "ioctl")
  /\ Finish(c, IF ~Failed(status[c]) /\ data[c] = "no_error" THEN "ok" ELSE "error")

Answered(c) ==
  /\ Returned(c, "ioctl")
  /\ \/ ~Failed(status[c]) /\ Send(c, ClosePacket, "closing")
     \/ Failed(status[c]) /\ Finish(c, "error")

(* DOS16CLOSE has returned: the magic number and the code in the answer.   *)
Closed_AnyClose(c) ==
  /\ Returned(c, "closing")
  /\ Finish(c, IF parm[c] = "out" /\ data[c] = "no_error" THEN "ok" ELSE "error")

Closed_AnyCode(c) ==
  /\ Returned(c, "closing")
  /\ Finish(c, IF ~Failed(status[c]) /\ parm[c] = "out" THEN "ok" ELSE "error")

Closed(c) ==
  /\ Returned(c, "closing")
  /\ Finish(c, IF ~Failed(status[c]) /\ parm[c] = "out" /\ data[c] = "no_error"
                 THEN "ok" ELSE "error")

(* drv32_pre_init_base and sec32_pre_init_base.                            *)
Attach_AnyAnswer(c) ==
  /\ c \in Basedevs
  /\ MayStart(c)
  /\ \/ /\ mwdd32 = "ready"
        /\ idc(c, ExportCall)
        /\ Step(c, "base_init")
        /\ UNCHANGED <<mwdd32, result>>
     \/ /\ mwdd32 # "ready"
        /\ Finish(c, "error")

Attach(c) ==
  /\ c \in Basedevs
  /\ MayStart(c)
  /\ \/ /\ mwdd32 = "ready"
        /\ idc(c, ExportCall)
        /\ IF Exportable(table[c], TRUE, TRUE)
             THEN Step(c, "base_init") /\ UNCHANGED result
             ELSE Step(c, "done") /\ result' = [result EXCEPT ![c] = "error"]
        /\ UNCHANGED mwdd32
     \/ /\ mwdd32 # "ready"
        /\ Finish(c, "error")

(* The rest of the base driver's init routine, which calls DevHlp32_*.     *)
BaseInit(c) ==
  /\ step[c] = "base_init"
  /\ \E code \in {"no_error", "init_error"} :
       init_run' = [init_run EXCEPT ![c] = code]
  /\ Step(c, "base_return")
  /\ UNCHANGED <<pc, request, status, held, buffers, TKSSBase, table, device,
                 stack, sent, mwdd32, result>>

BaseReturn(c) ==
  /\ step[c] = "base_return"
  /\ Finish(c, IF init_run[c] = "no_error" THEN "ok" ELSE "error")

ClientStep(c) ==
  \/ Begin(c) \/ Opened(c) \/ Answered(c) \/ Closed(c)
  \/ Attach(c) \/ BaseInit(c) \/ BaseReturn(c)

DriverStep(c) == Handler(c) /\ UNCHANGED bootVars

BootNext == LoadMwdd32 \/ \E c \in Callers : ClientStep(c) \/ DriverStep(c)

BootSpec == BootInit /\ [][BootNext]_allVars

(* The kernel goes on with the statement it is at, and no step of it waits *)
(* for anyone.                                                             *)
FairBootSpec ==
  BootSpec /\ \A c \in Callers : WF_allVars(ClientStep(c) \/ DriverStep(c))
-----------------------------------------------------------------------------
BootTypeOK ==
  /\ TypeOK
  /\ mwdd32 \in {"absent", "ready", "failed"}
  /\ step \in [Callers -> {"waiting", "opening", "ioctl", "closing",
                          "base_init", "base_return", "done"}]
  /\ result \in [Callers -> {"none", "ok", "error"}]

(* A driver the kernel keeps is complete: its own init routine ran and was *)
(* content, its DevHelp32 holds its version, __StackToFlat works, and the  *)
(* boot left no handle on mwdd32$ and no buffer locked on its behalf.      *)
AcceptedIsComplete ==
  \A c \in Callers :
    result[c] = "ok" =>
      /\ mwdd32 = "ready"
      /\ init_run[c] = "no_error"
      /\ TKSSBase[c]
      /\ table[c].filled = table[c].version
      /\ c \notin handles
      /\ held[c] = {}

(* The kernel is told what the client's init routine returned, unless a    *)
(* request to mwdd32$ failed: an unlock or the close, since the init       *)
(* routine ran.                                                            *)
InitResultReachesKernel ==
  \A c \in Callers :
    step[c] = "done" /\ init_run[c] # "never" /\ ~Failed(status[c]) =>
      (result[c] = "ok") = (init_run[c] = "no_error")

(* A handle that survives the init routine is explained by a failed ioctl, *)
(* after which neither FS_INIT nor device_init closes it, or by a failed   *)
(* close; the kernel is told of an error in both cases, and open_count     *)
(* still counts the handle.                                                *)
LeftOpenIsReported ==
  /\ \A c \in handles :
       step[c] = "done" => result[c] = "error" /\ Failed(status[c])
  /\ open_count = Cardinality(handles)

(* Whatever fails, every CONFIG.SYS statement is worked off.               *)
BootCompletes == <>Processed(Callers)

PhaseOf(c) ==
  CASE result[c] = "ok" -> "accepted"
    [] result[c] = "error" -> "rejected"
    [] result[c] = "none" /\ init_run[c] = "no_error" -> "initialised"
    [] result[c] = "none" /\ init_run[c] = "init_error" -> "refused"
    [] result[c] = "none" /\ init_run[c] = "never" /\ table[c].filled # 0 -> "served"
    [] OTHER -> "new"

Contract == INSTANCE InitContract
              WITH Clients <- Callers, phase <- [c \in Callers |-> PhaseOf(c)]

(* All three routes through mwdd32.sys keep the promise of InitContract.   *)
ImplementsContract == Contract!FairSpec
=============================================================================
