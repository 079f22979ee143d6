------------------------------- MODULE Mwdd32 -------------------------------
(***************************************************************************)
(* mwdd32.sys once it is loaded: the strategy routine the kernel calls for *)
(* every request on the mwdd32$ device, and the inter-device-driver (IDC)  *)
(* entry point that base drivers call.                                     *)
(*                                                                         *)
(* Several threads may be inside the driver, because a VMLock and the      *)
(* client's initialisation routine may block.  What the C code keeps on    *)
(* the stack of an activation is a function of the caller here.  DevHelp   *)
(* services are external: each may fail, in any call.                      *)
(*                                                                         *)
(* A definition whose name has a suffix after the name of another          *)
(* definition (unlock_data_NotRaised) is that one with a bug in it; no     *)
(* definition uses it, it is there to show that a property notices.        *)
(***************************************************************************)
EXTENDS Reqpkt, Integers, FiniteSets

CONSTANTS
  Callers,      \* threads that issue requests, each for one client image
  Requests,     \* request packets the kernel may build
  IdcCalls,     \* parameter blocks of calls to the IDC entry point
  Versions,     \* DEVHELP32_VERSION of the headers the clients were built with
  MaxRequests   \* bound on the number of requests of one caller

OPEN == 13
CLOSE == 14
GENERIC_IOCTL == 16
INIT_BASE == 27
SHUTDOWN == 28
INIT_COMPLETE == 31

(* "bad_category" and "bad_function" stand for every cat other than 0xF0   *)
(* and, within 0xF0, every func other than 0x41 and 0x42.                  *)
IoctlFunctions == {"INIT_FSD", "INIT_DEVICE", "bad_function", "bad_category"}

(* The pointers of a packet matter only as null or not, its magic number   *)
(* only as MAGIC_IN or not.                                                *)
Packet == [cmd : 0..255, func : IoctlFunctions, magic_in : BOOLEAN,
           pTKSSBase : BOOLEAN, pDevHelp32 : BOOLEAN]

NoPacket == [cmd |-> 0, func |-> "bad_category", magic_in |-> FALSE,
             pTKSSBase |-> FALSE, pDevHelp32 |-> FALSE]

(* A caller of the V1.00 interface pushes pDevHelp32 and pTKSSBase; one of *)
(* the new interface pushes those two, func, the magic number and a zero.  *)
IdcBlock == [interface : {"new", "old"}, func : Nat,
             pTKSSBase : BOOLEAN, pDevHelp32 : BOOLEAN]

ASSUME CallersAssumption == IsFiniteSet(Callers)
ASSUME RequestsAssumption ==
  Requests \subseteq {p \in Packet : p.cmd # INIT_BASE}
ASSUME IdcCallsAssumption == IdcCalls \subseteq IdcBlock
ASSUME VersionsAssumption == Versions \subseteq Nat \ {0}
ASSUME MaxRequestsAssumption == MaxRequests \in Nat

VARIABLES
  pc,          \* where caller c stands in the driver
  request,     \* the packet caller c sent last
  status,      \* reqStatus of that packet, accumulated while it is handled
  held,        \* the buffers of the packet that are VMLocked for caller c
  parm,        \* magic number in the ioctl's parm buffer: "in", "out", "other"
  data,        \* first dword of its data buffer: an entry point, or a code
  TKSSBase,    \* has the client's TKSSBase been set?
  table,       \* the client's struct DevHelp32
  init_run,    \* what the client's own init routine last returned
  open_count,  \* mwdd32_open.c
  handles,     \* callers holding a handle on mwdd32$, kept by the kernel
  stack,       \* dwords of IDC arguments left on the caller's stack
  sent         \* number of requests of each caller

vars == <<pc, request, status, held, parm, data, TKSSBase, table, init_run,
          open_count, handles, stack, sent>>
buffers == <<parm, data>>
client == <<TKSSBase, table, init_run>>
device == <<open_count, handles>>

IoctlSteps == {"lock_parm", "lock_data", "check_magic",
               "thunk_parms", "export", "callback", "unlock_data",
               "unlock_parm"}
Steps == {"idle", "strategy"} \cup IoctlSteps
Codes == {"entry_point", "no_error", "invalid_parameter", "thunk_error",
          "init_error"}
-----------------------------------------------------------------------------
(* mwdd32_export_devhelp32: what the call does to the client's TKSSBase    *)
(* and to its struct DevHelp32, and whether it returns NO_ERROR.           *)

SupportedVersions == 1..7

Exportable_NoBaseTest(t, pTKSSBase, pDevHelp32) ==
  pDevHelp32 /\ t.magic /\ t.version \in SupportedVersions
Exportable(t, pTKSSBase, pDevHelp32) ==
  pTKSSBase /\ pDevHelp32 /\ t.magic /\ t.version \in SupportedVersions

(* memcpy of version_k: the pointers of that version and no more.          *)
Filled_Latest(t) == [t EXCEPT !.filled = 7]
Filled(t) == [t EXCEPT !.filled = t.version]

export_devhelp32(c, pTKSSBase, pDevHelp32) ==
  /\ TKSSBase' = [TKSSBase EXCEPT ![c] = @ \/ pTKSSBase]
  /\ table' = [table EXCEPT ![c] =
                 IF Exportable(@, pTKSSBase, pDevHelp32) THEN Filled(@) ELSE @]
-----------------------------------------------------------------------------
(* The image of every client starts with the DevHelp32 it was built with   *)
(* and with a null TKSSBase.                                               *)
Init ==
  /\ pc = [c \in Callers |-> "idle"]
  /\ request = [c \in Callers |-> NoPacket]
  /\ status = [c \in Callers |-> {}]
  /\ held = [c \in Callers |-> {}]
  /\ parm = [c \in Callers |-> "other"]
  /\ data = [c \in Callers |-> "entry_point"]
  /\ TKSSBase = [c \in Callers |-> FALSE]
  /\ table \in [Callers -> [magic : BOOLEAN, version : Versions, filled : {0}]]
  /\ init_run = [c \in Callers |-> "never"]
  /\ open_count = 0
  /\ handles = {}
  /\ stack = [c \in Callers |-> 0]
  /\ sent = [c \in Callers |-> 0]

Goto(c, step) == pc' = [pc EXCEPT ![c] = step]

(* status |= bits                                                          *)
Raise(c, bits) == status' = [status EXCEPT ![c] = @ \cup bits]

(* return (status | STDON), with the bits the handler raises on its way    *)
Return_NotDone(c, bits) == Goto(c, "idle") /\ Raise(c, bits)
Return(c, bits) == Goto(c, "idle") /\ Raise(c, bits \cup STDON)

(* The kernel routes open, close and ioctl requests by file handle.        *)
KernelSends(c, p) ==
  /\ p.cmd = OPEN => c \notin handles
  /\ p.cmd \in {CLOSE, GENERIC_IOCTL} => c \in handles

(* mwdd32_stub_strategy: command 0 is INIT of a DEVICE statement, which is *)
(* refused at once; any other command starts with a zero status.  An ioctl *)
(* brings buffers of its own, which the caller has just written.           *)
stub_strategy(c, p) ==
  /\ pc[c] = "idle"
  /\ sent[c] < MaxRequests
  /\ KernelSends(c, p)
  /\ sent' = [sent EXCEPT ![c] = @ + 1]
  /\ request' = [request EXCEPT ![c] = p]
  /\ \/ /\ p.cmd = 0
        /\ status' = [status EXCEPT ![c] = STDON \cup STERR
                                            \cup ERROR_I24_BAD_COMMAND]
        /\ pc' = pc
     \/ /\ p.cmd # 0
        /\ status' = [status EXCEPT ![c] = {}]
        /\ Goto(c, "strategy")
  /\ \/ /\ p.cmd = GENERIC_IOCTL
        /\ held' = [held EXCEPT ![c] = {}]
        /\ parm' = [parm EXCEPT ![c] = IF p.magic_in THEN "in" ELSE "other"]
        /\ data' = [data EXCEPT ![c] = "entry_point"]
     \/ /\ p.cmd # GENERIC_IOCTL
        /\ UNCHANGED <<held, buffers>>
  /\ UNCHANGED <<client, device, stack>>

AtStep(c, step) == pc[c] = step

(* mwdd32_strategy: the commands without a handler that changes state.     *)
strategy(c) ==
  /\ AtStep(c, "strategy")
  /\ request[c].cmd \notin {OPEN, CLOSE, GENERIC_IOCTL}
  /\ Return(c, CASE request[c].cmd > 31 -> STERR \cup ERROR_I24_INVALID_PARAMETER
                 [] request[c].cmd \in {SHUTDOWN, INIT_COMPLETE} -> {}
                 [] OTHER -> STERR \cup ERROR_I24_BAD_COMMAND)
  /\ UNCHANGED <<request, held, buffers, client, device, stack, sent>>

(* The kernel has a handle on the device only if the driver accepted.      *)
open_CountedFirst(c) ==
  /\ AtStep(c, "strategy")
  /\ request[c].cmd = OPEN
  /\ open_count' = open_count + 1
  /\ \/ handles' = handles \cup {c} /\ Return(c, {})
     \/ handles' = handles /\ Return(c, STERR \cup ERROR_I24_INVALID_PARAMETER)
  /\ UNCHANGED <<request, held, buffers, client, stack, sent>>

open(c) ==
  /\ AtStep(c, "strategy")
  /\ request[c].cmd = OPEN
  /\ \/ /\ open_count' = open_count + 1
        /\ handles' = handles \cup {c}
        /\ Return(c, {})
     \/ /\ UNCHANGED device
        /\ Return(c, STERR \cup ERROR_I24_INVALID_PARAMETER)
  /\ UNCHANGED <<request, held, buffers, client, stack, sent>>

close(c) ==
  /\ AtStep(c, "strategy")
  /\ request[c].cmd = CLOSE
  /\ \/ /\ open_count' = open_count - 1
        /\ handles' = handles \ {c}
        /\ Return(c, {})
     \/ /\ UNCHANGED device
        /\ Return(c, STERR \cup ERROR_I24_INVALID_PARAMETER)
  /\ UNCHANGED <<request, held, buffers, client, stack, sent>>
-----------------------------------------------------------------------------
(* mwdd32_ioctl, one action per DevHelp call or call to client code.       *)

Answer(c, code) ==
  /\ parm' = [parm EXCEPT ![c] = "out"]
  /\ data' = [data EXCEPT ![c] = code]

(* VirtToLin of the packet, the tests of cat and func, VirtToLin of the    *)
(* two buffers.                                                            *)
ioctl(c) ==
  /\ AtStep(c, "strategy")
  /\ request[c].cmd = GENERIC_IOCTL
  /\ \/ /\ request[c].func \in {"INIT_FSD", "INIT_DEVICE"}
        /\ Goto(c, "lock_parm")
        /\ UNCHANGED status
     \/ /\ request[c].func \in {"bad_function", "bad_category"}
        /\ Return(c, STERR \cup ERROR_I24_BAD_COMMAND)
     \/ Return(c, STERR \cup ERROR_I24_INVALID_PARAMETER)
  /\ UNCHANGED <<request, held, buffers, client, device, stack, sent>>

(* VMLock returns NO_ERROR or ERROR_NOBLOCK when it locked the buffer.     *)
lock_parm(c) ==
  /\ AtStep(c, "lock_parm")
  /\ \/ /\ held' = [held EXCEPT ![c] = @ \cup {"parm"}]
        /\ Goto(c, "lock_data")
        /\ UNCHANGED status
     \/ /\ UNCHANGED held
        /\ Return(c, STERR \cup ERROR_I24_INVALID_PARAMETER)
  /\ UNCHANGED <<request, buffers, client, device, stack, sent>>

lock_data_FallsThrough(c) ==
  /\ AtStep(c, "lock_data")
  /\ Goto(c, "check_magic")
  /\ \/ held' = [held EXCEPT ![c] = @ \cup {"data"}] /\ UNCHANGED status
     \/ UNCHANGED held /\ Raise(c, STERR \cup ERROR_I24_INVALID_PARAMETER)
  /\ UNCHANGED <<request, buffers, client, device, stack, sent>>

lock_data(c) ==
  /\ AtStep(c, "lock_data")
  /\ \/ /\ held' = [held EXCEPT ![c] = @ \cup {"data"}]
        /\ Goto(c, "check_magic")
        /\ UNCHANGED status
     \/ /\ UNCHANGED held
        /\ Goto(c, "unlock_parm")
        /\ Raise(c, STERR \cup ERROR_I24_INVALID_PARAMETER)
  /\ UNCHANGED <<request, buffers, client, device, stack, sent>>

check_magic_NotRaised(c) ==
  /\ AtStep(c, "check_magic")
  /\ \/ /\ parm[c] = "in"
        /\ Goto(c, IF request[c].func = "INIT_FSD" THEN "thunk_parms" ELSE "export")
        /\ UNCHANGED buffers
     \/ /\ parm[c] # "in"
        /\ Goto(c, "unlock_data")
        /\ Answer(c, "invalid_parameter")
  /\ UNCHANGED <<request, status, held, client, device, stack, sent>>

check_magic(c) ==
  /\ AtStep(c, "check_magic")
  /\ \/ /\ parm[c] = "in"
        /\ Goto(c, IF request[c].func = "INIT_FSD" THEN "thunk_parms" ELSE "export")
        /\ UNCHANGED <<status, buffers>>
     \/ /\ parm[c] # "in"
        /\ Goto(c, "unlock_data")
        /\ Answer(c, "invalid_parameter")
        /\ Raise(c, STERR \cup ERROR_I24_INVALID_PARAMETER)
  /\ UNCHANGED <<request, held, client, device, stack, sent>>

(* VirtToLin of the parameter block of FS_INIT, for an IFS only.           *)
thunk_parms(c) ==
  /\ AtStep(c, "thunk_parms")
  /\ \/ /\ Goto(c, "export")
        /\ UNCHANGED <<status, buffers>>
     \/ /\ Goto(c, "unlock_data")
        /\ Answer(c, "thunk_error")
        /\ Raise(c, STERR \cup ERROR_I24_INVALID_PARAMETER)
  /\ UNCHANGED <<request, held, client, device, stack, sent>>

(* magic_out is written before the client's init routine is called; the    *)
(* code it answers overwrites the pointer it was called through.           *)
export(c) ==
  /\ AtStep(c, "export")
  /\ export_devhelp32(c, request[c].pTKSSBase, request[c].pDevHelp32)
  /\ \/ /\ Exportable(table[c], request[c].pTKSSBase, request[c].pDevHelp32)
        /\ Goto(c, "callback")
        /\ parm' = [parm EXCEPT ![c] = "out"]
        /\ UNCHANGED <<status, data>>
     \/ /\ ~Exportable(table[c], request[c].pTKSSBase, request[c].pDevHelp32)
        /\ Goto(c, "unlock_data")
        /\ Answer(c, "no_error")
        /\ Raise(c, STERR \cup ERROR_I24_INVALID_PARAMETER)
  /\ UNCHANGED <<request, held, init_run, device, stack, sent>>

(* fs32_init or dev32_init of the client has run and returns.              *)
callback(c) ==
  /\ AtStep(c, "callback")
  /\ \E code \in {"no_error", "init_error"} :
       /\ init_run' = [init_run EXCEPT ![c] = code]
       /\ data' = [data EXCEPT ![c] = code]
  /\ Goto(c, "unlock_data")
  /\ UNCHANGED <<request, status, held, parm, TKSSBase, table, device, stack, sent>>

unlock_data_NotRaised(c) ==
  /\ AtStep(c, "unlock_data")
  /\ Goto(c, "unlock_parm")
  /\ held' \in {held, [held EXCEPT ![c] = @ \ {"data"}]}
  /\ UNCHANGED <<request, status, buffers, client, device, stack, sent>>

unlock_data(c) ==
  /\ AtStep(c, "unlock_data")
  /\ Goto(c, "unlock_parm")
  /\ \/ /\ held' = [held EXCEPT ![c] = @ \ {"data"}]
        /\ UNCHANGED status
     \/ /\ UNCHANGED held
        /\ Raise(c, STERR \cup ERROR_I24_GEN_FAILURE)
  /\ UNCHANGED <<request, buffers, client, device, stack, sent>>

unlock_parm_InOrder(c) ==
  /\ AtStep(c, "unlock_parm")
  /\ held[c] = {"parm"}
  /\ held' = [held EXCEPT ![c] = {}]
  /\ Return(c, {})
  /\ UNCHANGED <<request, buffers, client, device, stack, sent>>

unlock_parm(c) ==
  /\ AtStep(c, "unlock_parm")
  /\ \/ /\ held' = [held EXCEPT ![c] = @ \ {"parm"}]
        /\ Return(c, {})
     \/ /\ UNCHANGED held
        /\ Return(c, STERR \cup ERROR_I24_GEN_FAILURE)
  /\ UNCHANGED <<request, buffers, client, device, stack, sent>>
-----------------------------------------------------------------------------
(* The IDC entry point.  eax comes back from mwdd32_idc with a zero high   *)
(* word for the new interface and 0xFFFF there for the old one; the thunk  *)
(* pops the two arguments of an old caller and leaves those of a new one,  *)
(* which pops its own five.                                                *)

Pushed(call) == IF call.interface = "new" THEN 5 ELSE 2

(* What mwdd32_idc finds in the first two dwords: a null pTKSSBase of an   *)
(* old caller is a zero too, but no pointer is the magic number.           *)
FirstIsZero(call) == call.interface = "new" \/ ~call.pTKSSBase
SecondIsMagic(call) == call.interface = "new"

IsNewInterface_ZeroOnly(call) == FirstIsZero(call)
IsNewInterface(call) == FirstIsZero(call) /\ SecondIsMagic(call)

IdcHighWord(call) == IF IsNewInterface(call) THEN 0 ELSE 65535

PoppedByThunk(call) == IF IdcHighWord(call) # 0 THEN 2 ELSE 0

PoppedByCaller(call) == IF call.interface = "new" THEN 5 ELSE 0

IdcExports(call) == IsNewInterface(call) => call.func = 1

idc(c, call) ==
  /\ pc[c] = "idle"
  /\ sent[c] < MaxRequests
  /\ sent' = [sent EXCEPT ![c] = @ + 1]
  /\ \/ /\ IdcExports(call)
        /\ export_devhelp32(c, call.pTKSSBase, call.pDevHelp32)
     \/ /\ ~IdcExports(call)
        /\ UNCHANGED <<TKSSBase, table>>
  /\ stack' = [stack EXCEPT ![c] =
                 @ + Pushed(call) - PoppedByThunk(call) - PoppedByCaller(call)]
  /\ UNCHANGED <<pc, request, status, held, buffers, init_run, device>>
-----------------------------------------------------------------------------
Handler(c) ==
  \/ strategy(c) \/ open(c) \/ close(c) \/ ioctl(c)
  \/ lock_parm(c) \/ lock_data(c) \/ check_magic(c) \/ thunk_parms(c)
  \/ export(c) \/ callback(c) \/ unlock_data(c) \/ unlock_parm(c)

Next ==
  \E c \in Callers :
    \/ \E p \in Requests : stub_strategy(c, p)
    \/ \E call \in IdcCalls : idc(c, call)
    \/ Handler(c)

Spec == Init /\ [][Next]_vars

(* A thread that entered the driver runs on: nothing in the driver waits   *)
(* for another caller.                                                     *)
FairSpec == Spec /\ \A c \in Callers : WF_vars(Handler(c))
-----------------------------------------------------------------------------
(* Types.                                                                  *)
TypeOK ==
  /\ pc \in [Callers -> Steps]
  /\ request \in [Callers -> Packet]
  /\ status \in [Callers -> StatusWord]
  /\ held \in [Callers -> SUBSET {"parm", "data"}]
  /\ parm \in [Callers -> {"in", "out", "other"}]
  /\ data \in [Callers -> Codes]
  /\ TKSSBase \in [Callers -> BOOLEAN]
  /\ table \in [Callers -> [magic : BOOLEAN, version : Versions, filled : 0..7]]
  /\ init_run \in [Callers -> {"never", "no_error", "init_error"}]
  /\ open_count \in Int
  /\ handles \subseteq Callers
  /\ stack \in [Callers -> Int]
  /\ sent \in [Callers -> Nat]

AnswersIoctl(c) ==
  pc[c] = "idle" /\ status[c] # {} /\ request[c].cmd = GENERIC_IOCTL

(* "OK now we can safely access both parm and data": between the request   *)
(* and its answer the driver writes into the caller's buffers only in      *)
(* steps at which it has both of them locked in memory.                    *)
BuffersWrittenOnlyWhileLocked ==
  [][\A c \in Callers :
       pc[c] # "idle" /\ <<parm[c], data[c]>>' # <<parm[c], data[c]>>
         => held[c] = {"parm", "data"}]_vars

(* mwdd32_ioctl unlocks on every path what it locked: a buffer that stays  *)
(* locked after the call is one whose VMUnlock failed, and the status of   *)
(* the request says so, also when an earlier step had failed before.       *)
NoSilentLock ==
  \A c \in Callers :
    AnswersIoctl(c) /\ held[c] # {} =>
      Failed(status[c]) /\ ERROR_I24_GEN_FAILURE \subseteq ErrorCode(status[c])

(* While the client's init routine runs it may use __StackToFlat and every *)
(* DevHlp32 function of its version, and its answer can be stored: the     *)
(* export and both locks come before the call.                             *)
CallbackReady ==
  \A c \in Callers :
    pc[c] = "callback" =>
      /\ TKSSBase[c]
      /\ table[c].filled = table[c].version
      /\ held[c] = {"parm", "data"}
      /\ parm[c] = "out"

(* mwdd32_export_devhelp32 copies into a DevHelp32 structure exactly the   *)
(* pointers of the version in its header, never past the end of the        *)
(* structure of a client built with older headers, and never into one it   *)
(* does not recognise; the same client may call it by ioctl and by IDC.    *)
TableFitsVersion ==
  \A c \in Callers :
    LET t == table[c] IN
    t.filled # 0 =>
      t.filled = t.version /\ t.magic /\ t.version \in 1..7 /\ TKSSBase[c]

(* An ioctl that reports no error ran the client's init routine, and the   *)
(* code in the data buffer is what that routine returned.                  *)
AnswerIsInitResult ==
  \A c \in Callers :
    AnswersIoctl(c) /\ ~Failed(status[c]) =>
      /\ parm[c] = "out"
      /\ init_run[c] # "never"
      /\ data[c] = init_run[c]

(* A completed request has STDON, has an error code only with STERR, and   *)
(* the code is one of those the driver uses unless a failed unlock or-ed   *)
(* its code into that of an earlier failure.                               *)
StatusWellFormed ==
  \A c \in Callers :
    pc[c] = "idle" /\ status[c] # {} =>
      /\ STDON \subseteq status[c]
      /\ Failed(status[c]) <=> ErrorCode(status[c]) # {}
      /\ \/ AnswersIoctl(c) /\ held[c] # {}
         \/ ErrorCode(status[c]) \in {{}, ERROR_I24_BAD_COMMAND,
                                      ERROR_I24_INVALID_PARAMETER}

(* open_count counts the handles on mwdd32$, through failed opens and      *)
(* closes and whatever the order of the callers.                           *)
OpenCountIsHandles == open_count = Cardinality(handles)

(* Whichever interface a caller uses and whatever the call returns, its    *)
(* stack is level afterwards: old callers leave the arguments to the       *)
(* callee, new ones pop them.                                              *)
StackBalanced == \A c \in Callers : stack[c] = 0

(* Every request is answered.                                              *)
RequestsAnswered ==
  \A c \in Callers : pc[c] # "idle" ~> pc[c] = "idle"
=============================================================================
