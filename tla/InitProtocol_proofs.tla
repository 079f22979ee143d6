------------------------- MODULE InitProtocol_proofs -------------------------
(***************************************************************************)
(* A boot with any clients in any order: the invariants of Mwdd32 hold in  *)
(* the composition too, and with what each client knows of its own request *)
(* they give the properties of the boot.                                   *)
(***************************************************************************)
EXTENDS InitProtocol, Mwdd32_proofs

Served(c) == TKSSBase[c] /\ table[c].filled = table[c].version

(* What holds of every client.                                             *)
CommonAt(c) ==
  /\ step[c] \notin {"waiting", "done"} => mwdd32 = "ready"
  /\ step[c] = "done" <=> result[c] # "none"
  /\ init_run[c] # "never" => Served(c)
  /\ result[c] = "ok" =>
       /\ mwdd32 = "ready" /\ init_run[c] = "no_error"
       /\ c \notin handles /\ held[c] = {}
  /\ step[c] = "done" /\ init_run[c] # "never" /\ ~Failed(status[c])
       => (result[c] = "ok") = (init_run[c] = "no_error")

(* A base device driver never sends a request.                             *)
BaseAt(c) ==
  /\ step[c] \in {"waiting", "base_init", "base_return", "done"}
  /\ pc[c] = "idle" /\ status[c] = {} /\ held[c] = {} /\ c \notin handles
  /\ step[c] \in {"waiting", "base_init"} => init_run[c] = "never"
  /\ step[c] \in {"base_init", "base_return"} => Served(c)
  /\ step[c] = "base_return" => init_run[c] # "never"

(* The request a client waits for, and what an answer to it looks like.    *)
Requested(c, cmd) ==
  /\ request[c].cmd = cmd
  /\ pc[c] = "strategy" => status[c] = {}
  /\ pc[c] = "idle" => status[c] # {}

(* A client of the other two kinds: whether it has a handle, and what has  *)
(* become of its init routine, by where it is.                             *)
Ring3At(c) ==
  /\ step[c] \in {"waiting", "opening", "ioctl", "closing", "done"}
  /\ step[c] \in {"waiting", "done"} => pc[c] = "idle"
  /\ step[c] \in {"waiting", "opening"} => held[c] = {} /\ init_run[c] = "never"
  /\ step[c] = "waiting" => c \notin handles
  /\ step[c] = "opening" =>
       /\ Requested(c, OPEN) /\ pc[c] \in {"idle", "strategy"}
       /\ pc[c] = "idle" => (c \in handles <=> ~Failed(status[c]))
  /\ step[c] = "ioctl" =>
       /\ Requested(c, GENERIC_IOCTL) /\ c \in handles
       /\ pc[c] \notin {"idle", "unlock_data", "unlock_parm"} => init_run[c] = "never"
  /\ step[c] = "closing" =>
       /\ Requested(c, CLOSE) /\ pc[c] \in {"idle", "strategy"}
       /\ held[c] = {} /\ CarriesResult(c)
       /\ pc[c] = "idle" => (c \in handles <=> Failed(status[c]))
  /\ step[c] = "done" /\ c \in handles => Failed(status[c])

ClientAt(c) ==
  CommonAt(c) /\ (c \in Basedevs => BaseAt(c)) /\ (c \in Ring3 => Ring3At(c))

DriverInv == TypeOK /\ LockInv /\ ClientInv /\ OpenInv
BootInv == BootTypeOK /\ DriverInv /\ \A c \in Callers : ClientAt(c)

(* A client is a base device driver or runs in ring 3, and not both.       *)
LEMMA Clients ==
  ASSUME NEW c \in Callers
  PROVE  c \in Basedevs <=> c \notin Ring3
BY ClientsAssumption DEF Ring3
-----------------------------------------------------------------------------
(* A call of mwdd32.sys or a step of it.                                   *)
DriverCall(c) ==
  \/ Handler(c)
  \/ \E p \in Requests : stub_strategy(c, p)
  \/ \E call \in IdcCalls : idc(c, call)

(* The packets that a client sends are requests that Mwdd32 knows.         *)
LEMMA SendIsCall ==
  ASSUME NEW c \in Callers, NEW to, NEW p, Send(c, p, to),
         p \in {OpenPacket, ClosePacket} \/ (c \in Ring3 /\ p = IoctlPacket(c))
  PROVE  DriverCall(c)
BY BootRequestsAssumption DEF Send, DriverCall

(* Every step of a boot goes through the driver or leaves its state alone, *)
(* but for the init routine of a base device driver.                       *)
LEMMA StepKinds ==
  ASSUME NEW c \in Callers, ClientAt(c), ClientStep(c) \/ DriverStep(c)
  PROVE  /\ DriverCall(c) \/ UNCHANGED vars \/ BaseInit(c)
         /\ mwdd32' = mwdd32
         /\ step' = step \/ \E s : step' = [step EXCEPT ![c] = s]
         /\ result' = result \/ \E r \in {"ok", "error"} : result' = [result EXCEPT ![c] = r]
<1>1. CASE DriverStep(c)
  BY <1>1 DEF DriverStep, DriverCall, bootVars
<1>2. CASE Begin(c)
  BY <1>2, SendIsCall DEF Begin, Send, Finish, Step
<1>3. CASE Opened(c)
  <2>1. c \in Ring3
    BY <1>3, Clients DEF Opened, Returned, ClientAt, BaseAt
  <2> QED
    BY <1>3, <2>1, SendIsCall DEF Opened, Send, Finish, Step
<1>4. CASE Answered(c)
  BY <1>4, SendIsCall DEF Answered, Send, Finish, Step
<1>5. CASE Closed(c)
  BY <1>5 DEF Closed, Finish, Step
<1>6. CASE Attach(c)
  BY <1>6, BootRequestsAssumption DEF Attach, Finish, Step, DriverCall
<1>7. CASE BaseInit(c)
  BY <1>7 DEF BaseInit, Step
<1>8. CASE BaseReturn(c)
  BY <1>8 DEF BaseReturn, Finish, Step
<1> QED
  BY <1>1, <1>2, <1>3, <1>4, <1>5, <1>6, <1>7, <1>8 DEF ClientStep

(* A step of one client leaves alone all that belongs to another one.      *)
LEMMA Others ==
  ASSUME BootInv, NEW c \in Callers, ClientStep(c) \/ DriverStep(c),
         NEW d \in Callers, d # c
  PROVE  /\ pc'[d] = pc[d] /\ request'[d] = request[d] /\ status'[d] = status[d]
         /\ held'[d] = held[d] /\ parm'[d] = parm[d] /\ data'[d] = data[d]
         /\ TKSSBase'[d] = TKSSBase[d] /\ table'[d] = table[d]
         /\ init_run'[d] = init_run[d]
         /\ step'[d] = step[d] /\ result'[d] = result[d] /\ mwdd32' = mwdd32
         /\ d \in handles' <=> d \in handles
<1> USE DEF BootInv, DriverInv, BootTypeOK
<1>1. step'[d] = step[d] /\ result'[d] = result[d] /\ mwdd32' = mwdd32
  BY StepKinds
<1>2. CASE UNCHANGED vars
  BY <1>1, <1>2 DEF vars
<1>3. CASE BaseInit(c)
  BY <1>1, <1>3 DEF BaseInit, TypeOK, buffers, device
<1>4. CASE DriverCall(c)
  <2>1. d \in handles' <=> d \in handles
    BY <1>4 DEF DriverCall, Handler, stub_strategy, idc, strategy, open, close, ioctl,
                lock_parm, lock_data, check_magic, thunk_parms, export, callback,
                unlock_data, unlock_parm, device
  <2> QED
    BY <1>1, <1>4, <2>1, Frame DEF DriverCall
<1> QED
  BY <1>2, <1>3, <1>4, StepKinds

(* The invariants of mwdd32.sys hold in a boot.                            *)
LEMMA DriverInvStep ==
  ASSUME BootInv, [BootNext]_allVars
  PROVE  DriverInv'
<1> USE DEF BootInv, DriverInv
<1>1. CASE [Next]_vars
  BY <1>1, TypeStep, LockInvStep, ClientInvStep, OpenInvStep
<1>2. ASSUME NEW c \in Callers, BaseInit(c)
      PROVE  DriverInv'
  <2>1. /\ UNCHANGED <<pc, request, status, held, buffers, TKSSBase, table, device, stack, sent>>
        /\ init_run' \in [Callers -> {"never", "no_error", "init_error"}]
        /\ \A d \in Callers : d # c => init_run'[d] = init_run[d]
    BY <1>2 DEF BaseInit, TypeOK
  <2>2. TypeOK'
    BY <2>1 DEF TypeOK, buffers, device
  <2>3. LockInv'
    BY <2>1 DEF LockInv, LockedAt, AnswersIoctl, UnlockFailureRaised
  <2>4. pc[c] = "idle" /\ status[c] = {}
    BY <1>2, Clients DEF BaseInit, ClientAt, BaseAt, Ring3At
  <2>5. ClientInv'
    BY <2>1, <2>4 DEF ClientInv, FitsAt, ReadyAt, AnsweredAt, AnswersIoctl, CarriesResult, buffers
  <2>6. OpenInv'
    BY <2>1 DEF OpenInv, OpenCountIsHandles, Routed, device
  <2> QED
    BY <2>2, <2>3, <2>5, <2>6
<1>3. [Next]_vars \/ \E c \in Callers : BaseInit(c)
  BY StepKinds DEF BootNext, DriverCall, Next, LoadMwdd32, allVars
<1> QED
  BY <1>1, <1>2, <1>3

(* Every step of a boot keeps the types.                                   *)
LEMMA BootTypeStep ==
  ASSUME BootInv, [BootNext]_allVars
  PROVE  BootTypeOK'
<1>1. TypeOK'
  BY DriverInvStep DEF DriverInv
<1>2. mwdd32' \in {"absent", "ready", "failed"}
  BY StepKinds DEF BootInv, BootTypeOK, BootNext, LoadMwdd32, allVars, bootVars
<1>3. result' \in [Callers -> {"none", "ok", "error"}]
  BY StepKinds DEF BootInv, BootTypeOK, BootNext, LoadMwdd32, allVars, bootVars
<1>4. step' \in [Callers -> {"waiting", "opening", "ioctl", "closing",
                            "base_init", "base_return", "done"}]
  BY DEF BootInv, BootTypeOK, BootNext, LoadMwdd32, allVars, bootVars, ClientStep, DriverStep,
         Begin, Opened, Answered, Closed, Attach, BaseInit, BaseReturn, Send, Finish, Step
<1> QED
  BY <1>1, <1>2, <1>3, <1>4 DEF BootTypeOK
-----------------------------------------------------------------------------
(* The driver's answers: a word that a handler returns is not empty, and   *)
(* fails exactly when STERR is among the bits it raises.                   *)
LEMMA Returned_word ==
  ASSUME TypeOK, NEW c \in Callers, NEW bits, Return(c, bits)
  PROVE  /\ pc'[c] = "idle" /\ status'[c] # {}
         /\ Failed(status'[c]) <=> Failed(status[c]) \/ STERR \subseteq bits
BY DEF TypeOK, Return, Goto, Raise, Failed, STERR, STDON

(* mwdd32.sys at work for a client that opens or closes.                   *)
LEMMA OpenClose ==
  ASSUME BootInv, NEW c \in Ring3, step[c] \in {"opening", "closing"}, DriverStep(c)
  PROVE  ClientAt(c)'
<1> USE DEF BootInv, DriverInv, BootTypeOK, ClientAt
<1>1. c \in Callers /\ c \notin Basedevs
  BY ClientsAssumption DEF Ring3
<1>2. pc[c] = "strategy" /\ status[c] = {} /\ ~Failed(status[c])
  BY <1>1 DEF DriverStep, Handler, Ring3At, Requested, strategy, open, close, ioctl, lock_parm,
              lock_data, check_magic, thunk_parms, export, callback, unlock_data,
              unlock_parm, AtStep, Failed, STERR
<1>3. /\ UNCHANGED <<request, held, buffers, client, stack, sent>>
      /\ UNCHANGED <<mwdd32, step, result>>
      /\ pc'[c] = "idle" /\ status'[c] # {}
  BY <1>1, <1>2, Returned_word
     DEF DriverStep, Handler, Ring3At, Requested, strategy, open, close, ioctl, lock_parm,
         lock_data, check_magic, thunk_parms, export, callback, unlock_data, unlock_parm,
         AtStep, bootVars, OPEN, CLOSE, GENERIC_IOCTL
<1>4. CASE step[c] = "opening"
  <2>1. open(c)
    BY <1>1, <1>2, <1>4
       DEF DriverStep, Handler, Ring3At, Requested, strategy, close, ioctl, lock_parm,
           lock_data, check_magic, thunk_parms, export, callback, unlock_data, unlock_parm,
           AtStep, OPEN, CLOSE, GENERIC_IOCTL
  <2>2. c \notin handles
    BY <1>1, <2>1 DEF open, OpenInv, Routed, AtStep
  <2>3. c \in handles' <=> ~Failed(status'[c])
    <3>1. CASE handles' = handles \cup {c} /\ Return(c, {})
      BY <1>1, <1>2, <3>1, Returned_word DEF STERR
    <3>2. CASE UNCHANGED device /\ Return(c, STERR \cup ERROR_I24_INVALID_PARAMETER)
      BY <1>1, <2>2, <3>2, Returned_word DEF device
    <3> QED
      BY <2>1, <3>1, <3>2 DEF open
  <2> QED
    BY <1>1, <1>3, <1>4, <2>3 DEF CommonAt, Ring3At, Requested, Served, client
<1>5. CASE step[c] = "closing"
  <2>1. close(c)
    BY <1>1, <1>2, <1>5
       DEF DriverStep, Handler, Ring3At, Requested, strategy, open, ioctl, lock_parm,
           lock_data, check_magic, thunk_parms, export, callback, unlock_data, unlock_parm,
           AtStep, OPEN, CLOSE, GENERIC_IOCTL
  <2>2. c \in handles
    BY <1>1, <2>1 DEF close, OpenInv, Routed, AtStep
  <2>3. c \in handles' <=> Failed(status'[c])
    <3>1. CASE handles' = handles \ {c} /\ Return(c, {})
      BY <1>1, <1>2, <3>1, Returned_word DEF STERR
    <3>2. CASE UNCHANGED device /\ Return(c, STERR \cup ERROR_I24_INVALID_PARAMETER)
      BY <1>1, <2>2, <3>2, Returned_word DEF device
    <3> QED
      BY <2>1, <3>1, <3>2 DEF close
  <2> QED
    BY <1>1, <1>3, <1>5, <2>3
       DEF CommonAt, Ring3At, Requested, Served, CarriesResult, client, buffers
<1> QED
  BY <1>4, <1>5

(* mwdd32.sys at work on the ioctl of a client.                            *)
LEMMA Ioctl_step ==
  ASSUME BootInv, NEW c \in Ring3, step[c] = "ioctl", DriverStep(c)
  PROVE  ClientAt(c)'
<1> USE DEF BootInv, DriverInv, BootTypeOK, ClientAt
<1>1. c \in Callers /\ c \notin Basedevs
  BY ClientsAssumption DEF Ring3
<1>2. Ring3At(c) /\ CommonAt(c) /\ request[c].cmd = GENERIC_IOCTL /\ c \in handles
  BY <1>1 DEF Ring3At, Requested
<1>3. Handler(c) /\ ~strategy(c) /\ ~open(c) /\ ~close(c)
  BY <1>2 DEF DriverStep, strategy, open, close, OPEN, CLOSE, GENERIC_IOCTL
<1>4. UNCHANGED <<mwdd32, step, result, request, handles>>
  BY <1>3 DEF DriverStep, bootVars, Handler, ioctl, lock_parm, lock_data, check_magic,
              thunk_parms, export, callback, unlock_data, unlock_parm, device
<1>5. pc'[c] # "strategy" /\ (pc'[c] = "idle" => status'[c] # {})
  <2> USE Returned_word DEF AtStep, Goto, TypeOK
  <2>1. CASE ioctl(c) \/ lock_parm(c) \/ lock_data(c)
    BY <1>1, <2>1 DEF ioctl, lock_parm, lock_data
  <2>2. CASE check_magic(c) \/ thunk_parms(c) \/ export(c) \/ callback(c)
    BY <1>1, <2>2 DEF check_magic, thunk_parms, export, callback
  <2>3. CASE unlock_data(c) \/ unlock_parm(c)
    BY <1>1, <2>3 DEF unlock_data, unlock_parm
  <2> QED
    BY <1>3, <2>1, <2>2, <2>3 DEF Handler
<1>6. CASE callback(c)
  <2>1. /\ pc'[c] = "unlock_data" /\ UNCHANGED <<TKSSBase, table>>
        /\ pc[c] = "callback"
    BY <1>1, <1>6 DEF callback, AtStep, Goto, TypeOK
  <2>2. Served(c)'
    BY <1>1, <2>1 DEF ClientInv, ReadyAt, Served
  <2> QED
    BY <1>1, <1>2, <1>4, <1>5, <2>1, <2>2 DEF CommonAt, Ring3At, Requested
<1>7. CASE export(c)
  <2>1. init_run[c] = "never" /\ init_run' = init_run
    BY <1>2, <1>7 DEF export, AtStep, Ring3At
  <2> QED
    BY <1>1, <1>2, <1>4, <1>5, <2>1 DEF CommonAt, Ring3At, Requested
<1>8. CASE ~callback(c) /\ ~export(c)
  <2>1. /\ UNCHANGED <<TKSSBase, table, init_run>>
        /\ pc'[c] \notin {"idle", "unlock_data", "unlock_parm"}
             => pc[c] \notin {"idle", "unlock_data", "unlock_parm"}
    <3> USE DEF AtStep, Goto, TypeOK, client, Return
    <3>1. CASE ioctl(c) \/ lock_parm(c) \/ lock_data(c)
      BY <1>1, <3>1 DEF ioctl, lock_parm, lock_data
    <3>2. CASE check_magic(c) \/ thunk_parms(c)
      BY <1>1, <3>2 DEF check_magic, thunk_parms
    <3>3. CASE unlock_data(c) \/ unlock_parm(c)
      BY <1>1, <3>3 DEF unlock_data, unlock_parm
    <3> QED
      BY <1>3, <1>8, <3>1, <3>2, <3>3 DEF Handler
  <2> QED
    BY <1>1, <1>2, <1>4, <1>5, <2>1 DEF CommonAt, Ring3At, Requested, Served
<1> QED
  BY <1>6, <1>7, <1>8

(* The steps of FS_INIT and device_init.                                   *)
LEMMA Ring3_step ==
  ASSUME BootInv, NEW c \in Ring3, ClientStep(c)
  PROVE  ClientAt(c)'
<1> USE DEF BootInv, DriverInv, BootTypeOK, ClientAt
<1>1. c \in Callers /\ c \notin Basedevs
  BY ClientsAssumption DEF Ring3
<1>2. Ring3At(c) /\ CommonAt(c) /\ LockedAt(c) /\ AnsweredAt(c)
  BY <1>1 DEF LockInv, ClientInv
<1>3. ASSUME NEW told \in {"ok", "error"}, Finish(c, told), pc[c] = "idle",
             c \in handles => Failed(status[c]),
             told = "ok" => /\ mwdd32 = "ready" /\ init_run[c] = "no_error"
                            /\ c \notin handles /\ held[c] = {},
             init_run[c] # "never" /\ ~Failed(status[c])
               => (told = "ok") = (init_run[c] = "no_error")
      PROVE  ClientAt(c)'
  <2>1. step'[c] = "done" /\ result'[c] = told /\ UNCHANGED <<vars, mwdd32>>
    BY <1>1, <1>3 DEF Finish, Step
  <2> QED
    BY <1>1, <1>2, <1>3, <2>1 DEF CommonAt, Ring3At, Served, vars
<1>4. CASE Begin(c)
  <2>1. CASE mwdd32 = "ready" /\ Send(c, OpenPacket, "opening")
    BY <1>1, <1>2, <1>4, <2>1
       DEF Begin, MayStart, Send, Step, stub_strategy, Goto, OpenPacket, NoPacket, CommonAt,
           Ring3At, Requested, Served, TypeOK, client, device, OPEN, GENERIC_IOCTL
  <2>2. CASE Finish(c, "error")
    BY <1>2, <1>3, <1>4, <2>2 DEF Begin, MayStart, Ring3At
  <2> QED
    BY <1>1, <1>4, <2>1, <2>2 DEF Begin
<1>5. CASE Opened(c)
  <2>1. CASE ~Failed(status[c]) /\ Send(c, IoctlPacket(c), "ioctl")
    <3>1. /\ c \in handles /\ init_run[c] = "never" /\ mwdd32 = "ready" /\ result[c] = "none"
      BY <1>2, <1>5, <2>1 DEF Opened, Returned, Ring3At, CommonAt
    <3>2. /\ pc'[c] = "strategy" /\ status'[c] = {} /\ request'[c].cmd = GENERIC_IOCTL
          /\ step'[c] = "ioctl" /\ UNCHANGED <<client, device, mwdd32, result>>
      BY <1>1, <2>1
         DEF Send, Step, stub_strategy, Goto, IoctlPacket, TypeOK, GENERIC_IOCTL
    <3> QED
      BY <1>1, <3>1, <3>2 DEF CommonAt, Ring3At, Requested, client, device
  <2>2. CASE Failed(status[c]) /\ Finish(c, "error")
    BY <1>2, <1>3, <1>5, <2>2 DEF Opened, Returned, Ring3At
  <2> QED
    BY <1>5, <2>1, <2>2 DEF Opened
<1>6. CASE Answered(c)
  <2>1. /\ pc[c] = "idle" /\ c \in handles /\ AnswersIoctl(c) /\ step[c] = "ioctl"
    BY <1>2, <1>6 DEF Answered, Returned, Ring3At, Requested, AnswersIoctl
  <2>2. CASE ~Failed(status[c]) /\ Send(c, ClosePacket, "closing")
    <3>1. CarriesResult(c) /\ held[c] = {} /\ mwdd32 = "ready" /\ result[c] = "none" /\ Served(c)
      BY <1>2, <2>1, <2>2
         DEF AnsweredAt, LockedAt, UnlockFailureRaised, CommonAt, CarriesResult
    <3>2. /\ pc'[c] = "strategy" /\ status'[c] = {} /\ request'[c].cmd = CLOSE
          /\ step'[c] = "closing"
          /\ UNCHANGED <<client, device, held, buffers, mwdd32, result>>
      BY <1>1, <2>2
         DEF Send, Step, stub_strategy, Goto, ClosePacket, NoPacket, TypeOK, CLOSE,
             GENERIC_IOCTL
    <3> QED
      BY <1>1, <2>1, <3>1, <3>2
         DEF CommonAt, Ring3At, Requested, CarriesResult, Served, client, device, buffers
  <2>3. CASE Failed(status[c]) /\ Finish(c, "error")
    BY <1>3, <2>1, <2>3
  <2> QED
    BY <1>6, <2>2, <2>3 DEF Answered
<1>7. CASE Closed(c)
  <2>1. /\ pc[c] = "idle" /\ held[c] = {} /\ CarriesResult(c) /\ mwdd32 = "ready"
        /\ c \in handles <=> Failed(status[c])
    BY <1>2, <1>7 DEF Closed, Returned, Ring3At, CommonAt
  <2> DEFINE fine == ~Failed(status[c]) /\ parm[c] = "out" /\ data[c] = "no_error"
  <2>2. CASE fine
    BY <1>3, <1>7, <2>1, <2>2 DEF Closed, CarriesResult
  <2>3. CASE ~fine
    BY <1>3, <1>7, <2>1, <2>3 DEF Closed, CarriesResult
  <2> QED
    BY <2>2, <2>3
<1>8. ~Attach(c) /\ ~BaseInit(c) /\ ~BaseReturn(c)
  BY <1>1, <1>2 DEF Attach, BaseInit, BaseReturn, Ring3At
<1> QED
  BY <1>4, <1>5, <1>6, <1>7, <1>8 DEF ClientStep

(* The steps of drv32_pre_init_base and of what it calls.                  *)
LEMMA Base_step ==
  ASSUME BootInv, NEW c \in Basedevs, ClientStep(c) \/ DriverStep(c)
  PROVE  ClientAt(c)'
<1> USE DEF BootInv, DriverInv, BootTypeOK, ClientAt
<1>1. c \in Callers /\ c \notin Ring3
  BY ClientsAssumption DEF Ring3
<1>2. BaseAt(c) /\ CommonAt(c) /\ ~Failed(status[c])
  BY <1>1 DEF BaseAt, Failed, STERR
<1>3. ASSUME NEW told \in {"ok", "error"}, Finish(c, told),
             told = "ok" => mwdd32 = "ready" /\ init_run[c] = "no_error",
             init_run[c] # "never" => (told = "ok") = (init_run[c] = "no_error")
      PROVE  ClientAt(c)'
  <2>1. step'[c] = "done" /\ result'[c] = told /\ UNCHANGED <<vars, mwdd32>>
    BY <1>1, <1>3 DEF Finish, Step
  <2> QED
    BY <1>1, <1>2, <1>3, <2>1 DEF CommonAt, BaseAt, Served, vars
<1>4. CASE Attach(c)
  <2>1. CASE mwdd32 # "ready" /\ Finish(c, "error")
    BY <1>2, <1>3, <1>4, <2>1 DEF Attach, MayStart, BaseAt
  <2>2. CASE mwdd32 = "ready"
    <3>1. /\ init_run[c] = "never" /\ result[c] = "none"
          /\ UNCHANGED <<pc, request, status, held, init_run, handles, mwdd32>>
      BY <1>2, <1>4, <2>2 DEF Attach, MayStart, BaseAt, CommonAt, idc, device
    <3>2. export_devhelp32(c, TRUE, TRUE)
      BY <1>4, <2>2 DEF Attach, idc, ExportCall, IdcExports
    <3>3. CASE Exportable(table[c], TRUE, TRUE)
      <4>1. step'[c] = "base_init" /\ result'[c] = "none"
        BY <1>1, <1>4, <2>2, <3>1, <3>3 DEF Attach, Step
      <4>2. Served(c)'
        BY <1>1, <3>2, <3>3, ExportFits DEF ClientInv, Served
      <4> QED
        BY <1>1, <1>2, <2>2, <3>1, <4>1, <4>2 DEF CommonAt, BaseAt
    <3>4. CASE ~Exportable(table[c], TRUE, TRUE)
      <4>1. step'[c] = "done" /\ result'[c] = "error"
        BY <1>1, <1>4, <2>2, <3>1, <3>4 DEF Attach, Step
      <4> QED
        BY <1>1, <1>2, <2>2, <3>1, <4>1 DEF CommonAt, BaseAt
    <3> QED
      BY <3>3, <3>4
  <2> QED
    BY <1>4, <2>1, <2>2 DEF Attach
<1>5. CASE BaseInit(c)
  <2>1. /\ UNCHANGED <<pc, status, held, TKSSBase, table, device, mwdd32, result>>
        /\ step[c] = "base_init" /\ step'[c] = "base_return" /\ init_run'[c] # "never"
    BY <1>1, <1>5 DEF BaseInit, Step, TypeOK
  <2> QED
    BY <1>1, <1>2, <2>1 DEF CommonAt, BaseAt, Served, device
<1>6. CASE BaseReturn(c)
  <2>1. mwdd32 = "ready"
    BY <1>2, <1>6 DEF BaseReturn, CommonAt
  <2> QED
    BY <1>3, <1>6, <2>1 DEF BaseReturn
<1>7. ~DriverStep(c)
  BY <1>2 DEF BaseAt, DriverStep, Handler, strategy, open, close, ioctl, lock_parm,
              lock_data, check_magic, thunk_parms, export, callback, unlock_data,
              unlock_parm, AtStep
<1>8. ~Begin(c) /\ ~Opened(c) /\ ~Answered(c) /\ ~Closed(c)
  BY <1>1, <1>2 DEF Begin, Opened, Answered, Closed, Returned, BaseAt
<1> QED
  BY <1>4, <1>5, <1>6, <1>7, <1>8 DEF ClientStep

(* Every step of a boot keeps the invariant ...                            *)
LEMMA BootInvStep == BootInv /\ [BootNext]_allVars => BootInv'
<1> SUFFICES ASSUME BootInv, [BootNext]_allVars
             PROVE  BootInv'
  OBVIOUS
<1>1. BootTypeOK' /\ DriverInv'
  BY BootTypeStep, DriverInvStep
<1>2. ASSUME NEW d \in Callers
      PROVE  ClientAt(d)'
  <2>1. CASE LoadMwdd32
    BY <1>2, <2>1
       DEF LoadMwdd32, BootInv, ClientAt, CommonAt, BaseAt, Ring3At, Requested, Served,
           CarriesResult, vars
  <2>2. ASSUME NEW c \in Callers, c # d, ClientStep(c) \/ DriverStep(c)
        PROVE  ClientAt(d)'
    <3>1. ClientAt(d)
      BY DEF BootInv
    <3> QED
      BY <2>2, <3>1, Others
         DEF ClientAt, CommonAt, BaseAt, Ring3At, Requested, Served, CarriesResult
  <2>3. CASE ClientStep(d) \/ DriverStep(d)
    <3>1. CASE d \in Basedevs
      BY <2>3, <3>1, Base_step
    <3>2. CASE d \in Ring3 /\ ClientStep(d)
      BY <3>2, Ring3_step
    <3>3. CASE d \in Ring3 /\ DriverStep(d)
      <4>1. step[d] \in {"opening", "closing", "ioctl"}
        BY <3>3
           DEF BootInv, ClientAt, Ring3At, DriverStep, Handler, strategy, open, close, ioctl,
               lock_parm, lock_data, check_magic, thunk_parms, export, callback,
               unlock_data, unlock_parm, AtStep
      <4> QED
        BY <3>3, <4>1, OpenClose, Ioctl_step
    <3> QED
      BY <2>3, <3>1, <3>2, <3>3, Clients
  <2>4. CASE UNCHANGED allVars
    BY <2>4
       DEF allVars, bootVars, BootInv, ClientAt, CommonAt, BaseAt, Ring3At, Requested,
           Served, CarriesResult, vars
  <2> QED
    BY <2>1, <2>2, <2>3, <2>4 DEF BootNext
<1> QED
  BY <1>1, <1>2 DEF BootInv

(* ... and it is true when the boot begins.                                *)
LEMMA BootInvInit == BootInit => BootInv
<1> SUFFICES ASSUME BootInit
             PROVE  BootInv
  OBVIOUS
<1>1. TypeOK
  BY VersionsAssumption, Words, Literals
     DEF BootInit, Init, TypeOK, Packet, NoPacket, IoctlFunctions
<1>2. LockInv
  BY DEF BootInit, Init, LockInv, LockedAt, AnswersIoctl, IoctlSteps, Working
<1>3. ClientInv
  BY DEF BootInit, Init, ClientInv, FitsAt, ReadyAt, AnsweredAt, AnswersIoctl
<1>4. OpenInv
  BY FS_EmptySet DEF BootInit, Init, OpenInv, OpenCountIsHandles, Routed
<1>5. BootTypeOK
  BY <1>1 DEF BootInit, BootTypeOK
<1>6. ASSUME NEW c \in Callers
      PROVE  ClientAt(c)
  BY <1>6 DEF BootInit, Init, ClientAt, CommonAt, BaseAt, Ring3At
<1> QED
  BY <1>1, <1>2, <1>3, <1>4, <1>5, <1>6 DEF BootInv, DriverInv

(* The inductive invariant of a boot.                                      *)
THEOREM BootInvariance == BootSpec => []BootInv
BY BootInvInit, BootInvStep, PTL DEF BootSpec

(* The type invariant of a boot, that of mwdd32.sys included.              *)
THEOREM BootTypes == BootSpec => []BootTypeOK
BY BootInvariance, PTL DEF BootInv

(* A driver that the kernel keeps is complete: its init routine ran, its   *)
(* DevHelp32 is filled up to its version, and nothing is left behind.      *)
THEOREM AcceptedAreComplete == BootSpec => []AcceptedIsComplete
<1>1. BootInv => AcceptedIsComplete
  BY DEF BootInv, ClientAt, CommonAt, Served, AcceptedIsComplete
<1> QED
  BY <1>1, BootInvariance, PTL

(* The kernel is told what the init routine of a client returned.          *)
THEOREM ResultsReachKernel == BootSpec => []InitResultReachesKernel
<1>1. BootInv => InitResultReachesKernel
  BY DEF BootInv, ClientAt, CommonAt, InitResultReachesKernel
<1> QED
  BY <1>1, BootInvariance, PTL

(* A handle on mwdd32$ survives an init routine only after a failed        *)
(* request of which the kernel is told, and open_count includes it.        *)
THEOREM LeftOpenAreReported == BootSpec => []LeftOpenIsReported
<1>1. BootInv => LeftOpenIsReported
  <2> SUFFICES ASSUME BootInv
               PROVE  LeftOpenIsReported
    OBVIOUS
  <2>1. open_count = Cardinality(handles)
    BY DEF BootInv, DriverInv, OpenInv, OpenCountIsHandles
  <2>2. ASSUME NEW c \in handles, step[c] = "done"
        PROVE  result[c] = "error" /\ Failed(status[c])
    <3>1. c \in Callers /\ ClientAt(c) /\ result[c] \in {"none", "ok", "error"}
      BY DEF BootInv, BootTypeOK, TypeOK
    <3>2. c \in Ring3 /\ result[c] = "error"
      BY <2>2, <3>1, Clients DEF ClientAt, BaseAt, CommonAt
    <3> QED
      BY <2>2, <3>1, <3>2 DEF ClientAt, Ring3At
  <2> QED
    BY <2>1, <2>2 DEF LeftOpenIsReported
<1> QED
  BY <1>1, BootInvariance, PTL
-----------------------------------------------------------------------------
(* What InitContract lets the phase of a client do in one step.            *)
PhaseStep(from, to) ==
  \/ from = to
  \/ from = "new" /\ to = "served"
  \/ from = "served" /\ to \in {"initialised", "refused"}
  \/ from = "initialised" /\ to = "accepted"
  \/ from \in Contract!Phases \ Contract!Final /\ to = "rejected"

(* A client that is done takes no step any more.                           *)
LEMMA DoneStays ==
  ASSUME BootInv, NEW c \in Callers, step[c] = "done"
  PROVE  ~ClientStep(c) /\ ~DriverStep(c)
<1>1. pc[c] = "idle"
  BY Clients DEF BootInv, ClientAt, BaseAt, Ring3At
<1> QED
  BY <1>1
     DEF ClientStep, Begin, Opened, Answered, Closed, Attach, BaseInit, BaseReturn, MayStart,
         Returned, DriverStep, Handler, strategy, open, close, ioctl, lock_parm, lock_data,
         check_magic, thunk_parms, export, callback, unlock_data, unlock_parm, AtStep

(* What the steps of a client do to its image and its result.              *)
LEMMA ImageMoves ==
  ASSUME BootInv, NEW c \in Callers, ClientStep(c) \/ DriverStep(c)
  PROVE  \/ init_run'[c] = init_run[c] /\ table'[c] = table[c]
         \/ /\ init_run'[c] = init_run[c] /\ init_run[c] = "never"
            /\ table'[c].filled # 0 /\ result'[c] # "ok"
         \/ /\ init_run[c] = "never" /\ init_run'[c] # "never"
            /\ table[c].filled # 0 /\ result'[c] = result[c]
<1> USE DEF BootInv, DriverInv, BootTypeOK, ClientAt
<1>1. result[c] = "none"
  BY DoneStays DEF CommonAt
<1>2. table[c].version # 0
  BY VersionsAssumption DEF TypeOK
<1>3. CASE Begin(c) \/ Opened(c) \/ Answered(c) \/ Closed(c) \/ BaseReturn(c)
  BY <1>3 DEF Begin, Opened, Answered, Closed, BaseReturn, Send, Finish, stub_strategy,
              client, vars
<1>4. CASE Attach(c)
  <2>1. CASE Exportable(table[c], TRUE, TRUE) /\ mwdd32 = "ready"
    BY <1>1, <1>2, <1>4, <2>1, Clients
       DEF Attach, idc, IdcExports, ExportCall, export_devhelp32, Filled, TypeOK, BaseAt,
           MayStart
  <2>2. CASE ~Exportable(table[c], TRUE, TRUE) /\ mwdd32 = "ready"
    BY <1>4, <2>2
       DEF Attach, idc, IdcExports, ExportCall, export_devhelp32, TypeOK
  <2>3. CASE mwdd32 # "ready"
    BY <1>4, <2>3 DEF Attach, Finish, vars, client
  <2> QED
    BY <2>1, <2>2, <2>3
<1>5. CASE BaseInit(c)
  <2>1. /\ UNCHANGED result /\ init_run'[c] # "never"
        /\ init_run[c] = "never" /\ Served(c)
    BY <1>5, Clients DEF BaseInit, BaseAt, Ring3At, TypeOK
  <2> QED
    BY <1>2, <2>1 DEF Served
<1>6. CASE DriverStep(c) /\ callback(c)
  <2>1. /\ UNCHANGED result /\ init_run'[c] # "never" /\ pc[c] = "callback"
    BY <1>6 DEF DriverStep, bootVars, callback, AtStep, TypeOK
  <2>2. init_run[c] = "never"
    BY <2>1, Clients DEF BaseAt, Ring3At
  <2>3. table[c].filled # 0
    BY <1>2, <2>1 DEF ClientInv, ReadyAt
  <2> QED
    BY <2>1, <2>2, <2>3
<1>7. CASE DriverStep(c) /\ export(c)
  <2>1. /\ UNCHANGED <<result, init_run>> /\ pc[c] = "export"
    BY <1>7 DEF DriverStep, bootVars, export, AtStep
  <2>2. init_run[c] = "never"
    BY <2>1, Clients DEF BaseAt, Ring3At
  <2>3. table'[c] = table[c] \/ table'[c].filled # 0
    BY <1>2, <1>7 DEF export, export_devhelp32, Filled, TypeOK
  <2> QED
    BY <1>1, <2>1, <2>2, <2>3
<1>8. CASE DriverStep(c) /\ ~callback(c) /\ ~export(c)
  BY <1>8
     DEF DriverStep, Handler, strategy, open, close, ioctl, lock_parm, lock_data,
         check_magic, thunk_parms, unlock_data, unlock_parm, client
<1> QED
  BY <1>3, <1>4, <1>5, <1>6, <1>7, <1>8 DEF ClientStep

(* No step of a boot makes the phase of a client go anywhere else.         *)
LEMMA PhaseMoves ==
  ASSUME BootInv, BootInv', NEW c \in Callers, ClientStep(c) \/ DriverStep(c)
  PROVE  PhaseStep(PhaseOf(c), PhaseOf(c)')
<1> USE DEF PhaseOf, PhaseStep, Contract!Phases, Contract!Final
<1>1. result[c] = "none"
  BY DoneStays DEF BootInv, ClientAt, CommonAt
<1>2. /\ result'[c] \in {"none", "ok", "error"}
      /\ init_run[c] \in {"never", "no_error", "init_error"}
      /\ init_run'[c] \in {"never", "no_error", "init_error"}
  BY DEF BootInv, BootTypeOK, TypeOK
<1>3. result'[c] = "ok" => init_run'[c] = "no_error"
  BY DEF BootInv, ClientAt, CommonAt
<1> QED
  BY <1>1, <1>2, <1>3, ImageMoves

(* The contract of initialisation, but for its fairness, whatever clients  *)
(* boot on whatever routes: each is served before its init routine runs,   *)
(* that runs once at most, and only a client that is content is kept.      *)
THEOREM ContractKept == BootSpec => Contract!Spec
<1> DEFINE phase == [c \in Callers |-> PhaseOf(c)]
<1>1. BootInit => Contract!Init
  BY DEF BootInit, Init, Contract!Init, PhaseOf
<1>2. BootInv /\ BootInv' /\ [BootNext]_allVars => [Contract!Next]_phase
  <2> SUFFICES ASSUME BootInv, BootInv', [BootNext]_allVars
               PROVE  [Contract!Next]_phase
    OBVIOUS
  <2>1. CASE LoadMwdd32 \/ UNCHANGED allVars
    BY <2>1 DEF LoadMwdd32, allVars, bootVars, vars, client, PhaseOf
  <2>2. ASSUME NEW c \in Callers, ClientStep(c) \/ DriverStep(c)
        PROVE  [Contract!Next]_phase
    <3>1. \A d \in Callers : d # c => PhaseOf(d)' = PhaseOf(d)
      BY <2>2, Others DEF PhaseOf
    <3>2. phase' = [phase EXCEPT ![c] = PhaseOf(c)'] /\ phase[c] = PhaseOf(c)
      BY <3>1
    <3>3. PhaseStep(PhaseOf(c), PhaseOf(c)')
      BY <2>2, PhaseMoves
    <3>4. CASE PhaseOf(c)' = PhaseOf(c)
      BY <3>2, <3>4
    <3>5. CASE PhaseOf(c)' # PhaseOf(c)
      BY <3>2, <3>3, <3>5
         DEF PhaseStep, Contract!Next, Contract!Serve, Contract!RunInit, Contract!Accept,
             Contract!Reject, Contract!Move
    <3> QED
      BY <3>4, <3>5
  <2> QED
    BY <2>1, <2>2 DEF BootNext
<1> QED
  BY <1>1, <1>2, BootInvariance, PTL DEF BootSpec, Contract!Spec
=============================================================================
