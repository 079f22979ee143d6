---------------------------- MODULE Mwdd32_proofs ----------------------------
(***************************************************************************)
(* Mwdd32 for any number of callers, any packets and any client versions.  *)
(***************************************************************************)
EXTENDS Mwdd32, FiniteSetTheorems, TLAPS

(* The steps at which both buffers of the ioctl are locked.                *)
Working == {"check_magic", "thunk_parms", "export", "callback", "unlock_data"}

UnlockFailureRaised(c) == Failed(status[c]) /\ ERROR_I24_GEN_FAILURE \subseteq status[c]

(* NoSilentLock is not inductive: what the last unlock leaves depends on   *)
(* what was locked at every step before it.                                *)
LockedAt(c) ==
  /\ pc[c] \in IoctlSteps => request[c].cmd = GENERIC_IOCTL
  /\ pc[c] \in {"strategy", "lock_parm"} /\ request[c].cmd = GENERIC_IOCTL
       => held[c] = {}
  /\ pc[c] = "lock_data" => held[c] = {"parm"}
  /\ pc[c] \in Working => held[c] = {"parm", "data"}
  /\ pc[c] = "unlock_parm" => "parm" \in held[c]
  /\ pc[c] = "unlock_parm" /\ "data" \in held[c] => UnlockFailureRaised(c)
  /\ AnswersIoctl(c) /\ held[c] # {} => UnlockFailureRaised(c)

LockInv == \A c \in Callers : LockedAt(c)

(* The words the driver raises are status words: the "|=" of the C code    *)
(* stays within 16 bits.                                                   *)
LEMMA Words ==
  /\ {} \in StatusWord
  /\ STDON \in StatusWord
  /\ STDON \cup STERR \cup ERROR_I24_BAD_COMMAND \in StatusWord
  /\ STERR \cup ERROR_I24_BAD_COMMAND \in StatusWord
  /\ STERR \cup ERROR_I24_GEN_FAILURE \in StatusWord
  /\ STERR \cup ERROR_I24_INVALID_PARAMETER \in StatusWord
BY DEF StatusWord, STERR, STDON, ERROR_I24_BAD_COMMAND, ERROR_I24_GEN_FAILURE,
       ERROR_I24_INVALID_PARAMETER

(* Raising bits, on the way or at the return, leaves a status word.        *)
LEMMA RaiseTyped ==
  ASSUME status \in [Callers -> StatusWord], NEW c \in Callers,
         NEW bits \in StatusWord, Raise(c, bits) \/ Return(c, bits)
  PROVE  status' \in [Callers -> StatusWord]
<1>1. /\ status[c] \cup bits \in StatusWord
      /\ status[c] \cup (bits \cup STDON) \in StatusWord
  BY Words DEF StatusWord
<1>2. QED
  BY <1>1 DEF Raise, Return

(* A step that leaves the rest of the driver's types intact.               *)
LEMMA HandlerStatusTyped ==
  ASSUME TypeOK, NEW c \in Callers, Handler(c)
  PROVE  status' \in [Callers -> StatusWord]
<1> USE Words, RaiseTyped DEF TypeOK
<1>1. CASE strategy(c)
  BY <1>1 DEF strategy
<1>2. CASE open(c) \/ close(c)
  BY <1>2 DEF open, close
<1>3. CASE ioctl(c) \/ lock_parm(c) \/ lock_data(c)
  BY <1>3 DEF ioctl, lock_parm, lock_data
<1>4. CASE check_magic(c) \/ thunk_parms(c)
  BY <1>4 DEF check_magic, thunk_parms
<1>5. CASE export(c) \/ callback(c)
  BY <1>5 DEF export, callback
<1>6. CASE unlock_data(c) \/ unlock_parm(c)
  BY <1>6 DEF unlock_data, unlock_parm
<1>7. QED
  BY <1>1, <1>2, <1>3, <1>4, <1>5, <1>6 DEF Handler

(* The literals of the driver's steps and answers.                         *)
LEMMA Literals ==
  /\ \A x \in {"idle", "strategy"} : x \in Steps
  /\ \A x \in IoctlSteps : x \in Steps
  /\ "lock_parm" \in Steps /\ "lock_data" \in Steps /\ "check_magic" \in Steps
  /\ "thunk_parms" \in Steps /\ "export" \in Steps /\ "callback" \in Steps
  /\ "unlock_data" \in Steps /\ "unlock_parm" \in Steps
  /\ "entry_point" \in Codes /\ "no_error" \in Codes /\ "init_error" \in Codes
  /\ "invalid_parameter" \in Codes /\ "thunk_error" \in Codes
BY DEF Steps, IoctlSteps, Codes

(* mwdd32_export_devhelp32 leaves a well-formed structure.                 *)
LEMMA ExportTyped ==
  ASSUME TypeOK, NEW c \in Callers, NEW base \in BOOLEAN, NEW help \in BOOLEAN,
         export_devhelp32(c, base, help)
  PROVE  /\ TKSSBase' \in [Callers -> BOOLEAN]
         /\ table' \in [Callers -> [magic : BOOLEAN, version : Versions, filled : 0..7]]
<1>1. TKSSBase' \in [Callers -> BOOLEAN]
  BY DEF export_devhelp32, TypeOK
<1>2. table[c] \in [magic : BOOLEAN, version : Versions, filled : 0..7]
  BY DEF TypeOK
<1>3. Exportable(table[c], base, help)
        => Filled(table[c]) \in [magic : BOOLEAN, version : Versions, filled : 0..7]
  BY <1>2 DEF Filled, Exportable, SupportedVersions
<1>4. QED
  BY <1>1, <1>2, <1>3 DEF export_devhelp32, TypeOK

(* A step of a handler leaves every variable within its type.              *)
LEMMA HandlerTyped ==
  ASSUME TypeOK, NEW c \in Callers, Handler(c)
  PROVE  TypeOK'
<1> USE DEF Goto, Return, AtStep, buffers, client, device
<1>1. status' \in [Callers -> StatusWord]
  BY HandlerStatusTyped
<1>2. \E s \in Steps : pc' = [pc EXCEPT ![c] = s]
  <2> USE Literals
  <2>1. CASE strategy(c) \/ open(c) \/ close(c) \/ ioctl(c)
    BY <2>1 DEF strategy, open, close, ioctl
  <2>2. CASE lock_parm(c) \/ lock_data(c) \/ check_magic(c)
    BY <2>2 DEF lock_parm, lock_data, check_magic
  <2>3. CASE thunk_parms(c) \/ export(c) \/ callback(c)
    BY <2>3 DEF thunk_parms, export, callback
  <2>4. CASE unlock_data(c) \/ unlock_parm(c)
    BY <2>4 DEF unlock_data, unlock_parm
  <2>5. QED
    BY <2>1, <2>2, <2>3, <2>4 DEF Handler
<1>3. held' \in [Callers -> SUBSET {"parm", "data"}]
  BY DEF Handler, TypeOK, strategy, open, close, ioctl, lock_parm, lock_data,
             check_magic, thunk_parms, export, callback, unlock_data, unlock_parm
<1>4. \/ parm' = parm
      \/ parm' = [parm EXCEPT ![c] = "out"]
  BY DEF Handler, Answer, strategy, open, close, ioctl, lock_parm, lock_data,
             check_magic, thunk_parms, export, callback, unlock_data, unlock_parm
<1>5. \/ data' = data
      \/ \E code \in Codes : data' = [data EXCEPT ![c] = code]
  BY Literals
     DEF Handler, Answer, strategy, open, close, ioctl, lock_parm, lock_data,
             check_magic, thunk_parms, export, callback, unlock_data, unlock_parm
<1>6. /\ TKSSBase' \in [Callers -> BOOLEAN]
      /\ table' \in [Callers -> [magic : BOOLEAN, version : Versions, filled : 0..7]]
  <2>1. CASE export(c)
    BY <2>1, ExportTyped DEF export, TypeOK, Packet
  <2>2. CASE ~export(c)
    <3>1. TKSSBase' = TKSSBase /\ table' = table
      BY <2>2 DEF Handler, strategy, open, close, ioctl, lock_parm, lock_data,
             check_magic, thunk_parms, export, callback, unlock_data, unlock_parm
    <3>2. QED
      BY <3>1 DEF TypeOK
  <2>3. QED
    BY <2>1, <2>2
<1>7. init_run' \in [Callers -> {"never", "no_error", "init_error"}]
  BY DEF Handler, TypeOK, strategy, open, close, ioctl, lock_parm, lock_data,
             check_magic, thunk_parms, export, callback, unlock_data, unlock_parm
<1>8. open_count' \in Int /\ handles' \subseteq Callers
  BY DEF Handler, TypeOK, strategy, open, close, ioctl, lock_parm, lock_data,
             check_magic, thunk_parms, export, callback, unlock_data, unlock_parm
<1>9. request' = request /\ stack' = stack /\ sent' = sent
  BY DEF Handler, strategy, open, close, ioctl, lock_parm, lock_data,
             check_magic, thunk_parms, export, callback, unlock_data, unlock_parm
<1>10. parm' \in [Callers -> {"in", "out", "other"}]
  BY <1>4 DEF TypeOK
<1>11. data' \in [Callers -> Codes]
  BY <1>5 DEF TypeOK
<1>12. pc' \in [Callers -> Steps]
  BY <1>2 DEF TypeOK
<1>13. QED
  BY <1>1, <1>3, <1>6, <1>7, <1>8, <1>9, <1>10, <1>11, <1>12 DEF TypeOK

(* Every step leaves every variable within its type.                       *)
LEMMA TypeStep ==
  ASSUME TypeOK, [Next]_vars
  PROVE  TypeOK'
<1>1. ASSUME NEW c \in Callers, NEW p \in Requests, stub_strategy(c, p)
      PROVE  TypeOK'
  <2>1. status' \in [Callers -> StatusWord]
    BY <1>1, Words DEF TypeOK, stub_strategy
  <2>2. pc' \in [Callers -> Steps]
    BY <1>1, Literals DEF TypeOK, stub_strategy, Goto
  <2>3. /\ held' \in [Callers -> SUBSET {"parm", "data"}]
        /\ parm' \in [Callers -> {"in", "out", "other"}]
        /\ data' \in [Callers -> Codes]
    <3>1. CASE p.cmd = GENERIC_IOCTL
      <4>1. /\ held' = [held EXCEPT ![c] = {}]
            /\ parm' = [parm EXCEPT ![c] = IF p.magic_in THEN "in" ELSE "other"]
            /\ data' = [data EXCEPT ![c] = "entry_point"]
        BY <1>1, <3>1 DEF stub_strategy
      <4>2. QED
        BY <4>1, Literals DEF TypeOK
    <3>2. CASE p.cmd # GENERIC_IOCTL
      BY <1>1, <3>2 DEF TypeOK, stub_strategy, buffers
    <3>3. QED
      BY <3>1, <3>2
  <2>4. request' \in [Callers -> Packet] /\ sent' \in [Callers -> Nat]
    BY <1>1, RequestsAssumption DEF TypeOK, stub_strategy
  <2>5. UNCHANGED <<client, device, stack>>
    BY <1>1 DEF stub_strategy
  <2>6. QED
    BY <2>1, <2>2, <2>3, <2>4, <2>5 DEF TypeOK, client, device
<1>2. ASSUME NEW c \in Callers, NEW call \in IdcCalls, idc(c, call)
      PROVE  TypeOK'
  <2>1. call.pTKSSBase \in BOOLEAN /\ call.pDevHelp32 \in BOOLEAN
    BY IdcCallsAssumption DEF IdcBlock
  <2>2. /\ TKSSBase' \in [Callers -> BOOLEAN]
        /\ table' \in [Callers -> [magic : BOOLEAN, version : Versions, filled : 0..7]]
    BY <1>2, <2>1, ExportTyped DEF idc, TypeOK
  <2>3. stack' \in [Callers -> Int] /\ sent' \in [Callers -> Nat]
    BY <1>2 DEF idc, TypeOK, Pushed, PoppedByThunk, PoppedByCaller
  <2>4. QED
    BY <1>2, <2>2, <2>3 DEF idc, TypeOK, buffers, device
<1>3. ASSUME NEW c \in Callers, Handler(c)
      PROVE  TypeOK'
  BY <1>3, HandlerTyped
<1>4. CASE UNCHANGED vars
  BY <1>4 DEF TypeOK, vars
<1>5. QED
  BY <1>1, <1>2, <1>3, <1>4 DEF Next

(* The types of every variable hold in all reachable states.               *)
THEOREM TypeCorrect == Spec => []TypeOK
<1>1. Init => TypeOK
  BY VersionsAssumption, Words, Literals
     DEF Init, TypeOK, Packet, NoPacket, IoctlFunctions
<1>2. TypeOK /\ [Next]_vars => TypeOK'
  BY TypeStep
<1>3. QED
  BY <1>1, <1>2, PTL DEF Spec
-----------------------------------------------------------------------------
(* A step of one caller leaves alone all that belongs to another caller.   *)
LEMMA Frame ==
  ASSUME TypeOK, NEW c \in Callers,
         \/ Handler(c)
         \/ \E p \in Requests : stub_strategy(c, p)
         \/ \E call \in IdcCalls : idc(c, call),
         NEW d \in Callers, d # c
  PROVE  /\ pc'[d] = pc[d] /\ request'[d] = request[d] /\ status'[d] = status[d]
         /\ held'[d] = held[d] /\ parm'[d] = parm[d] /\ data'[d] = data[d]
         /\ TKSSBase'[d] = TKSSBase[d] /\ table'[d] = table[d]
         /\ init_run'[d] = init_run[d] /\ stack'[d] = stack[d]
<1> USE DEF TypeOK, Goto, Raise, Return, Answer, export_devhelp32,
            buffers, client, device
<1>1. CASE strategy(c) \/ open(c) \/ close(c) \/ ioctl(c)
  BY <1>1 DEF strategy, open, close, ioctl
<1>2. CASE lock_parm(c) \/ lock_data(c) \/ check_magic(c)
  BY <1>2 DEF lock_parm, lock_data, check_magic
<1>3. CASE thunk_parms(c) \/ export(c) \/ callback(c)
  BY <1>3 DEF thunk_parms, export, callback
<1>4. CASE unlock_data(c) \/ unlock_parm(c)
  BY <1>4 DEF unlock_data, unlock_parm
<1>5. ASSUME NEW p \in Requests, stub_strategy(c, p)
      PROVE  /\ pc'[d] = pc[d] /\ request'[d] = request[d]
             /\ status'[d] = status[d] /\ held'[d] = held[d]
             /\ parm'[d] = parm[d] /\ data'[d] = data[d]
             /\ UNCHANGED <<client, stack>>
  BY <1>5 DEF stub_strategy
<1>6. ASSUME NEW call \in IdcCalls, idc(c, call)
      PROVE  /\ TKSSBase'[d] = TKSSBase[d] /\ table'[d] = table[d]
             /\ stack'[d] = stack[d]
             /\ UNCHANGED <<pc, request, status, held, buffers, init_run>>
  BY <1>6 DEF idc
<1>7. QED
  BY <1>1, <1>2, <1>3, <1>4, <1>5, <1>6 DEF Handler

(* What a caller's own handler step does to its locks.                     *)
LEMMA HandlerLocks ==
  ASSUME TypeOK, NEW c \in Callers, LockedAt(c), Handler(c)
  PROVE  LockedAt(c)'
<1> USE DEF TypeOK, LockedAt, AtStep, Goto, Raise, Return, Working, IoctlSteps,
            AnswersIoctl, UnlockFailureRaised
<1>1. CASE strategy(c)
  BY <1>1 DEF strategy
<1>2. CASE open(c) \/ close(c)
  BY <1>2 DEF open, close, OPEN, CLOSE, GENERIC_IOCTL
<1>3. CASE ioctl(c)
  BY <1>3 DEF ioctl
<1>4. CASE lock_parm(c)
  BY <1>4 DEF lock_parm
<1>5. CASE lock_data(c)
  BY <1>5 DEF lock_data
<1>6. CASE check_magic(c)
  BY <1>6 DEF check_magic
<1>7. CASE thunk_parms(c)
  BY <1>7 DEF thunk_parms
<1>8. CASE export(c)
  BY <1>8 DEF export
<1>9. CASE callback(c)
  BY <1>9 DEF callback
<1>10. CASE unlock_data(c)
  <2>1. pc'[c] = "unlock_parm" /\ held[c] = {"parm", "data"} /\ request' = request
    BY <1>10 DEF unlock_data
  <2>2. \/ held'[c] = {"parm"}
        \/ held'[c] = {"parm", "data"} /\ UnlockFailureRaised(c)'
    <3>1. CASE held' = [held EXCEPT ![c] = @ \ {"data"}]
      BY <2>1, <3>1
    <3>2. CASE UNCHANGED held /\ Raise(c, STERR \cup ERROR_I24_GEN_FAILURE)
      BY <2>1, <3>2 DEF Failed
    <3>3. QED
      BY <1>10, <3>1, <3>2 DEF unlock_data
  <2>3. request[c].cmd = GENERIC_IOCTL
    BY <1>10 DEF unlock_data
  <2> HIDE DEF UnlockFailureRaised
  <2>4. QED
    BY <2>1, <2>2, <2>3
<1>11. CASE unlock_parm(c)
  BY <1>11 DEF unlock_parm, Failed
<1>12. QED
  BY <1>1, <1>2, <1>3, <1>4, <1>5, <1>6, <1>7, <1>8, <1>9, <1>10, <1>11
     DEF Handler

(* LockInv is inductive.                                                   *)
LEMMA LockInvStep ==
  ASSUME TypeOK, LockInv, [Next]_vars
  PROVE  LockInv'
<1> SUFFICES ASSUME NEW d \in Callers
             PROVE  LockedAt(d)'
  BY DEF LockInv
<1> USE DEF LockInv
<1>1. CASE UNCHANGED vars
  BY <1>1 DEF vars, LockedAt, AnswersIoctl, UnlockFailureRaised
<1>2. ASSUME NEW c \in Callers, c # d,
             \/ Handler(c)
             \/ \E p \in Requests : stub_strategy(c, p)
             \/ \E call \in IdcCalls : idc(c, call)
      PROVE  LockedAt(d)'
  BY <1>2, Frame DEF LockedAt, AnswersIoctl, UnlockFailureRaised
<1>3. CASE Handler(d)
  BY <1>3, HandlerLocks
<1>4. ASSUME NEW p \in Requests, stub_strategy(d, p)
      PROVE  LockedAt(d)'
  BY <1>4 DEF stub_strategy, TypeOK, LockedAt, AnswersIoctl, Working, IoctlSteps,
              Goto, GENERIC_IOCTL
<1>5. ASSUME NEW call \in IdcCalls, idc(d, call)
      PROVE  LockedAt(d)'
  BY <1>5 DEF idc, LockedAt, AnswersIoctl, UnlockFailureRaised
<1>6. QED
  BY <1>1, <1>2, <1>3, <1>4, <1>5 DEF Next

(* At every step of an ioctl the driver has locked what that step needs.   *)
THEOREM LocksFollowed == Spec => []LockInv
<1>1. Init => LockInv
  BY DEF Init, LockInv, LockedAt, AnswersIoctl, IoctlSteps, Working
<1>2. TypeOK /\ LockInv /\ [Next]_vars => LockInv'
  BY LockInvStep
<1>3. QED
  BY <1>1, <1>2, TypeCorrect, PTL DEF Spec

(* Every buffer that stays locked after an ioctl is reported in the status *)
(* of that ioctl.                                                          *)
THEOREM NoSilentLockHolds == Spec => []NoSilentLock
<1>1. LockInv => NoSilentLock
  BY DEF LockInv, LockedAt, NoSilentLock, UnlockFailureRaised, ErrorCode, STECODE,
         ERROR_I24_GEN_FAILURE
<1>2. QED
  BY <1>1, LocksFollowed, PTL

(* mwdd32_ioctl writes into its caller's buffers only with both locked.    *)
THEOREM WritesAreLocked == Spec => BuffersWrittenOnlyWhileLocked
<1> DEFINE Write(c) == pc[c] # "idle" /\ <<parm[c], data[c]>>' # <<parm[c], data[c]>>
                         => held[c] = {"parm", "data"}
<1>1. ASSUME TypeOK, LockInv, [Next]_vars, NEW d \in Callers
      PROVE  Write(d)
  <2>1. CASE UNCHANGED vars
    BY <2>1 DEF vars
  <2>2. ASSUME NEW c \in Callers, c # d,
               \/ Handler(c)
               \/ \E p \in Requests : stub_strategy(c, p)
               \/ \E call \in IdcCalls : idc(c, call)
        PROVE  Write(d)
    BY <1>1, <2>2, Frame
  <2>3. CASE Handler(d)
    <3>1. \/ UNCHANGED buffers
          \/ pc[d] \in {"check_magic", "thunk_parms", "export", "callback"}
      BY <2>3 DEF Handler, strategy, open, close, ioctl, lock_parm, lock_data,
                  check_magic, thunk_parms, export, callback, unlock_data,
                  unlock_parm, AtStep
    <3>2. QED
      BY <1>1, <3>1 DEF LockInv, LockedAt, Working, buffers
  <2>4. CASE pc[d] = "idle"
    BY <2>4
  <2>5. QED
    BY <1>1, <2>1, <2>2, <2>3, <2>4 DEF Next, stub_strategy, idc
<1>2. TypeOK /\ LockInv /\ [Next]_vars
        => [\A c \in Callers : Write(c)]_vars
  BY <1>1
<1>3. QED
  BY <1>2, TypeCorrect, LocksFollowed, PTL DEF Spec, BuffersWrittenOnlyWhileLocked
-----------------------------------------------------------------------------
(* What makes a caller's client image consistent, and its init routine     *)
(* ready to run: the parts that belong to one caller.                      *)
FitsAt(c) ==
  table[c].filled # 0 =>
    /\ table[c].filled = table[c].version
    /\ table[c].magic
    /\ table[c].version \in 1..7
    /\ TKSSBase[c]

ReadyAt(c) ==
  pc[c] = "callback" =>
    TKSSBase[c] /\ table[c].filled = table[c].version /\ parm[c] = "out"

(* Between the callback and the answer, a request without an error still   *)
(* carries the code of the init routine.                                   *)
CarriesResult(c) ==
  parm[c] = "out" /\ init_run[c] # "never" /\ data[c] = init_run[c]

AnsweredAt(c) ==
  /\ pc[c] \in {"unlock_data", "unlock_parm"} /\ ~Failed(status[c]) => CarriesResult(c)
  /\ AnswersIoctl(c) /\ ~Failed(status[c]) => CarriesResult(c)

ClientInv == \A c \in Callers : FitsAt(c) /\ ReadyAt(c) /\ AnsweredAt(c) /\ stack[c] = 0

(* The export keeps a client's structure in step with its header.          *)
LEMMA ExportFits ==
  ASSUME TypeOK, NEW c \in Callers, FitsAt(c), NEW base \in BOOLEAN,
         NEW help \in BOOLEAN, export_devhelp32(c, base, help)
  PROVE  /\ FitsAt(c)'
         /\ Exportable(table[c], base, help) =>
              TKSSBase'[c] /\ table'[c].filled = table'[c].version
<1> DEFINE t == table[c]
<1>1. t \in [magic : BOOLEAN, version : Versions, filled : 0..7]
  BY DEF TypeOK
<1>2. /\ TKSSBase'[c] = (TKSSBase[c] \/ base)
      /\ table'[c] = IF Exportable(t, base, help) THEN Filled(t) ELSE t
  BY DEF export_devhelp32, TypeOK
<1>3. CASE Exportable(t, base, help)
  <2>1. /\ table'[c].filled = t.version
        /\ table'[c].version = t.version
        /\ table'[c].magic = t.magic
    BY <1>1, <1>2, <1>3 DEF Filled
  <2>2. QED
    BY <1>2, <1>3, <2>1 DEF Exportable, SupportedVersions, FitsAt
<1>4. CASE ~Exportable(t, base, help)
  BY <1>2, <1>4 DEF FitsAt
<1>5. QED
  BY <1>3, <1>4

(* A failed handler leaves STERR set, whatever it raises afterwards.       *)
LEMMA RaisedStays ==
  ASSUME TypeOK, NEW c \in Callers, NEW bits, Raise(c, bits) \/ Return(c, bits)
  PROVE  /\ Failed(status[c]) => Failed(status'[c])
         /\ STERR \subseteq bits => Failed(status'[c])
         /\ Failed(status'[c]) => Failed(status[c]) \/ STERR \subseteq bits
BY DEF TypeOK, Raise, Return, Failed, STERR, STDON

(* A caller's own handler step keeps its part of ClientInv.                *)
LEMMA HandlerClient ==
  ASSUME TypeOK, NEW c \in Callers, LockedAt(c), FitsAt(c), ReadyAt(c),
         AnsweredAt(c), stack[c] = 0, Handler(c)
  PROVE  FitsAt(c)' /\ ReadyAt(c)' /\ AnsweredAt(c)' /\ stack'[c] = 0
<1> USE DEF AtStep, Goto
<1>1. CASE strategy(c)
  BY <1>1, RaisedStays
     DEF strategy, Return, TypeOK, FitsAt, ReadyAt, AnsweredAt, AnswersIoctl,
         CarriesResult, buffers, client
<1>2. CASE open(c) \/ close(c)
  BY <1>2, RaisedStays
     DEF open, close, OPEN, CLOSE, GENERIC_IOCTL, Return, TypeOK, FitsAt, ReadyAt,
         AnsweredAt, AnswersIoctl, CarriesResult, buffers, client
<1>3. CASE ioctl(c) \/ lock_parm(c) \/ lock_data(c)
  <2>1. /\ UNCHANGED <<request, buffers, client, stack>>
        /\ \/ pc'[c] \in {"lock_parm", "lock_data", "check_magic"}
           \/ Failed(status'[c]) /\ pc'[c] \in {"unlock_parm", "idle"}
    <3>1. CASE ioctl(c)
      <4>1. CASE pc' = [pc EXCEPT ![c] = "lock_parm"]
        BY <3>1, <4>1 DEF ioctl, TypeOK
      <4>2. CASE \/ Return(c, STERR \cup ERROR_I24_BAD_COMMAND)
                 \/ Return(c, STERR \cup ERROR_I24_INVALID_PARAMETER)
        <5>1. Failed(status'[c])
          BY <4>2, RaisedStays
        <5>2. pc'[c] = "idle"
          BY <4>2 DEF Return, TypeOK
        <5>3. QED
          BY <3>1, <5>1, <5>2 DEF ioctl
      <4>3. QED
        BY <3>1, <4>1, <4>2 DEF ioctl
    <3>2. CASE lock_parm(c)
      BY <3>2, RaisedStays DEF lock_parm, Return, TypeOK
    <3>3. CASE lock_data(c)
      BY <3>3, RaisedStays DEF lock_data, TypeOK
    <3>4. QED
      BY <1>3, <3>1, <3>2, <3>3
  <2>2. QED
    BY <2>1 DEF FitsAt, ReadyAt, AnsweredAt, AnswersIoctl, CarriesResult, buffers, client
<1>4. CASE check_magic(c) \/ thunk_parms(c)
  <2>1. /\ UNCHANGED <<client, stack>>
        /\ \/ pc'[c] \in {"thunk_parms", "export"}
           \/ Failed(status'[c]) /\ pc'[c] = "unlock_data"
    BY <1>4, RaisedStays DEF check_magic, thunk_parms, TypeOK
  <2>2. QED
    BY <2>1 DEF FitsAt, ReadyAt, AnsweredAt, AnswersIoctl, client
<1>5. CASE export(c)
  <2> DEFINE p == request[c]
  <2>1. p.pTKSSBase \in BOOLEAN /\ p.pDevHelp32 \in BOOLEAN
    BY DEF TypeOK, Packet
  <2>2. /\ FitsAt(c)'
        /\ Exportable(table[c], p.pTKSSBase, p.pDevHelp32) =>
             TKSSBase'[c] /\ table'[c].filled = table'[c].version
    BY <1>5, <2>1, ExportFits DEF export
  <2>3. /\ UNCHANGED stack
        /\ \/ /\ Exportable(table[c], p.pTKSSBase, p.pDevHelp32)
              /\ pc'[c] = "callback" /\ parm'[c] = "out"
           \/ Failed(status'[c]) /\ pc'[c] = "unlock_data"
    BY <1>5, RaisedStays DEF export, TypeOK
  <2>4. QED
    BY <2>2, <2>3 DEF ReadyAt, AnsweredAt, AnswersIoctl
<1>6. CASE callback(c)
  BY <1>6 DEF callback, TypeOK, FitsAt, ReadyAt, AnsweredAt, AnswersIoctl, CarriesResult
<1>7. CASE unlock_data(c) \/ unlock_parm(c)
  <2>1. /\ UNCHANGED <<request, buffers, client, stack>>
        /\ pc[c] \in {"unlock_data", "unlock_parm"}
        /\ pc'[c] \in {"unlock_parm", "idle"}
        /\ Failed(status[c]) => Failed(status'[c])
    BY <1>7, RaisedStays DEF unlock_data, unlock_parm, Return, TypeOK
  <2>2. QED
    BY <2>1 DEF FitsAt, ReadyAt, AnsweredAt, AnswersIoctl, CarriesResult, buffers, client
<1>8. QED
  BY <1>1, <1>2, <1>3, <1>4, <1>5, <1>6, <1>7 DEF Handler

(* Whatever a caller of the IDC entry point pushed is popped.              *)
LEMMA IdcLevels ==
  ASSUME NEW call \in IdcCalls
  PROVE  Pushed(call) - PoppedByThunk(call) - PoppedByCaller(call) = 0
<1>1. call.interface = "new" \/ call.interface = "old"
  BY IdcCallsAssumption DEF IdcBlock
<1>2. QED
  BY <1>1 DEF Pushed, PoppedByThunk, PoppedByCaller, IdcHighWord, IsNewInterface,
              FirstIsZero, SecondIsMagic

(* ClientInv is inductive, relative to TypeOK and LockInv.                  *)
LEMMA ClientInvStep ==
  ASSUME TypeOK, LockInv, ClientInv, [Next]_vars
  PROVE  ClientInv'
<1> SUFFICES ASSUME NEW d \in Callers
             PROVE  FitsAt(d)' /\ ReadyAt(d)' /\ AnsweredAt(d)' /\ stack'[d] = 0
  BY DEF ClientInv
<1> USE DEF ClientInv, LockInv
<1>1. CASE UNCHANGED vars
  BY <1>1 DEF vars, FitsAt, ReadyAt, AnsweredAt, AnswersIoctl, CarriesResult
<1>2. ASSUME NEW c \in Callers, c # d,
             \/ Handler(c)
             \/ \E p \in Requests : stub_strategy(c, p)
             \/ \E call \in IdcCalls : idc(c, call)
      PROVE  FitsAt(d)' /\ ReadyAt(d)' /\ AnsweredAt(d)' /\ stack'[d] = 0
  BY <1>2, Frame DEF FitsAt, ReadyAt, AnsweredAt, AnswersIoctl, CarriesResult
<1>3. CASE Handler(d)
  BY <1>3, HandlerClient
<1>4. ASSUME NEW p \in Requests, stub_strategy(d, p)
      PROVE  FitsAt(d)' /\ ReadyAt(d)' /\ AnsweredAt(d)' /\ stack'[d] = 0
  <2>1. /\ UNCHANGED <<client, stack>>
        /\ pc'[d] \in {"idle", "strategy"}
        /\ \/ request'[d].cmd # GENERIC_IOCTL
           \/ status'[d] = {}
    BY <1>4 DEF stub_strategy, TypeOK, Goto, GENERIC_IOCTL
  <2>2. QED
    BY <2>1 DEF FitsAt, ReadyAt, AnsweredAt, AnswersIoctl, client
<1>5. ASSUME NEW call \in IdcCalls, idc(d, call)
      PROVE  FitsAt(d)' /\ ReadyAt(d)' /\ AnsweredAt(d)' /\ stack'[d] = 0
  <2>1. /\ UNCHANGED <<pc, request, status, buffers, init_run>>
        /\ pc[d] = "idle"
    BY <1>5 DEF idc
  <2>2. call.pTKSSBase \in BOOLEAN /\ call.pDevHelp32 \in BOOLEAN
    BY IdcCallsAssumption DEF IdcBlock
  <2>3. FitsAt(d)'
    BY <1>5, <2>2, ExportFits DEF idc, FitsAt
  <2>4. stack'[d] = 0
    BY <1>5, IdcLevels
       DEF idc, TypeOK, Pushed, PoppedByThunk, PoppedByCaller
  <2>5. QED
    BY <2>1, <2>3, <2>4 DEF ReadyAt, AnsweredAt, AnswersIoctl, CarriesResult, buffers
<1>6. QED
  BY <1>1, <1>2, <1>3, <1>4, <1>5 DEF Next

(* Every client image is consistent, whatever route served it.             *)
THEOREM ClientsConsistent == Spec => []ClientInv
<1>1. Init => ClientInv
  BY DEF Init, ClientInv, FitsAt, ReadyAt, AnsweredAt, AnswersIoctl
<1>2. TypeOK /\ LockInv /\ ClientInv /\ [Next]_vars => ClientInv'
  BY ClientInvStep
<1>3. QED
  BY <1>1, <1>2, TypeCorrect, LocksFollowed, PTL DEF Spec

(* A client's init routine is called only when it can work.                *)
THEOREM CallbacksAreReady == Spec => []CallbackReady
<1>1. LockInv /\ ClientInv => CallbackReady
  BY DEF LockInv, LockedAt, Working, ClientInv, ReadyAt, CallbackReady
<1>2. QED
  BY <1>1, LocksFollowed, ClientsConsistent, PTL

(* No DevHelp32 structure is filled past its version.                      *)
THEOREM TablesFit == Spec => []TableFitsVersion
<1>1. ClientInv => TableFitsVersion
  BY DEF ClientInv, FitsAt, TableFitsVersion
<1>2. QED
  BY <1>1, ClientsConsistent, PTL

(* A successful ioctl carries the code of the client's init routine.       *)
THEOREM AnswersAreInitResults == Spec => []AnswerIsInitResult
<1>1. ClientInv => AnswerIsInitResult
  BY DEF ClientInv, AnsweredAt, CarriesResult, AnswerIsInitResult
<1>2. QED
  BY <1>1, ClientsConsistent, PTL

(* The two interfaces of the IDC entry point keep the stack level.         *)
THEOREM StacksBalance == Spec => []StackBalanced
<1>1. ClientInv => StackBalanced
  BY DEF ClientInv, StackBalanced
<1>2. QED
  BY <1>1, ClientsConsistent, PTL
-----------------------------------------------------------------------------
(* Between the kernel's routing of an open or a close and the step that    *)
(* handles it, nobody else changes whether the caller has a handle.        *)
Routed(c) ==
  pc[c] = "strategy" =>
    /\ request[c].cmd = OPEN => c \notin handles
    /\ request[c].cmd = CLOSE => c \in handles

OpenInv == OpenCountIsHandles /\ \A c \in Callers : Routed(c)

(* Only open and close touch the count, and each moves count and handles   *)
(* together, because the kernel routed the request.                        *)
LEMMA OpenInvStep ==
  ASSUME TypeOK, OpenInv, [Next]_vars
  PROVE  OpenInv'
<1> USE DEF OpenInv, OpenCountIsHandles
<1>1. IsFiniteSet(handles)
  BY CallersAssumption, FS_Subset DEF TypeOK
<1>2. ASSUME UNCHANGED device, NEW c \in Callers,
             \/ Handler(c) /\ pc'[c] # "strategy"
             \/ \E p \in Requests : stub_strategy(c, p)
             \/ \E call \in IdcCalls : idc(c, call)
      PROVE  OpenInv'
  <2>1. ASSUME NEW d \in Callers, d # c
        PROVE  Routed(d)'
    BY <1>2, <2>1, Frame DEF Routed, device
  <2>2. Routed(c)'
    <3>1. CASE Handler(c) /\ pc'[c] # "strategy"
      BY <3>1 DEF Routed
    <3>2. ASSUME NEW p \in Requests, stub_strategy(c, p)
          PROVE  Routed(c)'
      BY <1>2, <3>2 DEF stub_strategy, KernelSends, TypeOK, Routed, device, Goto
    <3>3. ASSUME NEW call \in IdcCalls, idc(c, call)
          PROVE  Routed(c)'
      BY <3>3 DEF idc, Routed, device
    <3>4. QED
      BY <1>2, <3>1, <3>2, <3>3
  <2>3. QED
    BY <1>2, <2>1, <2>2 DEF device
<1>3. ASSUME NEW c \in Callers, Handler(c)
      PROVE  pc'[c] # "strategy"
  <2> USE DEF TypeOK, Goto, Return, AtStep
  <2>1. CASE strategy(c) \/ open(c) \/ close(c) \/ ioctl(c)
    BY <2>1 DEF strategy, open, close, ioctl
  <2>2. CASE lock_parm(c) \/ lock_data(c) \/ check_magic(c)
    BY <2>2 DEF lock_parm, lock_data, check_magic
  <2>3. CASE thunk_parms(c) \/ export(c) \/ callback(c)
    BY <2>3 DEF thunk_parms, export, callback
  <2>4. CASE unlock_data(c) \/ unlock_parm(c)
    BY <2>4 DEF unlock_data, unlock_parm
  <2>5. QED
    BY <1>3, <2>1, <2>2, <2>3, <2>4 DEF Handler
<1>4. ASSUME NEW c \in Callers, open(c)
      PROVE  OpenInv'
  <2>1. CASE UNCHANGED device
    BY <1>2, <1>3, <1>4, <2>1 DEF Handler
  <2>2. CASE open_count' = open_count + 1 /\ handles' = handles \cup {c}
    <3>1. c \notin handles
      BY <1>4 DEF open, Routed, AtStep
    <3>2. open_count' = Cardinality(handles')
      BY <1>1, <2>2, <3>1, FS_AddElement
    <3>3. ASSUME NEW d \in Callers
          PROVE  Routed(d)'
      BY <1>3, <1>4, <2>2, Frame DEF Routed, Handler
    <3>4. QED
      BY <3>2, <3>3
  <2>3. QED
    BY <1>4, <2>1, <2>2 DEF open
<1>5. ASSUME NEW c \in Callers, close(c)
      PROVE  OpenInv'
  <2>1. CASE UNCHANGED device
    BY <1>2, <1>3, <1>5, <2>1 DEF Handler
  <2>2. CASE open_count' = open_count - 1 /\ handles' = handles \ {c}
    <3>1. c \in handles
      BY <1>5 DEF close, Routed, AtStep
    <3>2. open_count' = Cardinality(handles')
      BY <1>1, <2>2, <3>1, FS_RemoveElement
    <3>3. ASSUME NEW d \in Callers
          PROVE  Routed(d)'
      BY <1>3, <1>5, <2>2, Frame DEF Routed, Handler
    <3>4. QED
      BY <3>2, <3>3
  <2>3. QED
    BY <1>5, <2>1, <2>2 DEF close
<1>6. ASSUME NEW c \in Callers, Handler(c), ~open(c), ~close(c)
      PROVE  OpenInv'
  <2>1. UNCHANGED device
    BY <1>6 DEF Handler, strategy, ioctl, lock_parm, lock_data, check_magic,
                thunk_parms, export, callback, unlock_data, unlock_parm, device
  <2>2. QED
    BY <1>2, <1>3, <1>6, <2>1
<1>7. ASSUME NEW c \in Callers,
             \/ \E p \in Requests : stub_strategy(c, p)
             \/ \E call \in IdcCalls : idc(c, call)
      PROVE  OpenInv'
  BY <1>2, <1>7 DEF stub_strategy, idc, device
<1>8. CASE UNCHANGED vars
  BY <1>8 DEF vars, Routed
<1>9. QED
  BY <1>4, <1>5, <1>6, <1>7, <1>8 DEF Next

(* open_count is the number of handles on mwdd32$.                         *)
THEOREM OpenCountCorrect == Spec => []OpenCountIsHandles
<1>1. Init => OpenInv
  BY FS_EmptySet DEF Init, OpenInv, OpenCountIsHandles, Routed
<1>2. TypeOK /\ OpenInv /\ [Next]_vars => OpenInv'
  BY OpenInvStep
<1>3. QED
  BY <1>1, <1>2, TypeCorrect, PTL DEF Spec, OpenInv
-----------------------------------------------------------------------------
(* The words a status can be, step by step.  Two of them hold a code that  *)
(* no ERROR_I24_* constant names: that of a failure or-ed with that of an  *)
(* unlock that failed after it.                                            *)
Invalid == STERR \cup ERROR_I24_INVALID_PARAMETER
Unlocked == STERR \cup ERROR_I24_GEN_FAILURE
FinalWords == {STDON, STDON \cup STERR \cup ERROR_I24_BAD_COMMAND, STDON \cup Invalid}

WordAt(c) ==
  /\ pc[c] \notin {"idle", "unlock_data", "unlock_parm"} => status[c] = {}
  /\ pc[c] = "unlock_data" => status[c] \in {{}, Invalid}
  /\ pc[c] = "unlock_parm" =>
       \/ status[c] \in {{}, Invalid}
       \/ "data" \in held[c] /\ status[c] \in {Unlocked, Invalid \cup Unlocked}
  /\ pc[c] = "idle" /\ status[c] # {} =>
       \/ status[c] \in FinalWords
       \/ /\ AnswersIoctl(c) /\ held[c] # {}
          /\ status[c] \in {STDON \cup Unlocked, STDON \cup Invalid \cup Unlocked}

WordInv == \A c \in Callers : WordAt(c)

(* The bits of each word the driver can answer.                            *)
LEMMA WordsWellFormed ==
  /\ \A w \in FinalWords :
       /\ STDON \subseteq w
       /\ Failed(w) <=> ErrorCode(w) # {}
       /\ ErrorCode(w) \in {{}, ERROR_I24_BAD_COMMAND, ERROR_I24_INVALID_PARAMETER}
  /\ \A w \in {STDON \cup Unlocked, STDON \cup Invalid \cup Unlocked} :
       /\ STDON \subseteq w
       /\ Failed(w) <=> ErrorCode(w) # {}
<1> USE DEF STDON, STERR, STECODE, Failed, ErrorCode, Invalid, Unlocked,
            ERROR_I24_BAD_COMMAND, ERROR_I24_INVALID_PARAMETER, ERROR_I24_GEN_FAILURE
<1>1. /\ STDON \subseteq STDON
      /\ ~Failed(STDON)
      /\ ErrorCode(STDON) = {}
  OBVIOUS
<1>2. LET w == STDON \cup STERR \cup ERROR_I24_BAD_COMMAND IN
        STDON \subseteq w /\ Failed(w) /\ ErrorCode(w) = ERROR_I24_BAD_COMMAND
  OBVIOUS
<1>3. LET w == STDON \cup Invalid IN
        STDON \subseteq w /\ Failed(w) /\ ErrorCode(w) = ERROR_I24_INVALID_PARAMETER
  OBVIOUS
<1>4. \A w \in {STDON \cup Unlocked, STDON \cup Invalid \cup Unlocked} :
        STDON \subseteq w /\ Failed(w) /\ 2 \in ErrorCode(w)
  OBVIOUS
<1>5. ERROR_I24_BAD_COMMAND # {} /\ ERROR_I24_INVALID_PARAMETER # {}
  OBVIOUS
<1> HIDE DEF STDON, STERR, Failed, ErrorCode, Invalid, Unlocked,
             ERROR_I24_BAD_COMMAND, ERROR_I24_INVALID_PARAMETER
<1>6. QED
  BY <1>1, <1>2, <1>3, <1>4, <1>5 DEF FinalWords

(* How the steps of a handler make one word of another.                    *)
LEMMA RaiseWord ==
  ASSUME TypeOK, NEW c \in Callers, NEW bits
  PROVE  /\ Raise(c, bits) => status'[c] = status[c] \cup bits
         /\ Return(c, bits) => /\ status'[c] = status[c] \cup (bits \cup STDON)
                              /\ pc'[c] = "idle"
BY DEF TypeOK, Raise, Return, Goto

(* A handler leaves the status of its request well formed, whichever of    *)
(* its calls failed before.                                                *)
LEMMA HandlerWord ==
  ASSUME TypeOK, NEW c \in Callers, LockedAt(c), WordAt(c), Handler(c)
  PROVE  WordAt(c)'
<1> USE RaiseWord DEF AtStep
<1>1. CASE strategy(c) \/ open(c) \/ close(c)
  <2>1. status[c] = {}
    BY <1>1 DEF WordAt, strategy, open, close
  <2>2. \E bits \in {{}, STERR \cup ERROR_I24_BAD_COMMAND, Invalid} : Return(c, bits)
    <3>1. CASE strategy(c)
      BY <3>1 DEF strategy, Invalid
    <3>2. CASE open(c) \/ close(c)
      BY <3>2 DEF open, close, Invalid
    <3>3. QED
      BY <1>1, <3>1, <3>2
  <2>3. PICK bits \in {{}, STERR \cup ERROR_I24_BAD_COMMAND, Invalid} : Return(c, bits)
    BY <2>2
  <2>4. status'[c] = bits \cup STDON /\ pc'[c] = "idle"
    BY <2>1, <2>3
  <2>5. status'[c] \in FinalWords
    BY <2>4 DEF FinalWords
  <2>6. QED
    BY <2>4, <2>5 DEF WordAt
<1>2. CASE ioctl(c) \/ lock_parm(c)
  <2>1. status[c] = {}
    BY <1>2 DEF WordAt, ioctl, lock_parm
  <2>2. \/ UNCHANGED status /\ pc'[c] \in {"lock_parm", "lock_data"}
        \/ \E bits \in {STERR \cup ERROR_I24_BAD_COMMAND, Invalid} : Return(c, bits)
    BY <1>2 DEF ioctl, lock_parm, Goto, TypeOK, Invalid
  <2>3. CASE UNCHANGED status /\ pc'[c] \in {"lock_parm", "lock_data"}
    BY <2>1, <2>3 DEF WordAt
  <2>4. ASSUME NEW bits \in {STERR \cup ERROR_I24_BAD_COMMAND, Invalid}, Return(c, bits)
        PROVE  WordAt(c)'
    <3>1. status'[c] = bits \cup STDON /\ pc'[c] = "idle"
      BY <2>1, <2>4
    <3>2. status'[c] \in FinalWords
      BY <3>1 DEF FinalWords
    <3>3. QED
      BY <3>1, <3>2 DEF WordAt
  <2>5. QED
    BY <2>2, <2>3, <2>4
<1>3. CASE lock_data(c) \/ check_magic(c) \/ thunk_parms(c) \/ export(c) \/ callback(c)
  <2>1. status[c] = {}
    BY <1>3 DEF WordAt, lock_data, check_magic, thunk_parms, export, callback
  <2>2. \/ UNCHANGED status /\ pc'[c] \notin {"idle", "unlock_parm"}
        \/ Raise(c, Invalid) /\ pc'[c] \in {"unlock_data", "unlock_parm"}
    <3>1. CASE lock_data(c) \/ check_magic(c)
      BY <3>1 DEF lock_data, check_magic, Goto, TypeOK, Invalid
    <3>2. CASE thunk_parms(c) \/ export(c) \/ callback(c)
      BY <3>2 DEF thunk_parms, export, callback, Goto, TypeOK, Invalid
    <3>3. QED
      BY <1>3, <3>1, <3>2
  <2>3. status'[c] = {} \/ status'[c] = Invalid
    BY <2>1, <2>2
  <2>4. QED
    BY <2>1, <2>2, <2>3 DEF WordAt
<1>4. CASE unlock_data(c)
  <2>1. status[c] \in {{}, Invalid} /\ held[c] = {"parm", "data"}
    BY <1>4 DEF WordAt, LockedAt, Working, unlock_data
  <2>2. pc'[c] = "unlock_parm"
    BY <1>4 DEF unlock_data, Goto, TypeOK
  <2>3. \/ UNCHANGED status
        \/ UNCHANGED held /\ Raise(c, Unlocked)
    BY <1>4 DEF unlock_data, Unlocked
  <2>4. CASE UNCHANGED status
    BY <2>1, <2>2, <2>4 DEF WordAt
  <2>5. CASE UNCHANGED held /\ Raise(c, Unlocked)
    <3>1. status'[c] \in {Unlocked, Invalid \cup Unlocked}
      BY <2>1, <2>5
    <3>2. QED
      BY <2>1, <2>2, <2>5, <3>1 DEF WordAt
  <2>6. QED
    BY <2>3, <2>4, <2>5
<1>5. CASE unlock_parm(c)
  <2>1. /\ request'[c].cmd = GENERIC_IOCTL
        /\ \/ status[c] \in {{}, Invalid}
           \/ "data" \in held[c] /\ status[c] \in {Unlocked, Invalid \cup Unlocked}
    BY <1>5 DEF WordAt, LockedAt, IoctlSteps, unlock_parm
  <2>2. \/ held' = [held EXCEPT ![c] = @ \ {"parm"}] /\ Return(c, {})
        \/ UNCHANGED held /\ Return(c, Unlocked)
    BY <1>5 DEF unlock_parm, Unlocked
  <2>3. "parm" \in held[c]
    BY <1>5 DEF LockedAt, unlock_parm
  <2>4. pc'[c] = "idle"
    BY <2>2
  <2>5. CASE held' = [held EXCEPT ![c] = @ \ {"parm"}] /\ Return(c, {})
    <3>1. status'[c] = status[c] \cup STDON
      BY <2>5
    <3>2. CASE status[c] \in {{}, Invalid}
      BY <2>4, <3>1, <3>2 DEF WordAt, FinalWords
    <3>3. CASE "data" \in held[c] /\ status[c] \in {Unlocked, Invalid \cup Unlocked}
      <4>1. "data" \in held'[c]
        BY <2>5, <3>3 DEF TypeOK
      <4>2. status'[c] \in {STDON \cup Unlocked, STDON \cup Invalid \cup Unlocked}
        BY <3>1, <3>3
      <4>3. QED
        BY <2>1, <2>4, <4>1, <4>2 DEF WordAt, AnswersIoctl, Unlocked, STERR
    <3>4. QED
      BY <2>1, <3>2, <3>3
  <2>6. CASE UNCHANGED held /\ Return(c, Unlocked)
    <3>1. status'[c] = status[c] \cup (Unlocked \cup STDON)
      BY <2>6
    <3>2. status'[c] \in {STDON \cup Unlocked, STDON \cup Invalid \cup Unlocked}
      BY <2>1, <3>1
    <3>3. QED
      BY <2>1, <2>3, <2>4, <2>6, <3>2 DEF WordAt, AnswersIoctl, Unlocked, STERR
  <2>7. QED
    BY <2>2, <2>5, <2>6
<1>6. QED
  BY <1>1, <1>2, <1>3, <1>4, <1>5 DEF Handler

(* WordInv is inductive, relative to TypeOK and LockInv.                   *)
LEMMA WordInvStep ==
  ASSUME TypeOK, LockInv, WordInv, [Next]_vars
  PROVE  WordInv'
<1> SUFFICES ASSUME NEW d \in Callers
             PROVE  WordAt(d)'
  BY DEF WordInv
<1> USE DEF WordInv, LockInv
<1>1. CASE UNCHANGED vars
  BY <1>1 DEF vars, WordAt, AnswersIoctl
<1>2. ASSUME NEW c \in Callers, c # d,
             \/ Handler(c)
             \/ \E p \in Requests : stub_strategy(c, p)
             \/ \E call \in IdcCalls : idc(c, call)
      PROVE  WordAt(d)'
  BY <1>2, Frame DEF WordAt, AnswersIoctl
<1>3. CASE Handler(d)
  BY <1>3, HandlerWord
<1>4. ASSUME NEW p \in Requests, stub_strategy(d, p)
      PROVE  WordAt(d)'
  <2>1. \/ pc'[d] = "strategy" /\ status'[d] = {}
        \/ /\ pc'[d] = "idle"
           /\ status'[d] = STDON \cup STERR \cup ERROR_I24_BAD_COMMAND
    BY <1>4 DEF stub_strategy, TypeOK, Goto
  <2>2. QED
    BY <2>1 DEF WordAt, FinalWords
<1>5. ASSUME NEW call \in IdcCalls, idc(d, call)
      PROVE  WordAt(d)'
  BY <1>5 DEF idc, WordAt, AnswersIoctl
<1>6. QED
  BY <1>1, <1>2, <1>3, <1>4, <1>5 DEF Next

(* Every answered request has a well-formed status word.                   *)
THEOREM StatusIsWellFormed == Spec => []StatusWellFormed
<1>1. Init => WordInv
  BY DEF Init, WordInv, WordAt
<1>2. TypeOK /\ LockInv /\ WordInv /\ [Next]_vars => WordInv'
  BY WordInvStep
<1>3. WordInv => StatusWellFormed
  BY WordsWellFormed DEF WordInv, WordAt, StatusWellFormed
<1>4. QED
  BY <1>1, <1>2, <1>3, TypeCorrect, LocksFollowed, PTL DEF Spec

=============================================================================
