------------------------ MODULE FshSemaphores_proofs ------------------------
(***************************************************************************)
(* Proofs about the inline semaphores for any number of threads and        *)
(* semaphores.                                                             *)
(***************************************************************************)
EXTENDS FshSemaphores, TLAPS

(* Every variable keeps its type.                                          *)
THEOREM TypeCorrect == SafeSpec => []TypeOK
<1> USE DEF InCall, Functions, Codes
<1>0. /\ NoCall \in Frames
      /\ \A f \in Functions, s \in Semaphores, forever \in BOOLEAN :
           /\ Call(f, s, forever) \in Frames
           /\ Call(f, s, forever).fn = f /\ Call(f, s, forever).sem = s
  BY DEF Frames, NoCall, Call
<1>1. Init => TypeOK
  BY <1>0 DEF Init, TypeOK
<1>2. TypeOK /\ [Next]_vars => TypeOK'
  <2> SUFFICES ASSUME TypeOK, [Next]_vars
               PROVE  TypeOK'
    OBVIOUS
  <2> USE DEF TypeOK, Goes, Runs, Return, Holder
  <2>1. CASE UNCHANGED vars
    BY <2>1 DEF vars
  <2>2. ASSUME NEW t \in Threads, call(t)
        PROVE  TypeOK'
    <3>1. PICK f \in Functions, s \in Semaphores, forever \in BOOLEAN :
             /\ arg' = [arg EXCEPT ![t] = Call(f, s, forever)]
             /\ IF f = "semclear"
                  THEN Goes(t, "store") /\ UNCHANGED <<enabled, rc>>
                  ELSE /\ Goes(t, f) /\ enabled' = FALSE
                       /\ rc' = [rc EXCEPT ![t] = "no_error"]
      BY <2>2 DEF call
    <3>2. arg' \in [Threads -> Frames]
      BY <1>0, <3>1
    <3>3. pc' \in [Threads -> InCall \cup {"idle", "store", "run"}] /\ rc' \in [Threads -> Codes]
      BY <3>1
    <3>4. \A u \in Threads : pc'[u] # "idle" => arg'[u].sem \in Semaphores
      BY <1>0, <3>1
    <3>5. \A u \in Threads : pc'[u] \in InCall => arg'[u].fn \in {"semrequest", "semset", "semwait"}
      BY <1>0, <3>1
    <3>6. UNCHANGED <<sem, held, handler>> /\ cpu' = t /\ enabled' \in BOOLEAN
      BY <2>2, <3>1 DEF call
    <3> QED
      BY <3>2, <3>3, <3>4, <3>5, <3>6
  <2>3. ASSUME NEW t \in Threads, semwait(t)
        PROVE  TypeOK'
    <3>1. arg' \in [Threads -> Frames]
      BY <1>0, <2>3 DEF semwait
    <3>2. pc' \in [Threads -> InCall \cup {"idle", "store", "run"}] /\ rc' \in [Threads -> Codes]
      BY <1>0, <2>3 DEF semwait
    <3>3. \A u \in Threads : pc'[u] # "idle" => arg'[u].sem \in Semaphores
      BY <1>0, <2>3 DEF semwait
    <3>4. \A u \in Threads : pc'[u] \in InCall => arg'[u].fn \in {"semrequest", "semset", "semwait"}
      BY <1>0, <2>3 DEF semwait
    <3>5. /\ UNCHANGED <<sem, held, handler>>
          /\ cpu' \in Threads \cup {Nobody} /\ enabled' \in BOOLEAN
      BY <1>0, <2>3 DEF semwait
    <3> QED
      BY <3>1, <3>2, <3>3, <3>4, <3>5
  <2>4. ASSUME NEW t \in Threads, semrequest(t)
        PROVE  TypeOK'
    <3>1. arg' \in [Threads -> Frames]
      BY <1>0, <2>4 DEF semrequest
    <3>2. pc' \in [Threads -> InCall \cup {"idle", "store", "run"}] /\ rc' \in [Threads -> Codes]
      BY <1>0, <2>4 DEF semrequest
    <3>3. \A u \in Threads : pc'[u] # "idle" => arg'[u].sem \in Semaphores
      BY <1>0, <2>4 DEF semrequest
    <3>4. \A u \in Threads : pc'[u] \in InCall => arg'[u].fn \in {"semrequest", "semset", "semwait"}
      BY <1>0, <2>4 DEF semrequest
    <3>5. handler' = handler /\ cpu' \in Threads \cup {Nobody} /\ enabled' \in BOOLEAN
      BY <1>0, <2>4 DEF semrequest
    <3>6. sem' \in [Semaphores -> {0, 1}]
      BY <2>4 DEF semrequest
    <3>7. arg[t].sem \in Semaphores
      BY <2>4 DEF semrequest
    <3>8. held' = held \/ held' = [held EXCEPT ![Holder(t, arg[t].sem)] = @ \cup {arg[t].sem}]
      BY <2>4 DEF semrequest
    <3>9. held' \in [Threads \cup {Device} -> SUBSET Semaphores]
      BY <3>7, <3>8
    <3> QED
      BY <3>1, <3>2, <3>3, <3>4, <3>5, <3>6, <3>9
  <2>5. ASSUME NEW t \in Threads, semset(t)
        PROVE  TypeOK'
    <3>1. arg' \in [Threads -> Frames]
      BY <1>0, <2>5 DEF semset
    <3>2. pc' \in [Threads -> InCall \cup {"idle", "store", "run"}] /\ rc' \in [Threads -> Codes]
      BY <1>0, <2>5 DEF semset
    <3>3. \A u \in Threads : pc'[u] # "idle" => arg'[u].sem \in Semaphores
      BY <1>0, <2>5 DEF semset
    <3>4. \A u \in Threads : pc'[u] \in InCall => arg'[u].fn \in {"semrequest", "semset", "semwait"}
      BY <1>0, <2>5 DEF semset
    <3>5. handler' = handler /\ cpu' \in Threads \cup {Nobody} /\ enabled' \in BOOLEAN
      BY <1>0, <2>5 DEF semset
    <3>6. sem' \in [Semaphores -> {0, 1}]
      BY <2>5 DEF semset
    <3>7. arg[t].sem \in Semaphores
      BY <2>5 DEF semset
    <3>8. held' = held \/ held' = [held EXCEPT ![Holder(t, arg[t].sem)] = @ \cup {arg[t].sem}]
      BY <2>5 DEF semset
    <3>9. held' \in [Threads \cup {Device} -> SUBSET Semaphores]
      BY <3>7, <3>8
    <3> QED
      BY <3>1, <3>2, <3>3, <3>4, <3>5, <3>6, <3>9
  <2>6. ASSUME NEW t \in Threads, ProcBlock(t)
        PROVE  TypeOK'
    BY <2>6 DEF ProcBlock
  <2>7. ASSUME NEW t \in Threads, timeout(t)
        PROVE  TypeOK'
    BY <2>7 DEF timeout
  <2>8. ASSUME NEW t \in Threads, resume(t)
        PROVE  TypeOK'
    <3>1. arg' \in [Threads -> Frames]
      BY <1>0, <2>8 DEF resume
    <3>2. pc' \in [Threads -> InCall \cup {"idle", "store", "run"}] /\ rc' \in [Threads -> Codes]
      BY <1>0, <2>8 DEF resume
    <3>3. \A u \in Threads : pc'[u] # "idle" => arg'[u].sem \in Semaphores
      BY <1>0, <2>8 DEF resume
    <3>4. \A u \in Threads : pc'[u] \in InCall => arg'[u].fn \in {"semrequest", "semset", "semwait"}
      BY <1>0, <2>8 DEF resume
    <3>5. /\ UNCHANGED <<sem, held, handler>>
          /\ cpu' \in Threads \cup {Nobody} /\ enabled' \in BOOLEAN
      BY <1>0, <2>8 DEF resume
    <3> QED
      BY <3>1, <3>2, <3>3, <3>4, <3>5
  <2>9. ASSUME NEW t \in Threads, semclear(t)
        PROVE  TypeOK'
    BY <2>9 DEF semclear
  <2>10. ASSUME NEW t \in Threads, semclear_run(t)
         PROVE  TypeOK'
    BY <1>0, <2>10 DEF semclear_run
  <2>11. ASSUME NEW s \in Semaphores, interrupt(s)
         PROVE  TypeOK'
    BY <2>11 DEF interrupt, threadVars
  <2>12. ASSUME NEW s \in Semaphores, RunByOthers(s)
         PROVE  TypeOK'
    BY <2>12 DEF RunByOthers, ProcRun
  <2>13. CASE interrupt_run
    BY <2>13 DEF interrupt_run, ProcRun
  <2> QED
    BY <2>1, <2>2, <2>3, <2>4, <2>5, <2>6, <2>7, <2>8, <2>9, <2>10, <2>11, <2>12, <2>13
    DEF Next, ThreadStep
<1> QED
  BY <1>1, <1>2, PTL DEF SafeSpec

(***************************************************************************)
(* Neither of the two safety invariants is inductive.  A waker that comes  *)
(* between the test of the word and ProcBlock is excluded because only the *)
(* thread that has the processor is there, with interrupts disabled, and   *)
(* it has found the word set.                                              *)
(***************************************************************************)
Testing == {"semrequest", "semset", "semwait", "block"}

Processor ==
  /\ \A t \in Threads : pc[t] \in Testing \cup {"store", "run"} <=> cpu = t
  /\ \A t \in Threads : pc[t] \in Testing => ~enabled
  /\ \A t \in Threads : pc[t] = "block" => sem[arg[t].sem] = 1
  /\ \A t \in Threads : pc[t] = "store" => arg[t].sem \in held[t]

IInv == TypeOK /\ DisabledOnlyInside /\ Processor /\ WordTellsHolder /\ NoLostWakeup

(* A word is taken only from 0 to 1, with the name of the one who holds it *)
(* then, and goes back to 0 only by its holder.                            *)
LEMMA WordStep == TypeOK /\ Processor /\ WordTellsHolder /\ [Next]_vars => WordTellsHolder'
<1> SUFFICES ASSUME TypeOK, Processor, WordTellsHolder, [Next]_vars
             PROVE  WordTellsHolder'
  OBVIOUS
<1> USE NamesAssumption DEF TypeOK, WordTellsHolder
<1>1. ASSUME UNCHANGED <<sem, held>>
      PROVE  WordTellsHolder'
  BY <1>1
<1>2. ASSUME NEW s \in Semaphores, NEW h \in Threads \cup {Device}, sem[s] = 0,
             sem' = [sem EXCEPT ![s] = 1], held' = [held EXCEPT ![h] = @ \cup {s}]
      PROVE  WordTellsHolder'
  BY <1>2
<1>3. ASSUME NEW s \in Semaphores, NEW h \in Threads \cup {Device}, s \in held[h],
             sem' = [sem EXCEPT ![s] = 0], held' = [held EXCEPT ![h] = @ \ {s}]
      PROVE  WordTellsHolder'
  BY <1>3
<1>4. ASSUME NEW s \in Semaphores, sem[s] # 0,
             sem' = [sem EXCEPT ![s] = 1], held' = held
      PROVE  WordTellsHolder'
  BY <1>4
<1>5. ASSUME NEW t \in Threads, semrequest(t) \/ semset(t)
      PROVE  WordTellsHolder'
  <2>1. arg[t].sem \in Semaphores /\ Holder(t, arg[t].sem) \in Threads \cup {Device}
    BY <1>5 DEF semrequest, semset, Runs, Holder
  <2>2. CASE sem[arg[t].sem] # 0
    BY <1>5, <2>1, <2>2, <1>4 DEF semrequest, semset
  <2>3. CASE sem[arg[t].sem] = 0
    BY <1>5, <2>1, <2>3, <1>2 DEF semrequest, semset
  <2> QED
    BY <2>2, <2>3
<1>6. ASSUME NEW t \in Threads, semclear(t)
      PROVE  WordTellsHolder'
  BY <1>6, <1>3 DEF semclear, Processor, Runs
<1>7. ASSUME NEW s \in Semaphores, interrupt(s)
      PROVE  WordTellsHolder'
  BY <1>7, <1>3 DEF interrupt
<1>8. ASSUME NEW t \in Threads,
             \/ call(t) \/ semwait(t) \/ ProcBlock(t) \/ timeout(t) \/ resume(t) \/ semclear_run(t)
      PROVE  UNCHANGED <<sem, held>>
  BY <1>8 DEF call, semwait, ProcBlock, timeout, resume, semclear_run
<1>9. ASSUME NEW s \in Semaphores, RunByOthers(s) \/ interrupt_run
      PROVE  UNCHANGED <<sem, held>>
  BY <1>9 DEF RunByOthers, interrupt_run
<1>10. CASE interrupt_run
  BY <1>10, <1>1 DEF interrupt_run
<1>11. CASE UNCHANGED vars
  BY <1>11, <1>1 DEF vars
<1> QED
  BY <1>1, <1>5, <1>6, <1>7, <1>8, <1>9, <1>10, <1>11 DEF Next, ThreadStep

(* The processor and the interrupt flag follow the places of the threads.  *)
LEMMA ProcessorStep ==
  TypeOK /\ DisabledOnlyInside /\ Processor /\ WordTellsHolder /\ [Next]_vars
    => DisabledOnlyInside' /\ Processor'
<1> SUFFICES ASSUME TypeOK, DisabledOnlyInside, Processor, WordTellsHolder, [Next]_vars
             PROVE  DisabledOnlyInside' /\ Processor'
  OBVIOUS
<1> USE NamesAssumption
    DEF TypeOK, DisabledOnlyInside, Processor, Testing, InCall, Return, Goes, Runs
<1>2. ASSUME NEW t \in Threads, call(t)
      PROVE  DisabledOnlyInside' /\ Processor'
  <2>1. PICK f \in Functions, s \in Semaphores, forever \in BOOLEAN :
          /\ f = "semclear" => s \in held[t]
          /\ f = "semrequest" => s \in Locks
          /\ arg' = [arg EXCEPT ![t] = Call(f, s, forever)]
          /\ IF f = "semclear"
               THEN Goes(t, "store") /\ UNCHANGED <<enabled, rc>>
               ELSE /\ Goes(t, f) /\ enabled' = FALSE
                    /\ rc' = [rc EXCEPT ![t] = "no_error"]
    BY <1>2 DEF call
  <2>2. Call(f, s, forever).sem = s
    BY DEF Call
  <2>3. UNCHANGED <<sem, held, handler>> /\ cpu = Nobody /\ cpu' = t /\ pc[t] = "idle"
    BY <1>2 DEF call
  <2>4. DisabledOnlyInside'
    BY <2>1, <2>3 DEF Functions
  <2>5. \A u \in Threads : pc'[u] \in Testing \cup {"store", "run"} <=> cpu' = u
    BY <2>1, <2>3 DEF Functions
  <2>6. \A u \in Threads : pc'[u] \in Testing => ~enabled'
    BY <2>1, <2>3 DEF Functions
  <2>7. \A u \in Threads : pc'[u] = "block" => sem'[arg'[u].sem] = 1
    BY <2>1, <2>3 DEF Functions
  <2>8. \A u \in Threads : pc'[u] = "store" => arg'[u].sem \in held'[u]
    BY <2>1, <2>2, <2>3 DEF Functions
  <2> QED
    BY <2>4, <2>5, <2>6, <2>7, <2>8
<1>3. ASSUME NEW t \in Threads, semwait(t)
      PROVE  DisabledOnlyInside' /\ Processor'
  BY <1>3 DEF semwait
<1>4. ASSUME NEW t \in Threads, semrequest(t)
      PROVE  DisabledOnlyInside' /\ Processor'
  BY <1>4 DEF semrequest
<1>5. ASSUME NEW t \in Threads, semset(t)
      PROVE  DisabledOnlyInside' /\ Processor'
  BY <1>5 DEF semset
<1>6. ASSUME NEW t \in Threads, ProcBlock(t)
      PROVE  DisabledOnlyInside' /\ Processor'
  BY <1>6 DEF ProcBlock
<1>7. ASSUME NEW t \in Threads, timeout(t)
      PROVE  DisabledOnlyInside' /\ Processor'
  BY <1>7 DEF timeout
<1>8. ASSUME NEW t \in Threads, resume(t)
      PROVE  DisabledOnlyInside' /\ Processor'
  BY <1>8 DEF resume
<1>9. ASSUME NEW t \in Threads, semclear(t)
      PROVE  DisabledOnlyInside' /\ Processor'
  BY <1>9 DEF semclear
<1>10. ASSUME NEW t \in Threads, semclear_run(t)
      PROVE  DisabledOnlyInside' /\ Processor'
  BY <1>10 DEF semclear_run
<1>11. ASSUME NEW s \in Semaphores, interrupt(s)
      PROVE  DisabledOnlyInside' /\ Processor'
  BY <1>11 DEF interrupt, threadVars
<1>12. ASSUME NEW s \in Semaphores, RunByOthers(s)
      PROVE  DisabledOnlyInside' /\ Processor'
  BY <1>12 DEF RunByOthers, ProcRun
<1>13. CASE interrupt_run
  BY <1>13 DEF interrupt_run, ProcRun
<1>14. CASE UNCHANGED vars
  BY <1>14 DEF vars
<1> QED
  BY <1>2, <1>3, <1>4, <1>5, <1>6, <1>7, <1>8, <1>9, <1>10, <1>11, <1>12, <1>13, <1>14 DEF Next, ThreadStep

(* A wake-up is never lost.                                                *)
LEMMA WakeupStep ==
  TypeOK /\ DisabledOnlyInside /\ Processor /\ WordTellsHolder /\ NoLostWakeup /\ [Next]_vars
    => NoLostWakeup'
<1> SUFFICES ASSUME TypeOK, DisabledOnlyInside, Processor, WordTellsHolder, NoLostWakeup, [Next]_vars
             PROVE  NoLostWakeup'
  OBVIOUS
<1> USE NamesAssumption
    DEF TypeOK, Processor, Testing, NoLostWakeup, InCall, Return, Goes, Runs
<1>2. ASSUME NEW t \in Threads, call(t)
      PROVE  NoLostWakeup'
  <2>1. PICK f \in Functions, s \in Semaphores, forever \in BOOLEAN :
          /\ f = "semclear" => s \in held[t]
          /\ f = "semrequest" => s \in Locks
          /\ arg' = [arg EXCEPT ![t] = Call(f, s, forever)]
          /\ IF f = "semclear"
               THEN Goes(t, "store") /\ UNCHANGED <<enabled, rc>>
               ELSE /\ Goes(t, f) /\ enabled' = FALSE
                    /\ rc' = [rc EXCEPT ![t] = "no_error"]
    BY <1>2 DEF call
  <2>2. Call(f, s, forever).sem = s
    BY DEF Call
  <2>3. UNCHANGED <<sem, held, handler>> /\ cpu = Nobody /\ cpu' = t /\ pc[t] = "idle"
    BY <1>2 DEF call
  <2>4. \A u \in Threads : pc'[u] = "blocked" => pc[u] = "blocked" /\ arg'[u] = arg[u]
    BY <2>1, <2>3 DEF Functions
  <2>5. \A u \in Threads : pc[u] = "run" => pc'[u] = "run" /\ arg'[u] = arg[u]
    BY <2>1, <2>3 DEF Functions
  <2> QED
    BY <2>3, <2>4, <2>5
<1>3. ASSUME NEW t \in Threads, semwait(t)
      PROVE  NoLostWakeup'
  BY <1>3 DEF semwait
<1>4. ASSUME NEW t \in Threads, semrequest(t)
      PROVE  NoLostWakeup'
  BY <1>4 DEF semrequest
<1>5. ASSUME NEW t \in Threads, semset(t)
      PROVE  NoLostWakeup'
  BY <1>5 DEF semset
<1>6. ASSUME NEW t \in Threads, ProcBlock(t)
      PROVE  NoLostWakeup'
  BY <1>6 DEF ProcBlock
<1>7. ASSUME NEW t \in Threads, timeout(t)
      PROVE  NoLostWakeup'
  BY <1>7 DEF timeout
<1>8. ASSUME NEW t \in Threads, resume(t)
      PROVE  NoLostWakeup'
  BY <1>8 DEF resume
<1>9. ASSUME NEW t \in Threads, semclear(t)
      PROVE  NoLostWakeup'
  BY <1>9 DEF semclear
<1>10. ASSUME NEW t \in Threads, semclear_run(t)
      PROVE  NoLostWakeup'
  BY <1>10 DEF semclear_run
<1>11. ASSUME NEW s \in Semaphores, interrupt(s)
      PROVE  NoLostWakeup'
  <2>1. /\ UNCHANGED <<pc, arg>> /\ handler = Nobody /\ handler' = s
        /\ sem' = [sem EXCEPT ![s] = 0]
    BY <1>11 DEF interrupt, threadVars
  <2> SUFFICES ASSUME NEW t \in Threads, pc[t] = "blocked", sem'[arg[t].sem] = 0, arg[t].sem # s
               PROVE  \E u \in Threads : pc[u] = "run" /\ arg[u].sem = arg[t].sem
    BY <2>1
  <2>2. arg[t].sem \in Semaphores
    OBVIOUS
  <2>3. sem[arg[t].sem] = 0 /\ arg[t].sem # Nobody
    BY <2>1, <2>2 DEF Semaphores
  <2> QED
    BY <2>1, <2>3
<1>12. ASSUME NEW s \in Semaphores, RunByOthers(s)
      PROVE  NoLostWakeup'
  BY <1>12 DEF RunByOthers, ProcRun
<1>13. CASE interrupt_run
  BY <1>13 DEF interrupt_run, ProcRun
<1>14. CASE UNCHANGED vars
  BY <1>14 DEF vars
<1> QED
  BY <1>2, <1>3, <1>4, <1>5, <1>6, <1>7, <1>8, <1>9, <1>10, <1>11, <1>12, <1>13, <1>14 DEF Next, ThreadStep

(* The inductive invariant, for any number of threads and semaphores.      *)
THEOREM SemaphoresConsistent == SafeSpec => []IInv
<1>1. Init => DisabledOnlyInside /\ Processor /\ WordTellsHolder /\ NoLostWakeup
  BY NamesAssumption
  DEF Init, DisabledOnlyInside, Processor, Testing, WordTellsHolder, NoLostWakeup
<1>2. TypeOK /\ DisabledOnlyInside /\ Processor /\ WordTellsHolder /\ NoLostWakeup /\ [Next]_vars
        => DisabledOnlyInside' /\ Processor' /\ WordTellsHolder' /\ NoLostWakeup'
  BY ProcessorStep, WordStep, WakeupStep
<1> QED
  BY <1>1, <1>2, TypeCorrect, PTL DEF SafeSpec, IInv

(* WordTellsHolder: the word of a semaphore is set exactly while one       *)
(* thread, or the device, holds it.                                        *)
THEOREM WordsTellHolders == SafeSpec => []WordTellsHolder
BY SemaphoresConsistent, PTL DEF IInv

(* NoLostWakeup: nobody blocks on a clear semaphore without a ProcRun to   *)
(* come.                                                                   *)
THEOREM WakeupsArrive == SafeSpec => []NoLostWakeup
BY SemaphoresConsistent, PTL DEF IInv

(* DisabledOnlyInside: interrupts are enabled again on every way out.      *)
THEOREM InterruptsComeBack == SafeSpec => []DisabledOnlyInside
BY SemaphoresConsistent, PTL DEF IInv

(***************************************************************************)
(* Refinement, as far as safety goes: every step is one of Semaphore, or   *)
(* is not to be seen there.                                                *)
(***************************************************************************)

\* The function that was called, and its local variable rc in the loop.
CallInv ==
  \A t \in Threads :
    /\ pc[t] \in Testing \cup {"blocked"} => rc[t] = "no_error"
    /\ pc[t] = "ready" => rc[t] \in {"no_error", "refused"}
    /\ pc[t] \in {"semrequest", "semset", "semwait"} => arg[t].fn = pc[t]

(* Every step keeps what is known of the call.                             *)
LEMMA CallStep == TypeOK /\ CallInv /\ [Next]_vars => CallInv'
<1> SUFFICES ASSUME TypeOK, CallInv, [Next]_vars
             PROVE  CallInv'
  OBVIOUS
<1>0. ASSUME NEW t \in Threads, call(t)
      PROVE  \E f \in Functions, s \in Semaphores, forever \in BOOLEAN :
          /\ arg' = [arg EXCEPT ![t] = Call(f, s, forever)]
          /\ IF f = "semclear"
               THEN Goes(t, "store") /\ UNCHANGED <<enabled, rc>>
               ELSE /\ Goes(t, f) /\ enabled' = FALSE
                    /\ rc' = [rc EXCEPT ![t] = "no_error"]
  BY <1>0 DEF call
<1> USE DEF TypeOK, CallInv, Testing, InCall, Return, Goes, Runs
<1>1. ASSUME NEW t \in Threads, call(t)
      PROVE  CallInv'
  <2>1. PICK f \in Functions, s \in Semaphores, forever \in BOOLEAN :
          /\ arg' = [arg EXCEPT ![t] = Call(f, s, forever)]
          /\ IF f = "semclear"
               THEN Goes(t, "store") /\ UNCHANGED <<enabled, rc>>
               ELSE /\ Goes(t, f) /\ enabled' = FALSE
                    /\ rc' = [rc EXCEPT ![t] = "no_error"]
    BY <1>0, <1>1
  <2>2. Call(f, s, forever).fn = f
    BY DEF Call
  <2> QED
    BY <2>1, <2>2 DEF Functions
<1>2. ASSUME NEW t \in Threads,
             semwait(t) \/ semrequest(t) \/ semset(t) \/ ProcBlock(t) \/ timeout(t)
      PROVE  CallInv'
  BY <1>2 DEF semwait, semrequest, semset, ProcBlock, timeout
<1>3. ASSUME NEW t \in Threads, resume(t) \/ semclear(t) \/ semclear_run(t)
      PROVE  CallInv'
  BY <1>3 DEF resume, semclear, semclear_run
<1>4. ASSUME NEW s \in Semaphores, interrupt(s) \/ RunByOthers(s)
      PROVE  CallInv'
  BY <1>4 DEF interrupt, threadVars, RunByOthers, ProcRun
<1>5. CASE interrupt_run
  BY <1>5 DEF interrupt_run, ProcRun
<1>6. CASE UNCHANGED vars
  BY <1>6 DEF vars
<1> QED
  BY <1>1, <1>2, <1>3, <1>4, <1>5, <1>6 DEF Next, ThreadStep

(* Every step is a step of Semaphore or changes nothing that it sees.      *)
LEMMA SemaphoreStep ==
  TypeOK /\ Processor /\ WordTellsHolder /\ CallInv /\ [Next]_vars
    => [Abstract!Next]_<<held, phaseBar>>
<1> SUFFICES ASSUME TypeOK, Processor, WordTellsHolder, CallInv, [Next]_vars
             PROVE  Abstract!Next \/ UNCHANGED <<held, phaseBar>>
  OBVIOUS
<1> DEFINE Phase(t) == IF pc[t] \in InCall THEN [fn |-> arg[t].fn, sem |-> arg[t].sem]
                       ELSE [answer |-> rc[t]]
<1>1. phaseBar = [t \in Threads |-> Phase(t)] /\ phaseBar' = [t \in Threads |-> Phase(t)']
  BY DEF phaseBar
<1>2. ASSUME NEW t \in Threads, call(t)
      PROVE  Abstract!Next \/ UNCHANGED <<held, phaseBar>>
  <2>1. PICK f \in Functions, s \in Semaphores, forever \in BOOLEAN :
          /\ arg' = [arg EXCEPT ![t] = Call(f, s, forever)]
          /\ IF f = "semclear"
               THEN Goes(t, "store") /\ UNCHANGED <<enabled, rc>>
               ELSE /\ Goes(t, f) /\ enabled' = FALSE
                    /\ rc' = [rc EXCEPT ![t] = "no_error"]
    BY <1>2 DEF call
  <2>2. Call(f, s, forever).sem = s /\ Call(f, s, forever).fn = f
    BY DEF Call
  <2>3. UNCHANGED held /\ pc[t] = "idle"
    BY <1>2 DEF call
  <2>4. CASE f = "semclear"
    <3>1. \A u \in Threads : Phase(u)' = Phase(u)
      BY <2>1, <2>3, <2>4 DEF TypeOK, InCall, Goes
    <3> QED
      BY <1>1, <2>3, <3>1
  <2>5. CASE f # "semclear"
    <3>1. \A u \in Threads : Phase(u)' = IF u = t THEN [fn |-> f, sem |-> s] ELSE Phase(u)
      BY <2>1, <2>2, <2>3, <2>5 DEF TypeOK, InCall, Goes, Functions
    <3>2. phaseBar' = [phaseBar EXCEPT ![t] = [fn |-> f, sem |-> s]]
      BY <1>1, <3>1
    <3>3. phaseBar[t] \in [answer : {"none", "no_error", "refused"}]
      BY <1>1, <2>3 DEF TypeOK, InCall, Codes
    <3> QED
      BY <2>3, <2>5, <3>2, <3>3 DEF Abstract!Next, Abstract!Ask, Abstract!Answers,
         Abstract!Told, Abstract!Asking, Abstract!Semaphores, Semaphores, Functions
  <2> QED
    BY <2>4, <2>5
<1>3. ASSUME NEW t \in Threads, pc[t] \in InCall, NEW code \in Codes, Return(t, code)
      PROVE  phaseBar' = [phaseBar EXCEPT ![t] = [answer |-> code]]
  <2>1. \A u \in Threads : Phase(u)' = IF u = t THEN [answer |-> code] ELSE Phase(u)
    BY <1>3 DEF Return, Goes, TypeOK, InCall
  <2> QED
    BY <1>1, <2>1
<1>4. ASSUME NEW t \in Threads, UNCHANGED <<arg, rc>>, NEW to \in InCall, pc[t] \in InCall, Goes(t, to)
      PROVE  UNCHANGED phaseBar
  <2>1. \A u \in Threads : Phase(u)' = Phase(u)
    BY <1>4 DEF Goes, TypeOK, InCall
  <2> QED
    BY <1>1, <2>1
<1>5. ASSUME NEW t \in Threads, pc[t] \in InCall
      PROVE  /\ arg[t].sem \in Abstract!Semaphores
             /\ phaseBar[t] = [fn |-> arg[t].fn, sem |-> arg[t].sem]
             /\ sem[arg[t].sem] = 0 => arg[t].sem \notin Abstract!Held
  BY <1>1, <1>5 DEF TypeOK, WordTellsHolder, InCall, Abstract!Semaphores, Semaphores, Abstract!Held
<1>6. ASSUME NEW t \in Threads, semwait(t)
      PROVE  Abstract!Next \/ UNCHANGED <<held, phaseBar>>
  <2>1. pc[t] = "semwait" /\ UNCHANGED held /\ rc[t] = "no_error" /\ pc[t] \in InCall
    BY <1>6 DEF semwait, Runs, CallInv, Testing, InCall
  <2>2. CASE sem[arg[t].sem] # 0
    BY <1>4, <1>6, <2>1, <2>2 DEF semwait, InCall
  <2>3. CASE sem[arg[t].sem] = 0
    <3>1. phaseBar' = [phaseBar EXCEPT ![t] = [answer |-> "no_error"]]
      BY <1>3, <1>6, <2>1, <2>3 DEF semwait, Codes
    <3>2. arg[t].fn = "semwait"
      BY <2>1 DEF CallInv
    <3> QED
      BY <1>5, <2>1, <2>3, <3>1, <3>2
      DEF Abstract!Next, Abstract!Answer, Abstract!Pass, Abstract!Asking, Abstract!Answered, Abstract!Told
  <2> QED
    BY <2>2, <2>3
<1>7. ASSUME NEW t \in Threads, semrequest(t) \/ semset(t)
      PROVE  Abstract!Next \/ UNCHANGED <<held, phaseBar>>
  <2>1. /\ pc[t] \in {"semrequest", "semset"} /\ rc[t] = "no_error" /\ pc[t] \in InCall
        /\ arg[t].fn = pc[t]
    BY <1>7 DEF semrequest, semset, Runs, CallInv, Testing, InCall
  <2>2. CASE sem[arg[t].sem] # 0 /\ semrequest(t)
    BY <1>4, <2>1, <2>2 DEF semrequest, InCall
  <2>3. CASE sem[arg[t].sem] # 0 /\ semset(t)
    <3>1. phaseBar' = [phaseBar EXCEPT ![t] = [answer |-> "refused"]] /\ UNCHANGED held
      BY <1>3, <2>1, <2>3 DEF semset, Codes
    <3> QED
      BY <1>5, <2>1, <3>1
      DEF Abstract!Next, Abstract!Answer, Abstract!Refuse, Abstract!Asking, Abstract!Asks,
          Abstract!Answered, Abstract!Told
  <2>4. CASE sem[arg[t].sem] = 0
    <3>1. phaseBar' = [phaseBar EXCEPT ![t] = [answer |-> "no_error"]]
      BY <1>3, <1>7, <2>1, <2>4 DEF semrequest, semset, Codes
    <3>2. held' = [held EXCEPT ![Holder(t, arg[t].sem)] = @ \cup {arg[t].sem}]
      BY <1>7, <2>4 DEF semrequest, semset
    <3> QED
      BY <1>5, <2>1, <2>4, <3>1, <3>2
      DEF Abstract!Next, Abstract!Answer, Abstract!Take, Abstract!Asking, Abstract!Answered,
          Abstract!Told, Abstract!Holder, Holder
  <2> QED
    BY <1>7, <2>2, <2>3, <2>4 DEF TypeOK
<1>8. ASSUME NEW t \in Threads, ProcBlock(t)
      PROVE  UNCHANGED <<held, phaseBar>>
  BY <1>4, <1>8 DEF ProcBlock, Runs, InCall
<1>9. ASSUME NEW t \in Threads, timeout(t)
      PROVE  UNCHANGED <<held, phaseBar>>
  <2>1. \A u \in Threads : Phase(u)' = Phase(u)
    BY <1>9 DEF timeout, Goes, TypeOK, InCall
  <2> QED
    BY <1>1, <1>9, <2>1 DEF timeout
<1>10. ASSUME NEW t \in Threads, resume(t)
       PROVE  Abstract!Next \/ UNCHANGED <<held, phaseBar>>
  <2>1. pc[t] \in InCall /\ rc[t] \in {"no_error", "refused"} /\ UNCHANGED held
    BY <1>10 DEF resume, CallInv, InCall
  <2>2. CASE rc[t] = "no_error"
    BY <1>4, <1>10, <2>1, <2>2 DEF resume, TypeOK, InCall
  <2>3. CASE rc[t] = "refused"
    <3>1. phaseBar' = [phaseBar EXCEPT ![t] = [answer |-> "refused"]]
      BY <1>3, <1>10, <2>1, <2>3 DEF resume, Codes
    <3>2. arg[t].fn \in {"semrequest", "semset", "semwait"}
      BY <2>1 DEF TypeOK
    <3> QED
      BY <1>5, <2>1, <3>1, <3>2
      DEF Abstract!Next, Abstract!Answer, Abstract!Refuse, Abstract!Asking, Abstract!Asks,
          Abstract!Answered, Abstract!Told
  <2> QED
    BY <2>1, <2>2, <2>3
<1>11. ASSUME NEW t \in Threads, semclear(t)
       PROVE  Abstract!Next \/ UNCHANGED <<held, phaseBar>>
  <2>1. \A u \in Threads : Phase(u)' = Phase(u)
    BY <1>11 DEF semclear, Runs, Goes, TypeOK, InCall
  <2>2. arg[t].sem \in held[t] /\ arg[t].sem \in Abstract!Semaphores
    BY <1>11 DEF semclear, Runs, Processor, TypeOK, Abstract!Semaphores, Semaphores
  <2> QED
    BY <1>1, <1>11, <2>1, <2>2 DEF semclear, Abstract!Next, Abstract!Release
<1>12. ASSUME NEW t \in Threads, semclear_run(t)
       PROVE  UNCHANGED <<held, phaseBar>>
  <2>1. \A u \in Threads : Phase(u)' = Phase(u)
    BY <1>12 DEF semclear_run, Runs, TypeOK, InCall
  <2> QED
    BY <1>1, <1>12, <2>1 DEF semclear_run
<1>13. ASSUME NEW s \in Semaphores, interrupt(s)
       PROVE  Abstract!Next \/ UNCHANGED <<held, phaseBar>>
  <2>1. UNCHANGED phaseBar
    BY <1>1, <1>13 DEF interrupt, threadVars
  <2> QED
    BY <1>13, <2>1 DEF interrupt, Abstract!Next, Abstract!Release, Abstract!Semaphores, Semaphores
<1>14. ASSUME NEW s \in Semaphores, ProcRun(s), UNCHANGED <<arg, rc>>
       PROVE  UNCHANGED phaseBar
  <2>1. \A u \in Threads : Phase(u)' = Phase(u)
    BY <1>14 DEF ProcRun, TypeOK, InCall
  <2> QED
    BY <1>1, <2>1
<1>15. ASSUME NEW s \in Semaphores, RunByOthers(s)
       PROVE  UNCHANGED <<held, phaseBar>>
  BY <1>14, <1>15 DEF RunByOthers
<1>16. CASE interrupt_run
  BY <1>14, <1>16 DEF interrupt_run, TypeOK
<1>17. CASE UNCHANGED vars
  BY <1>1, <1>17 DEF vars
<1> QED
  BY <1>2, <1>6, <1>7, <1>8, <1>9, <1>10, <1>11, <1>12, <1>13, <1>15, <1>16, <1>17
  DEF Next, ThreadStep

(* The semaphores implement Semaphore, its liveness apart: a caller is     *)
(* told NO_ERROR only for a semaphore that nobody holds.                   *)
THEOREM SemaphoreImplemented ==
  SafeSpec => Abstract!Init /\ [][Abstract!Next]_<<held, phaseBar>>
<1>1. Init => Abstract!Init
  BY DEF Init, Abstract!Init, phaseBar, InCall
<1>2. Init => CallInv
  BY DEF Init, CallInv, Testing
<1> QED
  BY <1>1, <1>2, CallStep, SemaphoreStep, SemaphoresConsistent, PTL DEF SafeSpec, IInv
=============================================================================
