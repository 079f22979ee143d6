--------------------------- MODULE FshSemaphores ---------------------------
(***************************************************************************)
(* The inline semaphores of include/os2/fsh32.h.  A semaphore is a word;   *)
(* who finds it set blocks on its address with DevHlp32_ProcBlock, and who *)
(* clears it runs all that block there with DevHlp32_ProcRun.              *)
(*                                                                         *)
(* A thread in ring 0 keeps the processor until it blocks or returns; only *)
(* an interrupt can come in between, unless interrupts are disabled.  Two  *)
(* uses: a lock, which the thread that was given it clears; and an event,  *)
(* which a thread sets before it starts a device and which the device's    *)
(* interrupt handler clears.                                               *)
(***************************************************************************)
EXTENDS Integers, FiniteSets

CONSTANTS Threads, Device, Locks, Events, Nobody

ASSUME NamesAssumption ==
  /\ Device \notin Threads /\ Nobody \notin Threads
  /\ Locks \cap Events = {} /\ Nobody \notin Locks \cup Events

VARIABLES
  sem,         \* the word of each semaphore
  held,        \* who has been told NO_ERROR for which and not cleared it since
  pc, arg, rc, \* of each thread: the place, the function and semaphore, the code
  cpu,         \* the thread that runs in ring 0
  enabled,     \* the interrupt flag
  handler      \* the event whose interrupt handler is between store and ProcRun

threadVars == <<pc, arg, rc>>
vars == <<sem, held, pc, arg, rc, cpu, enabled, handler>>

Semaphores == Locks \cup Events
Functions == {"semrequest", "semset", "semwait", "semclear"}
Call(f, s, forever) == [fn |-> f, sem |-> s, forever |-> forever]
NoCall == Call("none", Nobody, TRUE)

\* The answers NO_ERROR, ERROR_EXCL_SEM_ALREADY_OWNED and the kernel's code for
\* a thread that was woken by the end of its timeout.
Codes == {"none", "no_error", "refused"}

Init ==
  /\ sem = [s \in Semaphores |-> 0]
  /\ held = [h \in Threads \cup {Device} |-> {}]
  /\ pc = [t \in Threads |-> "idle"]
  /\ arg = [t \in Threads |-> NoCall]
  /\ rc = [t \in Threads |-> "none"]
  /\ cpu = Nobody
  /\ enabled = TRUE
  /\ handler = Nobody

Runs(t, at) == pc[t] = at /\ cpu = t /\ handler = Nobody
Goes(t, to) == pc' = [pc EXCEPT ![t] = to]
Holder(t, s) == IF s \in Events THEN Device ELSE t

\* A mutant: the interrupts are not enabled again.
Return_StaysDisabled(t, code) ==
  /\ Goes(t, "idle")
  /\ rc' = [rc EXCEPT ![t] = code]
  /\ arg' = [arg EXCEPT ![t] = NoCall]
  /\ UNCHANGED enabled
  /\ cpu' = Nobody

\* _enable, and return code.
Return(t, code) ==
  /\ Goes(t, "idle")
  /\ rc' = [rc EXCEPT ![t] = code]
  /\ arg' = [arg EXCEPT ![t] = NoCall]
  /\ enabled' = TRUE
  /\ cpu' = Nobody

\* DevHlp_ProcRun: every thread that blocks on the address becomes ready.
ProcRun(s) ==
  pc' = [t \in Threads |->
           IF pc[t] = "blocked" /\ arg[t].sem = s THEN "ready" ELSE pc[t]]

----------------------------------------------------------------------------
\* A thread calls; the first thing that three of the functions do is _disable.
\* A lock is cleared by its holder and not requested by it once more.
call(t) ==
  /\ pc[t] = "idle" /\ cpu = Nobody /\ handler = Nobody
  /\ \E f \in Functions, s \in Semaphores, forever \in BOOLEAN :
       /\ f = "semclear" => s \in held[t]
       /\ f = "semrequest" => s \in Locks
       /\ f # "semclear" => s \notin held[t]
       /\ f \in {"semset", "semclear"} => forever
       /\ arg' = [arg EXCEPT ![t] = Call(f, s, forever)]
       /\ IF f = "semclear"
            THEN Goes(t, "store") /\ UNCHANGED <<enabled, rc>>
            ELSE /\ Goes(t, f) /\ enabled' = FALSE
                 /\ rc' = [rc EXCEPT ![t] = "no_error"]
  /\ cpu' = t
  /\ UNCHANGED <<sem, held, handler>>

\* while (*sem)
semwait(t) ==
  /\ Runs(t, "semwait")
  /\ IF sem[arg[t].sem] # 0
       THEN Goes(t, "block") /\ UNCHANGED <<arg, rc, enabled, cpu>>
       ELSE Return(t, rc[t])
  /\ UNCHANGED <<sem, held, handler>>

\* while (__lxchg(sem, 1))
semrequest(t) ==
  /\ Runs(t, "semrequest")
  /\ LET s == arg[t].sem
     IN  /\ sem' = [sem EXCEPT ![s] = 1]
         /\ IF sem[s] # 0
              THEN Goes(t, "block") /\ UNCHANGED <<arg, rc, enabled, cpu, held>>
              ELSE Return(t, rc[t]) /\ held' = [held EXCEPT ![Holder(t, s)] = @ \cup {s}]
  /\ UNCHANGED handler

semset(t) ==
  /\ Runs(t, "semset")
  /\ LET s == arg[t].sem
     IN  /\ sem' = [sem EXCEPT ![s] = 1]
         /\ IF sem[s] # 0
              THEN Return(t, "refused") /\ UNCHANGED held
              ELSE /\ Return(t, "no_error")
                   /\ held' = [held EXCEPT ![Holder(t, s)] = @ \cup {s}]
  /\ UNCHANGED handler

\* DevHlp_ProcBlock gives the processor away, with interrupts enabled.
ProcBlock(t) ==
  /\ Runs(t, "block")
  /\ Goes(t, "blocked")
  /\ enabled' = TRUE
  /\ cpu' = Nobody
  /\ UNCHANGED <<sem, held, arg, rc, handler>>

\* The timeout of a blocked thread ends, as the interrupts of the clock count it.
timeout(t) ==
  /\ pc[t] = "blocked" /\ ~arg[t].forever /\ enabled
  /\ Goes(t, "ready")
  /\ rc' = [rc EXCEPT ![t] = "refused"]
  /\ UNCHANGED <<sem, held, arg, cpu, enabled, handler>>

\* A mutant: the loop goes on without disabling interrupts once more.
resume_StaysEnabled(t) ==
  /\ pc[t] = "ready" /\ cpu = Nobody /\ handler = Nobody
  /\ IF rc[t] # "no_error"
       THEN Return(t, rc[t])
       ELSE Goes(t, arg[t].fn) /\ cpu' = t /\ UNCHANGED <<arg, rc, enabled>>
  /\ UNCHANGED <<sem, held, handler>>

\* A mutant: if instead of while, who has been run takes the semaphore for free.
resume_TakesForFree(t) ==
  /\ pc[t] = "ready" /\ cpu = Nobody /\ handler = Nobody
  /\ Return(t, rc[t])
  /\ held' = IF rc[t] = "no_error" /\ arg[t].fn = "semrequest"
               THEN [held EXCEPT ![t] = @ \cup {arg[t].sem}] ELSE held
  /\ UNCHANGED <<sem, handler>>

\* A mutant: a thread whose timeout has ended tries again.
resume_TriesAgain(t) ==
  /\ pc[t] = "ready" /\ cpu = Nobody /\ handler = Nobody
  /\ Goes(t, arg[t].fn) /\ enabled' = FALSE /\ cpu' = t
  /\ UNCHANGED <<sem, held, arg, rc, handler>>

\* The thread gets the processor again and ProcBlock returns, interrupts enabled:
\* break, or _disable and once more round the loop.
resume(t) ==
  /\ pc[t] = "ready" /\ cpu = Nobody /\ handler = Nobody
  /\ IF rc[t] # "no_error"
       THEN Return(t, rc[t])
       ELSE Goes(t, arg[t].fn) /\ enabled' = FALSE /\ cpu' = t /\ UNCHANGED <<arg, rc>>
  /\ UNCHANGED <<sem, held, handler>>

\* *sem = 0, with interrupts enabled, then ProcRun.
semclear(t) ==
  /\ Runs(t, "store")
  /\ sem' = [sem EXCEPT ![arg[t].sem] = 0]
  /\ held' = [held EXCEPT ![t] = @ \ {arg[t].sem}]
  /\ Goes(t, "run")
  /\ UNCHANGED <<arg, rc, cpu, enabled, handler>>

semclear_run(t) ==
  /\ Runs(t, "run")
  /\ pc' = [u \in Threads |->
              IF u = t THEN "idle"
              ELSE IF pc[u] = "blocked" /\ arg[u].sem = arg[t].sem THEN "ready" ELSE pc[u]]
  /\ arg' = [arg EXCEPT ![t] = NoCall]
  /\ cpu' = Nobody
  /\ UNCHANGED <<sem, held, rc, enabled, handler>>

\* The device is done and interrupts: its handler calls fsh32_semclear.
interrupt(s) ==
  /\ enabled /\ handler = Nobody /\ s \in held[Device]
  /\ sem' = [sem EXCEPT ![s] = 0]
  /\ held' = [held EXCEPT ![Device] = @ \ {s}]
  /\ handler' = s
  /\ UNCHANGED <<threadVars, cpu, enabled>>

interrupt_run ==
  /\ handler # Nobody
  /\ ProcRun(handler)
  /\ handler' = Nobody
  /\ UNCHANGED <<sem, held, arg, rc, cpu, enabled>>

\* Event numbers are shared by all drivers: another one runs the same number.
RunByOthers(s) ==
  /\ enabled /\ handler = Nobody
  /\ ProcRun(s)
  /\ UNCHANGED <<sem, held, arg, rc, cpu, enabled, handler>>

ThreadStep(t) ==
  semwait(t) \/ semrequest(t) \/ semset(t) \/ ProcBlock(t) \/ semclear(t) \/ semclear_run(t)

Next ==
  \/ \E t \in Threads : call(t) \/ ThreadStep(t) \/ timeout(t) \/ resume(t)
  \/ \E s \in Semaphores : interrupt(s) \/ RunByOthers(s)
  \/ interrupt_run

\* A thread that has the processor, and a handler, go on; the dispatcher of the
\* kernel gives the processor to every thread that is ready again and again.
Fairness ==
  /\ \A t \in Threads : WF_vars(ThreadStep(t)) /\ SF_vars(resume(t))
  /\ WF_vars(interrupt_run)

SafeSpec == Init /\ [][Next]_vars
Spec == SafeSpec /\ Fairness

----------------------------------------------------------------------------
Frames == [fn : Functions \cup {"none"}, sem : Semaphores \cup {Nobody}, forever : BOOLEAN]
InCall == {"semrequest", "semset", "semwait", "block", "blocked", "ready"}

TypeOK ==
  /\ sem \in [Semaphores -> {0, 1}]
  /\ held \in [Threads \cup {Device} -> SUBSET Semaphores]
  /\ pc \in [Threads -> InCall \cup {"idle", "store", "run"}]
  /\ arg \in [Threads -> Frames]
  /\ \A t \in Threads : pc[t] # "idle" => arg[t].sem \in Semaphores
  /\ \A t \in Threads : pc[t] \in InCall => arg[t].fn \in {"semrequest", "semset", "semwait"}
  /\ rc \in [Threads -> Codes]
  /\ cpu \in Threads \cup {Nobody}
  /\ enabled \in BOOLEAN
  /\ handler \in Semaphores \cup {Nobody}

\* The word of a semaphore is 1 exactly while somebody holds it, and nobody
\* else holds it then: the losers of an exchange, who store a 1 as well, the
\* threads that give up and those that try again leave the word right.
WordTellsHolder ==
  \A s \in Semaphores :
    /\ sem[s] = 1 <=> \E h \in Threads \cup {Device} : s \in held[h]
    /\ \A g, h \in Threads \cup {Device} : s \in held[g] /\ s \in held[h] => g = h

\* No wake-up is lost: a thread blocks on a clear semaphore only while the one
\* who cleared it has yet to call ProcRun.
NoLostWakeup ==
  \A t \in Threads :
    (pc[t] = "blocked" /\ sem[arg[t].sem] = 0) =>
      \/ handler = arg[t].sem
      \/ \E u \in Threads : pc[u] = "run" /\ arg[u].sem = arg[t].sem

\* Interrupts are disabled only while a thread is between the _disable of one
\* of the functions and its return: never outside, and never while all block.
DisabledOnlyInside ==
  ~enabled => cpu # Nobody /\ pc[cpu] \in {"semrequest", "semset", "semwait", "block"}

\* The semaphores implement Semaphore, its liveness included: who is told
\* NO_ERROR found the semaphore free in that moment, and a free semaphore is
\* given to one of those who ask for it.
phaseBar ==
  [t \in Threads |-> IF pc[t] \in InCall THEN [fn |-> arg[t].fn, sem |-> arg[t].sem]
                   ELSE [answer |-> rc[t]]]
Abstract == INSTANCE Semaphore WITH phase <- phaseBar
ImplementsSemaphore == Abstract!Spec
=============================================================================
