----------------------------- MODULE Semaphore -----------------------------
(***************************************************************************)
(* What the users of fsh32_semrequest, fsh32_semset, fsh32_semwait and     *)
(* fsh32_semclear may rely on.  A semaphore has at most one holder: the    *)
(* thread that was told NO_ERROR, or the device a thread has started.  A   *)
(* caller is told NO_ERROR only when the semaphore is free, and while one  *)
(* is free its callers do not all wait for ever.                           *)
(***************************************************************************)
CONSTANTS Threads, Device, Locks, Events

VARIABLES
  held,     \* the semaphores of each thread and of the device
  phase     \* of each thread: what it asks for, or its last answer

Semaphores == Locks \cup Events
Held == UNION {held[h] : h \in Threads \cup {Device}}
Answers == [answer : {"none", "no_error", "refused"}]
Asking(f, s) == [fn |-> f, sem |-> s]
Asks(t, s) == phase[t] \in {Asking(f, s) : f \in {"semrequest", "semset", "semwait"}}
Told(t, a) == phase' = [phase EXCEPT ![t] = a]
Answered(t, a) == Told(t, [answer |-> a])

\* A thread sets an event for the device that it is going to start.
Holder(t, s) == IF s \in Events THEN Device ELSE t

Init ==
  /\ held = [h \in Threads \cup {Device} |-> {}]
  /\ phase = [t \in Threads |-> [answer |-> "none"]]

Ask(t) ==
  /\ phase[t] \in Answers
  /\ \E f \in {"semrequest", "semset", "semwait"}, s \in Semaphores : Told(t, Asking(f, s))
  /\ UNCHANGED held

Take(t, s) ==
  /\ phase[t] \in {Asking("semrequest", s), Asking("semset", s)} /\ s \notin Held
  /\ held' = [held EXCEPT ![Holder(t, s)] = @ \cup {s}]
  /\ Answered(t, "no_error")

Pass(t, s) ==
  /\ phase[t] = Asking("semwait", s) /\ s \notin Held
  /\ Answered(t, "no_error")
  /\ UNCHANGED held

Refuse(t, s) ==
  /\ Asks(t, s)
  /\ Answered(t, "refused")
  /\ UNCHANGED held

Release(h, s) ==
  /\ s \in held[h]
  /\ held' = [held EXCEPT ![h] = @ \ {s}]
  /\ UNCHANGED phase

Answer(s) == \E t \in Threads : Take(t, s) \/ Pass(t, s) \/ Refuse(t, s)
AnswerWhenFree(s) == s \notin Held /\ Answer(s)

Next ==
  \/ \E t \in Threads : Ask(t)
  \/ \E s \in Semaphores : Answer(s)
  \/ \E h \in Threads \cup {Device}, s \in Semaphores : Release(h, s)

Spec ==
  /\ Init /\ [][Next]_<<held, phase>>
  /\ \A s \in Semaphores : WF_<<held, phase>>(AnswerWhenFree(s))
=============================================================================
