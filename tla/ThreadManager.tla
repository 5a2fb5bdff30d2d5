--------------------------- MODULE ThreadManager ---------------------------
(***************************************************************************)
(* The thread manager of MachBoot (arch/arm/thread.c, arch/arm/cswitch.S). *)
(*                                                                         *)
(* Threads are coroutines: control moves from one to another only in       *)
(* _Switch_context, which thread_start calls to enter the thread it has    *)
(* just started and thread_kill calls to leave a thread for good.  The     *)
(* running threads are linked in a ring through task_list, which           *)
(* thread_kill follows to find its successor.  Critical sections mask      *)
(* interrupts and count themselves in preemption_count.                    *)
(*                                                                         *)
(* Each thread has a program counter.  One action is the code between two  *)
(* points at which the interrupt mask changes or control leaves a          *)
(* function: that is all an interrupt, the only asynchronous event here,   *)
(* can tell apart.                                                         *)
(***************************************************************************)
EXTENDS Integers, FiniteSets

CONSTANTS
    Boot,        \* bootstrap_thread, the context corestart_main runs in
    Threads,     \* the thread_t's that arm_thread_create can hand out
    MaxReturns   \* bound: a thread whose function has returned this often
                 \* is not started again

ASSUME BootAssumption == Boot \notin Threads
ASSUME MaxReturnsAssumption == MaxReturns \in Nat

All == Threads \union {Boot}

VARIABLES
    current,     \* CurrentThread, and the TPIDRPRW register that mirrors it
    masked,      \* interrupts are masked (_splhigh / _spllo)
    halted,      \* "no", or what stopped the machine
    state,       \* thread_t.state
    preempt,     \* thread_t.preemption_count
    next,        \* thread_t.task_list.next
    prev,        \* thread_t.task_list.prev
    pc,          \* where the thread is; for a suspended one, its saved lr
    arg,         \* new in thread_start, next in thread_kill
    returns      \* ghost: how often the thread's function has returned

links == <<next, prev>>
vars  == <<current, masked, halted, state, preempt, next, prev, pc, arg, returns>>

\* Program points in thread_start, which includes thread_internal_add_before.
StartPoints == {"start_check", "start_fail", "add_enter", "add_splice",
                "add_leave", "start_switch", "start_resumed"}

\* Program points in thread_kill after the thread has been marked stopped.
DyingPoints == {"remove_enter", "remove_splice", "remove_leave", "kill_switch"}

\* Threads that hold no function to execute: never created, fresh, or killed.
AtRest == {"none", "created", "dead"}

Points == AtRest \union StartPoints \union DyingPoints
          \union {"continue", "body", "kill_enter", "kill_check", "last_task", "idle"}

Halts == {"no", "irq", "assert", "nomem", "selfswitch", "lasttask"}

TypeOK ==
    /\ current \in All
    /\ masked \in BOOLEAN
    /\ halted \in Halts
    /\ state \in [All -> {"stopped", "running"}]
    /\ preempt \in [All -> Int]
    /\ next \in [All -> All]
    /\ prev \in [All -> All]
    /\ pc \in [All -> Points]
    /\ arg \in [All -> All]
    /\ returns \in [All -> Nat]

-----------------------------------------------------------------------------

\* corestart_main after thread_init: the bootstrap thread is a thread_t like
\* any other, so it is "stopped", counts one preemption and is a ring of one.
\* Its interrupts are still masked by the cpsid of the start code.
Init ==
    /\ current = Boot
    /\ masked = TRUE
    /\ halted = "no"
    /\ state = [t \in All |-> "stopped"]
    /\ preempt = [t \in All |-> IF t = Boot THEN 1 ELSE 0]
    /\ next = [t \in All |-> t]
    /\ prev = [t \in All |-> t]
    /\ pc = [t \in All |-> IF t = Boot THEN "body" ELSE "none"]
    /\ arg = [t \in All |-> t]
    /\ returns = [t \in All |-> 0]

At(label) == halted = "no" /\ pc[current] = label

Goto(label) == pc' = [pc EXCEPT ![current] = label]

\* panic, a failed assert and an interrupt all end in a halted machine.
Halt(reason) == halted' = reason

\* Mutant: counts the section but leaves interrupts as they are.
EnterUnmasked ==
    /\ preempt' = [preempt EXCEPT ![current] = @ + 1]
    /\ UNCHANGED masked

EnterCriticalSection ==
    /\ preempt' = [preempt EXCEPT ![current] = @ + 1]
    /\ masked' = TRUE

\* _spllo does not ask whether the section is nested in another one.
LeaveCriticalSection ==
    /\ preempt' = [preempt EXCEPT ![current] = @ - 1]
    /\ masked' = FALSE

\* The assert at the end of thread_leave_critical_section.
LeaveAsserts == IF preempt[current] - 1 > -1 THEN UNCHANGED halted ELSE Halt("assert")

-----------------------------------------------------------------------------
(* arm_thread_create *)

Create(t) ==
    /\ At("body")
    /\ pc[t] = "none"
    /\ preempt' = [preempt EXCEPT ![t] = 1]
    /\ next' = [next EXCEPT ![t] = t]
    /\ prev' = [prev EXCEPT ![t] = t]
    /\ state' = [state EXCEPT ![t] = "stopped"]
    /\ pc' = [pc EXCEPT ![t] = "created"]
    /\ UNCHANGED <<current, masked, halted, arg, returns>>

\* malloc returned NULL for the thread or for its stack.
CreateOutOfMemory ==
    /\ At("body")
    /\ Halt("nomem")
    /\ UNCHANGED <<current, masked, state, preempt, links, pc, arg, returns>>

-----------------------------------------------------------------------------
(* thread_start, called by the current thread's function *)

StartEnter(new) ==
    /\ At("body")
    /\ pc[new] # "none"
    /\ returns[new] < MaxReturns
    /\ EnterCriticalSection
    /\ arg' = [arg EXCEPT ![current] = new]
    /\ Goto("start_check")
    /\ UNCHANGED <<current, halted, state, links, returns>>

StartStopped ==
    LET new == arg[current] IN
    /\ At("start_check")
    /\ state[new] = "stopped"
    /\ state' = [state EXCEPT ![new] = "running"]
    /\ pc' = [pc EXCEPT ![new] = "continue", ![current] = "add_enter"]
    /\ UNCHANGED <<current, masked, halted, preempt, links, arg, returns>>

StartRunning ==
    /\ At("start_check")
    /\ state[arg[current]] # "stopped"
    /\ Goto("start_fail")
    /\ UNCHANGED <<current, masked, halted, state, preempt, links, arg, returns>>

\* Returns -1.
StartFail ==
    /\ At("start_fail")
    /\ LeaveCriticalSection
    /\ LeaveAsserts
    /\ Goto("body")
    /\ UNCHANGED <<current, state, links, arg, returns>>

AddEnter ==
    /\ At("add_enter")
    /\ EnterCriticalSection
    /\ Goto("add_splice")
    /\ UNCHANGED <<current, halted, state, links, arg, returns>>

\* Mutant: forgets the back link of the ring's old neighbour.
AddBeforeHalf(a, b) ==
    /\ next' = [next EXCEPT ![b] = a, ![a] = prev[b]]
    /\ prev' = [prev EXCEPT ![a] = b]

\* thread_internal_add_before(a, b), its writes in their order: the local it
\* calls next is b's predecessor, and the local it calls prev is b.
AddBefore(a, b) ==
    LET p == b
        n == prev[b]
    IN  /\ next' = [next EXCEPT ![p] = a, ![a] = n]
        /\ prev' = [prev EXCEPT ![a] = p, ![n] = a]

AddSplice ==
    /\ At("add_splice")
    /\ AddBefore(arg[current], current)
    /\ Goto("add_leave")
    /\ UNCHANGED <<current, masked, halted, state, preempt, arg, returns>>

AddLeave ==
    /\ At("add_leave")
    /\ LeaveCriticalSection
    /\ LeaveAsserts
    /\ Goto("start_switch")
    /\ UNCHANGED <<current, state, links, arg, returns>>

\* _Switch_context(to): the caller will go on at the point resume.
SwitchContext(to, resume) ==
    IF to = current
    THEN Halt("selfswitch") /\ UNCHANGED <<current, pc>>
    ELSE Goto(resume) /\ current' = to /\ UNCHANGED halted

StartSwitch ==
    /\ At("start_switch")
    /\ SwitchContext(arg[current], "start_resumed")
    /\ UNCHANGED <<masked, state, preempt, links, arg, returns>>

\* Back from _Switch_context; returns 0.
StartResumed ==
    /\ At("start_resumed")
    /\ LeaveCriticalSection
    /\ LeaveAsserts
    /\ Goto("body")
    /\ UNCHANGED <<current, state, links, arg, returns>>

-----------------------------------------------------------------------------
(* thread_continue *)

\* The comment in the code says "Enter critical section."; the call leaves one.
Continue ==
    /\ At("continue")
    /\ LeaveCriticalSection
    /\ LeaveAsserts
    /\ Goto("body")
    /\ UNCHANGED <<current, state, links, arg, returns>>

\* Mutant: thread_continue leaves it to thread_kill to enter a section.
ReturnOnce ==
    /\ At("body")
    /\ current # Boot
    /\ returns' = [returns EXCEPT ![current] = @ + 1]
    /\ Goto("kill_enter")
    /\ UNCHANGED <<current, masked, halted, preempt, state, links, arg>>

\* The thread's function returns: thread_continue enters a critical section
\* and calls thread_kill.
Return ==
    /\ At("body")
    /\ current # Boot
    /\ EnterCriticalSection
    /\ returns' = [returns EXCEPT ![current] = @ + 1]
    /\ Goto("kill_enter")
    /\ UNCHANGED <<current, halted, state, links, arg>>

-----------------------------------------------------------------------------
(* thread_kill *)

KillEnter ==
    /\ At("kill_enter")
    /\ EnterCriticalSection
    /\ Goto("kill_check")
    /\ UNCHANGED <<current, halted, state, links, arg, returns>>

\* The ring holds no other task: leave the critical section and panic.
KillLastTask ==
    /\ At("kill_check")
    /\ next[current] = current
    /\ LeaveCriticalSection
    /\ IF preempt[current] - 1 > -1 THEN Halt("lasttask") ELSE Halt("assert")
    /\ Goto("last_task")
    /\ UNCHANGED <<current, state, links, arg, returns>>

KillStop ==
    /\ At("kill_check")
    /\ next[current] # current
    /\ arg' = [arg EXCEPT ![current] = next[current]]
    /\ state' = [state EXCEPT ![current] = "stopped"]
    /\ Goto("remove_enter")
    /\ UNCHANGED <<current, masked, halted, preempt, links, returns>>

RemoveEnter ==
    /\ At("remove_enter")
    /\ EnterCriticalSection
    /\ Goto("remove_splice")
    /\ UNCHANGED <<current, halted, state, links, arg, returns>>

\* Mutants: unlinks to nothing; forgets the forward or the backward link.
NoThread == "no thread"

RemoveToNull(thr) ==
    /\ next' = [next EXCEPT ![prev[thr]] = next[thr], ![thr] = NoThread]
    /\ prev' = [prev EXCEPT ![next[thr]] = prev[thr], ![thr] = NoThread]

RemoveBackOnly(thr) ==
    /\ next' = [next EXCEPT ![thr] = thr]
    /\ prev' = [prev EXCEPT ![next[thr]] = prev[thr], ![thr] = thr]

RemoveForwardOnly(thr) ==
    /\ next' = [next EXCEPT ![prev[thr]] = next[thr], ![thr] = thr]
    /\ prev' = [prev EXCEPT ![thr] = thr]

\* thread_internal_remove_thread(thr), its writes in their order.
Remove(thr) ==
    /\ next' = [next EXCEPT ![prev[thr]] = next[thr], ![thr] = thr]
    /\ prev' = [prev EXCEPT ![next[thr]] = prev[thr], ![thr] = thr]

RemoveSplice ==
    /\ At("remove_splice")
    /\ Remove(current)
    /\ Goto("remove_leave")
    /\ UNCHANGED <<current, masked, halted, state, preempt, arg, returns>>

RemoveLeave ==
    /\ At("remove_leave")
    /\ LeaveCriticalSection
    /\ LeaveAsserts
    /\ Goto("kill_switch")
    /\ UNCHANGED <<current, state, links, arg, returns>>

\* Mutant: falls through to the endless loop at the end of _Call_continuation.
KillFallsThrough ==
    /\ At("kill_switch")
    /\ Goto("dead")
    /\ UNCHANGED <<current, masked, halted, state, preempt, links, arg, returns>>

KillSwitch ==
    /\ At("kill_switch")
    /\ SwitchContext(arg[current], "dead")
    /\ UNCHANGED <<masked, state, preempt, links, arg, returns>>

-----------------------------------------------------------------------------

\* corestart_main ends in _Processor_idle.
Idle ==
    /\ At("body")
    /\ current = Boot
    /\ Goto("idle")
    /\ UNCHANGED <<current, masked, halted, state, preempt, links, arg, returns>>

\* The IRQ vector halts the system: no interrupt is ever handled.
Interrupt ==
    /\ halted = "no"
    /\ ~masked
    /\ Halt("irq")
    /\ UNCHANGED <<current, masked, state, preempt, links, pc, arg, returns>>

\* What a function does of its own accord.
Body == \/ \E t \in Threads : Create(t) \/ StartEnter(t)
        \/ CreateOutOfMemory
        \/ Idle

\* What the thread manager does once it has been called.
Manager ==
    \/ StartStopped \/ StartRunning \/ StartFail
    \/ AddEnter \/ AddSplice \/ AddLeave
    \/ StartSwitch \/ StartResumed \/ Continue
    \/ KillEnter \/ KillLastTask \/ KillStop
    \/ RemoveEnter \/ RemoveSplice \/ RemoveLeave \/ KillSwitch

Next == Body \/ Return \/ Manager \/ Interrupt

Spec == Init /\ [][Next]_vars

\* The processor keeps executing, and every function but the bootstrap one,
\* whatever calls it makes, does not go on calling for ever.
FairSpec == Spec /\ WF_vars(Manager) /\ SF_vars(Return)

-----------------------------------------------------------------------------
(* Properties *)

\* Critical sections the program point is in, one on entry to a thread that
\* was just created (the 1 of arm_thread_create) and one of a killed thread.
Depth(label) ==
    IF label \in {"none", "body", "idle", "kill_enter", "last_task"} THEN 0
    ELSE IF label \in {"add_splice", "add_leave", "remove_splice", "remove_leave"} THEN 2
    ELSE 1

\* preemption_count counts the critical sections a thread is in, plus the one
\* the bootstrap thread starts with, plus one for each time the thread's
\* function returned: thread_continue enters a section there that nothing
\* ever leaves, so a thread that is started again keeps it.
PreemptBalanced ==
    \A t \in All :
        preempt[t] = Depth(pc[t]) + returns[t] + (IF t = Boot THEN 1 ELSE 0)

\* Stopped is exactly what thread_start may start: a thread that is not in its
\* function, not in a call to the thread manager and not about to be entered.
StateTracksLife ==
    \A t \in Threads : state[t] = "stopped" <=> pc[t] \in AtRest \union DyingPoints

\* A thread other than the current one is at rest or waits in _Switch_context;
\* the one to be entered next is the one the current thread is starting.
SuspendedSafely ==
    \A t \in All \ {current} :
        \/ pc[t] \in AtRest \union {"start_resumed"}
        \/ /\ pc[t] = "continue"
           /\ pc[current] \in {"add_enter", "add_splice", "add_leave", "start_switch"}
           /\ arg[current] = t

\* The thread manager never trips over itself: the assert on the preemption
\* count holds and _Switch_context is never asked to enter the current thread.
NoSelfInflictedPanic == halted \notin {"assert", "selfswitch"}

\* The ring's members: the bootstrap thread and every thread that has been
\* spliced in by thread_start and not yet unspliced by thread_kill.
InRing ==
    {Boot} \union
    {t \in Threads :
        /\ pc[t] \notin AtRest \union {"remove_leave", "kill_switch"}
        /\ ~ (pc[t] = "continue" /\ pc[current] \in {"add_enter", "add_splice"})}

\* Where the ring of the current thread is entered: at the thread itself, or
\* once it is unspliced at the successor that thread_kill will enter.
RingHead ==
    IF pc[current] \in {"remove_leave", "kill_switch"} THEN arg[current] ELSE current

Linked(a, b) == next[a] = b /\ prev[b] = a

\* The part of task_list that the current thread can reach is a well-formed
\* ring of one, two or three members: thread_kill always finds a live
\* successor, and never more than two threads besides the current one.
SmallRing ==
    /\ RingHead \in InRing
    /\ \/ Linked(RingHead, RingHead)
       \/ \E b \in InRing \ {RingHead} : Linked(RingHead, b) /\ Linked(b, RingHead)
       \/ \E b, c \in InRing \ {RingHead} :
              b # c /\ Linked(RingHead, b) /\ Linked(b, c) /\ Linked(c, RingHead)

\* n steps along the ring from t.
Along(link, t, n) ==
    LET f[i \in 0..n] == IF i = 0 THEN t ELSE link[f[i - 1]] IN f[n]

\* task_list is one ring through all its members: next and prev undo each
\* other, a thread outside is linked to itself, and following next from the
\* bootstrap thread meets every member.
RingOK ==
    /\ \A t \in All : prev[next[t]] = t /\ next[prev[t]] = t
    /\ \A t \in All \ InRing : next[t] = t
    /\ \A t \in InRing : \E n \in 0 .. Cardinality(Threads) : Along(next, Boot, n) = t

\* At most two threads exist.
Few == Cardinality({t \in Threads : pc[t] # "none"}) <= 2

\* thread_internal_add_before and thread_internal_remove_thread keep task_list
\* one ring through all running threads; a third thread can be spliced in so
\* that the ring of the current thread no longer holds all others.
RingOfFew == Few => RingOK

\* "killing last task" is reached only by the last task of the ring: no other
\* thread is waiting to be resumed ("We can't break the only task.").
KillOnlyLast ==
    halted = "lasttask" =>
        \A t \in All \ {current} : pc[t] # "start_resumed"

\* The links change only while interrupts are masked, so that an interrupt
\* never finds the ring half spliced.
LinksChangeMasked == [][links' # links => masked /\ masked']_vars

\* The thread manager implements CoopScheduler.  A thread lives from the
\* _Switch_context that first enters it to the one that leaves it for good.
Alive ==
    {t \in All : /\ pc[t] \notin AtRest
                 /\ pc[t] = "continue" => t = current}

Scheduler == INSTANCE CoopScheduler
             WITH cur <- current, alive <- Alive, down <- (halted # "no")

ImplementsScheduler == Scheduler!Spec
=============================================================================
