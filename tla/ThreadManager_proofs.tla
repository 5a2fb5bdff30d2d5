------------------------ MODULE ThreadManager_proofs ------------------------
(***************************************************************************)
(* Proofs about ThreadManager, for every set of threads.                   *)
(*                                                                         *)
(* The inductive invariant IInv strengthens the invariants of              *)
(* ThreadManager by three facts: whom a pending switch will enter          *)
(* (TargetOK), that links never lead to a thread that was not created      *)
(* (LinksCreated), and where interrupts are sure to be masked              *)
(* (SpliceMasked).                                                         *)
(***************************************************************************)
EXTENDS ThreadManager, FiniteSetTheorems, TLAPS

AddPoints == {"add_enter", "add_splice", "add_leave", "start_switch"}

\* The argument of a call of thread_start is a created thread; from the check
\* of its state on it is another one, waiting at its entry.  The successor
\* that thread_kill has chosen is another created thread.  Around a splice the argument
\* is the current thread's neighbour.
TargetOK ==
    /\ pc[current] = "start_check" =>
           arg[current] \in Threads /\ pc[arg[current]] # "none"
    /\ pc[current] \in AddPoints =>
           /\ arg[current] \in Threads \ {current}
           /\ pc[arg[current]] = "continue"
    /\ pc[current] \in DyingPoints =>
           arg[current] # current /\ pc[arg[current]] # "none"
    /\ pc[current] \in {"add_leave", "start_switch", "remove_enter", "remove_splice"} =>
           arg[current] = next[current]

\* A thread that was not created is in nobody's ring and never ran.
LinksCreated ==
    /\ pc[current] # "none"
    /\ \A t \in All : pc[t] = "none" => next[t] = t /\ prev[t] = t /\ returns[t] = 0
    /\ \A t \in All : pc[t] # "none" => pc[next[t]] # "none" /\ pc[prev[t]] # "none"

\* The links are spliced with interrupts masked.
SpliceMasked == pc[current] \in {"add_splice", "remove_splice"} => masked

\* The bootstrap thread is never at rest and never killed.
BootOK == pc[Boot] \in StartPoints \union {"body", "idle"}

IInv == /\ TypeOK
        /\ PreemptBalanced
        /\ StateTracksLife
        /\ SuspendedSafely
        /\ NoSelfInflictedPanic
        /\ TargetOK
        /\ LinksCreated
        /\ SpliceMasked
        /\ SmallRing
        /\ BootOK

-----------------------------------------------------------------------------

\* The initial state satisfies the inductive invariant.
LEMMA InitIInv == Init => IInv
BY BootAssumption, SMTT(60)
   DEF Init, IInv, TypeOK, PreemptBalanced, StateTracksLife, SuspendedSafely,
       NoSelfInflictedPanic, TargetOK, LinksCreated, SpliceMasked, SmallRing, BootOK,
       RingHead, InRing, Linked, All, Points,
       AtRest, StartPoints, DyingPoints, AddPoints, Halts, Depth

\* Leaving a critical section keeps the types of what it changes, and the
\* assertion can only stop the machine.
LEMMA LeaveTypes ==
    ASSUME TypeOK, LeaveCriticalSection, LeaveAsserts
    PROVE  /\ preempt' \in [All -> Int]
           /\ masked' \in BOOLEAN
           /\ halted' \in Halts
<1>1. preempt' \in [All -> Int]
  BY DEF TypeOK, LeaveCriticalSection
<1>2. masked' \in BOOLEAN
  BY DEF LeaveCriticalSection
<1>3. halted' \in Halts
  BY DEF TypeOK, LeaveAsserts, Halt, Halts
<1>. QED  BY <1>1, <1>2, <1>3

\* Every step keeps the variables in their types.
LEMMA TypeStep ==
    ASSUME TypeOK, [Next]_vars
    PROVE  TypeOK'
<1>. USE BootAssumption DEF TypeOK, Halts, All, Points, AtRest, StartPoints, DyingPoints
<1>1. ASSUME NEW t \in Threads, Create(t) PROVE TypeOK'
  BY <1>1 DEF Create, At, links
<1>2. ASSUME NEW t \in Threads, StartEnter(t) PROVE TypeOK'
  BY <1>2 DEF StartEnter, EnterCriticalSection, Goto, At, links
<1>3. CASE CreateOutOfMemory
  BY <1>3 DEF CreateOutOfMemory, At, Halt, links
<1>4. CASE Idle
  BY <1>4 DEF Idle, At, Goto, links
<1>5. CASE Return
  BY <1>5 DEF Return, At, Goto, EnterCriticalSection, links
<1>6. CASE StartStopped
  BY <1>6 DEF StartStopped, At, links
<1>7. CASE StartRunning
  BY <1>7 DEF StartRunning, At, Goto, links
<1>8. CASE StartFail
  BY <1>8, LeaveTypes DEF StartFail, At, Goto, links
<1>9. CASE AddEnter
  BY <1>9 DEF AddEnter, At, Goto, EnterCriticalSection, links
<1>10. CASE AddSplice
  BY <1>10 DEF AddSplice, At, Goto, AddBefore, links
<1>11. CASE AddLeave
  BY <1>11, LeaveTypes DEF AddLeave, At, Goto, links
<1>12. CASE StartSwitch
  BY <1>12 DEF StartSwitch, At, Goto, SwitchContext, Halt, links
<1>13. CASE StartResumed
  BY <1>13, LeaveTypes DEF StartResumed, At, Goto, links
<1>14. CASE Continue
  BY <1>14, LeaveTypes DEF Continue, At, Goto, links
<1>15. CASE KillEnter
  BY <1>15 DEF KillEnter, At, Goto, EnterCriticalSection, links
<1>16. CASE KillLastTask
  <2>1. preempt' \in [All -> Int]
    BY <1>16 DEF KillLastTask, LeaveCriticalSection
  <2>2. masked' = FALSE
    BY <1>16 DEF KillLastTask, LeaveCriticalSection
  <2>3. halted' \in Halts
    BY <1>16 DEF KillLastTask, Halt
  <2>. QED  BY <1>16, <2>1, <2>2, <2>3 DEF KillLastTask, Goto, links
<1>17. CASE KillStop
  BY <1>17 DEF KillStop, At, Goto, links
<1>18. CASE RemoveEnter
  BY <1>18 DEF RemoveEnter, At, Goto, EnterCriticalSection, links
<1>19. CASE RemoveSplice
  BY <1>19 DEF RemoveSplice, At, Goto, Remove, links
<1>20. CASE RemoveLeave
  BY <1>20, LeaveTypes DEF RemoveLeave, At, Goto, links
<1>21. CASE KillSwitch
  BY <1>21 DEF KillSwitch, At, Goto, SwitchContext, Halt, links
<1>22. CASE Interrupt
  BY <1>22 DEF Interrupt, Halt, links
<1>23. CASE UNCHANGED vars
  BY <1>23 DEF vars, links
<1>. QED
  BY <1>1, <1>2, <1>3, <1>4, <1>5, <1>6, <1>7, <1>8, <1>9, <1>10, <1>11, <1>12,
     <1>13, <1>14, <1>15, <1>16, <1>17, <1>18, <1>19, <1>20, <1>21, <1>22, <1>23
  DEF Next, Body, Manager

\* A critical section is only left by a thread that is in one.
LEMMA LeaveIsSafe ==
    ASSUME IInv,
           pc[current] \in {"start_fail", "add_leave", "start_resumed",
                            "continue", "kill_check", "remove_leave"}
    PROVE  preempt[current] - 1 > -1
BY DEF IInv, TypeOK, PreemptBalanced, Depth, All

\* thread_start goes on only with a thread that is not the current one and
\* whose function is not being executed.
LEMMA StartStoppedTarget ==
    ASSUME IInv, StartStopped
    PROVE  /\ arg[current] \in Threads
           /\ arg[current] # current
           /\ pc[arg[current]] \in {"created", "dead"}
<1>1. arg[current] \in Threads /\ pc[arg[current]] # "none"
  BY DEF IInv, TargetOK, StartStopped, At
<1>2. pc[arg[current]] \in AtRest \union DyingPoints
  BY <1>1 DEF IInv, StateTracksLife, StartStopped
<1>3. arg[current] # current
  BY <1>2 DEF StartStopped, At, AtRest, DyingPoints
<1>4. pc[arg[current]] \in AtRest \union {"start_resumed", "continue"}
  BY <1>1, <1>3 DEF IInv, SuspendedSafely, All
<1>. QED  BY <1>1, <1>2, <1>3, <1>4 DEF AtRest, DyingPoints

\* _Switch_context is asked to enter another thread, which waits to be entered
\* or is at rest.
LEMMA SwitchTarget ==
    ASSUME IInv, pc[current] \in {"start_switch", "kill_switch"}
    PROVE  /\ arg[current] \in All /\ arg[current] # current
           /\ pc[arg[current]] \in {"created", "dead", "start_resumed", "continue"}
<1>1. arg[current] \in All /\ arg[current] # current /\ pc[arg[current]] # "none"
  BY DEF IInv, TypeOK, TargetOK, AddPoints, DyingPoints
<1>2. pc[arg[current]] \in AtRest \union {"start_resumed", "continue"}
  BY <1>1 DEF IInv, SuspendedSafely
<1>. QED  BY <1>1, <1>2 DEF AtRest

\* Every step keeps preemption_count balanced.
LEMMA BalancedStep ==
    ASSUME IInv, [Next]_vars
    PROVE  PreemptBalanced'
<1>. USE BootAssumption DEF IInv, TypeOK, PreemptBalanced, Depth, All
<1>1. ASSUME NEW t \in Threads, Create(t) PROVE PreemptBalanced'
  BY <1>1 DEF Create, At, links, LinksCreated
<1>2. ASSUME NEW t \in Threads, StartEnter(t) PROVE PreemptBalanced'
  BY <1>2 DEF StartEnter, EnterCriticalSection, Goto, At, links
<1>3. CASE CreateOutOfMemory
  BY <1>3 DEF CreateOutOfMemory, At, links
<1>4. CASE Idle
  BY <1>4 DEF Idle, At, Goto, links
<1>5. CASE Return
  BY <1>5 DEF Return, At, Goto, EnterCriticalSection, links
<1>6. CASE StartStopped
  BY <1>6, StartStoppedTarget DEF StartStopped, At, links
<1>7. CASE StartRunning
  BY <1>7 DEF StartRunning, At, Goto, links
<1>8. CASE StartFail
  BY <1>8 DEF StartFail, At, Goto, LeaveCriticalSection, links
<1>9. CASE AddEnter
  BY <1>9 DEF AddEnter, At, Goto, EnterCriticalSection, links
<1>10. CASE AddSplice
  BY <1>10 DEF AddSplice, At, Goto, links
<1>11. CASE AddLeave
  BY <1>11 DEF AddLeave, At, Goto, LeaveCriticalSection, links
<1>12. CASE StartSwitch
  BY <1>12, SwitchTarget DEF StartSwitch, At, Goto, SwitchContext, links
<1>13. CASE StartResumed
  BY <1>13 DEF StartResumed, At, Goto, LeaveCriticalSection, links
<1>14. CASE Continue
  BY <1>14 DEF Continue, At, Goto, LeaveCriticalSection, links
<1>15. CASE KillEnter
  BY <1>15 DEF KillEnter, At, Goto, EnterCriticalSection, links
<1>16. CASE KillLastTask
  BY <1>16 DEF KillLastTask, At, Goto, LeaveCriticalSection, links
<1>17. CASE KillStop
  BY <1>17 DEF KillStop, At, Goto, links
<1>18. CASE RemoveEnter
  BY <1>18 DEF RemoveEnter, At, Goto, EnterCriticalSection, links
<1>19. CASE RemoveSplice
  BY <1>19 DEF RemoveSplice, At, Goto, links
<1>20. CASE RemoveLeave
  BY <1>20 DEF RemoveLeave, At, Goto, LeaveCriticalSection, links
<1>21. CASE KillSwitch
  BY <1>21, SwitchTarget DEF KillSwitch, At, Goto, SwitchContext, links
<1>22. CASE Interrupt
  BY <1>22 DEF Interrupt, links
<1>23. CASE UNCHANGED vars
  BY <1>23 DEF vars, links
<1>. QED
  BY <1>1, <1>2, <1>3, <1>4, <1>5, <1>6, <1>7, <1>8, <1>9, <1>10, <1>11, <1>12,
     <1>13, <1>14, <1>15, <1>16, <1>17, <1>18, <1>19, <1>20, <1>21, <1>22, <1>23
  DEF Next, Body, Manager

\* Every step keeps state in step with the thread's life.
LEMMA LifeStep ==
    ASSUME IInv, [Next]_vars
    PROVE  StateTracksLife'
<1>. USE BootAssumption DEF IInv, TypeOK, StateTracksLife, All, AtRest, DyingPoints
<1>1. ASSUME NEW t \in Threads, Create(t) PROVE StateTracksLife'
  BY <1>1 DEF Create, At, links
<1>2. ASSUME NEW t \in Threads, StartEnter(t) PROVE StateTracksLife'
  BY <1>2 DEF StartEnter, Goto, At, links
<1>3. CASE CreateOutOfMemory
  BY <1>3 DEF CreateOutOfMemory, At, links
<1>4. CASE Idle
  BY <1>4 DEF Idle, At, Goto, links
<1>5. CASE Return
  BY <1>5 DEF Return, At, Goto, links
<1>6. CASE StartStopped
  BY <1>6, StartStoppedTarget DEF StartStopped, At, links
<1>7. CASE StartRunning
  BY <1>7 DEF StartRunning, At, Goto, links
<1>8. CASE StartFail
  BY <1>8 DEF StartFail, At, Goto, links
<1>9. CASE AddEnter
  BY <1>9 DEF AddEnter, At, Goto, links
<1>10. CASE AddSplice
  BY <1>10 DEF AddSplice, At, Goto, links
<1>11. CASE AddLeave
  BY <1>11 DEF AddLeave, At, Goto, links
<1>12. CASE StartSwitch
  BY <1>12, SwitchTarget DEF StartSwitch, At, Goto, SwitchContext, links
<1>13. CASE StartResumed
  BY <1>13 DEF StartResumed, At, Goto, links
<1>14. CASE Continue
  BY <1>14 DEF Continue, At, Goto, links
<1>15. CASE KillEnter
  BY <1>15 DEF KillEnter, At, Goto, links
<1>16. CASE KillLastTask
  BY <1>16 DEF KillLastTask, At, Goto, links
<1>17. CASE KillStop
  BY <1>17 DEF KillStop, At, Goto, links
<1>18. CASE RemoveEnter
  BY <1>18 DEF RemoveEnter, At, Goto, links
<1>19. CASE RemoveSplice
  BY <1>19 DEF RemoveSplice, At, Goto, links
<1>20. CASE RemoveLeave
  BY <1>20 DEF RemoveLeave, At, Goto, links
<1>21. CASE KillSwitch
  BY <1>21, SwitchTarget DEF KillSwitch, At, Goto, SwitchContext, links
<1>22. CASE Interrupt
  BY <1>22 DEF Interrupt, links
<1>23. CASE UNCHANGED vars
  BY <1>23 DEF vars, links
<1>. QED
  BY <1>1, <1>2, <1>3, <1>4, <1>5, <1>6, <1>7, <1>8, <1>9, <1>10, <1>11, <1>12,
     <1>13, <1>14, <1>15, <1>16, <1>17, <1>18, <1>19, <1>20, <1>21, <1>22, <1>23
  DEF Next, Body, Manager

\* Every step leaves the other threads suspended safely.
LEMMA SuspendedStep ==
    ASSUME IInv, [Next]_vars
    PROVE  SuspendedSafely'
<1>. USE BootAssumption DEF IInv, TypeOK, SuspendedSafely, TargetOK, AddPoints, All,
             AtRest, DyingPoints
<1>1. ASSUME NEW t \in Threads, Create(t) PROVE SuspendedSafely'
  BY <1>1 DEF Create, At, links
<1>2. ASSUME NEW t \in Threads, StartEnter(t) PROVE SuspendedSafely'
  BY <1>2 DEF StartEnter, Goto, At, links
<1>3. CASE CreateOutOfMemory
  BY <1>3 DEF CreateOutOfMemory, At, links
<1>4. CASE Idle
  BY <1>4 DEF Idle, At, Goto, links
<1>5. CASE Return
  BY <1>5 DEF Return, At, Goto, links
<1>6. CASE StartStopped
  BY <1>6, StartStoppedTarget DEF StartStopped, At, links
<1>7. CASE StartRunning
  BY <1>7 DEF StartRunning, At, Goto, links
<1>8. CASE StartFail
  BY <1>8 DEF StartFail, At, Goto, links
<1>9. CASE AddEnter
  BY <1>9 DEF AddEnter, At, Goto, links
<1>10. CASE AddSplice
  BY <1>10 DEF AddSplice, At, Goto, links
<1>11. CASE AddLeave
  BY <1>11 DEF AddLeave, At, Goto, links
<1>12. CASE StartSwitch
  BY <1>12, SwitchTarget DEF StartSwitch, At, Goto, SwitchContext, links
<1>13. CASE StartResumed
  BY <1>13 DEF StartResumed, At, Goto, links
<1>14. CASE Continue
  BY <1>14 DEF Continue, At, Goto, links
<1>15. CASE KillEnter
  BY <1>15 DEF KillEnter, At, Goto, links
<1>16. CASE KillLastTask
  BY <1>16 DEF KillLastTask, At, Goto, links
<1>17. CASE KillStop
  BY <1>17 DEF KillStop, At, Goto, links
<1>18. CASE RemoveEnter
  BY <1>18 DEF RemoveEnter, At, Goto, links
<1>19. CASE RemoveSplice
  BY <1>19 DEF RemoveSplice, At, Goto, links
<1>20. CASE RemoveLeave
  BY <1>20 DEF RemoveLeave, At, Goto, links
<1>21. CASE KillSwitch
  BY <1>21, SwitchTarget DEF KillSwitch, At, Goto, SwitchContext, links
<1>22. CASE Interrupt
  BY <1>22 DEF Interrupt, links
<1>23. CASE UNCHANGED vars
  BY <1>23 DEF vars, links
<1>. QED
  BY <1>1, <1>2, <1>3, <1>4, <1>5, <1>6, <1>7, <1>8, <1>9, <1>10, <1>11, <1>12,
     <1>13, <1>14, <1>15, <1>16, <1>17, <1>18, <1>19, <1>20, <1>21, <1>22, <1>23
  DEF Next, Body, Manager

\* No step trips over the thread manager's own checks.
LEMMA PanicStep ==
    ASSUME IInv, [Next]_vars
    PROVE  NoSelfInflictedPanic'
<1>. USE BootAssumption DEF IInv, NoSelfInflictedPanic
<1>1. ASSUME NEW t \in Threads, Create(t) PROVE NoSelfInflictedPanic'
  BY <1>1 DEF Create, At, links
<1>2. ASSUME NEW t \in Threads, StartEnter(t) PROVE NoSelfInflictedPanic'
  BY <1>2 DEF StartEnter, At, links
<1>3. CASE CreateOutOfMemory
  BY <1>3 DEF CreateOutOfMemory, At, Halt, links
<1>4. CASE Idle
  BY <1>4 DEF Idle, At, links
<1>5. CASE Return
  BY <1>5 DEF Return, At, links
<1>6. CASE StartStopped
  BY <1>6, StartStoppedTarget DEF StartStopped, At, links
<1>7. CASE StartRunning
  BY <1>7 DEF StartRunning, At, links
<1>8. CASE StartFail
  BY <1>8, LeaveIsSafe DEF StartFail, At, LeaveAsserts, Halt, links
<1>9. CASE AddEnter
  BY <1>9 DEF AddEnter, At, links
<1>10. CASE AddSplice
  BY <1>10 DEF AddSplice, At, links
<1>11. CASE AddLeave
  BY <1>11, LeaveIsSafe DEF AddLeave, At, LeaveAsserts, Halt, links
<1>12. CASE StartSwitch
  BY <1>12, SwitchTarget DEF StartSwitch, At, SwitchContext, Halt, links
<1>13. CASE StartResumed
  BY <1>13, LeaveIsSafe DEF StartResumed, At, LeaveAsserts, Halt, links
<1>14. CASE Continue
  BY <1>14, LeaveIsSafe DEF Continue, At, LeaveAsserts, Halt, links
<1>15. CASE KillEnter
  BY <1>15 DEF KillEnter, At, links
<1>16. CASE KillLastTask
  BY <1>16, LeaveIsSafe DEF KillLastTask, At, Halt, links
<1>17. CASE KillStop
  BY <1>17 DEF KillStop, At, links
<1>18. CASE RemoveEnter
  BY <1>18 DEF RemoveEnter, At, links
<1>19. CASE RemoveSplice
  BY <1>19 DEF RemoveSplice, At, links
<1>20. CASE RemoveLeave
  BY <1>20, LeaveIsSafe DEF RemoveLeave, At, LeaveAsserts, Halt, links
<1>21. CASE KillSwitch
  BY <1>21, SwitchTarget DEF KillSwitch, At, SwitchContext, Halt, links
<1>22. CASE Interrupt
  BY <1>22 DEF Interrupt, Halt, links
<1>23. CASE UNCHANGED vars
  BY <1>23 DEF vars, links
<1>. QED
  BY <1>1, <1>2, <1>3, <1>4, <1>5, <1>6, <1>7, <1>8, <1>9, <1>10, <1>11, <1>12,
     <1>13, <1>14, <1>15, <1>16, <1>17, <1>18, <1>19, <1>20, <1>21, <1>22, <1>23
  DEF Next, Body, Manager

\* Every step keeps the pending switch's target right.
LEMMA TargetStep ==
    ASSUME IInv, [Next]_vars
    PROVE  TargetOK'
<1>. USE BootAssumption DEF IInv, TypeOK, TargetOK, SuspendedSafely, AddPoints, All,
             AtRest, DyingPoints
<1>1. ASSUME NEW t \in Threads, Create(t) PROVE TargetOK'
  BY <1>1 DEF Create, At, links
<1>2. ASSUME NEW t \in Threads, StartEnter(t) PROVE TargetOK'
  BY <1>2 DEF StartEnter, Goto, At, links
<1>3. CASE CreateOutOfMemory
  BY <1>3 DEF CreateOutOfMemory, At, links
<1>4. CASE Idle
  BY <1>4 DEF Idle, At, Goto, links
<1>5. CASE Return
  BY <1>5 DEF Return, At, Goto, links
<1>6. CASE StartStopped
  BY <1>6, StartStoppedTarget DEF StartStopped, At, links
<1>7. CASE StartRunning
  BY <1>7 DEF StartRunning, At, Goto, links
<1>8. CASE StartFail
  BY <1>8 DEF StartFail, At, Goto, links
<1>9. CASE AddEnter
  BY <1>9 DEF AddEnter, At, Goto, links
<1>10. CASE AddSplice
  BY <1>10 DEF AddSplice, At, Goto, AddBefore, links
<1>11. CASE AddLeave
  BY <1>11 DEF AddLeave, At, Goto, links
<1>12. CASE StartSwitch
  BY <1>12, SwitchTarget DEF StartSwitch, At, Goto, SwitchContext, links
<1>13. CASE StartResumed
  BY <1>13 DEF StartResumed, At, Goto, links
<1>14. CASE Continue
  BY <1>14 DEF Continue, At, Goto, links
<1>15. CASE KillEnter
  BY <1>15 DEF KillEnter, At, Goto, links
<1>16. CASE KillLastTask
  BY <1>16 DEF KillLastTask, At, Goto, links
<1>17. CASE KillStop
  <2>1. next[current] \in All /\ pc[next[current]] # "none" /\ next[current] # current
    BY <1>17 DEF KillStop, LinksCreated
  <2>2. /\ arg' = [arg EXCEPT ![current] = next[current]]
        /\ pc' = [pc EXCEPT ![current] = "remove_enter"]
        /\ current' = current /\ next' = next
    BY <1>17 DEF KillStop, Goto, links
  <2>3. current \in Threads
    BY <1>17 DEF KillStop, At, BootOK, StartPoints
  <2>. QED  BY <2>1, <2>2, <2>3
<1>18. CASE RemoveEnter
  BY <1>18 DEF RemoveEnter, At, Goto, links
<1>19. CASE RemoveSplice
  BY <1>19 DEF RemoveSplice, At, Goto, links
<1>20. CASE RemoveLeave
  BY <1>20 DEF RemoveLeave, At, Goto, links
<1>21. CASE KillSwitch
  BY <1>21, SwitchTarget DEF KillSwitch, At, Goto, SwitchContext, links
<1>22. CASE Interrupt
  BY <1>22 DEF Interrupt, links
<1>23. CASE UNCHANGED vars
  BY <1>23 DEF vars, links
<1>. QED
  BY <1>1, <1>2, <1>3, <1>4, <1>5, <1>6, <1>7, <1>8, <1>9, <1>10, <1>11, <1>12,
     <1>13, <1>14, <1>15, <1>16, <1>17, <1>18, <1>19, <1>20, <1>21, <1>22, <1>23
  DEF Next, Body, Manager

\* Every step keeps uncreated threads out of the rings.
LEMMA LinksStep ==
    ASSUME IInv, [Next]_vars
    PROVE  LinksCreated'
<1>. USE BootAssumption DEF IInv, TypeOK, LinksCreated, TargetOK, AddPoints, All, DyingPoints
<1>1. ASSUME NEW t \in Threads, Create(t) PROVE LinksCreated'
  BY <1>1 DEF Create, At, links
<1>2. ASSUME NEW t \in Threads, StartEnter(t) PROVE LinksCreated'
  BY <1>2 DEF StartEnter, Goto, At, links
<1>3. CASE CreateOutOfMemory
  BY <1>3 DEF CreateOutOfMemory, At, links
<1>4. CASE Idle
  BY <1>4 DEF Idle, At, Goto, links
<1>5. CASE Return
  BY <1>5 DEF Return, At, Goto, links
<1>6. CASE StartStopped
  BY <1>6, StartStoppedTarget DEF StartStopped, At, links
<1>7. CASE StartRunning
  BY <1>7 DEF StartRunning, At, Goto, links
<1>8. CASE StartFail
  BY <1>8 DEF StartFail, At, Goto, links
<1>9. CASE AddEnter
  BY <1>9 DEF AddEnter, At, Goto, links
<1>10. CASE AddSplice
  BY <1>10 DEF AddSplice, At, Goto, AddBefore, links
<1>11. CASE AddLeave
  BY <1>11 DEF AddLeave, At, Goto, links
<1>12. CASE StartSwitch
  BY <1>12, SwitchTarget DEF StartSwitch, At, Goto, SwitchContext, links
<1>13. CASE StartResumed
  BY <1>13 DEF StartResumed, At, Goto, links
<1>14. CASE Continue
  BY <1>14 DEF Continue, At, Goto, links
<1>15. CASE KillEnter
  BY <1>15 DEF KillEnter, At, Goto, links
<1>16. CASE KillLastTask
  BY <1>16 DEF KillLastTask, At, Goto, links
<1>17. CASE KillStop
  BY <1>17 DEF KillStop, At, Goto, links
<1>18. CASE RemoveEnter
  BY <1>18 DEF RemoveEnter, At, Goto, links
<1>19. CASE RemoveSplice
  BY <1>19 DEF RemoveSplice, At, Goto, Remove, links
<1>20. CASE RemoveLeave
  BY <1>20 DEF RemoveLeave, At, Goto, links
<1>21. CASE KillSwitch
  BY <1>21, SwitchTarget DEF KillSwitch, At, Goto, SwitchContext, links
<1>22. CASE Interrupt
  BY <1>22 DEF Interrupt, links
<1>23. CASE UNCHANGED vars
  BY <1>23 DEF vars, links
<1>. QED
  BY <1>1, <1>2, <1>3, <1>4, <1>5, <1>6, <1>7, <1>8, <1>9, <1>10, <1>11, <1>12,
     <1>13, <1>14, <1>15, <1>16, <1>17, <1>18, <1>19, <1>20, <1>21, <1>22, <1>23
  DEF Next, Body, Manager

\* Every step that leads to a splice masks interrupts.
LEMMA MaskStep ==
    ASSUME IInv, [Next]_vars
    PROVE  SpliceMasked'
<1>. USE BootAssumption DEF IInv, TypeOK, SpliceMasked, All
<1>1. ASSUME NEW t \in Threads, Create(t) PROVE SpliceMasked'
  BY <1>1 DEF Create, At, links
<1>2. ASSUME NEW t \in Threads, StartEnter(t) PROVE SpliceMasked'
  BY <1>2 DEF StartEnter, EnterCriticalSection, Goto, At, links
<1>3. CASE CreateOutOfMemory
  BY <1>3 DEF CreateOutOfMemory, At, links
<1>4. CASE Idle
  BY <1>4 DEF Idle, At, Goto, links
<1>5. CASE Return
  BY <1>5 DEF Return, At, Goto, EnterCriticalSection, links
<1>6. CASE StartStopped
  BY <1>6, StartStoppedTarget DEF StartStopped, At, links
<1>7. CASE StartRunning
  BY <1>7 DEF StartRunning, At, Goto, links
<1>8. CASE StartFail
  BY <1>8 DEF StartFail, At, Goto, LeaveCriticalSection, links
<1>9. CASE AddEnter
  BY <1>9 DEF AddEnter, At, Goto, EnterCriticalSection, links
<1>10. CASE AddSplice
  BY <1>10 DEF AddSplice, At, Goto, links
<1>11. CASE AddLeave
  BY <1>11 DEF AddLeave, At, Goto, LeaveCriticalSection, links
<1>12. CASE StartSwitch
  BY <1>12, SwitchTarget DEF StartSwitch, At, Goto, SwitchContext, links
<1>13. CASE StartResumed
  BY <1>13 DEF StartResumed, At, Goto, LeaveCriticalSection, links
<1>14. CASE Continue
  BY <1>14 DEF Continue, At, Goto, LeaveCriticalSection, links
<1>15. CASE KillEnter
  BY <1>15 DEF KillEnter, At, Goto, EnterCriticalSection, links
<1>16. CASE KillLastTask
  BY <1>16 DEF KillLastTask, At, Goto, LeaveCriticalSection, links
<1>17. CASE KillStop
  BY <1>17 DEF KillStop, At, Goto, links
<1>18. CASE RemoveEnter
  BY <1>18 DEF RemoveEnter, At, Goto, EnterCriticalSection, links
<1>19. CASE RemoveSplice
  BY <1>19 DEF RemoveSplice, At, Goto, links
<1>20. CASE RemoveLeave
  BY <1>20 DEF RemoveLeave, At, Goto, LeaveCriticalSection, links
<1>21. CASE KillSwitch
  BY <1>21, SwitchTarget DEF KillSwitch, At, Goto, SwitchContext, links
<1>22. CASE Interrupt
  BY <1>22 DEF Interrupt, links
<1>23. CASE UNCHANGED vars
  BY <1>23 DEF vars, links
<1>. QED
  BY <1>1, <1>2, <1>3, <1>4, <1>5, <1>6, <1>7, <1>8, <1>9, <1>10, <1>11, <1>12,
     <1>13, <1>14, <1>15, <1>16, <1>17, <1>18, <1>19, <1>20, <1>21, <1>22, <1>23
  DEF Next, Body, Manager

\* Every step keeps the bootstrap thread alive.
LEMMA BootStep ==
    ASSUME IInv, [Next]_vars
    PROVE  BootOK'
<1>. USE BootAssumption DEF IInv, TypeOK, BootOK, All, StartPoints
<1>1. ASSUME NEW t \in Threads, Create(t) PROVE BootOK'
  BY <1>1 DEF Create, At, links
<1>2. ASSUME NEW t \in Threads, StartEnter(t) PROVE BootOK'
  BY <1>2 DEF StartEnter, Goto, At, links
<1>3. CASE CreateOutOfMemory
  BY <1>3 DEF CreateOutOfMemory, At, links
<1>4. CASE Idle
  BY <1>4 DEF Idle, At, Goto, links
<1>5. CASE Return
  BY <1>5 DEF Return, At, Goto, links
<1>6. CASE StartStopped
  BY <1>6, StartStoppedTarget DEF StartStopped, At, links
<1>7. CASE StartRunning
  BY <1>7 DEF StartRunning, At, Goto, links
<1>8. CASE StartFail
  BY <1>8 DEF StartFail, At, Goto, links
<1>9. CASE AddEnter
  BY <1>9 DEF AddEnter, At, Goto, links
<1>10. CASE AddSplice
  BY <1>10 DEF AddSplice, At, Goto, links
<1>11. CASE AddLeave
  BY <1>11 DEF AddLeave, At, Goto, links
<1>12. CASE StartSwitch
  BY <1>12, SwitchTarget DEF StartSwitch, At, Goto, SwitchContext, links
<1>13. CASE StartResumed
  BY <1>13 DEF StartResumed, At, Goto, links
<1>14. CASE Continue
  BY <1>14 DEF Continue, At, Goto, links
<1>15. CASE KillEnter
  BY <1>15 DEF KillEnter, At, Goto, links
<1>16. CASE KillLastTask
  BY <1>16 DEF KillLastTask, At, Goto, links
<1>17. CASE KillStop
  BY <1>17 DEF KillStop, At, Goto, links
<1>18. CASE RemoveEnter
  BY <1>18 DEF RemoveEnter, At, Goto, links
<1>19. CASE RemoveSplice
  BY <1>19 DEF RemoveSplice, At, Goto, links
<1>20. CASE RemoveLeave
  BY <1>20 DEF RemoveLeave, At, Goto, links
<1>21. CASE KillSwitch
  BY <1>21, SwitchTarget DEF KillSwitch, At, Goto, SwitchContext, links
<1>22. CASE Interrupt
  BY <1>22 DEF Interrupt, links
<1>23. CASE UNCHANGED vars
  BY <1>23 DEF vars, links
<1>. QED
  BY <1>1, <1>2, <1>3, <1>4, <1>5, <1>6, <1>7, <1>8, <1>9, <1>10, <1>11, <1>12,
     <1>13, <1>14, <1>15, <1>16, <1>17, <1>18, <1>19, <1>20, <1>21, <1>22, <1>23
  DEF Next, Body, Manager

\* An uncreated thread is linked to itself already.
LEMMA CreateKeepsLinks ==
    ASSUME IInv, NEW t \in Threads, Create(t)
    PROVE  UNCHANGED links
<1>1. next[t] = t /\ prev[t] = t
  BY DEF IInv, LinksCreated, Create, All
<1>2. next' = next /\ prev' = prev
  BY <1>1 DEF Create, IInv, TypeOK
<1>. QED  BY <1>2 DEF links

\* A step that leaves the links alone and takes no member away keeps the ring.
LEMMA RingKept ==
    ASSUME IInv, UNCHANGED links, RingHead' = RingHead, InRing \subseteq InRing'
    PROVE  SmallRing'
<1>. DEFINE h == RingHead
<1>1. h \in InRing /\ h \in InRing' /\ RingHead' = h
  BY DEF IInv, SmallRing
<1>2. \A a, b : Linked(a, b) => Linked(a, b)'
  BY DEF links, Linked
<1>3. CASE Linked(h, h)
  BY <1>1, <1>2, <1>3 DEF SmallRing
<1>4. ASSUME NEW b \in InRing \ {h}, Linked(h, b), Linked(b, h)
      PROVE  SmallRing'
  BY <1>1, <1>2, <1>4 DEF SmallRing
<1>5. ASSUME NEW b \in InRing \ {h}, NEW c \in InRing \ {h},
             b # c, Linked(h, b), Linked(b, c), Linked(c, h)
      PROVE  SmallRing'
  BY <1>1, <1>2, <1>5 DEF SmallRing
<1>. QED  BY <1>3, <1>4, <1>5 DEF IInv, SmallRing

\* Every step keeps the ring of the current thread well formed.
LEMMA RingStep ==
    ASSUME IInv, [Next]_vars
    PROVE  SmallRing'
<1>. USE BootAssumption DEF IInv, TypeOK, SuspendedSafely, TargetOK, AddPoints, All,
             AtRest, DyingPoints
<1>1. ASSUME NEW t \in Threads, Create(t) PROVE SmallRing'
  <2>1. pc' = [pc EXCEPT ![t] = "created"] /\ current' = current /\ t # current
    BY <1>1 DEF Create, At
  <2>2. RingHead' = RingHead
    BY <2>1, <1>1 DEF RingHead, Create
  <2>3. InRing \subseteq InRing'
    BY <2>1, <1>1 DEF InRing, Create
  <2>. QED  BY <1>1, <2>2, <2>3, RingKept, CreateKeepsLinks
<1>2. ASSUME NEW t \in Threads, StartEnter(t) PROVE SmallRing'
  <2>1. RingHead' = RingHead
    BY <1>2 DEF RingHead, StartEnter, Goto, At
  <2>2. InRing \subseteq InRing'
    BY <1>2 DEF InRing, StartEnter, Goto, At
  <2>. QED  BY <1>2, <2>1, <2>2, RingKept DEF StartEnter, links
<1>3. CASE CreateOutOfMemory
  <2>1. RingHead' = RingHead
    BY <1>3 DEF RingHead, CreateOutOfMemory, At
  <2>2. InRing \subseteq InRing'
    BY <1>3 DEF InRing, CreateOutOfMemory, At
  <2>. QED  BY <1>3, <2>1, <2>2, RingKept DEF CreateOutOfMemory, links
<1>4. CASE Idle
  <2>1. RingHead' = RingHead
    BY <1>4 DEF RingHead, Idle, At, Goto
  <2>2. InRing \subseteq InRing'
    BY <1>4 DEF InRing, Idle, At, Goto
  <2>. QED  BY <1>4, <2>1, <2>2, RingKept DEF Idle, links
<1>5. CASE Return
  <2>1. RingHead' = RingHead
    BY <1>5 DEF RingHead, Return, At, Goto
  <2>2. InRing \subseteq InRing'
    BY <1>5 DEF InRing, Return, At, Goto
  <2>. QED  BY <1>5, <2>1, <2>2, RingKept DEF Return, links
<1>6. CASE StartStopped
  <2>1. RingHead' = RingHead
    BY <1>6, StartStoppedTarget DEF RingHead, StartStopped, At
  <2>2. InRing \subseteq InRing'
    BY <1>6, StartStoppedTarget DEF InRing, StartStopped, At
  <2>. QED  BY <1>6, <2>1, <2>2, RingKept DEF StartStopped, links
<1>7. CASE StartRunning
  <2>1. RingHead' = RingHead
    BY <1>7 DEF RingHead, StartRunning, At, Goto
  <2>2. InRing \subseteq InRing'
    BY <1>7 DEF InRing, StartRunning, At, Goto
  <2>. QED  BY <1>7, <2>1, <2>2, RingKept DEF StartRunning, links
<1>8. CASE StartFail
  <2>1. RingHead' = RingHead
    BY <1>8 DEF RingHead, StartFail, At, Goto
  <2>2. InRing \subseteq InRing'
    BY <1>8 DEF InRing, StartFail, At, Goto
  <2>. QED  BY <1>8, <2>1, <2>2, RingKept DEF StartFail, links
<1>9. CASE AddEnter
  <2>1. RingHead' = RingHead
    BY <1>9 DEF RingHead, AddEnter, At, Goto
  <2>2. InRing \subseteq InRing'
    BY <1>9 DEF InRing, AddEnter, At, Goto
  <2>. QED  BY <1>9, <2>1, <2>2, RingKept DEF AddEnter, links
<1>10. CASE AddSplice
  <2>. DEFINE h == current
              a == arg[current]
  <2>1. /\ RingHead = h /\ RingHead' = h /\ h \in All
        /\ a \in All /\ a \notin InRing
    BY <1>10 DEF RingHead, InRing, AddSplice, At, Goto
  <2>2. InRing \union {a} \subseteq InRing'
    BY <1>10 DEF InRing, AddSplice, At, Goto
  <2>3. InRing \subseteq All /\ h \in InRing
    BY <2>1 DEF InRing, SmallRing
  <2>4. /\ next' = [next EXCEPT ![h] = a, ![a] = prev[h]]
        /\ prev' = [prev EXCEPT ![a] = h, ![prev[h]] = a]
    BY <1>10 DEF AddSplice, AddBefore
  <2>. HIDE DEF h, a, IInv, TypeOK, SuspendedSafely, TargetOK, All
  <2>5. next \in [All -> All] /\ prev \in [All -> All]
    BY DEF IInv, TypeOK
  <2>6. CASE Linked(h, h)
    <3>1. /\ next'[h] = a /\ prev'[a] = h
          /\ next'[a] = h /\ prev'[h] = a
      BY <2>1, <2>3, <2>4, <2>5, <2>6 DEF Linked
    <3>. QED  BY <2>1, <2>2, <2>3, <3>1 DEF SmallRing, Linked
  <2>7. ASSUME NEW b \in InRing \ {h}, Linked(h, b), Linked(b, h)
        PROVE  SmallRing'
    <3>1. /\ next'[h] = a /\ prev'[a] = h
          /\ next'[a] = b /\ prev'[b] = a
          /\ next'[b] = h /\ prev'[h] = b
      BY <2>1, <2>3, <2>4, <2>5, <2>7 DEF Linked
    <3>. QED  BY <2>1, <2>2, <2>3, <2>7, <3>1 DEF SmallRing, Linked
  <2>8. ASSUME NEW b \in InRing \ {h}, NEW c \in InRing \ {h},
               b # c, Linked(h, b), Linked(b, c), Linked(c, h)
        PROVE  SmallRing'
    <3>1. /\ next'[h] = a /\ prev'[a] = h
          /\ next'[a] = c /\ prev'[c] = a
          /\ next'[c] = h /\ prev'[h] = c
      BY <2>1, <2>3, <2>4, <2>5, <2>8 DEF Linked
    <3>. QED  BY <2>1, <2>2, <2>3, <2>8, <3>1 DEF SmallRing, Linked
  <2>. QED  BY <2>1, <2>6, <2>7, <2>8 DEF IInv, SmallRing
<1>11. CASE AddLeave
  <2>1. RingHead' = RingHead
    BY <1>11 DEF RingHead, AddLeave, At, Goto
  <2>2. InRing \subseteq InRing'
    BY <1>11 DEF InRing, AddLeave, At, Goto
  <2>. QED  BY <1>11, <2>1, <2>2, RingKept DEF AddLeave, links
<1>12. CASE StartSwitch
  <2>. DEFINE h == current
              a == arg[current]
  <2>1. /\ RingHead = h /\ RingHead' = a
        /\ a # h /\ next[h] = a
    BY <1>12, SwitchTarget DEF RingHead, StartSwitch, At, Goto, SwitchContext
  <2>2. InRing \subseteq InRing'
    BY <1>12, SwitchTarget DEF InRing, StartSwitch, At, Goto, SwitchContext
  <2>3. \A x, y : Linked(x, y) => Linked(x, y)'
    BY <1>12 DEF StartSwitch, links, Linked
  <2>4. h \in InRing
    BY <2>1 DEF SmallRing
  <2>. HIDE DEF h, a, IInv, TypeOK, SuspendedSafely, TargetOK, All
  <2>5. ~ Linked(h, h)
    BY <2>1 DEF Linked
  <2>6. ASSUME NEW b \in InRing \ {h}, Linked(h, b), Linked(b, h)
        PROVE  SmallRing'
    <3>1. b = a
      BY <2>1, <2>6 DEF Linked
    <3>. QED  BY <2>1, <2>2, <2>3, <2>4, <2>6, <3>1 DEF SmallRing
  <2>7. ASSUME NEW b \in InRing \ {h}, NEW c \in InRing \ {h},
               b # c, Linked(h, b), Linked(b, c), Linked(c, h)
        PROVE  SmallRing'
    <3>1. b = a
      BY <2>1, <2>7 DEF Linked
    <3>. QED  BY <2>1, <2>2, <2>3, <2>4, <2>7, <3>1 DEF SmallRing
  <2>. QED  BY <2>1, <2>5, <2>6, <2>7 DEF IInv, SmallRing
<1>13. CASE StartResumed
  <2>1. RingHead' = RingHead
    BY <1>13 DEF RingHead, StartResumed, At, Goto
  <2>2. InRing \subseteq InRing'
    BY <1>13 DEF InRing, StartResumed, At, Goto
  <2>. QED  BY <1>13, <2>1, <2>2, RingKept DEF StartResumed, links
<1>14. CASE Continue
  <2>1. RingHead' = RingHead
    BY <1>14 DEF RingHead, Continue, At, Goto
  <2>2. InRing \subseteq InRing'
    BY <1>14 DEF InRing, Continue, At, Goto
  <2>. QED  BY <1>14, <2>1, <2>2, RingKept DEF Continue, links
<1>15. CASE KillEnter
  <2>1. RingHead' = RingHead
    BY <1>15 DEF RingHead, KillEnter, At, Goto
  <2>2. InRing \subseteq InRing'
    BY <1>15 DEF InRing, KillEnter, At, Goto
  <2>. QED  BY <1>15, <2>1, <2>2, RingKept DEF KillEnter, links
<1>16. CASE KillLastTask
  <2>1. RingHead' = RingHead
    BY <1>16 DEF RingHead, KillLastTask, At, Goto
  <2>2. InRing \subseteq InRing'
    BY <1>16 DEF InRing, KillLastTask, At, Goto
  <2>. QED  BY <1>16, <2>1, <2>2, RingKept DEF KillLastTask, links
<1>17. CASE KillStop
  <2>1. RingHead' = RingHead
    BY <1>17 DEF RingHead, KillStop, At, Goto
  <2>2. InRing \subseteq InRing'
    BY <1>17 DEF InRing, KillStop, At, Goto
  <2>. QED  BY <1>17, <2>1, <2>2, RingKept DEF KillStop, links
<1>18. CASE RemoveEnter
  <2>1. RingHead' = RingHead
    BY <1>18 DEF RingHead, RemoveEnter, At, Goto
  <2>2. InRing \subseteq InRing'
    BY <1>18 DEF InRing, RemoveEnter, At, Goto
  <2>. QED  BY <1>18, <2>1, <2>2, RingKept DEF RemoveEnter, links
<1>19. CASE RemoveSplice
  <2>. DEFINE h == current
              a == arg[current]
  <2>1. /\ RingHead = h /\ RingHead' = a /\ h \in All
        /\ a # h /\ next[h] = a
    BY <1>19 DEF RingHead, RemoveSplice, At, Goto
  <2>2. InRing \ {h} \subseteq InRing'
    BY <1>19 DEF InRing, RemoveSplice, At, Goto
  <2>3. InRing \subseteq All
    BY DEF InRing
  <2>4. /\ next' = [next EXCEPT ![prev[h]] = next[h], ![h] = h]
        /\ prev' = [prev EXCEPT ![next[h]] = prev[h], ![h] = h]
    BY <1>19 DEF RemoveSplice, Remove
  <2>. HIDE DEF h, a, IInv, TypeOK, SuspendedSafely, TargetOK, All
  <2>5. next \in [All -> All] /\ prev \in [All -> All]
    BY DEF IInv, TypeOK
  <2>6. ~ Linked(h, h)
    BY <2>1 DEF Linked
  <2>7. ASSUME NEW b \in InRing \ {h}, Linked(h, b), Linked(b, h)
        PROVE  SmallRing'
    <3>1. b = a /\ Linked(b, b)'
      BY <2>1, <2>3, <2>4, <2>5, <2>7 DEF Linked
    <3>. QED  BY <2>1, <2>2, <2>7, <3>1 DEF SmallRing
  <2>8. ASSUME NEW b \in InRing \ {h}, NEW c \in InRing \ {h},
               b # c, Linked(h, b), Linked(b, c), Linked(c, h)
        PROVE  SmallRing'
    <3>1. b = a /\ Linked(b, c)' /\ Linked(c, b)'
      BY <2>1, <2>3, <2>4, <2>5, <2>8 DEF Linked
    <3>. QED  BY <2>1, <2>2, <2>8, <3>1 DEF SmallRing
  <2>. QED  BY <2>1, <2>6, <2>7, <2>8 DEF IInv, SmallRing
<1>20. CASE RemoveLeave
  <2>1. RingHead' = RingHead
    BY <1>20 DEF RingHead, RemoveLeave, At, Goto
  <2>2. InRing \subseteq InRing'
    BY <1>20 DEF InRing, RemoveLeave, At, Goto
  <2>. QED  BY <1>20, <2>1, <2>2, RingKept DEF RemoveLeave, links
<1>21. CASE KillSwitch
  <2>1. RingHead' = RingHead
    BY <1>21, SwitchTarget DEF RingHead, KillSwitch, At, Goto, SwitchContext
  <2>2. InRing \subseteq InRing'
    BY <1>21, SwitchTarget DEF InRing, KillSwitch, At, Goto, SwitchContext
  <2>. QED  BY <1>21, <2>1, <2>2, RingKept DEF KillSwitch, links
<1>22. CASE Interrupt
  <2>1. RingHead' = RingHead
    BY <1>22 DEF RingHead, Interrupt
  <2>2. InRing \subseteq InRing'
    BY <1>22 DEF InRing, Interrupt
  <2>. QED  BY <1>22, <2>1, <2>2, RingKept DEF Interrupt, links
<1>23. CASE UNCHANGED vars
  BY <1>23, RingKept DEF vars, links, RingHead, InRing
<1>. QED
  BY <1>1, <1>2, <1>3, <1>4, <1>5, <1>6, <1>7, <1>8, <1>9, <1>10, <1>11, <1>12,
     <1>13, <1>14, <1>15, <1>16, <1>17, <1>18, <1>19, <1>20, <1>21, <1>22, <1>23
  DEF Next, Body, Manager

-----------------------------------------------------------------------------

\* The inductive invariant holds in every reachable state.
THEOREM Invariance == Spec => []IInv
<1>1. IInv /\ [Next]_vars => IInv'
  BY TypeStep, BalancedStep, LifeStep, SuspendedStep, PanicStep, TargetStep,
     LinksStep, MaskStep, RingStep,
     BootStep DEF IInv
<1>. QED  BY InitIInv, <1>1, PTL DEF Spec

\* Every variable keeps its type.
THEOREM TypeCorrectness == Spec => []TypeOK
<1>1. IInv => TypeOK
  BY DEF IInv
<1>. QED  BY Invariance, <1>1, PTL

\* Whatever is started, killed and restarted, preemption_count is what the
\* open critical sections and the leak of thread_continue account for.
THEOREM PreemptionBalance == Spec => []PreemptBalanced
<1>1. IInv => PreemptBalanced
  BY DEF IInv
<1>. QED  BY Invariance, <1>1, PTL

\* thread_start never restarts a thread that is being executed, because its
\* state says stopped only when it is at rest or being killed.
THEOREM StateCorrectness == Spec => []StateTracksLife
<1>1. IInv => StateTracksLife
  BY DEF IInv
<1>. QED  BY Invariance, <1>1, PTL

\* Control leaves a thread only in _Switch_context, so no other thread is ever
\* suspended inside its function or inside a splice.
THEOREM SuspensionSafety == Spec => []SuspendedSafely
<1>1. IInv => SuspendedSafely
  BY DEF IInv
<1>. QED  BY Invariance, <1>1, PTL

\* The assertion on the preemption count and the panic in _Switch_context are
\* never reached.
THEOREM PanicFreedom == Spec => []NoSelfInflictedPanic
<1>1. IInv => NoSelfInflictedPanic
  BY DEF IInv
<1>. QED  BY Invariance, <1>1, PTL

\* No interrupt ever finds the ring half spliced.
THEOREM SplicesMasked == Spec => LinksChangeMasked
<1>1. IInv /\ [Next]_vars => [links' # links => masked /\ masked']_vars
  <2>. SUFFICES ASSUME IInv, Next, links' # links PROVE masked /\ masked'
    BY DEF vars
  <2>1. ASSUME NEW t \in Threads, Create(t) PROVE FALSE
    BY <2>1, CreateKeepsLinks
  <2>2. CASE AddSplice
    BY <2>2 DEF AddSplice, At, IInv, SpliceMasked
  <2>3. CASE RemoveSplice
    BY <2>3 DEF RemoveSplice, At, IInv, SpliceMasked
  <2>4. UNCHANGED links \/ AddSplice \/ RemoveSplice
    BY <2>1 DEF Next, Body, Manager, StartEnter, CreateOutOfMemory, Idle,
       Return, StartStopped, StartRunning, StartFail, AddEnter,
       AddLeave, StartSwitch, StartResumed, Continue, KillEnter, KillLastTask,
       KillStop, RemoveEnter, RemoveLeave, KillSwitch, Interrupt, links
  <2>. QED  BY <2>2, <2>3, <2>4
<1>. QED  BY Invariance, <1>1, PTL DEF Spec, LinksChangeMasked

\* The successor that thread_kill enters waits in its own call of thread_start.
LEMMA SuccessorWaits ==
    ASSUME IInv, pc[current] = "kill_switch"
    PROVE  arg[current] \in All /\ arg[current] # current
           /\ pc[arg[current]] = "start_resumed"
<1>1. /\ arg[current] \in All /\ arg[current] # current
      /\ pc[arg[current]] \in {"created", "dead", "start_resumed", "continue"}
  BY SwitchTarget
<1>2. arg[current] \in InRing
  BY DEF IInv, SmallRing, RingHead
<1>3. pc[arg[current]] \notin AtRest
  BY <1>1, <1>2 DEF InRing, IInv, BootOK, AtRest, StartPoints
<1>4. pc[arg[current]] # "continue"
  BY <1>1 DEF IInv, SuspendedSafely, AtRest
<1>. QED  BY <1>1, <1>3, <1>4 DEF AtRest

\* Every step starts a thread, ends one, goes down, or changes nothing that
\* the scheduler promises anything about.
LEMMA SchedulerStep ==
    ASSUME IInv, [Next]_vars
    PROVE  [Scheduler!Next]_(Scheduler!schedVars)
<1>. DEFINE Quiet == Alive' = Alive /\ UNCHANGED <<current, halted>>
<1>1. Quiet => UNCHANGED Scheduler!schedVars
  BY DEF Scheduler!schedVars
<1>2. CASE StartSwitch
  <2>. DEFINE a == arg[current]
  <2>1. /\ a \in Threads /\ a # current /\ pc[a] = "continue"
        /\ halted = "no" /\ pc[current] = "start_switch"
    BY <1>2 DEF StartSwitch, At, IInv, TargetOK, AddPoints
  <2>2. /\ current' = a /\ halted' = halted
        /\ pc' = [pc EXCEPT ![current] = "start_resumed"]
    BY <1>2, <2>1 DEF StartSwitch, SwitchContext, Goto
  <2>3. a \notin Alive /\ Alive' = Alive \union {a}
    BY <2>1, <2>2 DEF Alive, IInv, TypeOK, SuspendedSafely, AtRest, All
  <2>. QED  BY <2>1, <2>2, <2>3 DEF Scheduler!Next, Scheduler!Start
<1>3. CASE KillSwitch
  <2>. DEFINE a == arg[current]
  <2>1. pc[current] = "kill_switch" /\ halted = "no" /\ current # Boot
    BY <1>3 DEF KillSwitch, At, IInv, BootOK, StartPoints
  <2>2. /\ a \in All /\ a # current /\ pc[a] \notin AtRest \union {"continue"}
    BY <2>1, SuccessorWaits DEF AtRest
  <2>3. /\ current' = a /\ halted' = halted
        /\ pc' = [pc EXCEPT ![current] = "dead"]
    BY <1>3, <2>2 DEF KillSwitch, SwitchContext, Goto
  <2>4. Alive' = Alive \ {current} /\ a \in Alive'
    BY <2>1, <2>2, <2>3 DEF Alive, IInv, TypeOK, SuspendedSafely, AtRest, All
  <2>. QED  BY <2>1, <2>3, <2>4 DEF Scheduler!Next, Scheduler!Exit
<1>4. CASE CreateOutOfMemory \/ KillLastTask \/ Interrupt
  <2>1. halted' # "no" /\ UNCHANGED current
    BY <1>4 DEF CreateOutOfMemory, KillLastTask, Interrupt, Halt
  <2>2. Alive' = Alive
    BY <1>4 DEF CreateOutOfMemory, KillLastTask, Interrupt, At, Goto, Alive,
       IInv, TypeOK, AtRest
  <2>. QED  BY <2>1, <2>2 DEF Scheduler!Next, Scheduler!GoDown
<1>5. ASSUME NEW t \in Threads, Create(t) PROVE Quiet
  BY <1>5 DEF Create, At, Alive, IInv, TypeOK, AtRest, All
<1>6. ASSUME NEW t \in Threads, StartEnter(t) PROVE Quiet
  BY <1>6 DEF StartEnter, Goto, At, Alive, IInv, TypeOK, AtRest
<1>7. ASSUME Idle PROVE Quiet
  BY <1>7 DEF Idle, At, Goto, Alive, IInv, TypeOK, AtRest
<1>8. ASSUME Return PROVE Quiet
  BY <1>8 DEF Return, At, Goto, Alive, IInv, TypeOK, AtRest
<1>9. ASSUME StartStopped PROVE Quiet
  BY <1>9, StartStoppedTarget DEF StartStopped, At, Alive, IInv, TypeOK, AtRest
<1>10. ASSUME StartRunning PROVE Quiet
  BY <1>10 DEF StartRunning, At, Goto, Alive, IInv, TypeOK, AtRest
<1>11. ASSUME StartFail PROVE Quiet
  BY <1>11, LeaveIsSafe DEF StartFail, At, Goto, LeaveAsserts, Alive, IInv,
     TypeOK, AtRest
<1>12. ASSUME AddEnter PROVE Quiet
  BY <1>12 DEF AddEnter, At, Goto, Alive, IInv, TypeOK, AtRest
<1>13. ASSUME AddSplice PROVE Quiet
  BY <1>13 DEF AddSplice, At, Goto, Alive, IInv, TypeOK, AtRest
<1>14. ASSUME AddLeave PROVE Quiet
  BY <1>14, LeaveIsSafe DEF AddLeave, At, Goto, LeaveAsserts, Alive, IInv,
     TypeOK, AtRest
<1>15. ASSUME StartResumed PROVE Quiet
  BY <1>15, LeaveIsSafe DEF StartResumed, At, Goto, LeaveAsserts, Alive, IInv,
     TypeOK, AtRest
<1>16. ASSUME Continue PROVE Quiet
  BY <1>16, LeaveIsSafe DEF Continue, At, Goto, LeaveAsserts, Alive, IInv,
     TypeOK, AtRest
<1>17. ASSUME KillEnter PROVE Quiet
  BY <1>17 DEF KillEnter, At, Goto, Alive, IInv, TypeOK, AtRest
<1>18. ASSUME KillStop PROVE Quiet
  BY <1>18 DEF KillStop, At, Goto, Alive, IInv, TypeOK, AtRest
<1>19. ASSUME RemoveEnter PROVE Quiet
  BY <1>19 DEF RemoveEnter, At, Goto, Alive, IInv, TypeOK, AtRest
<1>20. ASSUME RemoveSplice PROVE Quiet
  BY <1>20 DEF RemoveSplice, At, Goto, Alive, IInv, TypeOK, AtRest
<1>21. ASSUME RemoveLeave PROVE Quiet
  BY <1>21, LeaveIsSafe DEF RemoveLeave, At, Goto, LeaveAsserts, Alive, IInv,
     TypeOK, AtRest
<1>22. CASE UNCHANGED vars
  BY <1>22 DEF vars, Scheduler!schedVars, Alive
<1>. QED
  BY <1>1, <1>2, <1>3, <1>4, <1>5, <1>6, <1>7, <1>8, <1>9, <1>10, <1>11, <1>12,
     <1>13, <1>14, <1>15, <1>16, <1>17, <1>18, <1>19, <1>20, <1>21, <1>22
  DEF Next, Body, Manager

\* The thread manager implements the abstract scheduler, however many threads
\* there are: whatever its ring has become, control only ever passes to a
\* thread that lives.
THEOREM Refinement == Spec => ImplementsScheduler
<1>1. Init => Scheduler!Init
  BY BootAssumption DEF Init, Scheduler!Init, Alive, All, AtRest
<1>2. IInv /\ [Next]_vars => [Scheduler!Next]_(Scheduler!schedVars)
  BY SchedulerStep
<1>. QED
  BY Invariance, <1>1, <1>2, PTL DEF Spec, ImplementsScheduler, Scheduler!Spec

\* The ring that thread_kill follows never holds more than three members,
\* however many threads were started: a fourth is spliced in only by cutting
\* another one off.
THEOREM RingStaysSmall == Spec => []SmallRing
<1>1. IInv => SmallRing
  BY DEF IInv
<1>. QED  BY Invariance, <1>1, PTL

-----------------------------------------------------------------------------
(* With two threads the ring of the current thread is the only one.        *)

\* Who is linked to nobody else is outside of the ring, and the ring's head and
\* its two neighbours are all there is inside.
WholeRing ==
    /\ \A t \in All \ InRing : Linked(t, t)
    /\ \A t \in InRing : t \in {RingHead, next[RingHead], prev[RingHead]}

WholeOfFew == Few => WholeRing

LEMMA InitWhole == Init => WholeOfFew
BY BootAssumption DEF Init, WholeOfFew, WholeRing, InRing, RingHead, Linked, All, AtRest

\* Created threads are never given back, so what few are now few were before.
LEMMA FewBefore ==
    ASSUME IsFiniteSet(Threads), IInv, [Next]_vars, Few'
    PROVE  Few
<1>. DEFINE made == {t \in Threads : pc[t] # "none"}
<1>1. \A t \in Threads : pc[t] # "none" => pc'[t] # "none"
  BY SwitchTarget, StartStoppedTarget
     DEF Next, Body, Manager, vars, links, IInv, TypeOK, All, At, Goto, SwitchContext,
       Create, StartEnter, CreateOutOfMemory, Idle, Return, StartStopped, StartRunning,
       StartFail, AddEnter, AddSplice, AddLeave, StartSwitch, StartResumed, Continue,
       KillEnter, KillLastTask, KillStop, RemoveEnter, RemoveSplice, RemoveLeave,
       KillSwitch, Interrupt
<1>2. made \subseteq made' /\ IsFiniteSet(made')
  BY <1>1, FS_Subset
<1>3. Cardinality(made) <= Cardinality(made')
  BY <1>2, FS_Subset
<1>4. Cardinality(made) \in Nat /\ Cardinality(made') \in Nat /\ Cardinality(made') <= 2
  BY <1>2, FS_Subset, FS_CardinalityType DEF Few
<1>. QED  BY <1>3, <1>4 DEF Few

\* Two threads are not three.
LEMMA NoThird ==
    ASSUME IsFiniteSet(Threads), Few,
           NEW a \in Threads, NEW b \in Threads, NEW c \in Threads,
           a # b, b # c, a # c,
           pc[a] # "none", pc[b] # "none", pc[c] # "none"
    PROVE  FALSE
<1>. DEFINE made == {t \in Threads : pc[t] # "none"}
<1>1. IsFiniteSet(made) /\ {a, b, c} \subseteq made
  BY FS_Subset
<1>2. Cardinality({a}) = 1 /\ IsFiniteSet({a})
  BY FS_Singleton
<1>3. Cardinality({a, b}) = 2 /\ IsFiniteSet({a, b})
  <2>1. {a, b} = {a} \union {b} /\ b \notin {a}
    OBVIOUS
  <2>2. /\ Cardinality({a} \union {b}) = Cardinality({a}) + 1
        /\ IsFiniteSet({a} \union {b})
    BY <1>2, <2>1, FS_AddElement
  <2>. QED  BY <1>2, <2>1, <2>2
<1>4. Cardinality({a, b, c}) = 3
  <2>1. {a, b, c} = {a, b} \union {c} /\ c \notin {a, b}
    OBVIOUS
  <2>. QED  BY <1>3, <2>1, FS_AddElement
<1>5. 3 <= Cardinality(made)
  BY <1>1, <1>4, FS_Subset
<1>6. Cardinality(made) <= 2 /\ Cardinality(made) \in Nat
  BY <1>1, FS_CardinalityType DEF Few
<1>. QED  BY <1>5, <1>6

\* A step that keeps the links, the members and the head keeps the whole ring.
LEMMA WholeKept ==
    ASSUME WholeRing, UNCHANGED links, RingHead' = RingHead, InRing' = InRing
    PROVE  WholeRing'
BY DEF WholeRing, links, Linked

\* Every step but a splice or the entry of a new thread is one of those.
LEMMA QuietStep ==
    ASSUME IInv, [Next]_vars
    PROVE  \/ UNCHANGED links /\ RingHead' = RingHead /\ InRing' = InRing
           \/ AddSplice \/ StartSwitch \/ RemoveSplice
<1>. DEFINE Quiet == UNCHANGED links /\ RingHead' = RingHead /\ InRing' = InRing
<1>. USE BootAssumption DEF IInv, TypeOK, SuspendedSafely, TargetOK, AddPoints, All,
             AtRest, DyingPoints, RingHead, InRing, At
<1>1. ASSUME NEW t \in Threads, Create(t) PROVE Quiet
  <2>1. pc' = [pc EXCEPT ![t] = "created"] /\ current' = current /\ t # current
        /\ pc[t] = "none" /\ arg' = arg
    BY <1>1 DEF Create
  <2>2. RingHead' = RingHead /\ InRing' = InRing
    BY <2>1
  <2>. QED  BY <1>1, <2>2, CreateKeepsLinks
<1>2. ASSUME NEW t \in Threads, StartEnter(t) PROVE Quiet
  BY <1>2 DEF StartEnter, Goto
<1>3. ASSUME CreateOutOfMemory PROVE Quiet
  BY <1>3 DEF CreateOutOfMemory
<1>4. ASSUME Idle PROVE Quiet
  BY <1>4 DEF Idle, Goto
<1>5. ASSUME Return PROVE Quiet
  BY <1>5 DEF Return, Goto
<1>6. ASSUME StartStopped PROVE Quiet
  BY <1>6, StartStoppedTarget DEF StartStopped
<1>7. ASSUME StartRunning PROVE Quiet
  BY <1>7 DEF StartRunning, Goto
<1>8. ASSUME StartFail PROVE Quiet
  BY <1>8 DEF StartFail, Goto
<1>9. ASSUME AddEnter PROVE Quiet
  BY <1>9 DEF AddEnter, Goto
<1>10. ASSUME AddLeave PROVE Quiet
  BY <1>10 DEF AddLeave, Goto
<1>11. ASSUME StartResumed PROVE Quiet
  BY <1>11 DEF StartResumed, Goto
<1>12. ASSUME Continue PROVE Quiet
  BY <1>12 DEF Continue, Goto
<1>13. ASSUME KillEnter PROVE Quiet
  BY <1>13 DEF KillEnter, Goto
<1>14. ASSUME KillLastTask PROVE Quiet
  BY <1>14 DEF KillLastTask, Goto
<1>15. ASSUME KillStop PROVE Quiet
  BY <1>15 DEF KillStop, Goto
<1>16. ASSUME RemoveEnter PROVE Quiet
  BY <1>16 DEF RemoveEnter, Goto
<1>17. ASSUME RemoveLeave PROVE Quiet
  BY <1>17 DEF RemoveLeave, Goto
<1>18. ASSUME KillSwitch PROVE Quiet
  BY <1>18, SuccessorWaits, SwitchTarget DEF KillSwitch, Goto, SwitchContext
<1>19. ASSUME Interrupt PROVE Quiet
  BY <1>19 DEF Interrupt
<1>20. ASSUME UNCHANGED vars PROVE Quiet
  BY <1>20 DEF vars, links
<1>. QED
  BY <1>1, <1>2, <1>3, <1>4, <1>5, <1>6, <1>7, <1>8, <1>9, <1>10, <1>11, <1>12,
     <1>13, <1>14, <1>15, <1>16, <1>17, <1>18, <1>19, <1>20 DEF Next, Body, Manager

\* Splicing in makes a ring of two or three out of the whole ring; it cannot
\* have had three members already.
LEMMA WholeAdd ==
    ASSUME IsFiniteSet(Threads), IInv, Few, WholeRing, AddSplice
    PROVE  WholeRing'
<1>. DEFINE h == current
            a == arg[current]
<1>1. /\ RingHead = h /\ RingHead' = h /\ h \in All /\ pc[h] = "add_splice"
      /\ a \in Threads /\ a \notin InRing /\ a # h /\ pc[a] = "continue"
  BY BootAssumption
     DEF RingHead, InRing, AddSplice, At, Goto, IInv, TypeOK, TargetOK, AddPoints, All
<1>2. InRing' = InRing \union {a}
  BY BootAssumption DEF IInv, TypeOK, SuspendedSafely, TargetOK, AddPoints, All, AtRest,
     InRing, AddSplice, At, Goto
<1>3. /\ next' = [next EXCEPT ![h] = a, ![a] = prev[h]]
      /\ prev' = [prev EXCEPT ![a] = h, ![prev[h]] = a]
  BY DEF AddSplice, AddBefore
<1>4. next \in [All -> All] /\ prev \in [All -> All] /\ InRing \subseteq All /\ a \in All
  BY <1>1 DEF IInv, TypeOK, InRing, All
<1>5. \A t \in All \ InRing : Linked(t, t)
  BY DEF WholeRing
<1>6. \A t \in InRing : t \in {h, next[h], prev[h]}
  BY <1>1 DEF WholeRing
<1>7. h \in InRing
  BY <1>1 DEF IInv, SmallRing
<1>8. \A t \in InRing \ {Boot} : t \in Threads /\ pc[t] # "none"
  BY DEF InRing, AtRest
<1>9. Boot \in InRing
  BY DEF InRing
<1>. HIDE DEF h, a
<1>10. CASE Linked(h, h)
  BY <1>1, <1>2, <1>3, <1>4, <1>5, <1>6, <1>7, <1>10 DEF WholeRing, Linked
<1>11. ASSUME NEW b \in InRing \ {h}, Linked(h, b), Linked(b, h)
       PROVE  WholeRing'
  BY <1>1, <1>2, <1>3, <1>4, <1>5, <1>6, <1>7, <1>11 DEF WholeRing, Linked
<1>12. ASSUME NEW b \in InRing \ {h}, NEW c \in InRing \ {h},
              b # c, Linked(h, b), Linked(b, c), Linked(c, h)
       PROVE  FALSE
  <2>1. InRing = {h, b, c}
    BY <1>6, <1>7, <1>12 DEF Linked
  <2>2. pc[a] # "none" /\ a \notin {h, b, c}
    BY <1>1, <2>1
  <2>3. PICK x, y \in InRing \ {Boot} : x # y
    BY <1>9, <1>12, <2>1
  <2>. QED  BY <1>1, <1>8, <2>1, <2>2, <2>3, NoThird
<1>. QED  BY <1>1, <1>10, <1>11, <1>12 DEF IInv, SmallRing

\* Unsplicing leaves the others in a ring, and the current thread alone.
LEMMA WholeRemove ==
    ASSUME IInv, WholeRing, RemoveSplice
    PROVE  WholeRing'
<1>. DEFINE h == current
            a == arg[current]
<1>1. /\ RingHead = h /\ RingHead' = a /\ h \in All /\ pc[h] = "remove_splice"
      /\ a # h /\ next[h] = a /\ h # Boot
  BY DEF RingHead, RemoveSplice, At, Goto, IInv, TypeOK, TargetOK, DyingPoints, BootOK,
     StartPoints
<1>2. InRing' = InRing \ {h}
  BY BootAssumption, <1>1 DEF IInv, TypeOK, All, AtRest, InRing, RemoveSplice, At, Goto
<1>3. /\ next' = [next EXCEPT ![prev[h]] = next[h], ![h] = h]
      /\ prev' = [prev EXCEPT ![next[h]] = prev[h], ![h] = h]
  BY DEF RemoveSplice, Remove
<1>4. next \in [All -> All] /\ prev \in [All -> All] /\ InRing \subseteq All
  BY DEF IInv, TypeOK, InRing, All
<1>5. \A t \in All \ InRing : Linked(t, t)
  BY DEF WholeRing
<1>6. \A t \in InRing : t \in {h, next[h], prev[h]}
  BY <1>1 DEF WholeRing
<1>7. h \in InRing
  BY <1>1 DEF IInv, SmallRing
<1>. HIDE DEF h, a
<1>8. ~ Linked(h, h)
  BY <1>1 DEF Linked
<1>9. ASSUME NEW b \in InRing \ {h}, Linked(h, b), Linked(b, h)
      PROVE  WholeRing'
  BY <1>1, <1>2, <1>3, <1>4, <1>5, <1>6, <1>7, <1>9 DEF WholeRing, Linked
<1>10. ASSUME NEW b \in InRing \ {h}, NEW c \in InRing \ {h},
              b # c, Linked(h, b), Linked(b, c), Linked(c, h)
       PROVE  WholeRing'
  BY <1>1, <1>2, <1>3, <1>4, <1>5, <1>6, <1>7, <1>10 DEF WholeRing, Linked
<1>. QED  BY <1>1, <1>8, <1>9, <1>10 DEF IInv, SmallRing

\* A new thread is entered: it becomes the head, with the starter next to it.
LEMMA WholeSwitch ==
    ASSUME IInv, WholeRing, StartSwitch
    PROVE  WholeRing'
<1>. DEFINE h == current
            a == arg[current]
<1>1. /\ RingHead = h /\ RingHead' = a /\ h \in All /\ next[h] = a /\ a # h
      /\ UNCHANGED links
  BY SwitchTarget DEF RingHead, StartSwitch, At, Goto, SwitchContext, IInv, TypeOK,
     TargetOK, AddPoints
<1>2. InRing' = InRing
  BY BootAssumption, SwitchTarget
     DEF IInv, TypeOK, SuspendedSafely, TargetOK, AddPoints, All, AtRest,
         InRing, StartSwitch, At, Goto, SwitchContext
<1>3. h \in InRing
  BY <1>1 DEF IInv, SmallRing
<1>. HIDE DEF h, a
<1>4. ~ Linked(h, h)
  BY <1>1 DEF Linked
<1>5. ASSUME NEW b \in InRing \ {h}, Linked(h, b), Linked(b, h)
      PROVE  WholeRing'
  BY <1>1, <1>2, <1>3, <1>5 DEF WholeRing, Linked, links
<1>6. ASSUME NEW b \in InRing \ {h}, NEW c \in InRing \ {h},
             b # c, Linked(h, b), Linked(b, c), Linked(c, h)
      PROVE  WholeRing'
  BY <1>1, <1>2, <1>3, <1>6 DEF WholeRing, Linked, links
<1>. QED  BY <1>1, <1>4, <1>5, <1>6 DEF IInv, SmallRing

LEMMA WholeStep ==
    ASSUME IsFiniteSet(Threads), IInv, WholeOfFew, [Next]_vars
    PROVE  WholeOfFew'
<1>. SUFFICES ASSUME Few' PROVE WholeRing'
  BY DEF WholeOfFew
<1>1. Few /\ WholeRing
  BY FewBefore DEF WholeOfFew
<1>. QED
  BY <1>1, QuietStep, WholeKept, WholeAdd, WholeRemove, WholeSwitch

\* The first steps along a link.
LEMMA FirstSteps ==
    ASSUME NEW link, NEW t
    PROVE  /\ Along(link, t, 0) = t
           /\ Along(link, t, 1) = link[t]
           /\ Along(link, t, 2) = link[link[t]]
<1>. DEFINE step(n, f) == [i \in 0 .. n |-> IF i = 0 THEN t ELSE link[f[i - 1]]]
            first(n) == [i \in 0 .. n |->
                            IF i = 0 THEN t ELSE IF i = 1 THEN link[t] ELSE link[link[t]]]
            walk(n) == CHOOSE f : f = step(n, f)
<1>1. ASSUME NEW n \in {0, 1, 2} PROVE walk(n) = step(n, walk(n))
  <2>1. first(n) = step(n, first(n))
    OBVIOUS
  <2>. QED  BY <2>1
<1>2. \A n \in {0, 1, 2} : Along(link, t, n) = walk(n)[n]
  BY DEF Along
<1>3. ASSUME NEW n \in {0, 1, 2}, NEW f, f = step(n, f)
      PROVE  f[n] = IF n = 0 THEN t ELSE IF n = 1 THEN link[t] ELSE link[link[t]]
  <2>1. f[0] = t
    BY <1>3
  <2>2. n \in {1, 2} => f[1] = link[t]
    BY <1>3, <2>1
  <2>3. n = 2 => f[2] = link[link[t]]
    BY <1>3, <2>2
  <2>. QED  BY <2>1, <2>2, <2>3
<1>. HIDE DEF walk
<1>. QED  BY <1>1, <1>2, <1>3

\* The whole ring is the ring that RingOK describes.
LEMMA WholeIsRing ==
    ASSUME IsFiniteSet(Threads), IInv, WholeRing
    PROVE  RingOK
<1>. DEFINE h == RingHead
<1>1. next \in [All -> All] /\ prev \in [All -> All] /\ InRing \subseteq All
      /\ h \in InRing /\ Boot \in InRing
  BY DEF IInv, TypeOK, InRing, All, SmallRing
<1>2. \A t \in All \ InRing : Linked(t, t)
  BY DEF WholeRing
<1>3. \A t \in InRing : t \in {h, next[h], prev[h]}
  BY DEF WholeRing
<1>4. \/ Linked(h, h)
      \/ \E b \in InRing \ {h} : Linked(h, b) /\ Linked(b, h)
      \/ \E b, c \in InRing \ {h} : b # c /\ Linked(h, b) /\ Linked(b, c) /\ Linked(c, h)
  BY DEF IInv, SmallRing
<1>. HIDE DEF h
<1>5. \A t \in All : prev[next[t]] = t /\ next[prev[t]] = t
  BY <1>1, <1>2, <1>3, <1>4 DEF Linked
<1>6. \A t \in All \ InRing : next[t] = t
  BY <1>2 DEF Linked
<1>7. /\ InRing \subseteq {Boot, next[Boot], next[next[Boot]]}
      /\ next[next[Boot]] \in {Boot, next[Boot]} \/ Boot # next[Boot]
  BY <1>1, <1>3, <1>4 DEF Linked
<1>8. Cardinality(Threads) \in Nat
  BY FS_CardinalityType
<1>9. ASSUME NEW t \in InRing PROVE \E n \in 0 .. Cardinality(Threads) : Along(next, Boot, n) = t
  <2>1. CASE t = Boot
    BY <1>8, <2>1, FirstSteps
  <2>2. CASE t # Boot /\ t = next[Boot]
    <3>1. t \in Threads
      BY <1>1, <2>2 DEF All
    <3>2. Cardinality(Threads) >= 1
      <4>1. {t} \subseteq Threads /\ Cardinality({t}) = 1
        BY <3>1, FS_Singleton
      <4>. QED  BY <1>8, <4>1, FS_Subset
    <3>. QED  BY <1>8, <2>2, <3>2, FirstSteps
  <2>3. CASE t \notin {Boot, next[Boot]} /\ t = next[next[Boot]]
    <3>1. t \in Threads /\ next[Boot] \in Threads
      BY <1>1, <2>3 DEF All
    <3>2. Cardinality(Threads) >= 2
      <4>1. Cardinality({t}) = 1 /\ IsFiniteSet({t})
        BY FS_Singleton
      <4>2. {t, next[Boot]} = {t} \union {next[Boot]} /\ next[Boot] \notin {t}
        BY <2>3
      <4>3. Cardinality({t} \union {next[Boot]}) = Cardinality({t}) + 1
        BY <4>1, <4>2, FS_AddElement
      <4>4. {t} \union {next[Boot]} \subseteq Threads
        BY <3>1
      <4>5. Cardinality({t} \union {next[Boot]}) <= Cardinality(Threads)
        BY <4>4, FS_Subset
      <4>. QED  BY <1>8, <4>1, <4>3, <4>5
    <3>. QED  BY <1>8, <2>3, <3>2, FirstSteps
  <2>. QED  BY <1>7, <2>1, <2>2, <2>3
<1>. QED  BY <1>5, <1>6, <1>9 DEF RingOK

\* As long as at most two threads were created, out of however many the heap
\* could hold, task_list is one ring through all that run: no third one can be
\* spliced in between, so none is ever cut off.
THEOREM RingWhole ==
    ASSUME IsFiniteSet(Threads)
    PROVE  Spec => []RingOfFew
<1>1. Init => WholeOfFew
  BY InitWhole
<1>2. IInv /\ WholeOfFew /\ [Next]_vars => WholeOfFew'
  BY WholeStep
<1>3. IInv /\ WholeOfFew => RingOfFew
  BY WholeIsRing DEF WholeOfFew, RingOfFew
<1>. QED  BY Invariance, <1>1, <1>2, <1>3, PTL DEF Spec
=============================================================================
