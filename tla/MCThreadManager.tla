-------------------------- MODULE MCThreadManager --------------------------
(* Three threads for model checking ThreadManager, and what holds as long as *)
(* two of them exist.                                                        *)
EXTENDS ThreadManager

CONSTANTS boot, t1, t2, t3

ThreeThreads == {t1, t2, t3}

\* thread_kill: when functions finish, the bootstrap thread gets control back.
FewReturnToBoot ==
    (Few /\ current # Boot) ~> (~Few \/ current = Boot \/ halted # "no")
=============================================================================
