--------------------------- MODULE CoopScheduler ---------------------------
(***************************************************************************)
(* What the thread manager promises its callers: exactly one live thread   *)
(* executes; starting a thread makes it live and hands it control at once; *)
(* a thread that finishes is never executed again unless it is started     *)
(* again, and control goes to a thread that is still live.  The machine    *)
(* may go down at any time.                                                *)
(***************************************************************************)
CONSTANTS Boot, Threads

VARIABLES cur, alive, down

schedVars == <<cur, alive, down>>

Init == cur = Boot /\ alive = {Boot} /\ down = FALSE

Start(t) ==
    /\ ~down
    /\ t \notin alive
    /\ alive' = alive \union {t}
    /\ cur' = t
    /\ UNCHANGED down

Exit ==
    /\ ~down
    /\ cur # Boot
    /\ alive' = alive \ {cur}
    /\ cur' \in alive'
    /\ UNCHANGED down

GoDown ==
    /\ down' = TRUE
    /\ UNCHANGED <<cur, alive>>

Next == (\E t \in Threads : Start(t)) \/ Exit \/ GoDown

Spec == Init /\ [][Next]_schedVars

=============================================================================
