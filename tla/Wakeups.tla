------------------------------ MODULE Wakeups ------------------------------
(***************************************************************************)
(* What `block_on` promises its caller, with no thread, no stack of nested *)
(* calls and no unpark token in sight: a call runs its future, waits on a  *)
(* wakeup that is its own, is resumed by that wakeup and by nothing else,  *)
(* and returns once its future is ready.  BlockOn implements this.         *)
(***************************************************************************)
CONSTANTS Calls        \* the `block_on` calls of the program's lifetime

VARIABLES
    stage,    \* stage[c]: "idle" | "running" | "waiting" | "done"
    woken     \* woken[c]: c has been woken since it was last resumed

absVars == <<stage, woken>>

AbsInit ==
    /\ stage = [c \in Calls |-> "idle"]
    /\ woken = [c \in Calls |-> FALSE]

\* A call of `block_on` begins by running its future.
AbsStart(c) ==
    /\ stage[c] = "idle"
    /\ stage' = [stage EXCEPT ![c] = "running"]
    /\ UNCHANGED woken

\* Somebody wakes a call, now or long after it returned.
AbsWake(c) ==
    /\ stage[c] # "idle"
    /\ woken' = [woken EXCEPT ![c] = TRUE]
    /\ UNCHANGED stage

\* The future is not ready: the call waits for its own wakeup.
AbsWait(c) ==
    /\ stage[c] = "running"
    /\ stage' = [stage EXCEPT ![c] = "waiting"]
    /\ UNCHANGED woken

\* Only its own wakeup lets a waiting call run again, and uses it up.
AbsResume(c) ==
    /\ stage[c] = "waiting"
    /\ woken[c]
    /\ stage' = [stage EXCEPT ![c] = "running"]
    /\ woken' = [woken EXCEPT ![c] = FALSE]

\* The future is ready: a wakeup nobody waited for is forgotten.
AbsFinish(c) ==
    /\ stage[c] = "running"
    /\ stage' = [stage EXCEPT ![c] = "done"]
    /\ woken' = [woken EXCEPT ![c] = FALSE]

AbsNext ==
    \E c \in Calls :
        \/ AbsStart(c) \/ AbsWake(c) \/ AbsWait(c) \/ AbsResume(c) \/ AbsFinish(c)

AbsSpec == AbsInit /\ [][AbsNext]_absVars
=============================================================================
