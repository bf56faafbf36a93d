------------------------------ MODULE BlockOn ------------------------------
(***************************************************************************)
(* `block_on` and `ThreadWaker` (pdfboss-core/src/source.rs): the driver   *)
(* every synchronous entry point runs the shared asynchronous code on.     *)
(*                                                                         *)
(* A thread has ONE unpark token, a boolean; each `block_on` call has a    *)
(* flag of its own.  Calls nest: the poll of one call's future may itself  *)
(* call `block_on` on the same thread, and the nested call parks on the    *)
(* same token.  Wakers run on other threads, on this one inside a poll, or *)
(* long after the call they belong to returned.                            *)
(*                                                                         *)
(* Every access to a flag (an atomic swap) and to the token (unpark, park) *)
(* is a step of its own, so everything interleaves between them.           *)
(***************************************************************************)
EXTENDS Naturals, Sequences

CONSTANTS
    Threads,       \* threads that call `block_on`
    Wakers,        \* threads that complete futures and wake their calls
    Calls,         \* the `block_on` calls made, each at most once
    None,          \* no thread, no call
    MaxDepth,      \* bound: how deep calls nest on one thread
    MaxStray       \* bound: wakes that no completion asked for

ASSUME BlockOnAssumption ==
    /\ Threads \cap Wakers = {}
    /\ None \notin Threads \cup Calls
    /\ MaxDepth \in Nat \ {0}
    /\ MaxStray \in Nat

VARIABLES
    stack,       \* stack[t]: the calls nested on thread t, innermost last
    phase,       \* phase[c]: where call c is in `block_on`
    owner,       \* owner[c]: `ThreadWaker::thread`
    notified,    \* notified[c]: `ThreadWaker::notified`
    token,       \* token[t]: the thread's unpark token (std, not counted)
    ready,       \* ready[c]: the future of c would return Poll::Ready
    registered,  \* registered[c]: the future of c keeps the waker it was polled with
    waking,      \* waking[a]: the call agent a is about to wake, or None
    unparking,   \* unparking[a]: the thread agent a is about to unpark, or None
    strays       \* strays left

vars == <<stack, phase, owner, notified, token, ready, registered, waking,
          unparking, strays>>

\* A waker is run by another thread or by a future polled on a driven thread.
Agents == Threads \cup Wakers

Phases == {"idle", "poll", "test", "park", "swap", "drain", "done"}

TypeOK ==
    /\ stack \in [Threads -> Seq(Calls)]
    /\ phase \in [Calls -> Phases]
    /\ owner \in [Calls -> Threads \cup {None}]
    /\ notified \in [Calls -> BOOLEAN]
    /\ token \in [Threads -> BOOLEAN]
    /\ ready \in [Calls -> BOOLEAN]
    /\ registered \in [Calls -> BOOLEAN]
    /\ waking \in [Agents -> Calls \cup {None}]
    /\ unparking \in [Agents -> Threads \cup {None}]
    /\ strays \in 0..MaxStray
    /\ \A c \in Calls : phase[c] # "idle" => owner[c] # None

Init ==
    /\ stack = [t \in Threads |-> <<>>]
    /\ phase = [c \in Calls |-> "idle"]
    /\ owner = [c \in Calls |-> None]
    /\ notified = [c \in Calls |-> FALSE]
    /\ token = [t \in Threads |-> FALSE]
    /\ ready = [c \in Calls |-> FALSE]
    /\ registered = [c \in Calls |-> FALSE]
    /\ waking = [a \in Agents |-> None]
    /\ unparking = [a \in Agents |-> None]
    /\ strays = MaxStray

-----------------------------------------------------------------------------
Top(t) == stack[t][Len(stack[t])]

\* Thread t is in the middle of no `notify` and runs the call c, at p.
At(t, c, p) ==
    /\ stack[t] # <<>>
    /\ Top(t) = c
    /\ phase[c] = p
    /\ waking[t] = None
    /\ unparking[t] = None

\* Agent a runs code of its own: a waker always, a thread inside a poll.
Free(a) ==
    /\ waking[a] = None
    /\ unparking[a] = None
    /\ a \in Threads => (stack[a] # <<>> /\ phase[Top(a)] = "poll")

(* Slips a change of this code could make; no specification uses them.     *)

\* Park first and test the flag after: the order the comments warn about.
PollPendingParkFirst(t, c) ==
    /\ At(t, c, "poll")
    /\ ~ready[c]
    /\ registered' = [registered EXCEPT ![c] = TRUE]
    /\ phase' = [phase EXCEPT ![c] = "park"]
    /\ UNCHANGED <<stack, owner, notified, token, ready, waking, unparking, strays>>

\* `if`, not `while`: whatever ended the park is taken for the wakeup.
ParkOnce(t, c) ==
    /\ At(t, c, "park")
    /\ token[t]
    /\ token' = [token EXCEPT ![t] = FALSE]
    /\ phase' = [phase EXCEPT ![c] = "poll"]
    /\ UNCHANGED <<stack, owner, notified, ready, registered, waking, unparking, strays>>

-----------------------------------------------------------------------------
\* `block_on`: a fresh waker for this thread, and the first poll.  On a thread
\* that is already inside one, the call comes from the future being polled.
Start(t, c) ==
    /\ phase[c] = "idle"
    /\ Len(stack[t]) < MaxDepth
    /\ stack[t] = <<>> \/ At(t, Top(t), "poll")
    /\ stack' = [stack EXCEPT ![t] = Append(@, c)]
    /\ phase' = [phase EXCEPT ![c] = "poll"]
    /\ owner' = [owner EXCEPT ![c] = t]
    /\ notified' = [notified EXCEPT ![c] = FALSE]
    /\ UNCHANGED <<token, ready, registered, waking, unparking, strays>>

\* The poll returns Poll::Pending: the future has kept the waker.
PollPending(t, c) ==
    /\ At(t, c, "poll")
    /\ ~ready[c]
    /\ registered' = [registered EXCEPT ![c] = TRUE]
    /\ phase' = [phase EXCEPT ![c] = "test"]
    /\ UNCHANGED <<stack, owner, notified, token, ready, waking, unparking, strays>>

\* The poll returns Poll::Ready.
PollReady(t, c) ==
    /\ At(t, c, "poll")
    /\ ready[c]
    /\ phase' = [phase EXCEPT ![c] = "swap"]
    /\ UNCHANGED <<stack, owner, notified, token, ready, registered, waking,
                   unparking, strays>>

\* The condition of the park loop: swap the flag BEFORE parking.
TestFlag(t, c) ==
    /\ At(t, c, "test")
    /\ phase' = [phase EXCEPT ![c] = IF notified[c] THEN "poll" ELSE "park"]
    /\ notified' = [notified EXCEPT ![c] = FALSE]
    /\ UNCHANGED <<stack, owner, token, ready, registered, waking, unparking, strays>>

\* `park` returns because it found the thread's token, and consumes it.
Park(t, c) ==
    /\ At(t, c, "park")
    /\ token[t]
    /\ token' = [token EXCEPT ![t] = FALSE]
    /\ phase' = [phase EXCEPT ![c] = "test"]
    /\ UNCHANGED <<stack, owner, notified, ready, registered, waking, unparking, strays>>

\* `park` returns for no reason, as the standard library allows it to.
ParkSpuriously(t, c) ==
    /\ At(t, c, "park")
    /\ phase' = [phase EXCEPT ![c] = "test"]
    /\ UNCHANGED <<stack, owner, notified, token, ready, registered, waking,
                   unparking, strays>>

\* `return value`: the innermost call of the thread ends.
Return(t, c) ==
    /\ stack' = [stack EXCEPT ![t] = SubSeq(@, 1, Len(@) - 1)]
    /\ phase' = [phase EXCEPT ![c] = "done"]

\* The Poll::Ready arm: was the call woken in the poll that completed it?
SwapOnReady(t, c) ==
    /\ At(t, c, "swap")
    /\ IF notified[c]
       THEN phase' = [phase EXCEPT ![c] = "drain"] /\ UNCHANGED stack
       ELSE Return(t, c)
    /\ notified' = [notified EXCEPT ![c] = FALSE]
    /\ UNCHANGED <<owner, token, ready, registered, waking, unparking, strays>>

\* `park_timeout(ZERO)`: takes the token if there is one, and never blocks.
Drain(t, c) ==
    /\ At(t, c, "drain")
    /\ token' = [token EXCEPT ![t] = FALSE]
    /\ Return(t, c)
    /\ UNCHANGED <<owner, notified, ready, registered, waking, unparking, strays>>

-----------------------------------------------------------------------------
\* The event the future of c waits for happens; a future that kept its waker
\* has it woken.  One that was not polled yet finds the event at its poll.
Complete(a, c) ==
    /\ Free(a)
    /\ phase[c] \notin {"idle", "done"}
    /\ ~ready[c]
    /\ ready' = [ready EXCEPT ![c] = TRUE]
    /\ waking' = [waking EXCEPT ![a] = IF registered[c] THEN c ELSE None]
    /\ registered' = [registered EXCEPT ![c] = FALSE]
    /\ UNCHANGED <<stack, phase, owner, notified, token, unparking, strays>>

\* A wake no completion stands behind: a future that yields inside its own
\* poll, two wakers of one event, a `Waker` clone that outlives its call.
StrayWake(a, c) ==
    /\ Free(a)
    /\ phase[c] # "idle"
    /\ strays > 0
    /\ strays' = strays - 1
    /\ waking' = [waking EXCEPT ![a] = c]
    /\ UNCHANGED <<stack, phase, owner, notified, token, ready, registered, unparking>>

\* `ThreadWaker::notify`, the swap: only the false -> true transition unparks.
Notify(a) ==
    /\ waking[a] # None
    /\ notified' = [notified EXCEPT ![waking[a]] = TRUE]
    /\ unparking' = [unparking EXCEPT
                       ![a] = IF notified[waking[a]] THEN None ELSE owner[waking[a]]]
    /\ waking' = [waking EXCEPT ![a] = None]
    /\ UNCHANGED <<stack, phase, owner, token, ready, registered, strays>>

\* `Thread::unpark`: makes the token available; a second one is not counted.
Unpark(a) ==
    /\ unparking[a] # None
    /\ token' = [token EXCEPT ![unparking[a]] = TRUE]
    /\ unparking' = [unparking EXCEPT ![a] = None]
    /\ UNCHANGED <<stack, phase, owner, notified, ready, registered, waking, strays>>

-----------------------------------------------------------------------------
ThreadStep(t, c) ==
    \/ PollPending(t, c) \/ PollReady(t, c) \/ TestFlag(t, c)
    \/ Park(t, c) \/ SwapOnReady(t, c) \/ Drain(t, c)

Next ==
    \/ \E t \in Threads, c \in Calls :
        Start(t, c) \/ ThreadStep(t, c) \/ ParkSpuriously(t, c)
    \/ \E a \in Agents, c \in Calls : Complete(a, c) \/ StrayWake(a, c)
    \/ \E a \in Agents : Notify(a) \/ Unpark(a)

Spec == Init /\ [][Next]_vars

\* The scheduler runs every thread that can run, and "something eventually
\* wakes it": every event happens, and its waker is not stopped half way.
\* Nothing makes `park` return spuriously and nothing makes a stray wake.
Fairness ==
    /\ \A t \in Threads : WF_vars(\E c \in Calls : ThreadStep(t, c))
    /\ \A a \in Agents : WF_vars(Notify(a)) /\ WF_vars(Unpark(a))
    /\ \A c \in Calls : WF_vars(\E w \in Wakers : Complete(w, c))

FairSpec == Spec /\ Fairness

-----------------------------------------------------------------------------
\* No wakeup is lost: a call that decided to park although its flag is set has
\* an unpark token waiting for its thread, or a waker on its way to set one.
\* (`block_on` tests the flag first because a nested call may have taken the
\* one token of the thread; `notify` sets the flag before it unparks.)
NoLostWakeup ==
    \A c \in Calls :
        phase[c] = "park" /\ notified[c] =>
            \/ token[owner[c]]
            \/ \E a \in Agents : unparking[a] = owner[c]

\* The strengthening the proof of NoLostWakeup needs.
\* Every call on a stack was started there, by its thread.
StackedCallsBegan ==
    \A t \in Threads : \A i \in 1..Len(stack[t]) :
        phase[stack[t][i]] # "idle" /\ owner[stack[t][i]] = t

\* Only the innermost call of a thread is outside its poll: however calls nest,
\* one call of a thread at most waits for, or drains, the thread's one token.
OneWaiterPerThread ==
    \A c \in Calls :
        phase[c] \in {"test", "park", "swap", "drain"} =>
            stack[owner[c]] # <<>> /\ Top(owner[c]) = c

\* Only a call that began has a waker to run, and a waker is run to its end.
WokenCallsBegan ==
    /\ \A a \in Agents :
          waking[a] # None => phase[waking[a]] # "idle" /\ unparking[a] = None
    /\ \A c \in Calls : notified[c] => phase[c] # "idle"

IInv ==
    /\ TypeOK
    /\ StackedCallsBegan
    /\ OneWaiterPerThread
    /\ WokenCallsBegan
    /\ NoLostWakeup

\* Nesting never strands a call: every call of `block_on` returns, whatever
\* nested calls do to the token and whatever stray wakes arrive.
EveryCallReturns ==
    \A c \in Calls : (phase[c] # "idle") ~> (phase[c] = "done")

\* What a caller sees of a call: the stage it is in and its own flag.
Stage(p) ==
    CASE p = "idle" -> "idle"
      [] p \in {"poll", "swap"} -> "running"
      [] p \in {"test", "park"} -> "waiting"
      [] p \in {"drain", "done"} -> "done"

Promise == INSTANCE Wakeups WITH
    stage <- [c \in Calls |-> Stage(phase[c])],
    woken <- notified

\* Each call waits on a wakeup private to itself: it is resumed by that wakeup
\* only, never by a token another call or a stray waker left on the thread.
ImplementsWakeups == Promise!AbsSpec
=============================================================================
