--------------------------- MODULE BlockOnProofs ---------------------------
(***************************************************************************)
(* BlockOn proved for any number of threads, wakers and calls, however     *)
(* deep the calls nest and however many stray wakes arrive.                *)
(***************************************************************************)
EXTENDS BlockOn, SequenceTheorems, TLAPS

LEMMA InitInv == Init => IInv
BY BlockOnAssumption
   DEF Init, IInv, TypeOK, StackedCallsBegan, OneWaiterPerThread,
       WokenCallsBegan, NoLostWakeup, Phases, Agents

\* What a thread at a step of `block_on` is: its innermost call is its own.
LEMMA AtTop ==
    ASSUME IInv, NEW t \in Threads, NEW c \in Calls, NEW p, At(t, c, p)
    PROVE  /\ stack[t] \in Seq(Calls) /\ Len(stack[t]) \in 1..Len(stack[t])
           /\ stack[t][Len(stack[t])] = c
           /\ owner[c] = t
           /\ phase[c] = p
BY DEF At, Top, IInv, TypeOK, StackedCallsBegan

LEMMA StartInv ==
    ASSUME IInv, NEW t \in Threads, NEW c \in Calls, Start(t, c)
    PROVE  IInv'
<1> USE DEF Start, IInv
<1>1. TypeOK'
  BY BlockOnAssumption DEF TypeOK, Phases
<1>2. \A u \in Threads : \A i \in 1..Len(stack[u]) : stack[u][i] # c
  BY DEF StackedCallsBegan
<1>3. StackedCallsBegan'
  BY <1>2 DEF StackedCallsBegan, TypeOK
<1>4. ASSUME NEW d \in Calls,
             phase'[d] \in {"test", "park", "swap", "drain"}
      PROVE  /\ d # c
             /\ phase[d] = phase'[d]
             /\ owner'[d] = owner[d]
             /\ owner[d] # t
  <2>1. d # c /\ phase[d] = phase'[d] /\ owner'[d] = owner[d]
    BY <1>4 DEF TypeOK
  <2>2. stack[owner[d]] # <<>> /\ Top(owner[d]) = d
    BY <1>4, <2>1 DEF OneWaiterPerThread
  <2>3. stack[t] = <<>> \/ phase[Top(t)] = "poll"
    BY DEF At
  <2>. QED
    BY <1>4, <2>1, <2>2, <2>3
<1>5. OneWaiterPerThread'
  <2> SUFFICES ASSUME NEW d \in Calls,
                      phase'[d] \in {"test", "park", "swap", "drain"}
               PROVE  (stack[owner[d]] # <<>> /\ Top(owner[d]) = d)'
    BY DEF OneWaiterPerThread
  <2>1. stack'[owner[d]] = stack[owner[d]] /\ owner[d] \in Threads
    BY <1>4, BlockOnAssumption DEF TypeOK
  <2>. QED
    BY <1>4, <2>1 DEF OneWaiterPerThread, Top
<1>6. WokenCallsBegan'
  BY DEF WokenCallsBegan, TypeOK, Agents
<1>7. NoLostWakeup'
  BY <1>4 DEF NoLostWakeup, TypeOK
<1>. QED
  BY <1>1, <1>3, <1>5, <1>6, <1>7

LEMMA PollPendingInv ==
    ASSUME IInv, NEW t \in Threads, NEW c \in Calls, PollPending(t, c)
    PROVE  IInv'
<1> USE DEF PollPending, IInv
<1>1. TypeOK'
  BY DEF At, TypeOK, Phases
<1>2. StackedCallsBegan'
  BY DEF At, StackedCallsBegan, TypeOK
<1>3. c = Top(t) /\ stack[t] # <<>> /\ owner[c] = t
  BY AtTop DEF At
<1>4. OneWaiterPerThread'
  BY <1>3 DEF OneWaiterPerThread, TypeOK, Top
<1>5. WokenCallsBegan'
  BY DEF WokenCallsBegan, TypeOK, Agents
<1>6. NoLostWakeup'
  BY <1>3 DEF NoLostWakeup, OneWaiterPerThread, TypeOK
<1>. QED
  BY <1>1, <1>2, <1>4, <1>5, <1>6

LEMMA PollReadyInv ==
    ASSUME IInv, NEW t \in Threads, NEW c \in Calls, PollReady(t, c)
    PROVE  IInv'
<1> USE DEF PollReady, IInv
<1>1. TypeOK'
  BY DEF At, TypeOK, Phases
<1>2. StackedCallsBegan'
  BY DEF At, StackedCallsBegan, TypeOK
<1>3. c = Top(t) /\ stack[t] # <<>> /\ owner[c] = t
  BY AtTop DEF At
<1>4. OneWaiterPerThread'
  BY <1>3 DEF OneWaiterPerThread, TypeOK, Top
<1>5. WokenCallsBegan'
  BY DEF WokenCallsBegan, TypeOK, Agents
<1>6. NoLostWakeup'
  BY <1>3 DEF NoLostWakeup, OneWaiterPerThread, TypeOK
<1>. QED
  BY <1>1, <1>2, <1>4, <1>5, <1>6

LEMMA TestFlagInv ==
    ASSUME IInv, NEW t \in Threads, NEW c \in Calls, TestFlag(t, c)
    PROVE  IInv'
<1> USE DEF TestFlag, IInv
<1>1. TypeOK'
  BY DEF At, TypeOK, Phases
<1>2. StackedCallsBegan'
  BY DEF At, StackedCallsBegan, TypeOK
<1>3. c = Top(t) /\ stack[t] # <<>> /\ owner[c] = t
  BY AtTop DEF At
<1>4. OneWaiterPerThread'
  BY <1>3 DEF OneWaiterPerThread, TypeOK, Top
<1>5. WokenCallsBegan'
  BY DEF WokenCallsBegan, TypeOK, Agents
<1>6. NoLostWakeup'
  BY <1>3 DEF NoLostWakeup, OneWaiterPerThread, TypeOK
<1>. QED
  BY <1>1, <1>2, <1>4, <1>5, <1>6

LEMMA ParkInv ==
    ASSUME IInv, NEW t \in Threads, NEW c \in Calls, Park(t, c)
    PROVE  IInv'
<1> USE DEF Park, IInv
<1>1. TypeOK'
  BY DEF At, TypeOK, Phases
<1>2. StackedCallsBegan'
  BY DEF At, StackedCallsBegan, TypeOK
<1>3. c = Top(t) /\ stack[t] # <<>> /\ owner[c] = t
  BY AtTop DEF At
<1>4. OneWaiterPerThread'
  BY <1>3 DEF OneWaiterPerThread, TypeOK, Top
<1>5. WokenCallsBegan'
  BY DEF WokenCallsBegan, TypeOK, Agents
<1>6. NoLostWakeup'
  BY <1>3 DEF NoLostWakeup, OneWaiterPerThread, TypeOK
<1>. QED
  BY <1>1, <1>2, <1>4, <1>5, <1>6

LEMMA ParkSpuriouslyInv ==
    ASSUME IInv, NEW t \in Threads, NEW c \in Calls, ParkSpuriously(t, c)
    PROVE  IInv'
<1> USE DEF ParkSpuriously, IInv
<1>1. TypeOK'
  BY DEF At, TypeOK, Phases
<1>2. StackedCallsBegan'
  BY DEF At, StackedCallsBegan, TypeOK
<1>3. c = Top(t) /\ stack[t] # <<>> /\ owner[c] = t
  BY AtTop DEF At
<1>4. OneWaiterPerThread'
  BY <1>3 DEF OneWaiterPerThread, TypeOK, Top
<1>5. WokenCallsBegan'
  BY DEF WokenCallsBegan, TypeOK, Agents
<1>6. NoLostWakeup'
  BY <1>3 DEF NoLostWakeup, OneWaiterPerThread, TypeOK
<1>. QED
  BY <1>1, <1>2, <1>4, <1>5, <1>6

LEMMA CompleteInv ==
    ASSUME IInv, NEW a \in Agents, NEW c \in Calls, Complete(a, c)
    PROVE  IInv'
<1> USE BlockOnAssumption DEF Complete, IInv
<1>1. TypeOK'
  BY DEF TypeOK
<1>2. StackedCallsBegan'
  BY DEF StackedCallsBegan
<1>3. OneWaiterPerThread'
  BY DEF OneWaiterPerThread, TypeOK, Top
<1>4. WokenCallsBegan'
  BY DEF Free, WokenCallsBegan, TypeOK
<1>5. NoLostWakeup'
  BY DEF NoLostWakeup, TypeOK, WokenCallsBegan
<1>. QED
  BY <1>1, <1>2, <1>3, <1>4, <1>5

LEMMA StrayWakeInv ==
    ASSUME IInv, NEW a \in Agents, NEW c \in Calls, StrayWake(a, c)
    PROVE  IInv'
<1> USE BlockOnAssumption DEF StrayWake, IInv
<1>1. TypeOK'
  BY DEF TypeOK
<1>2. StackedCallsBegan'
  BY DEF StackedCallsBegan
<1>3. OneWaiterPerThread'
  BY DEF OneWaiterPerThread, TypeOK, Top
<1>4. WokenCallsBegan'
  BY DEF Free, WokenCallsBegan, TypeOK
<1>5. NoLostWakeup'
  BY DEF NoLostWakeup, TypeOK, WokenCallsBegan
<1>. QED
  BY <1>1, <1>2, <1>3, <1>4, <1>5

LEMMA NotifyInv ==
    ASSUME IInv, NEW a \in Agents, Notify(a)
    PROVE  IInv'
<1> USE BlockOnAssumption DEF Notify, IInv
<1>1. TypeOK'
  BY DEF TypeOK
<1>2. StackedCallsBegan'
  BY DEF StackedCallsBegan
<1>3. OneWaiterPerThread'
  BY DEF OneWaiterPerThread, TypeOK, Top
<1>4. WokenCallsBegan'
  BY DEF Free, WokenCallsBegan, TypeOK
<1>5. NoLostWakeup'
  <2> SUFFICES ASSUME NEW c \in Calls, phase[c] = "park", notified'[c]
               PROVE  \/ token[owner[c]]
                      \/ \E b \in Agents : unparking'[b] = owner[c]
    BY DEF NoLostWakeup
  <2>1. CASE notified[c]
    \* The waker on its way for c is not a: a is only now done with the flag.
    <3>1. unparking[a] = None
      BY DEF WokenCallsBegan
    <3>. QED
      BY <2>1, <3>1 DEF NoLostWakeup, TypeOK
  <2>2. CASE ~notified[c]
    <3>1. c = waking[a] /\ unparking'[a] = owner[c]
      BY <2>2 DEF TypeOK
    <3>. QED
      BY <3>1
  <2>. QED
    BY <2>1, <2>2
<1>. QED
  BY <1>1, <1>2, <1>3, <1>4, <1>5

LEMMA UnparkInv ==
    ASSUME IInv, NEW a \in Agents, Unpark(a)
    PROVE  IInv'
<1> USE BlockOnAssumption DEF Unpark, IInv
<1>1. TypeOK'
  BY DEF TypeOK
<1>2. StackedCallsBegan'
  BY DEF StackedCallsBegan
<1>3. OneWaiterPerThread'
  BY DEF OneWaiterPerThread, TypeOK, Top
<1>4. WokenCallsBegan'
  BY DEF Free, WokenCallsBegan, TypeOK
<1>5. NoLostWakeup'
  BY DEF NoLostWakeup, TypeOK, WokenCallsBegan
<1>. QED
  BY <1>1, <1>2, <1>3, <1>4, <1>5

\* A call that returns leaves the calls below it as they were.
LEMMA ReturnStack ==
    ASSUME IInv, NEW t \in Threads, NEW c \in Calls, stack[t] # <<>>,
           Top(t) = c, owner[c] = t, Return(t, c), owner' = owner
    PROVE  /\ stack' \in [Threads -> Seq(Calls)]
           /\ StackedCallsBegan'
           /\ OneWaiterPerThread'
<1> USE DEF Return, IInv, TypeOK
<1>1. /\ stack[t] \in Seq(Calls)
      /\ Len(stack[t]) \in Nat
      /\ Len(stack[t]) - 1 \in 0..Len(stack[t])
  BY EmptySeq, LenProperties
<1>2. /\ stack'[t] \in Seq(Calls)
      /\ Len(stack'[t]) = Len(stack[t]) - 1
      /\ \A i \in 1..(Len(stack[t]) - 1) : stack'[t][i] = stack[t][i]
  <2> DEFINE n == Len(stack[t]) - 1
  <2>1. n \in Int /\ \A i \in 1..n : stack[t][i] \in Calls
    BY <1>1, ElementOfSeq
  <2>2. /\ SubSeq(stack[t], 1, n) \in Seq(Calls)
        /\ Len(SubSeq(stack[t], 1, n)) = IF 1 <= n THEN n - 1 + 1 ELSE 0
        /\ \A i \in 1..(n - 1 + 1) : SubSeq(stack[t], 1, n)[i] = stack[t][1 + i - 1]
    BY <2>1, SubSeqProperties
  <2>3. stack'[t] = SubSeq(stack[t], 1, n)
    OBVIOUS
  <2>4. n \in Nat
    BY <1>1
  <2>. HIDE DEF n
  <2>5. /\ Len(SubSeq(stack[t], 1, n)) = n
        /\ \A i \in 1..n : SubSeq(stack[t], 1, n)[i] = stack[t][i]
    BY <2>2, <2>4
  <2>. QED
    BY <2>2, <2>3, <2>5 DEF n
<1>3. stack' \in [Threads -> Seq(Calls)]
  BY <1>2
<1>4. StackedCallsBegan'
  BY <1>1, <1>2 DEF StackedCallsBegan
<1>5. OneWaiterPerThread'
  <2> SUFFICES ASSUME NEW d \in Calls,
                      phase'[d] \in {"test", "park", "swap", "drain"}
               PROVE  (stack[owner[d]] # <<>> /\ Top(owner[d]) = d)'
    BY DEF OneWaiterPerThread
  <2>1. d # c /\ phase[d] = phase'[d]
    OBVIOUS
  <2>2. stack[owner[d]] # <<>> /\ Top(owner[d]) = d
    BY <2>1 DEF OneWaiterPerThread
  <2>3. owner[d] # t
    BY <2>1, <2>2
  <2>. QED
    BY <2>2, <2>3 DEF Top
<1>. QED
  BY <1>3, <1>4, <1>5

LEMMA SwapOnReadyInv ==
    ASSUME IInv, NEW t \in Threads, NEW c \in Calls, SwapOnReady(t, c)
    PROVE  IInv'
<1> USE DEF SwapOnReady, IInv
<1>1. stack[t] # <<>> /\ Top(t) = c /\ owner[c] = t /\ phase[c] = "swap"
  BY AtTop DEF At
<1>2. /\ stack' \in [Threads -> Seq(Calls)]
      /\ StackedCallsBegan'
      /\ OneWaiterPerThread'
  <2>1. CASE notified[c]
    BY <1>1, <2>1 DEF StackedCallsBegan, OneWaiterPerThread, TypeOK, Top
  <2>2. CASE ~notified[c]
    BY <1>1, <2>2, ReturnStack
  <2>. QED
    BY <2>1, <2>2
<1>3. TypeOK'
  BY <1>1, <1>2 DEF TypeOK, Phases, Return
<1>4. WokenCallsBegan'
  BY DEF WokenCallsBegan, TypeOK, Return, Agents
<1>5. NoLostWakeup'
  BY DEF NoLostWakeup, TypeOK, Return
<1>. QED
  BY <1>2, <1>3, <1>4, <1>5

LEMMA DrainInv ==
    ASSUME IInv, NEW t \in Threads, NEW c \in Calls, Drain(t, c)
    PROVE  IInv'
<1> USE DEF Drain, IInv
<1>1. stack[t] # <<>> /\ Top(t) = c /\ owner[c] = t /\ phase[c] = "drain"
  BY AtTop DEF At
<1>2. /\ stack' \in [Threads -> Seq(Calls)]
      /\ StackedCallsBegan'
      /\ OneWaiterPerThread'
  BY <1>1, ReturnStack
<1>3. TypeOK'
  BY <1>1, <1>2 DEF TypeOK, Phases, Return
<1>4. WokenCallsBegan'
  BY DEF WokenCallsBegan, TypeOK, Return, Agents
<1>5. NoLostWakeup'
  \* The token taken here is no parked call's: c is the only waiter of t.
  BY <1>1 DEF NoLostWakeup, OneWaiterPerThread, TypeOK, Return
<1>. QED
  BY <1>2, <1>3, <1>4, <1>5

LEMMA StutterInv == ASSUME IInv, UNCHANGED vars PROVE IInv'
BY DEF IInv, vars, TypeOK, StackedCallsBegan, OneWaiterPerThread,
       WokenCallsBegan, NoLostWakeup, Top

LEMMA NextInv == IInv /\ [Next]_vars => IInv'
<1> SUFFICES ASSUME IInv, [Next]_vars PROVE IInv'
  OBVIOUS
<1>1. CASE UNCHANGED vars
  BY <1>1, StutterInv
<1>2. ASSUME NEW t \in Threads, NEW c \in Calls,
             Start(t, c) \/ ThreadStep(t, c) \/ ParkSpuriously(t, c)
      PROVE  IInv'
  BY <1>2, StartInv, PollPendingInv, PollReadyInv, TestFlagInv, ParkInv,
     SwapOnReadyInv, DrainInv, ParkSpuriouslyInv DEF ThreadStep
<1>3. ASSUME NEW a \in Agents, NEW c \in Calls, Complete(a, c) \/ StrayWake(a, c)
      PROVE  IInv'
  BY <1>3, CompleteInv, StrayWakeInv
<1>4. ASSUME NEW a \in Agents, Notify(a) \/ Unpark(a)
      PROVE  IInv'
  BY <1>4, NotifyInv, UnparkInv
<1>. QED
  BY <1>1, <1>2, <1>3, <1>4 DEF Next

\* Every reachable state of `block_on` satisfies the inductive invariant.
THEOREM Invariant == Spec => []IInv
BY InitInv, NextInv, PTL DEF Spec

\* The state keeps its types: in particular a call that began has a thread.
THEOREM TypeCorrect == Spec => []TypeOK
<1>1. IInv => TypeOK
  BY DEF IInv
<1>. QED
  BY Invariant, <1>1, PTL

\* No call of `block_on` ever parks past its own wakeup, whatever the calls
\* nested on its thread did to the thread's single unpark token.
THEOREM WakeupsAreNeverLost == Spec => []NoLostWakeup
<1>1. IInv => NoLostWakeup
  BY DEF IInv
<1>. QED
  BY Invariant, <1>1, PTL

-----------------------------------------------------------------------------
\* The refinement: a step of a thread or of a waker is a step of the one call
\* it works for, or nothing a caller can see.

LEMMA PromiseInit == Init => Promise!AbsInit
BY DEF Init, Promise!AbsInit, Stage

\* Moving one call from phase p to phase q moves that call's stage only.
LEMMA StageMoves ==
    ASSUME NEW c \in Calls, NEW q, phase \in [Calls -> Phases],
           phase' = [phase EXCEPT ![c] = q]
    PROVE  [d \in Calls |-> Stage(phase[d])]'
             = [[d \in Calls |-> Stage(phase[d])] EXCEPT ![c] = Stage(q)]
OBVIOUS

LEMMA StageStays ==
    ASSUME NEW c \in Calls, NEW q, phase \in [Calls -> Phases],
           phase' = [phase EXCEPT ![c] = q], Stage(q) = Stage(phase[c])
    PROVE  [d \in Calls |-> Stage(phase[d])]' = [d \in Calls |-> Stage(phase[d])]
OBVIOUS

LEMMA PromiseStep ==
    IInv /\ [Next]_vars => [Promise!AbsNext]_(Promise!absVars)
<1> SUFFICES ASSUME IInv, [Next]_vars
             PROVE  [Promise!AbsNext]_(Promise!absVars)
  OBVIOUS
<1> DEFINE stg == [d \in Calls |-> Stage(phase[d])]
<1>t. TypeOK
  BY DEF IInv
<1>a. ASSUME NEW c \in Calls,
             \/ stg[c] = "idle" /\ stg' = [stg EXCEPT ![c] = "running"]
                  /\ notified' = notified
             \/ stg[c] # "idle" /\ stg' = stg
                  /\ notified' = [notified EXCEPT ![c] = TRUE]
             \/ stg[c] = "running" /\ stg' = [stg EXCEPT ![c] = "waiting"]
                  /\ notified' = notified
             \/ stg[c] = "waiting" /\ notified[c]
                  /\ stg' = [stg EXCEPT ![c] = "running"]
                  /\ notified' = [notified EXCEPT ![c] = FALSE]
             \/ stg[c] = "running" /\ stg' = [stg EXCEPT ![c] = "done"]
                  /\ notified' = [notified EXCEPT ![c] = FALSE]
      PROVE  Promise!AbsNext
  BY <1>a DEF Promise!AbsNext, Promise!AbsStart, Promise!AbsWake,
              Promise!AbsWait, Promise!AbsResume, Promise!AbsFinish
<1>b. ASSUME stg' = stg, notified' = notified
      PROVE  UNCHANGED Promise!absVars
  BY <1>b DEF Promise!absVars
<1>. HIDE DEF stg
<1>1. CASE UNCHANGED vars
  BY <1>1, <1>b DEF vars, stg
<1>2. ASSUME NEW t \in Threads, NEW c \in Calls, Start(t, c)
      PROVE  Promise!AbsNext
  <2>1. notified' = notified
    BY <1>2, <1>t DEF Start, TypeOK, IInv, WokenCallsBegan
  <2>. QED
    BY <1>2, <1>a, <1>t, <2>1, StageMoves DEF Start, TypeOK, stg, Stage
<1>3. ASSUME NEW t \in Threads, NEW c \in Calls, PollPending(t, c)
      PROVE  Promise!AbsNext
  BY <1>3, <1>a, <1>t, StageMoves DEF PollPending, At, TypeOK, stg, Stage
<1>4. ASSUME NEW t \in Threads, NEW c \in Calls, PollReady(t, c)
      PROVE  UNCHANGED Promise!absVars
  BY <1>4, <1>b, <1>t, StageStays DEF PollReady, At, TypeOK, stg, Stage
<1>5. ASSUME NEW t \in Threads, NEW c \in Calls, TestFlag(t, c)
      PROVE  [Promise!AbsNext]_(Promise!absVars)
  <2>1. CASE notified[c]
    BY <1>5, <2>1, <1>a, <1>t, StageMoves DEF TestFlag, At, TypeOK, stg, Stage
  <2>2. CASE ~notified[c]
    <3>1. notified' = notified
      BY <1>5, <2>2, <1>t DEF TestFlag, TypeOK
    <3>2. phase[c] = "test" /\ phase' = [phase EXCEPT ![c] = "park"]
      BY <1>5, <2>2 DEF TestFlag, At
    <3>3. stg' = stg
      BY <3>2, <1>t, StageStays DEF TypeOK, stg, Stage
    <3>. QED
      BY <3>1, <3>3, <1>b
  <2>. QED
    BY <2>1, <2>2
<1>6. ASSUME NEW t \in Threads, NEW c \in Calls,
             Park(t, c) \/ ParkSpuriously(t, c)
      PROVE  UNCHANGED Promise!absVars
  BY <1>6, <1>b, <1>t, StageStays DEF Park, ParkSpuriously, At, TypeOK, stg, Stage
<1>7. ASSUME NEW t \in Threads, NEW c \in Calls, SwapOnReady(t, c)
      PROVE  Promise!AbsNext
  BY <1>7, <1>a, <1>t, StageMoves
     DEF SwapOnReady, Return, At, TypeOK, stg, Stage
<1>8. ASSUME NEW t \in Threads, NEW c \in Calls, Drain(t, c)
      PROVE  UNCHANGED Promise!absVars
  BY <1>8, <1>b, <1>t, StageStays DEF Drain, Return, At, TypeOK, stg, Stage
<1>9. ASSUME NEW a \in Agents, NEW c \in Calls, Complete(a, c) \/ StrayWake(a, c)
      PROVE  UNCHANGED Promise!absVars
  BY <1>9, <1>b DEF Complete, StrayWake, stg
<1>10. ASSUME NEW a \in Agents, Notify(a)
       PROVE  Promise!AbsNext
  <2>1. waking[a] \in Calls /\ phase[waking[a]] # "idle"
    BY <1>10, <1>t DEF Notify, TypeOK, IInv, WokenCallsBegan
  <2>. QED
    BY <1>10, <2>1, <1>a, <1>t DEF Notify, TypeOK, stg, Stage, Phases
<1>11. ASSUME NEW a \in Agents, Unpark(a)
       PROVE  UNCHANGED Promise!absVars
  BY <1>11, <1>b DEF Unpark, stg
<1>. QED
  BY <1>1, <1>2, <1>3, <1>4, <1>5, <1>6, <1>7, <1>8, <1>9, <1>10, <1>11
     DEF Next, ThreadStep

\* `block_on` keeps its promise: nesting and stray tokens are invisible, and a
\* call is resumed by its own wakeup and by nothing else.
THEOREM BlockOnImplementsWakeups == Spec => ImplementsWakeups
BY Invariant, PromiseInit, PromiseStep, PTL
   DEF Spec, ImplementsWakeups, Promise!AbsSpec
=============================================================================
