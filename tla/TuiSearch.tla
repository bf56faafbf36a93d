----------------------------- MODULE TuiSearch ------------------------------
(***************************************************************************)
(* The explorer's incremental search: the search bar on the event-loop     *)
(* thread (pdfboss-tui/src/search.rs, app.rs), one background task per     *)
(* started search (`run_search`, lib.rs), the epoch they share and the     *)
(* unbounded channel the tasks answer through.  A search is tagged with    *)
(* the generation it was started under.                                    *)
(***************************************************************************)
EXTENDS SearchState

CONSTANTS
    MaxQuery,    \* bound: length of a query
    MaxKeys      \* bound: keys pressed

ASSUME SearchAssumption == ObjectsAreListed /\ MaxQuery \in Nat /\ MaxKeys \in Nat

VARIABLES
    channel,     \* messages on their way to the event loop
    keys         \* keys left to press

barVars == <<active, query, hits, cursor, generation, running>>
vars == <<barVars, epoch, tasks, channel, keys>>

Result(g, o) == [type |-> "SearchResult", generation |-> g, hit |-> o]
Done(g) == [type |-> "SearchDone", generation |-> g, hit |-> Objects[1]]

\* A task: its query, the objects it has visited, whether it has passed the
\* epoch check for the object it holds.
Task(q) == [query |-> q, visited |-> 0, checked |-> FALSE]

Init ==
    /\ active = FALSE /\ query = <<>> /\ hits = <<>> /\ cursor = 0
    /\ generation = 0 /\ running = FALSE
    /\ epoch = 0 /\ tasks = <<>> /\ channel = <<>>
    /\ keys = MaxKeys

-----------------------------------------------------------------------------
(* Keys.  `update` and the commands it returns run on the event-loop        *)
(* thread; a task reads only the epoch, so a key is one step for it.        *)

Press == keys > 0 /\ keys' = keys - 1

\* `/`: `open` clears the bar but keeps the generation, and issues no command.
OpenSearch ==
    /\ ~active /\ Press
    /\ active' = TRUE /\ query' = <<>> /\ hits' = <<>> /\ cursor' = 0
    /\ running' = FALSE
    /\ UNCHANGED <<generation, epoch, tasks, channel>>

\* Enter: `accept` keeps the hits for n and N.
SearchAccept ==
    /\ active /\ Press
    /\ active' = FALSE
    /\ UNCHANGED <<query, hits, cursor, generation, running, epoch, tasks, channel>>

\* Esc: `cancel`, and `CancelSearch` stores the new generation as the epoch.
SearchCancel ==
    /\ active /\ Press
    /\ active' = FALSE /\ query' = <<>> /\ hits' = <<>> /\ cursor' = 0
    /\ generation' = generation + 1 /\ running' = FALSE
    /\ epoch' = generation'
    /\ UNCHANGED <<tasks, channel>>

\* `StartSearch`: store the epoch and spawn the task.
StartSearch(q, g) ==
    /\ epoch' = g
    /\ tasks' = [h \in DOMAIN tasks \cup {g} |-> IF h = g THEN Task(q) ELSE tasks[h]]

\* Mutant of Restart: `running` is only ever set.
RestartStillRunning(q) ==
    /\ query' = q /\ hits' = <<>> /\ cursor' = 0
    /\ generation' = generation + 1
    /\ running' = TRUE
    /\ IF q = <<>> THEN UNCHANGED <<epoch, tasks>> ELSE StartSearch(q, generation')

\* Mutant of Restart: the hits of the previous query stay listed.
RestartKeepingHits(q) ==
    /\ query' = q /\ cursor' = 0 /\ UNCHANGED hits
    /\ generation' = generation + 1
    /\ running' = (q # <<>>)
    /\ IF q = <<>> THEN UNCHANGED <<epoch, tasks>> ELSE StartSearch(q, generation')

\* `restart`, then `start_search`, which does nothing for an empty query.
Restart(q) ==
    /\ query' = q /\ hits' = <<>> /\ cursor' = 0
    /\ generation' = generation + 1
    /\ running' = (q # <<>>)
    /\ IF q = <<>> THEN UNCHANGED <<epoch, tasks>> ELSE StartSearch(q, generation')

SearchChar(c) ==
    /\ active /\ Len(query) < MaxQuery /\ Press
    /\ Restart(Append(query, c))
    /\ UNCHANGED <<active, channel>>

SearchBackspace ==
    /\ active /\ Press
    /\ IF query = <<>> THEN UNCHANGED <<query, hits, cursor, generation, running, epoch, tasks>>
       ELSE Restart(Front(query))
    /\ UNCHANGED <<active, channel>>

\* n and N, wrapping.
NextHit ==
    /\ ~active /\ hits # <<>> /\ Press
    /\ cursor' = IF cursor = Len(hits) THEN 1 ELSE cursor + 1
    /\ UNCHANGED <<active, query, hits, generation, running, epoch, tasks, channel>>

PrevHit ==
    /\ ~active /\ hits # <<>> /\ Press
    /\ cursor' = IF cursor <= 1 THEN Len(hits) ELSE cursor - 1
    /\ UNCHANGED <<active, query, hits, generation, running, epoch, tasks, channel>>

-----------------------------------------------------------------------------
(* Messages.                                                                *)

Deliver(type) == channel # <<>> /\ Head(channel).type = type /\ channel' = Tail(channel)

\* Mutant of SearchResult: `add_hit` takes every hit that arrives.
SearchResultAnyGeneration ==
    /\ Deliver("SearchResult")
    /\ hits' = Append(hits, Head(channel).hit)
    /\ UNCHANGED <<active, query, cursor, generation, running, epoch, tasks, keys>>

\* `add_hit`.
SearchResult ==
    /\ Deliver("SearchResult")
    /\ hits' = IF Head(channel).generation = generation
               THEN Append(hits, Head(channel).hit) ELSE hits
    /\ UNCHANGED <<active, query, cursor, generation, running, epoch, tasks, keys>>

\* `finish`.
SearchDone ==
    /\ Deliver("SearchDone")
    /\ running' = (running /\ Head(channel).generation # generation)
    /\ UNCHANGED <<active, query, hits, cursor, generation, epoch, tasks, keys>>

-----------------------------------------------------------------------------
(* The task of generation g, on a worker thread.                            *)

Alive(g) == g \in DOMAIN tasks
End(g) == tasks' = [h \in DOMAIN tasks \ {g} |-> tasks[h]]

\* The next object arrives and a newer epoch is seen: the task ends silently.
Stop(g) ==
    /\ Alive(g) /\ ~tasks[g].checked /\ tasks[g].visited < Len(Objects)
    /\ epoch # g
    /\ End(g)
    /\ UNCHANGED <<barVars, epoch, channel, keys>>

Passed(k) ==
    IF Objects[k.visited + 1] \in Matches(k.query)
    THEN [k EXCEPT !.checked = TRUE] ELSE [k EXCEPT !.visited = @ + 1]

\* It passes the check: an object that matches is sent next, another skipped.
Check(g) ==
    /\ Alive(g) /\ ~tasks[g].checked /\ tasks[g].visited < Len(Objects)
    /\ epoch = g
    /\ tasks' = [tasks EXCEPT ![g] = Passed(@)]
    /\ UNCHANGED <<barVars, epoch, channel, keys>>

\* The hit is sent, whatever happened to the epoch since the check.
Send(g) ==
    /\ Alive(g) /\ tasks[g].checked
    /\ channel' = Append(channel, Result(g, Objects[tasks[g].visited + 1]))
    /\ tasks' = [tasks EXCEPT ![g].checked = FALSE, ![g].visited = @ + 1]
    /\ UNCHANGED <<barVars, epoch, keys>>

\* No objects are left: done, under an epoch nobody checks any more.
Finish(g) ==
    /\ Alive(g) /\ ~tasks[g].checked /\ tasks[g].visited = Len(Objects)
    /\ channel' = Append(channel, Done(g))
    /\ End(g)
    /\ UNCHANGED <<barVars, epoch, keys>>

-----------------------------------------------------------------------------
Generations == 1..MaxKeys

Key ==
    \/ OpenSearch \/ SearchAccept \/ SearchCancel
    \/ \E c \in Chars : SearchChar(c)
    \/ SearchBackspace \/ NextHit \/ PrevHit

Receive == SearchResult \/ SearchDone
Work(g) == Stop(g) \/ Check(g) \/ Send(g) \/ Finish(g)

Next == Key \/ Receive \/ \E g \in Generations : Work(g)

Spec == Init /\ [][Next]_vars

\* The runtime runs every task, and `select!` takes what the channel holds.
Fairness == WF_vars(Receive) /\ \A g \in Generations : WF_vars(Work(g))

FairSpec == Spec /\ Fairness

-----------------------------------------------------------------------------
\* A search ends: either the bar says so or the user starts another.
SearchEnds == running ~> ~running
=============================================================================
