---------------------------- MODULE SearchState -----------------------------
(***************************************************************************)
(* The state of the explorer's search, and what it promises: the search    *)
(* bar (`SearchState` of pdfboss-tui/src/search.rs), the epoch it shares   *)
(* with the background tasks, and the tasks.  `TuiSearch` has the steps.   *)
(***************************************************************************)
EXTENDS Integers, Sequences, SequencesExt, Picks

CONSTANTS
    Chars,       \* characters typed
    Objects,     \* the physical objects, in the order the element pass yields them
    Matches(_)   \* Matches(q): the objects a nonempty query matches

ObjectsAreListed == Objects \in Seq(ToSet(Objects))

VARIABLES
    active,      \* `active`: keystrokes edit the query
    query,       \* `query`
    hits,        \* `hits`
    cursor,      \* `cursor`, 1-based; 0 is None
    generation,  \* `generation`
    running,     \* `running`
    epoch,       \* `search_epoch`, shared with the tasks
    tasks        \* tasks[g]: the task of generation g, while it lives

\* Everything query q matches, in the order the task sends it.
AllHits(q) == IF q = <<>> THEN <<>> ELSE Picks(Objects, {i \in DOMAIN Objects : Objects[i] \in Matches(q)})

SearchTypes ==
    /\ active \in BOOLEAN /\ running \in BOOLEAN
    /\ query \in Seq(Chars)
    /\ hits \in Seq(ToSet(Objects))
    /\ cursor \in 0..Len(hits)     \* `hits[next]` cannot panic
    /\ generation \in Nat /\ epoch \in 0..generation
    /\ DOMAIN tasks \subseteq 1..generation

\* The state is well typed, the cursor within the list, and while a query is
\* typed the list holds a prefix of exactly its matches, in file order and without
\* repeats, all of them once the bar stops saying it is searching, however many
\* searches were restarted while their tasks ran (search.rs 85-99, lib.rs 475-505).
HitsOfTheQuery ==
    /\ SearchTypes
    /\ query # <<>> => IsPrefix(hits, AllHits(query))
    /\ query # <<>> /\ ~running => hits = AllHits(query)
=============================================================================
