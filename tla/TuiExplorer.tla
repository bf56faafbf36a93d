---------------------------- MODULE TuiExplorer -----------------------------
(***************************************************************************)
(* The explorer's selection, tree loads and inspector (pdfboss-tui/src:    *)
(* app.rs, tree.rs, inspector.rs, lib.rs).  Keys and answers are messages  *)
(* of one event loop; a tree pass, the load of a Contents folder and every *)
(* object fetch is a background task.  No task reads what the loop writes, *)
(* so a task and its place in the channel are one thing here: an answer    *)
(* still under way.                                                        *)
(*                                                                         *)
(* A pass never fails: `TreeFailed` is sent when a pass yielded nothing    *)
(* and met an error, but the physical pass always yields the trailer, and  *)
(* the logical one never an error (pdfboss-aio/src/stream.rs 246-268).     *)
(***************************************************************************)
EXTENDS TreeState

CONSTANTS
    Batch,       \* `TREE_BATCH`: elements per message (64 in the code)
    MaxKeys      \* bound: keys pressed

ASSUME ExplorerAssumption ==
    /\ Batch \in Nat \ {0} /\ HistoryCap \in Nat \ {0} /\ MaxKeys \in Nat
    /\ FileIsListed

VARIABLES
    trailer,     \* whether `trailer_dict` is known
    generation,  \* `inspector_generation`
    fetches,     \* objects asked for and not answered: [generation, r]
    keys         \* keys left to press

treeVars == <<load, pass, nodes, contents, trailer>>
selectionVars == <<selected, history, pendingJump, generation, inspector, fetches>>
vars == <<treeVars, selectionVars, keys>>

\* A pass that has taken nothing yet.
NewPass == 0

\* A Contents folder nobody has expanded yet.
NewFolder == [load |-> "NotLoaded", tasks |-> 0, streams |-> <<>>]

\* Nodes whose selection shows an object.
Viewed == {"object", "page", "stream"}

Showing(node, what) == [about |-> node, shows |-> what]

Init ==
    /\ load = [req \in Passes |-> "NotLoaded"]
    /\ pass = [req \in Passes |-> NoPass]
    /\ nodes = <<>> /\ trailer = FALSE
    /\ contents = [i \in PageIndexes |-> NewFolder]
    /\ selected = Root /\ history = <<>> /\ pendingJump = NoRef
    /\ generation = 1
    /\ inspector = Showing(Root, "message")
    /\ fetches = {}
    /\ keys = MaxKeys

-----------------------------------------------------------------------------
(* Selecting.  The tree as it is when the selection is made is a parameter:  *)
(* a batch changes it first.                                                *)

\* A pass starts: `LoadTree`.
StartPass(ld, ps, req) ==
    /\ load' = [ld EXCEPT ![req] = "Loading"]
    /\ pass' = [ps EXCEPT ![req] = NewPass]

\* Selecting node n wants the physical pass: a page or stream whose object's span
\* is not known, or the trailer before its dictionary is.
WantsPhysical(n, ns, known) ==
    \/ n.kind \in {"page", "stream"} /\ ~Found(ns, n.r)
    \/ n = TrailerNode /\ ~known

\* What the inspector shows at once for node n.
Shown(n, ld, known) ==
    CASE n.kind \in Viewed -> "loading"
      [] n = TrailerNode /\ known -> "dict"
      [] n = TrailerNode /\ ~known /\ ld["physical"] # "Loaded" -> "loading"
      [] OTHER -> "message"

\* `on_select`, of a changed selection or forced: n is shown, after `ahead`
\* selections the same message made before it.
OnSelect(n, ahead, ld, ps, ns, known) ==
    /\ generation' = generation + 1 + Len(ahead)
    /\ inspector' = Showing(n, Shown(n, ld, known))
    /\ fetches' = fetches \cup
         {[generation |-> generation + i, r |-> Append(ahead, n)[i].r] :
            i \in {j \in 1..(Len(ahead) + 1) : Append(ahead, n)[j].kind \in Viewed}}
    /\ IF WantsPhysical(n, ns, known) /\ ld["physical"] = "NotLoaded"
       THEN StartPass(ld, ps, "physical")
       ELSE load' = ld /\ pass' = ps

\* History keeps the newest `HISTORY_CAP` selections.
Remember(h, n) ==
    LET all == Append(h, n)
    IN  IF Len(all) > HistoryCap THEN Tail(all) ELSE all

-----------------------------------------------------------------------------
(* Keys.                                                                    *)

Press == keys > 0 /\ keys' = keys - 1

\* Moving the selection: on_move, on_page, Top, Bottom, Collapse, Expand on an
\* expanded branch.  Reaching a node passes through others, one key each.
Move(n) ==
    /\ n \in TreeNodes \ {selected} /\ Press
    /\ selected' = n
    /\ OnSelect(n, <<>>, load, pass, nodes, trailer)
    /\ UNCHANGED <<nodes, contents, trailer, history, pendingJump>>

\* The folder with one more task asked to load it.
Asked(folder) ==
    [load |-> "Loading", tasks |-> folder.tasks + 1, streams |-> folder.streams]

\* Expand on a section: `expand` asks for its pass.
Expand(req) ==
    /\ selected = Folder(IF req = "physical" THEN "objects" ELSE "pages")
    /\ load[req] \in {"NotLoaded", "Failed"} /\ Press
    /\ StartPass(load, pass, req)
    /\ UNCHANGED <<nodes, contents, trailer, selectionVars>>

\* Mutant of ExpandContents: Expanding asks again while the first task still runs.
ExpandContentsAgain(i) ==
    /\ selected = ContentsNode(i)
    /\ contents[i].load # "Loaded" /\ Press
    /\ contents' = [contents EXCEPT ![i] = Asked(contents[i])]
    /\ UNCHANGED <<load, pass, nodes, trailer, selectionVars>>

\* Expand on a Contents folder, again after a failure: `LoadContents`.  Its page is
\* in the tree, so the page's reference is known.
ExpandContents(i) ==
    /\ selected = ContentsNode(i)
    /\ contents[i].load \in {"NotLoaded", "Failed"} /\ Press
    /\ contents' = [contents EXCEPT ![i] = Asked(contents[i])]
    /\ UNCHANGED <<load, pass, nodes, trailer, selectionVars>>

\* `jump_to` of an object that is in the tree.
JumpNow(r) ==
    /\ Found(nodes, r)
    /\ selected' = ObjectNode(r)
    /\ history' = Remember(history, selected)
    /\ OnSelect(selected', <<>>, load, pass, nodes, trailer)
    /\ UNCHANGED <<nodes, contents, trailer, pendingJump>>

\* `jump_to` of one that is not: behind the physical pass, or not at all.
JumpLater(r) ==
    /\ ~Found(nodes, r)
    /\ IF load["physical"] \in {"NotLoaded", "Loading"}
       THEN pendingJump' = r ELSE UNCHANGED pendingJump
    /\ IF load["physical"] = "NotLoaded"
       THEN StartPass(load, pass, "physical") ELSE UNCHANGED <<load, pass>>
    /\ UNCHANGED <<nodes, contents, trailer, selected, history, generation, inspector, fetches>>

\* Enter on a node or on a reference the inspector shows, or n and N over the
\* search hits, which may be objects the tree has not loaded yet.
Jump(r) ==
    /\ \/ ObjectNode(r) \in ToSet(Physical)
       \/ inspector.shows \in {"object", "dict"}
       \/ r = selected.r
    /\ Press
    /\ JumpNow(r) \/ JumpLater(r)

Back ==
    /\ history # <<>> /\ Press
    /\ selected' = Last(history)
    /\ history' = Front(history)
    /\ IF selected' = selected
       THEN UNCHANGED <<load, pass, generation, inspector, fetches>>
       ELSE OnSelect(selected', <<>>, load, pass, nodes, trailer)
    /\ UNCHANGED <<nodes, contents, trailer, pendingJump>>

-----------------------------------------------------------------------------
(* Answers.                                                                 *)

\* A pass yields its next elements: those up to `until`, of which `ok` were
\* readable.  An object may be unreadable, and is counted as an error; the trailer
\* and the pages come from what opening the file left behind.
Yields(req, until, ok) ==
    /\ pass[req] # NoPass
    /\ until \in pass[req]..Len(Elements(req))
    /\ ok \subseteq (pass[req] + 1)..until
    /\ {i \in (pass[req] + 1)..until : Elements(req)[i].kind # "object"} \subseteq ok

\* `apply_batch` adds nodes to the tree and learns the trailer.
Apply(req, ok) ==
    /\ nodes' = nodes \o Picks(Elements(req), {i \in ok : Elements(req)[i].kind # "trailer"})
    /\ trailer' = (trailer \/ \E i \in ok : Elements(req)[i] = TrailerNode)

\* A full batch while the pass goes on.
TreeBatch(req, until, ok) ==
    /\ Yields(req, until, ok)
    /\ Cardinality(ok) = Batch /\ until \in ok
    /\ Apply(req, ok)
    /\ pass' = [pass EXCEPT ![req] = until]
    /\ UNCHANGED <<load, contents, selectionVars, keys>>

\* Mutant of TreeDone: A jump that cannot be made yet is not deferred again.
TreeDoneTaking(req, ok) ==
    /\ Yields(req, Len(Elements(req)), ok)
    /\ Cardinality(ok) < Batch
    /\ Apply(req, ok)
    /\ LET jumps == pendingJump # NoRef /\ Found(nodes', pendingJump)
       IN  /\ selected' = IF jumps THEN ObjectNode(pendingJump) ELSE selected
           /\ history' = IF jumps THEN Remember(history, selected) ELSE history
           /\ pendingJump' = NoRef
           /\ OnSelect(selected', IF jumps THEN <<selected'>> ELSE <<>>,
                       [load EXCEPT ![req] = "Loaded"], [pass EXCEPT ![req] = NoPass],
                       nodes', trailer')
    /\ UNCHANGED <<contents, keys>>

\* The last batch.  The deferred jump is taken, whichever pass it was deferred
\* behind; then the selection is refreshed.
TreeDone(req, ok) ==
    /\ Yields(req, Len(Elements(req)), ok)
    /\ Cardinality(ok) < Batch
    /\ Apply(req, ok)
    /\ LET ld    == [load EXCEPT ![req] = "Loaded"]
           ps    == [pass EXCEPT ![req] = NoPass]
           jumps == pendingJump # NoRef /\ Found(nodes', pendingJump)
           again == pendingJump # NoRef /\ ~jumps /\ ld["physical"] = "Loading"
       IN  /\ selected' = IF jumps THEN ObjectNode(pendingJump) ELSE selected
           /\ history' = IF jumps THEN Remember(history, selected) ELSE history
           /\ pendingJump' = IF again THEN pendingJump ELSE NoRef
           /\ OnSelect(selected', IF jumps THEN <<selected'>> ELSE <<>>, ld, ps,
                       nodes', trailer')
    /\ UNCHANGED <<contents, keys>>

\* `ContentsLoaded`: `apply_contents` adds the page's streams, if it has not yet.
ContentsLoaded(i) ==
    /\ contents[i].tasks > 0
    /\ contents' = [contents EXCEPT ![i] =
          [load |-> "Loaded", tasks |-> contents[i].tasks - 1,
           streams |-> IF contents[i].load = "Loaded" THEN contents[i].streams
                       ELSE contents[i].streams \o PageContents[i]]]
    /\ UNCHANGED <<load, pass, nodes, trailer, selectionVars, keys>>

\* `ContentsFailed`, of a read that failed or a page that is no dictionary.
ContentsFailed(i) ==
    /\ contents[i].tasks > 0
    /\ contents' = [contents EXCEPT ![i] =
          [load |-> "Failed", tasks |-> contents[i].tasks - 1,
           streams |-> contents[i].streams]]
    /\ UNCHANGED <<load, pass, nodes, trailer, selectionVars, keys>>

\* Mutant of Answered: an answer is shown whatever was asked for since.
AnsweredLate(f, what) ==
    /\ f \in fetches
    /\ fetches' = fetches \ {f}
    /\ inspector' = [about |-> ObjectNode(f.r), shows |-> what]
    /\ UNCHANGED <<treeVars, selected, history, pendingJump, generation, keys>>

\* Mutant of Answered: only an object clears the placeholder.
AnsweredIfObject(f, what) ==
    /\ f \in fetches
    /\ fetches' = fetches \ {f}
    /\ inspector' = IF f.generation = generation /\ what = "object"
                    THEN [inspector EXCEPT !.shows = what, !.about.r = f.r] ELSE inspector
    /\ UNCHANGED <<treeVars, selected, history, pendingJump, generation, keys>>

\* `InspectorLoaded` or `InspectorFailed`: one for an earlier selection is
\* dropped.  An object is shown under its own number, an error under the title.
Answered(f, what) ==
    /\ f \in fetches
    /\ fetches' = fetches \ {f}
    /\ inspector' = IF f.generation # generation THEN inspector
                    ELSE [inspector EXCEPT !.shows = what, !.about.r = f.r]
    /\ UNCHANGED <<treeVars, selected, history, pendingJump, generation, keys>>

-----------------------------------------------------------------------------
Key ==
    \/ \E n \in TreeNodes : Move(n)
    \/ \E req \in Passes : Expand(req)
    \/ \E i \in PageIndexes : ExpandContents(i)
    \/ \E r \in Refs : Jump(r)
    \/ Back

PassEnds(req) == \E ok \in SUBSET (1..Len(Elements(req))) : TreeDone(req, ok)

PassYields(req) ==
    \E until \in 1..Len(Elements(req)), ok \in SUBSET (1..Len(Elements(req))) :
        TreeBatch(req, until, ok)

ContentsEnd == \E i \in PageIndexes : ContentsLoaded(i) \/ ContentsFailed(i)

FetchEnds == \E f \in fetches, what \in {"object", "error"} : Answered(f, what)

Next ==
    \/ Key
    \/ \E req \in Passes : PassYields(req) \/ PassEnds(req)
    \/ ContentsEnd
    \/ FetchEnds

Spec == Init /\ [][Next]_vars

\* The runtime runs the tasks and `select!` takes their answers.
Fairness ==
    /\ \A req \in Passes : WF_vars(PassYields(req) \/ PassEnds(req))
    /\ WF_vars(ContentsEnd)
    /\ WF_vars(FetchEnds)

FairSpec == Spec /\ Fairness

-----------------------------------------------------------------------------
\* Whatever is selected stops saying "loading": an object, page or stream when the
\* fetch of its selection, and no other, is answered or fails, the trailer when the
\* physical pass ends (app.rs 265-314, 884-898).
ObjectsGetShown == inspector.shows = "loading" ~> inspector.shows # "loading"
=============================================================================
