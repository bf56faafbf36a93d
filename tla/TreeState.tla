----------------------------- MODULE TreeState ------------------------------
(***************************************************************************)
(* The state of the explorer's tree and of what is shown of its selection, *)
(* and what it promises (`TreeState` of pdfboss-tui/src/tree.rs, `App`).   *)
(* `TuiExplorer` has the steps.                                            *)
(***************************************************************************)
EXTENDS Integers, Sequences, FiniteSets, SequencesExt, Picks, Selection

CONSTANTS
    Physical,     \* the physical pass's elements: [kind: "object" or "trailer", r]
    Logical,      \* the logical pass's elements: [kind: "page", r, index]
    PageContents, \* by page index: the streams its /Contents names
    Refs,         \* references the user can follow; some name no object
    NoRef,        \* a node or a jump without a reference
    HistoryCap    \* `HISTORY_CAP` (64 in the code)

Folder(kind) == [kind |-> kind, r |-> NoRef]
Root == Folder("document")
TrailerNode == Folder("trailer")
Folders == {Root, TrailerNode, Folder("pages"), Folder("objects")}

PageIndexes == {Logical[j].index : j \in DOMAIN Logical}

\* A pass yields every object of the table, and every page, once; the trailer is
\* always among what the physical one yields.
FileIsListed ==
    /\ Physical \in Seq([kind : {"object", "trailer"}, r : Refs \cup {NoRef}])
    /\ Logical \in Seq([kind : {"page"}, r : Refs \cup {NoRef}, index : Nat])
    /\ IsInjective(Physical) /\ IsInjective(Logical)
    /\ TrailerNode \in ToSet(Physical)
    /\ \A i, j \in DOMAIN Logical : Logical[i].index = Logical[j].index => i = j
    /\ PageContents \in [PageIndexes -> Seq(Refs)]
    /\ NoRef \notin Refs

Passes == {"physical", "logical"}
Elements(req) == IF req = "physical" THEN Physical ELSE Logical

VARIABLES
    load,        \* load[req]: `physical` and `logical`
    pass,        \* pass[req]: how far the running pass has come, or NoPass
    nodes,       \* the object and page nodes, in the order they were added
    contents,    \* contents[i]: page i's Contents folder, see FolderStates
    history,     \* `history`: nodes to go Back to
    pendingJump, \* `pending_jump`, or NoRef
    inspector    \* the inspector: what it is titled and what it shows

NoPass == -1

\* The `load` of a Contents folder, the tasks still to answer for it, its children.
FolderStates == [load : {"NotLoaded", "Loading", "Loaded", "Failed"},
                 tasks : Nat, streams : Seq(Refs)]

ObjectNode(r) == [kind |-> "object", r |-> r]
ContentsNode(i) == [kind |-> "contents", r |-> NoRef, index |-> i]
StreamNode(i, k) == [kind |-> "stream", r |-> contents[i].streams[k], index |-> i, at |-> k]

\* A page comes with its Contents folder, and that with the streams loaded so far.
TreeNodes ==
    Folders \cup ToSet(nodes)
    \cup {ContentsNode(nodes[j].index) : j \in {k \in DOMAIN nodes : nodes[k].kind = "page"}}
    \cup UNION {{StreamNode(i, k) : k \in DOMAIN contents[i].streams} : i \in PageIndexes}

\* `find_object`.
Found(ns, r) == \E i \in DOMAIN ns : ns[i] = ObjectNode(r)

TreeTypes ==
    /\ load \in [Passes -> {"NotLoaded", "Loading", "Loaded"}]
    /\ \A req \in Passes : pass[req] \in -1..Len(Elements(req))
    /\ nodes \in Seq(ToSet(Physical) \cup ToSet(Logical))
    /\ contents \in [PageIndexes -> FolderStates]
    /\ selected \in TreeNodes /\ ToSet(history) \subseteq TreeNodes
    /\ Len(history) <= HistoryCap
    /\ pendingJump \in Refs \cup {NoRef}
    /\ inspector.shows \in {"message", "dict", "loading", "object", "error"}

\* The inspector is about the selected node, and an object in it is the one the
\* node names, whatever earlier fetches still answer (app.rs 288-314, 803-808).
InspectorFollowsSelection ==
    inspector.about = selected

\* A section or Contents folder is "Loading" exactly while one pass or one task will
\* still answer for it, so it is neither loaded twice at once nor waits for nobody
\* (tree.rs 210-241, 478-488).
LoadingIsBeingLoaded ==
    /\ \A req \in Passes : load[req] = "Loading" <=> pass[req] # NoPass
    /\ \A i \in PageIndexes :
          contents[i].tasks = IF contents[i].load = "Loading" THEN 1 ELSE 0

\* A Contents folder has no children or, once loaded, its page's streams.
StreamsAreThePages ==
    \A i \in PageIndexes :
        contents[i].streams = IF contents[i].load = "Loaded" THEN PageContents[i] ELSE <<>>

\* However often the load of a Contents folder fails and is asked for again, while
\* passes run and the selection moves, nothing is loaded twice at once, no folder
\* waits for nobody, and no object, page or stream is in the tree twice (tree.rs
\* 210-241, 290-294, 456-475).  The state is well typed and the history within its cap.
RetriesLoadOnce ==
    TreeTypes /\ LoadingIsBeingLoaded /\ IsInjective(nodes) /\ StreamsAreThePages

\* A jump waits only while the physical pass runs.
JumpsWait == pendingJump # NoRef => load["physical"] = "Loading"

\* A jump that waits no longer was made, or its object is not in the file.
JumpIsMade ==
    pendingJump # NoRef /\ pendingJump' = NoRef
    => \/ selected' = ObjectNode(pendingJump)
       \/ load'["physical"] = "Loaded" /\ ~Found(nodes', pendingJump)

\* A jump deferred behind the physical pass is taken, even when the logical pass ends
\* first: it stays deferred until the object is in the tree and selected, or the
\* whole physical pass has ended without it (app.rs 265-271, 739-765).
DeferredJumpTaken ==
    []JumpsWait /\ [][JumpIsMade]_<<selected, load, nodes, pendingJump>>
=============================================================================
