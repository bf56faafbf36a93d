------------------------------ MODULE Importer ------------------------------
(***************************************************************************)
(* `Importer` (pdfboss-write/src/importer.rs) and the slots of the         *)
(* `Writer` it copies into (writer.rs), driven the way `merge_documents`   *)
(* and `copy_pages_with` (assemble.rs) drive them: object graphs, cycles   *)
(* included, are copied by reserving a slot per reference and draining a   *)
(* queue.  Each `get` of the drain is an await at which the source may     *)
(* fail or the caller may drop the call and go on with the importer.       *)
(*                                                                         *)
(* A body is the set of references in it.  The order in which a dictionary *)
(* lists them is arbitrary, so the numbers and the queue are too.          *)
(***************************************************************************)
EXTENDS Integers, Sequences, FiniteSets, Functions

CONSTANTS
    Objects,      \* object numbers of the sources
    Root,         \* the one their trailers name
    NoObj,        \* no object
    Files,        \* the sources: functions from Objects to Node
    MaxImporters, \* bound: sources copied into one writer
    MaxCalls      \* bound: calls made to the importers

\* An object: the references it holds, its /Parent, the references a page
\* inherits, and whether it is a page, one inlined into /Kids, or unreadable.
Node == [refs : SUBSET Objects, parent : Objects \cup {NoObj}, inherited : SUBSET Objects,
         type : {"plain", "page", "inline", "unreadable"}]

ASSUME ImporterAssumption ==
    /\ IsFiniteSet(Objects) /\ Root \in Objects /\ NoObj \notin Objects
    /\ Files \subseteq [Objects -> Node]
    /\ MaxImporters \in Nat \ {0} /\ MaxCalls \in Nat

VARIABLES
    slots,         \* `slots` of the writer, with the source object of each
    inputs,        \* the sources so far; the last one is being copied
    map,           \* `map`: from source objects to slots
    pending,       \* `pending`: what is left to copy, a stack
    substitutions, \* `substitutions`: bodies that replace source objects
    drawn,         \* the object the drain awaits, or NoObj
    call,          \* the call under way: "none", "finish", or the page it makes
    kids,          \* the pages returned by calls so far
    calls,         \* calls left
    outcome,       \* of the writer: "open", "written" or "refused"
    lost           \* history: the origins of slots nobody will fill

copyVars == <<slots, map, pending, substitutions>>
vars == <<slots, inputs, map, pending, substitutions, drawn, call, kids, calls, outcome, lost>>

Turn == Len(inputs)
Source == inputs[Turn]
Slots == 1..Len(slots)

\* A slot: its origin, and its body once it is filled.  Slot 1 is the page
\* tree's node, which the caller reserves first.
Origins == (0..MaxImporters) \X (Objects \cup {NoObj})
Reserved(from) == [from |-> from, full |-> FALSE, refs |-> {}, parent |-> 0, type |-> "copy"]
Filled(from, refs, parent, type) ==
    [from |-> from, full |-> TRUE, refs |-> refs, parent |-> parent, type |-> type]
PagesRef == 1

SlotType == [from : Origins, full : BOOLEAN, refs : SUBSET Nat, parent : Nat,
             type : {"copy", "page", "substitute", "tree"}]

\* The result a call is to have: a page, or for `document` none.
CallType == [slot : Nat, page : Objects \cup {NoObj}, first : BOOLEAN]
Finishing == [slot |-> 0, page |-> NoObj, first |-> FALSE]
Idle == [slot |-> -1, page |-> NoObj, first |-> FALSE]

TypeOK ==
    /\ slots \in Seq(SlotType) /\ slots # <<>>
    /\ inputs \in Seq(Files) /\ Turn \in 1..MaxImporters
    /\ DOMAIN map \subseteq Objects /\ map \in [DOMAIN map -> Slots]
    /\ pending \in Seq(Objects)
    /\ DOMAIN substitutions \subseteq Objects
    /\ substitutions \in [DOMAIN substitutions -> SlotType]
    /\ drawn \in Objects \cup {NoObj}
    /\ call \in CallType \cup {Idle} /\ kids \in Seq(CallType)
    /\ calls \in 0..MaxCalls
    /\ outcome \in {"open", "written", "refused"}

Init ==
    /\ slots = <<Reserved(<<0, NoObj>>)>>
    /\ \E f \in Files : inputs = <<f>>
    /\ map = <<>> /\ pending = <<>> /\ substitutions = <<>>
    /\ drawn = NoObj /\ call = Idle
    /\ kids = <<>> /\ calls = MaxCalls
    /\ outcome = "open" /\ lost = {}

-----------------------------------------------------------------------------
\* Mutant of Unseen: Nothing is remembered.
UnseenEver(S) == S

\* The references of S met for the first time, and the orders to meet them in.
Unseen(S) == S \ DOMAIN map
Orders(S) == Bijection(1..Cardinality(S), S)

\* `reference`, for each of the sequence `order`: a slot, a number, the queue.
Numbered(order) ==
    [r \in DOMAIN map \cup Range(order) |->
        IF r \in DOMAIN map THEN map[r]
        ELSE Len(slots) + CHOOSE i \in DOMAIN order : order[i] = r]
Grown(order) == slots \o [i \in DOMAIN order |-> Reserved(<<Turn, order[i]>>)]

\* Mutant of Queued: The object at hand is queued again though it has its slot.
QueuedAgain(order) == pending \o order \o (IF pending # <<>> THEN <<Head(pending)>> ELSE <<>>)

\* Mutant of Queued: What a dictionary lists last is reserved only.
QueuedButLast(order) == pending \o SubSeq(order, 1, Len(order) - 1)

Queued(order) == pending \o order

\* `copy`: the same references, renumbered.
Renumbered(refs, order) == {Numbered(order)[r] : r \in refs}

Ready == call = Idle /\ calls > 0 /\ outcome = "open"

\* `reference`, called from outside; the queue is drained by a later call.
Reference(r) ==
    /\ Ready
    /\ \E order \in Orders(Unseen({r})) :
          slots' = Grown(order) /\ map' = Numbered(order) /\ pending' = Queued(order)
    /\ calls' = calls - 1
    /\ UNCHANGED <<inputs, substitutions, drawn, call, kids, outcome, lost>>

\* `copy` and `substitute`, as the callers that change one object make them.
Substitute(r) ==
    /\ Ready
    /\ \E order \in Orders(Unseen(Source[r].refs)) :
          /\ slots' = Grown(order) /\ map' = Numbered(order) /\ pending' = Queued(order)
          /\ substitutions' = [x \in DOMAIN substitutions \cup {r} |->
                 IF x = r THEN Filled(<<Turn, r>>, Renumbered(Source[r].refs, order), 0, "substitute")
                 ELSE substitutions[x]]
    /\ calls' = calls - 1
    /\ UNCHANGED <<inputs, drawn, call, kids, outcome, lost>>

\* `document`: the catalog is referenced, and the queue drained.
Document ==
    /\ Ready
    /\ \E order \in Orders(Unseen({Root})) :
          slots' = Grown(order) /\ map' = Numbered(order) /\ pending' = Queued(order)
    /\ call' = Finishing
    /\ calls' = calls - 1
    /\ UNCHANGED <<inputs, substitutions, drawn, kids, outcome, lost>>

\* Mutant of Page: A page that was copied before is returned again.
PageShared(p) ==
    /\ Ready
    /\ Source[p].type = "page" /\ p \in DOMAIN map
    /\ call' = [slot |-> map[p], page |-> p, first |-> FALSE]
    /\ calls' = calls - 1
    /\ UNCHANGED <<copyVars, inputs, drawn, kids, outcome, lost>>

\* `page_with`: the dictionary without /Parent is copied first, and then the
\* page is given its place: its own slot when that copy and the calls before
\* left it unmet, a slot outside the map otherwise.
Page(p) ==
    /\ Ready
    /\ Source[p].type \in {"page", "inline"}
    /\ LET refs == Source[p].refs \cup Source[p].inherited
       IN  \E order \in Orders(Unseen(refs)) :
             LET body  == Filled(<<Turn, p>>, Renumbered(refs, order), PagesRef, "page")
                 unmet == Source[p].type = "page" /\ p \notin DOMAIN map \cup refs
                 all   == IF unmet THEN Append(order, p) ELSE order
                 slot  == Len(slots) + Len(order) + 1
             IN  /\ map' = Numbered(all)
                 /\ pending' = Queued(all)
                 /\ slots' = IF unmet THEN Grown(all) ELSE Append(Grown(all), body)
                 /\ substitutions' = IF ~unmet THEN substitutions
                                     ELSE [x \in DOMAIN substitutions \cup {p} |->
                                              IF x = p THEN body ELSE substitutions[x]]
                 /\ call' = [slot |-> slot, page |-> p,
                             first |-> Source[p].type = "page" /\ p \notin DOMAIN map]
    /\ calls' = calls - 1
    /\ UNCHANGED <<inputs, drawn, kids, outcome, lost>>

-----------------------------------------------------------------------------
Draining == call # Idle /\ drawn = NoObj /\ pending # <<>>
Top == pending[Len(pending)]

\* Mutant of Popped: The stack is only looked at.
Peeked == pending

Popped == SubSeq(pending, 1, Len(pending) - 1)

\* `fill`, which refuses a slot that is full.
Fill(grown, n, body) ==
    /\ ~slots[n].full
    /\ slots' = [grown EXCEPT ![n] = body]

\* `finish_with`, one turn of its loop: a substituted object needs no source.
FillSubstitute ==
    /\ Draining
    /\ Top \in DOMAIN substitutions
    /\ Fill(slots, map[Top], substitutions[Top])
    /\ substitutions' = [x \in DOMAIN substitutions \ {Top} |-> substitutions[x]]
    /\ pending' = Popped
    /\ UNCHANGED <<inputs, map, drawn, call, kids, calls, outcome, lost>>

\* Any other is asked of the source.
Draw ==
    /\ Draining
    /\ Top \notin DOMAIN substitutions
    /\ drawn' = Top
    /\ pending' = Popped
    /\ UNCHANGED <<slots, inputs, map, substitutions, call, kids, calls, outcome, lost>>

Copy ==
    /\ drawn # NoObj /\ Source[drawn].type # "unreadable"
    /\ LET node == Source[drawn]
           refs == node.refs \cup ({node.parent} \ {NoObj})
       IN  \E order \in Orders(Unseen(refs)) :
              /\ Fill(Grown(order), map[drawn],
                      Filled(<<Turn, drawn>>, Renumbered(node.refs, order),
                             IF node.parent = NoObj THEN 0 ELSE Numbered(order)[node.parent],
                             "copy"))
              /\ map' = Numbered(order)
              /\ pending' = Queued(order)
    /\ drawn' = NoObj
    /\ UNCHANGED <<inputs, substitutions, call, kids, calls, outcome, lost>>

\* The call ends without its result; the object it had popped is forgotten.
GiveUp ==
    /\ lost' = lost \cup {<<Turn, drawn>>}
    /\ drawn' = NoObj /\ call' = Idle
    /\ UNCHANGED <<copyVars, inputs, kids, calls, outcome>>

CopyFails == drawn # NoObj /\ Source[drawn].type = "unreadable" /\ GiveUp

\* The caller drops the future at its await.
DropCall == drawn # NoObj /\ GiveUp

\* The queue is empty: `finish_with` returns, and `page_with` its page.
Return ==
    /\ call # Idle /\ drawn = NoObj /\ pending = <<>>
    /\ kids' = IF call = Finishing THEN kids ELSE Append(kids, call)
    /\ call' = Idle
    /\ UNCHANGED <<copyVars, inputs, drawn, calls, outcome, lost>>

-----------------------------------------------------------------------------
\* What an importer dropped with a queue never copies.
Forgotten == {<<Turn, pending[i]>> : i \in DOMAIN pending}

\* Mutant of NextSource: The memo of the last source is kept.
NextSourceKeepingMap ==
    /\ call = Idle /\ outcome = "open" /\ Turn < MaxImporters
    /\ \E f \in Files : inputs' = Append(inputs, f)
    /\ pending' = <<>> /\ substitutions' = <<>>
    /\ lost' = lost \cup Forgotten
    /\ UNCHANGED <<slots, map, drawn, call, kids, calls, outcome>>

\* The next importer over the same writer.
NextSource ==
    /\ call = Idle /\ outcome = "open" /\ Turn < MaxImporters
    /\ \E f \in Files : inputs' = Append(inputs, f)
    /\ map' = <<>> /\ pending' = <<>> /\ substitutions' = <<>>
    /\ lost' = lost \cup Forgotten
    /\ UNCHANGED <<slots, drawn, call, kids, calls, outcome>>

\* `page_tree_catalog` and `Writer::finish`: the page tree's node is filled, and
\* a slot left reserved refuses the file.
Finish ==
    /\ call = Idle /\ outcome = "open" /\ kids # <<>>
    /\ slots' = [slots EXCEPT ![PagesRef] =
                    Filled(@.from, {kids[i].slot : i \in DOMAIN kids}, 0, "tree")]
    /\ outcome' = IF \A n \in Slots \ {PagesRef} : slots[n].full THEN "written" ELSE "refused"
    /\ lost' = lost \cup Forgotten
    /\ UNCHANGED <<inputs, map, pending, substitutions, drawn, call, kids, calls>>

Drain == FillSubstitute \/ Draw \/ Copy \/ CopyFails \/ Return

Next ==
    \/ \E r \in Objects : Reference(r) \/ Substitute(r) \/ Page(r)
    \/ Document \/ Drain \/ DropCall
    \/ NextSource \/ Finish

Spec == Init /\ [][Next]_vars

\* The executor polls a call that was begun, and the source answers.
FairSpec == Spec /\ WF_vars(Drain)

-----------------------------------------------------------------------------
\* The state is well typed, every number in the map one of the writer's, and
\* `fill` never finds a slot full (writer.rs 171): whatever waits to be copied
\* waits once, under its own number, and has not been copied yet.
NeverFilledTwice ==
    /\ TypeOK
    /\ \A i \in DOMAIN pending : ~slots[map[pending[i]]].full /\ pending[i] # drawn
    /\ \A i, j \in DOMAIN pending : pending[i] = pending[j] => i = j
    /\ drawn # NoObj => ~slots[map[drawn]].full

\* The strengthening its proof needs, of slots sl, a map m, a queue pe and the
\* object dr that is drawn: the map gives every object a slot of its own, and
\* never the page tree's; what waits or is drawn is in the map, once, unfilled.
Sound(sl, m, pe, dr) ==
    /\ \A x \in DOMAIN m : m[x] \in 2..Len(sl)
    /\ \A x, y \in DOMAIN m : m[x] = m[y] => x = y
    /\ \A i \in 1..Len(pe) : pe[i] \in DOMAIN m /\ pe[i] # dr /\ ~sl[m[pe[i]]].full
    /\ \A i, j \in 1..Len(pe) : pe[i] = pe[j] => i = j
    /\ dr # NoObj => dr \in DOMAIN m /\ ~sl[m[dr]].full

\* Only a call under way draws.
DrawnByACall == drawn # NoObj => call # Idle

IInv == TypeOK /\ Sound(slots, map, pending, drawn) /\ DrawnByACall

\* A slot still reserved is one the drain will come to, or one whose object was
\* popped by a call that failed or was dropped (importer.rs 180-185), or left in
\* the queue of a dropped importer.  No other path leaves a hole, and a file with
\* one is not written: every reference in it finds an object (writer.rs 232-241).
HolesAccountedFor ==
    /\ \A n \in Slots \ {PagesRef} :
          ~slots[n].full => \/ slots[n].from \in lost
                            \/ slots[n].from = <<Turn, drawn>>
                            \/ slots[n].from \in Forgotten
    /\ outcome = "written" => \A n \in Slots : slots[n].full /\ slots[n].refs \subseteq Slots

\* What a slot was made from: the source objects its references came from.
MadeFrom(n) == {slots[m].from : m \in slots[n].refs}

\* The copy has the shape of the source, cycles and sharing included, and never
\* reaches into the copy of another source: references lead to the copies of
\* what the originals lead to, and two of them to one slot only if they named
\* one object (importer.rs 20-24).
CopyHasTheShape ==
    /\ \A n \in Slots :
          slots[n].full /\ slots[n].type \in {"copy", "substitute"}
          => LET from == slots[n].from
             IN  /\ MadeFrom(n) = {from[1]} \X inputs[from[1]][from[2]].refs
                 /\ slots[n].parent # 0
                    => slots[slots[n].parent].from = <<from[1], inputs[from[1]][from[2]].parent>>
    /\ \A n, m \in UNION {slots[k].refs : k \in Slots \ {PagesRef}} :
          slots[n].from = slots[m].from => n = m

\* "Every call gets its own page object" under the caller's node, whatever was
\* copied before (importer.rs 203-207).
PagesAreTheirOwn ==
    \A i \in DOMAIN kids :
        /\ \A j \in DOMAIN kids : kids[i].slot = kids[j].slot => i = j
        /\ slots[kids[i].slot].full
        /\ slots[kids[i].slot].type \in {"page", "substitute"}
        /\ slots[kids[i].slot].type = "page" => slots[kids[i].slot].parent = PagesRef
        /\ slots[kids[i].slot].from[2] = kids[i].page

\* A call returns, by its result or an error, cyclic graphs included
\* (importer.rs 1-5).
CallsReturn == call # Idle ~> call = Idle

\* "That call keeps the page's source-graph identity (so an /Annots /P
\* back-reference elsewhere in the graph resolves to this same object rather
\* than a duplicate)": the very first call that sees a page (importer.rs 208-212).
FirstImportKeepsIdentity ==
    \A i \in DOMAIN kids :
        kids[i].first /\ slots[kids[i].slot].from[1] = Turn => map[kids[i].page] = kids[i].slot
=============================================================================
