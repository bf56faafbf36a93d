------------------------------ MODULE Overlay -------------------------------
(***************************************************************************)
(* Incremental updates (`Overlay`, `Update`, pdfboss-write/src/update.rs): *)
(* a file is a chain of sections, the newest first in the reader's eyes;   *)
(* an update stages changes and numbers over it and is appended as one     *)
(* more section, after which the file may be opened for the next update.   *)
(*                                                                         *)
(* Object generations are left out: the reader ignores them (`get`,        *)
(* pdfboss-core/src/document.rs).  Byte offsets are too: a row holds the   *)
(* body the reader finds there.                                            *)
(***************************************************************************)
EXTENDS Integers, Sequences, FiniteSets

CONSTANTS
    Bodies,      \* object bodies
    XRefBody,    \* the body of an appended cross-reference stream
    CallerNums,  \* numbers callers pass to `set` and `remove`, 0 included
    Base,        \* the first section of the file: a set of rows
    Declared,    \* the `/Size` the base declares, which may be wrong
    BaseInfo,    \* the base's `/Info` number, or 0 when it has none
    BaseXmp,     \* the number the catalog's `/Metadata` names, or 0
    Styles,      \* the cross-reference styles bases come in: "Table", "Stream"
    MaxNum,      \* the largest object number (u32::MAX in the code)
    Limit,       \* bound: numbers from here on are not reserved
    MaxChanges,  \* bound: changes staged in one update
    MaxSections  \* bound: sections in the file

\* An object in the file, or a free entry naming the next one in its chain.
InFile(n, body) == [num |-> n, type |-> "n", body |-> body, next |-> 0]
FreeRow(n, next) == [num |-> n, type |-> "f", body |-> XRefBody, next |-> next]
Rows == [num : 0..MaxNum, type : {"n", "f"}, body : Bodies \cup {XRefBody}, next : 0..MaxNum]

ASSUME OverlayAssumption ==
    /\ MaxNum \in Nat \ {0} /\ Limit \in Nat
    /\ CallerNums \subseteq 0..MaxNum /\ XRefBody \notin Bodies
    /\ Declared \in Nat /\ BaseInfo \in Nat
    /\ Base \in SUBSET Rows
    /\ \A row \in Base : row.num < MaxNum
    /\ Declared <= MaxNum /\ BaseInfo <= MaxNum /\ BaseXmp \in 0..MaxNum

VARIABLES
    file,     \* the file's sections, oldest first: [rows, size, info, style]
    open,     \* whether an update is being built
    next,     \* `next`: the next free object number
    log,      \* `objects`: the changes, in the order they were recorded
    info,     \* `info`: the number set for `/Info`, or 0
    handed    \* the numbers `reserve` and `put` returned, in order

stageVars == <<next, log, info, handed>>
vars == <<file, open, stageVars>>

\* A change: `Set` of a body or `Free`.
SetTo(n, body) == [num |-> n, free |-> FALSE, body |-> body]
Freed(n) == [num |-> n, free |-> TRUE, body |-> XRefBody]
Changes == [num : 1..MaxNum, free : BOOLEAN, body : Bodies \cup {XRefBody}]

TypeOK ==
    /\ open \in BOOLEAN
    /\ next \in 0..(MaxNum + 1)
    /\ log \in Seq(Changes)
    /\ info \in 0..MaxNum
    /\ handed \in Seq(0..MaxNum)

Init ==
    /\ \E s \in Styles :
          file = <<[rows |-> Base, size |-> Declared, info |-> BaseInfo, style |-> s]>>
    /\ open = FALSE
    /\ next = 0 /\ log = <<>> /\ info = 0 /\ handed = <<>>

-----------------------------------------------------------------------------
\* All the numbers the file's sections have rows for.
Numbered == UNION {{row.num : row \in file[i].rows} : i \in DOMAIN file}
Newest == file[Len(file)]

\* `Style::of` the base: an appended section has the style of the newest one.
Style == Newest.style

\* What a reader finds under n: the newest row for it wins, a free one or none
\* at all reads as absent (xref.rs: the first entry seen is kept).
RowsFor(n) == {i \in DOMAIN file : \E row \in file[i].rows : row.num = n}
ReadsAs(n, absent) ==
    IF RowsFor(n) = {} THEN absent
    ELSE LET i   == CHOOSE j \in RowsFor(n) : \A k \in RowsFor(n) : k <= j
             row == CHOOSE x \in file[i].rows : x.num = n
         IN  IF row.type = "n" THEN row.body ELSE absent
InUse(n) == \E body \in Bodies \cup {XRefBody} : ReadsAs(n, XRefBody) = body /\ body # XRefBody

\* `from_document`: the first number above the declared size's and every row's.
FirstFree(n) ==
    /\ n >= Newest.size
    /\ \A m \in Numbered \cup {0} : m < n
    /\ n = Newest.size \/ \E m \in Numbered \cup {0} : n = m + 1

\* Mutant of Open: the declared size is taken at its word.
OpenTrusting ==
    /\ ~open /\ Len(file) < MaxSections
    /\ open' = TRUE
    /\ next' = Newest.size
    /\ log' = <<>> /\ info' = 0 /\ handed' = <<>>
    /\ UNCHANGED file

Open ==
    /\ ~open /\ Len(file) < MaxSections
    /\ open' = TRUE
    /\ next' \in {n \in {Newest.size} \cup {m + 1 : m \in Numbered \cup {0}} : FirstFree(n)}
    /\ log' = <<>> /\ info' = 0 /\ handed' = <<>>
    /\ UNCHANGED file

\* The update's value is dropped.
Drop == open' = FALSE /\ next' = 0 /\ log' = <<>> /\ info' = 0 /\ handed' = <<>>

\* It is dropped without being written.
Discard == open /\ Drop /\ UNCHANGED file

-----------------------------------------------------------------------------
\* `num.saturating_add(1)`: the next number stays past a recorded one.
Past(n, from) ==
    LET above == IF n < MaxNum THEN n + 1 ELSE MaxNum
    IN  IF above > from THEN above ELSE from

\* Mutant of Raised: the next free number is left where it was.
RaisedNever(change, from) == from

\* Recording a change, unless it is of number 0.
Raised(change, from) == IF change.num = 0 THEN from ELSE Past(change.num, from)

Recorded(change, changes) == IF change.num = 0 THEN changes ELSE Append(changes, change)

Record(change, from) ==
    /\ next' = Raised(change, from)
    /\ log' = Recorded(change, log)

Staging == open /\ Len(log) < MaxChanges

Set(n, body) ==
    /\ Staging
    /\ Record(SetTo(n, body), next)
    /\ UNCHANGED <<file, open, info, handed>>

Remove(n) ==
    /\ Staging
    /\ Record(Freed(n), next)
    /\ UNCHANGED <<file, open, info, handed>>

\* `reserve`: a number is handed out, and the next one wraps at the width.
Allocated == next < Limit /\ handed' = Append(handed, next)
AfterAllocation == IF next = MaxNum THEN 0 ELSE next + 1

Reserve ==
    /\ Staging /\ Len(handed) < MaxChanges
    /\ Allocated
    /\ next' = AfterAllocation
    /\ UNCHANGED <<file, open, log, info>>

Put(body) ==
    /\ Staging /\ Len(handed) < MaxChanges
    /\ Allocated
    /\ Record(SetTo(next, body), AfterAllocation)
    /\ UNCHANGED <<file, open, info>>

\* `set_metadata`: the dictionary is the base's under the number in force, and
\* goes back there; without one it goes to a new number.  The XMP packet the
\* catalog names is rewritten with it.
InfoNow == IF info # 0 THEN info ELSE Newest.info

SetMetadata(body) ==
    /\ Staging /\ Len(handed) < MaxChanges
    /\ \E target, from \in 0..MaxNum :
          /\ IF InfoNow # 0 /\ InUse(InfoNow)
             THEN target = InfoNow /\ from = next /\ UNCHANGED handed
             ELSE target = next /\ from = AfterAllocation /\ Allocated
          /\ info' = target
          /\ next' = Raised(SetTo(BaseXmp, body), Raised(SetTo(target, body), from))
          /\ log' = Recorded(SetTo(BaseXmp, body), Recorded(SetTo(target, body), log))
    /\ UNCHANGED <<file, open>>

-----------------------------------------------------------------------------
\* `section`: the last change recorded for a number is the one that counts.
\* Mutant of Winners: the first change of a number is the one that counts.
FirstChanges == {log[i] : i \in {k \in DOMAIN log : \A j \in 1..(k - 1) : log[j].num # log[k].num}}

Winners == {log[i] : i \in {k \in DOMAIN log : \A j \in (k + 1)..Len(log) : log[j].num # log[k].num}}
FreedNums == {change.num : change \in {c \in Winners : c.free}}

\* The next free entry after n's: that of the next freed number, or entry 0's.
Follows(n, m) ==
    IF m = 0 THEN \A k \in FreedNums : k <= n
    ELSE m > n /\ \A k \in FreedNums : k <= n \/ k >= m
Chained == FreedNums \cup {0}

\* Mutant of FreeRows: every free entry links back to the head.
FreeRowsUnchained ==
    IF FreedNums = {} THEN {} ELSE {FreeRow(n, 0) : n \in Chained}

\* Entry 0 heads the chain of the section's own free entries.
FreeRows ==
    IF FreedNums = {} THEN {}
    ELSE {FreeRow(p[1], p[2]) : p \in {q \in Chained \X Chained : Follows(q[1], q[2])}}

\* A cross-reference stream has a row for itself, under the next number.
StreamRows == IF Style = "Stream" THEN {InFile(next, XRefBody)} ELSE {}

SectionRows ==
    {InFile(c.num, c.body) : c \in {w \in Winners : ~w.free}} \cup FreeRows \cup StreamRows

\* `append_into`, `save`: an update without changes is refused.  A bound keeps
\* room for the stream's own number.
AppendSection ==
    /\ open /\ log # <<>>
    /\ Style = "Stream" => next < Limit
    /\ file' = Append(file, [rows |-> SectionRows,
                             size |-> IF Style = "Stream" THEN next + 1 ELSE next,
                             info |-> InfoNow, style |-> Style])
    /\ Drop

Next ==
    \/ Open \/ Discard \/ AppendSection
    \/ \E n \in CallerNums : Remove(n) \/ \E body \in Bodies : Set(n, body)
    \/ Reserve
    \/ \E body \in Bodies : Put(body) \/ SetMetadata(body)

Spec == Init /\ [][Next]_vars

-----------------------------------------------------------------------------
\* The numbers in use stay below the width of their type: callers choose none
\* that is the largest, nor does the catalog, and reserving stops before it.
NumbersFit == Limit <= MaxNum /\ \A n \in CallerNums \cup {BaseXmp} : n < MaxNum

\* The invariant the properties below rest on: whatever is in the file, was
\* recorded or was handed out lies below the next free number.
FileInv ==
    /\ file \in Seq([rows : SUBSET Rows, size : 0..MaxNum, info : 0..MaxNum, style : Styles])
    /\ file # <<>>
    /\ \A n \in Numbered : n < MaxNum
StageInv ==
    open => /\ next \in 1..MaxNum
            /\ \A n \in Numbered : n < next
            /\ \A i \in DOMAIN log : log[i].num < next
            /\ \A i \in DOMAIN handed : handed[i] < next

\* "A later reserve/put never collides with a caller-chosen number"
\* (update.rs 483-486), nor with a number of the base, whatever it declares, nor
\* with another one handed out.
FreshNumbers ==
    [][handed' # handed /\ handed' # <<>>
         => /\ handed'[Len(handed')] \notin Numbered
            /\ \A i \in DOMAIN handed : handed'[Len(handed')] # handed[i]
            /\ \A i \in DOMAIN log : handed'[Len(handed')] # log[i].num]_vars

\* "The appended cross-reference data never carries two rows for one number"
\* (update.rs 549-551), the stream's own row and entry 0's included.
OneRowPerNumber ==
    \A i \in 2..Len(file) : \A x, y \in file[i].rows : x.num = y.num => x = y

\* An appended section's `/Size` is above every number the file has by then.
SizeCovers ==
    \A i \in 2..Len(file) : \A j \in 1..i : \A row \in file[j].rows : row.num < file[i].size

\* From entry 0, the free entries of an appended section form one ascending
\* chain through all of them and back to 0 (update.rs 575-591).
FreeChain ==
    \A i \in 2..Len(file) :
        LET free == {row \in file[i].rows : row.type = "f"}
        IN  free # {} =>
              /\ {row.next : row \in free} = {row.num : row \in free}
              /\ \A row \in free : row.next = 0 \/ row.next > row.num

\* What a reader of the file finds, and what the changes make of it one after
\* the other.  Cross-reference streams are not content.
Seqs == INSTANCE SequencesExt
View == [n \in 0..MaxNum |-> ReadsAs(n, XRefBody)]
Replay(view, changes) ==
    Seqs!FoldLeft(LAMBDA objects, change : [objects EXCEPT ![change.num] = change.body],
                  view, changes)
Replayed == Replay(View, log)

Promise == INSTANCE Revisions WITH
    Numbers  <- 0..MaxNum,
    Absent   <- XRefBody,
    contents <- View,
    pending  <- IF open THEN Replayed ELSE [n \in {} |-> XRefBody]

\* Appending a section gives the file exactly the staged version, whatever was
\* set, freed and set again, over every earlier section (update.rs 545-608).
ImplementsRevisions == Promise!RevSpec
=============================================================================
