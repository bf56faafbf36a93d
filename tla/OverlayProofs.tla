--------------------------- MODULE OverlayProofs ----------------------------
(***************************************************************************)
(* Incremental updates proved for every base, style and number width, any  *)
(* number of changes, updates and sections: their numbering, the rows and  *)
(* the free chain of their sections, and that they implement Revisions.    *)
(***************************************************************************)
EXTENDS Overlay, WellFoundedInduction, FiniteSetTheorems, SequenceTheorems, TLAPS

Sections == [rows : SUBSET Rows, size : 0..MaxNum, info : 0..MaxNum, style : Styles]

IInv == TypeOK /\ FileInv /\ StageInv

-----------------------------------------------------------------------------
\* Facts about the constants and about an element of a sequence.
LEMMA Widths == MaxNum \in Nat /\ Limit \in Nat
BY OverlayAssumption

LEMMA Elements ==
    ASSUME NEW S, NEW s \in Seq(S)
    PROVE  \A i \in DOMAIN s : s[i] \in S
BY ElementOfSeq, LenProperties

\* A sequence that grows by one element has its old elements and that one.
LEMMA Grown ==
    ASSUME NEW S, NEW s \in Seq(S), NEW e \in S
    PROVE  /\ Append(s, e) \in Seq(S)
           /\ Append(s, e)[Len(Append(s, e))] = e
           /\ \A i \in DOMAIN Append(s, e) :
                 \/ i \in DOMAIN s /\ Append(s, e)[i] = s[i]
                 \/ i = Len(s) + 1 /\ Append(s, e)[i] = e
<1>1. DOMAIN s = 1..Len(s) /\ Len(s) \in Nat
  BY LenProperties
<1>2. DOMAIN Append(s, e) = 1..(Len(s) + 1)
  BY AppendProperties, LenProperties
<1>. QED
  BY <1>1, <1>2, AppendProperties

\* The numbers in the file are natural numbers.
LEMMA NumberedTyped ==
    ASSUME FileInv
    PROVE  Numbered \subseteq Nat /\ \A i \in DOMAIN file : file[i] \in Sections
<1>1. \A i \in DOMAIN file : file[i] \in Sections
  BY Elements DEF FileInv, Sections
<1>2. \A row \in Rows : row.num \in Nat
  BY Widths DEF Rows
<1>. QED
  BY <1>1, <1>2 DEF Numbered, Sections

LEMMA NewestTyped == FileInv => Newest \in Sections
<1>. SUFFICES ASSUME FileInv PROVE Newest \in Sections
  OBVIOUS
<1>1. Len(file) \in DOMAIN file
  BY LenProperties, EmptySeq DEF FileInv
<1>. QED
  BY <1>1, NumberedTyped DEF Newest

-----------------------------------------------------------------------------
LEMMA InitInv == Init => IInv
<1>. SUFFICES ASSUME Init PROVE IInv
  OBVIOUS
<1>1. TypeOK
  <2>1. log \in Seq(Changes) /\ handed \in Seq(0..MaxNum)
    BY EmptySeq DEF Init
  <2>2. next \in 0..(MaxNum + 1) /\ info \in 0..MaxNum
    BY Widths DEF Init
  <2>3. open \in BOOLEAN
    BY DEF Init
  <2>. QED
    BY <2>1, <2>2, <2>3 DEF TypeOK
<1>2. file \in Seq(Sections) /\ file # <<>> /\ DOMAIN file = {1} /\ file[1].rows = Base
  <2>1. PICK s \in Styles :
            file = <<[rows |-> Base, size |-> Declared, info |-> BaseInfo, style |-> s]>>
    BY DEF Init
  <2>2. [rows |-> Base, size |-> Declared, info |-> BaseInfo, style |-> s] \in Sections
    BY OverlayAssumption DEF Sections
  <2>. QED
    BY <2>1, <2>2
<1>3. \A n \in Numbered : n < MaxNum
  BY <1>2, OverlayAssumption DEF Numbered
<1>4. StageInv
  BY DEF Init, StageInv
<1>. QED
  BY <1>1, <1>2, <1>3, <1>4 DEF IInv, FileInv, Sections

\* The state without an update is the invariant's easy case.
LEMMA Dropped ==
    ASSUME Drop, FileInv'
    PROVE  IInv'
<1>1. TypeOK'
  <2>1. log' \in Seq(Changes) /\ handed' \in Seq(0..MaxNum)
    BY EmptySeq DEF Drop
  <2>2. next' \in 0..(MaxNum + 1) /\ info' \in 0..MaxNum
    BY Widths DEF Drop
  <2>3. open' \in BOOLEAN
    BY DEF Drop
  <2>. QED
    BY <2>1, <2>2, <2>3 DEF TypeOK
<1>2. StageInv'
  BY DEF Drop, StageInv
<1>. QED
  BY <1>1, <1>2 DEF IInv

-----------------------------------------------------------------------------
\* The first free number is above all the numbers of the file, and fits.
LEMMA OpenInv == IInv /\ Open => IInv'
<1>. SUFFICES ASSUME IInv, Open PROVE IInv'
  OBVIOUS
<1>1. FileInv'
  BY DEF IInv, Open, FileInv, Numbered
<1>2. FirstFree(next')
  BY DEF Open
<1>3. /\ next' \in 1..MaxNum
      /\ \A n \in Numbered : n < next'
  <2>1. Newest.size \in 0..MaxNum
    BY NewestTyped DEF IInv, Sections
  <2>2. Numbered \subseteq Nat /\ \A n \in Numbered : n < MaxNum
    BY NumberedTyped DEF IInv, FileInv
  <2>3. CASE next' = Newest.size
    BY <1>2, <2>1, <2>2, <2>3, Widths DEF FirstFree
  <2>4. ASSUME NEW m \in Numbered, next' = m + 1
        PROVE  next' \in 1..MaxNum /\ \A n \in Numbered : n < next'
    BY <1>2, <2>2, <2>4, Widths DEF FirstFree
  <2>5. CASE next' = 1
    <3>1. 1 <= MaxNum
      BY OverlayAssumption
    <3>. QED
      BY <1>2, <2>2, <2>5, <3>1, Widths DEF FirstFree
  <2>. QED
    BY <1>2, <2>3, <2>4, <2>5 DEF FirstFree
<1>4. TypeOK'
  <2>1. <<>> \in Seq(Changes) /\ <<>> \in Seq(0..MaxNum)
    BY EmptySeq
  <2>. QED
    BY <1>3, <2>1, Widths DEF Open, TypeOK
<1>5. StageInv'
  <2>1. Numbered' = Numbered /\ log' = <<>> /\ handed' = <<>>
    BY DEF Open, Numbered
  <2>. QED
    BY <1>3, <2>1, Widths DEF StageInv
<1>. QED
  BY <1>1, <1>4, <1>5 DEF IInv

-----------------------------------------------------------------------------
\* Changes recorded below a number.
Below(changes, n) == changes \in Seq(Changes) /\ \A i \in DOMAIN changes : changes[i].num < n

AnyChange == [num : 0..MaxNum, free : BOOLEAN, body : Bodies \cup {XRefBody}]

\* Recording a change moves the next number past it and never back.
LEMMA RecordMoves ==
    ASSUME NEW change \in AnyChange, change.num < MaxNum,
           NEW from \in 1..MaxNum, NEW changes, Below(changes, from)
    PROVE  /\ Raised(change, from) \in from..MaxNum
           /\ Below(Recorded(change, changes), Raised(change, from))
<1>1. CASE change.num = 0
  BY <1>1, Widths DEF Raised, Recorded
<1>2. CASE change.num # 0
  <2>1. change \in Changes
    BY <1>2, Widths DEF AnyChange, Changes
  <2>2. Raised(change, from) \in from..MaxNum /\ change.num < Raised(change, from)
    BY <1>2, <2>1, Widths DEF Raised, Past, Changes
  <2>3. \A i \in DOMAIN changes : changes[i] \in Changes /\ changes[i].num < from
    BY Elements DEF Below
  <2>4. \A c \in Changes : c.num < from => c.num < Raised(change, from)
    BY <2>2, Widths DEF Changes
  <2>5. /\ Append(changes, change) \in Seq(Changes)
        /\ \A i \in DOMAIN Append(changes, change) :
              \/ i \in DOMAIN changes /\ Append(changes, change)[i] = changes[i]
              \/ Append(changes, change)[i] = change
    BY <2>1, Grown DEF Below
  <2>6. Recorded(change, changes) = Append(changes, change)
    BY <1>2 DEF Recorded
  <2>. QED
    BY <2>2, <2>3, <2>4, <2>5, <2>6 DEF Below
<1>. QED
  BY <1>1, <1>2

\* A number raised leaves what was below it there.
LEMMA BelowGrows ==
    ASSUME NEW changes, NEW n \in Nat, NEW m \in Nat, Below(changes, n), n <= m
    PROVE  Below(changes, m)
<1>1. \A i \in DOMAIN changes : changes[i] \in Changes /\ changes[i].num < n
  BY Elements DEF Below
<1>2. \A c \in Changes : c.num \in Nat
  BY Widths DEF Changes
<1>. QED
  BY <1>1, <1>2 DEF Below

LEMMA LogBelow == IInv /\ open => Below(log, next)
BY DEF IInv, TypeOK, StageInv, Below

\* What recording changes and handing a number out leave of the invariant.
LEMMA StageMoves ==
    ASSUME IInv, open, UNCHANGED <<file, open>>,
           next' \in next..MaxNum, info' \in 0..MaxNum, Below(log', next'),
           \/ handed' = handed
           \/ handed' = Append(handed, next) /\ next < next'
    PROVE  IInv'
<1>1. next \in 1..MaxNum /\ next' \in 1..MaxNum /\ next <= next'
  BY Widths DEF IInv, TypeOK, StageInv
<1>2. log' \in Seq(Changes) /\ \A i \in DOMAIN log' : log'[i].num < next'
  BY DEF Below
<1>3. handed' \in Seq(0..MaxNum) /\ \A i \in DOMAIN handed' : handed'[i] < next'
  <2>1. handed \in Seq(0..MaxNum)
    BY DEF IInv, TypeOK
  <2>2. \A i \in DOMAIN handed : handed[i] \in 0..MaxNum /\ handed[i] < next
    BY <2>1, Elements DEF IInv, StageInv
  <2>3. \A n \in 0..MaxNum : n < next => n < next'
    BY <1>1, Widths
  <2>4. ASSUME handed' = Append(handed, next), next < next'
        PROVE  handed' \in Seq(0..MaxNum) /\ \A i \in DOMAIN handed' : handed'[i] < next'
    <3>1. /\ Append(handed, next) \in Seq(0..MaxNum)
          /\ \A i \in DOMAIN Append(handed, next) :
                \/ i \in DOMAIN handed /\ Append(handed, next)[i] = handed[i]
                \/ Append(handed, next)[i] = next
      BY <1>1, <2>1, Grown
    <3>. QED
      BY <2>2, <2>3, <2>4, <3>1
  <2>. QED
    BY <2>1, <2>2, <2>3, <2>4
<1>4. Numbered' = Numbered
  BY DEF Numbered
<1>5. \A n \in Numbered : n < next'
  <2>1. Numbered \subseteq Nat /\ \A n \in Numbered : n < next
    BY NumberedTyped DEF IInv, StageInv
  <2>. QED
    BY <1>1, <2>1, Widths
<1>6. TypeOK'
  <2>1. next' \in 0..(MaxNum + 1)
    BY <1>1, Widths
  <2>. QED
    BY <1>2, <1>3, <2>1 DEF IInv, TypeOK
<1>7. FileInv'
  BY <1>4 DEF IInv, FileInv
<1>8. StageInv'
  BY <1>1, <1>2, <1>3, <1>4, <1>5 DEF StageInv
<1>. QED
  BY <1>6, <1>7, <1>8 DEF IInv

-----------------------------------------------------------------------------
\* A number that is handed out is below the largest, so it does not wrap.
LEMMA Allocation ==
    ASSUME NumbersFit, IInv, open, Allocated
    PROVE  /\ next \in 1..MaxNum /\ next < MaxNum
           /\ AfterAllocation = next + 1
BY Widths DEF Allocated, AfterAllocation, NumbersFit, IInv, StageInv

\* `set` and `remove`: the caller's number is recorded, or ignored when it is 0.
LEMMA RecordInv ==
    ASSUME IInv, open, NEW c \in AnyChange, c.num < MaxNum, Record(c, next),
           info' \in 0..MaxNum, UNCHANGED <<file, open, handed>>
    PROVE  IInv'
<1>1. next \in 1..MaxNum
  BY DEF IInv, StageInv
<1>2. next' \in next..MaxNum /\ Below(log', next')
  BY <1>1, LogBelow, RecordMoves DEF Record
<1>. QED
  BY <1>2, StageMoves

LEMMA ReserveInv == NumbersFit /\ IInv /\ Reserve => IInv'
<1>. SUFFICES ASSUME NumbersFit, IInv, Reserve PROVE IInv'
  OBVIOUS
<1>1. open /\ Allocated
  BY DEF Reserve, Staging
<1>2. next \in 1..MaxNum /\ next < MaxNum /\ next' = next + 1
  BY <1>1, Allocation DEF Reserve
<1>3. next' \in next..MaxNum /\ next < next' /\ next' \in Nat /\ next \in Nat
  BY <1>2, Widths
<1>4. info' \in 0..MaxNum /\ UNCHANGED <<file, open, log>>
  BY DEF Reserve, IInv, TypeOK
<1>5. handed' = Append(handed, next)
  BY <1>1 DEF Allocated
<1>6. Below(log', next')
  BY <1>1, <1>3, <1>4, LogBelow, BelowGrows
<1>. QED
  BY <1>1, <1>3, <1>4, <1>5, <1>6, StageMoves

\* `put`, and `set_metadata` without a dictionary in force: the number handed
\* out is the first one recorded.
LEMMA PutMoves ==
    ASSUME NumbersFit, IInv, open, Allocated, NEW body \in Bodies
    PROVE  /\ SetTo(next, body) \in AnyChange
           /\ Raised(SetTo(next, body), AfterAllocation) \in 1..MaxNum
           /\ next < Raised(SetTo(next, body), AfterAllocation)
           /\ Below(Recorded(SetTo(next, body), log), Raised(SetTo(next, body), AfterAllocation))
<1>1. /\ next \in 1..MaxNum /\ next < MaxNum
      /\ AfterAllocation = next + 1
  BY Allocation
<1>2. SetTo(next, body) \in AnyChange /\ SetTo(next, body).num < MaxNum
  BY <1>1 DEF SetTo, AnyChange
<1>3. AfterAllocation \in 1..MaxNum /\ AfterAllocation \in Nat /\ next \in Nat
  BY <1>1, Widths
<1>4. Below(log, AfterAllocation)
  BY <1>1, <1>3, LogBelow, BelowGrows
<1>5. /\ Raised(SetTo(next, body), AfterAllocation) \in AfterAllocation..MaxNum
      /\ Below(Recorded(SetTo(next, body), log), Raised(SetTo(next, body), AfterAllocation))
  BY <1>2, <1>3, <1>4, RecordMoves
<1>. QED
  BY <1>1, <1>2, <1>5, Widths

LEMMA PutInv ==
    ASSUME NumbersFit, IInv, NEW body \in Bodies, Put(body)
    PROVE  IInv'
<1>1. open /\ Allocated /\ Record(SetTo(next, body), AfterAllocation) /\ UNCHANGED <<file, open, info>>
  BY DEF Put, Staging
<1>2. next' \in 1..MaxNum /\ next < next' /\ Below(log', next')
  BY <1>1, PutMoves DEF Record
<1>3. next' \in next..MaxNum /\ info' \in 0..MaxNum
  BY <1>1, <1>2, Widths DEF IInv, TypeOK, StageInv
<1>. QED
  BY <1>1, <1>2, <1>3, StageMoves DEF Allocated

\* A number in use has a row in the file.
LEMMA InUseNumbered ==
    ASSUME NEW n, InUse(n)
    PROVE  n \in Numbered
<1>1. RowsFor(n) # {}
  BY DEF InUse, ReadsAs
<1>. QED
  BY <1>1 DEF RowsFor, Numbered

LEMMA SetMetadataInv ==
    ASSUME NumbersFit, IInv, NEW body \in Bodies, SetMetadata(body)
    PROVE  IInv'
<1>1. open /\ UNCHANGED <<file, open>>
  BY DEF SetMetadata, Staging
<1>2. PICK target \in 0..MaxNum, from \in 0..MaxNum :
        /\ IF InfoNow # 0 /\ InUse(InfoNow)
           THEN target = InfoNow /\ from = next /\ UNCHANGED handed
           ELSE target = next /\ from = AfterAllocation /\ Allocated
        /\ info' = target
        /\ next' = Raised(SetTo(BaseXmp, body), Raised(SetTo(target, body), from))
        /\ log' = Recorded(SetTo(BaseXmp, body), Recorded(SetTo(target, body), log))
  BY DEF SetMetadata
<1>. DEFINE n == Raised(SetTo(target, body), from)
            changes == Recorded(SetTo(target, body), log)
<1>3. /\ n \in next..MaxNum /\ n \in 1..MaxNum /\ Below(changes, n)
      /\ handed' = handed \/ (handed' = Append(handed, next) /\ next < n)
  <2>1. CASE InfoNow # 0 /\ InUse(InfoNow)
    <3>1. target \in Nat /\ target < MaxNum
      BY <1>2, <2>1, InUseNumbered, NumberedTyped DEF IInv, FileInv
    <3>2. SetTo(target, body) \in AnyChange /\ SetTo(target, body).num < MaxNum
      BY <3>1, Widths DEF SetTo, AnyChange
    <3>3. from = next /\ next \in 1..MaxNum /\ Below(log, next) /\ handed' = handed
      BY <1>1, <1>2, <2>1, LogBelow DEF IInv, StageInv
    <3>4. n \in next..MaxNum /\ Below(changes, n)
      BY <3>2, <3>3, RecordMoves
    <3>. QED
      BY <3>3, <3>4, Widths
  <2>2. CASE ~(InfoNow # 0 /\ InUse(InfoNow))
    <3>1. target = next /\ from = AfterAllocation /\ Allocated
      BY <1>2, <2>2
    <3>2. n \in 1..MaxNum /\ next < n /\ Below(changes, n)
      BY <1>1, <3>1, PutMoves
    <3>3. n \in next..MaxNum
      BY <1>1, <3>2, Widths DEF IInv, StageInv
    <3>. QED
      BY <3>1, <3>2, <3>3 DEF Allocated
  <2>. QED
    BY <2>1, <2>2
<1>4. SetTo(BaseXmp, body) \in AnyChange /\ SetTo(BaseXmp, body).num < MaxNum
  BY OverlayAssumption DEF SetTo, AnyChange, NumbersFit
<1>5. next' \in n..MaxNum /\ Below(log', next')
  BY <1>2, <1>3, <1>4, RecordMoves
<1>6. next' \in next..MaxNum /\ (next < n => next < next')
  BY <1>1, <1>3, <1>5, Widths DEF IInv, StageInv
<1>. QED
  BY <1>1, <1>2, <1>3, <1>5, <1>6, StageMoves

-----------------------------------------------------------------------------
\* The `/Size` an appended section declares.
SectionSize == IF Style = "Stream" THEN next + 1 ELSE next

\* The winners are changes, numbered below the next free number.
LEMMA WinnersBelow ==
    ASSUME IInv, open
    PROVE  /\ Winners \subseteq Changes
           /\ \A c \in Winners : c.num \in 1..MaxNum /\ c.num < next
           /\ \A n \in FreedNums : n \in 1..MaxNum /\ n < next
<1>1. \A i \in DOMAIN log : log[i] \in Changes /\ log[i].num < next
  BY Elements DEF IInv, TypeOK, StageInv
<1>2. \A c \in Winners : c \in Changes /\ c.num < next
  BY <1>1 DEF Winners
<1>3. \A c \in Changes : c.num \in 1..MaxNum
  BY DEF Changes
<1>. QED
  BY <1>2, <1>3 DEF FreedNums

\* Every row of a section is below the size the section declares.
LEMMA RowsBelow ==
    ASSUME NumbersFit, IInv, open, Style = "Stream" => next < Limit
    PROVE  /\ SectionSize \in 1..MaxNum
           /\ \A row \in SectionRows : row \in Rows /\ row.num < SectionSize /\ row.num < MaxNum
<1>1. next \in 1..MaxNum
  BY DEF IInv, StageInv
<1>2. SectionSize \in next..MaxNum /\ (Style = "Stream" => next < SectionSize /\ next < MaxNum)
  BY <1>1, Widths DEF NumbersFit, SectionSize
<1>3. ASSUME NEW c \in Winners
      PROVE  /\ InFile(c.num, c.body) \in Rows
             /\ c.num < SectionSize /\ c.num < MaxNum
  <2>1. c \in Changes /\ c.num \in 1..MaxNum /\ c.num < next
    BY WinnersBelow
  <2>2. c.body \in Bodies \cup {XRefBody}
    BY <2>1 DEF Changes
  <2>3. c.num \in 0..MaxNum /\ 0 \in 0..MaxNum
    BY <2>1, Widths
  <2>4. c.num < SectionSize /\ c.num < MaxNum
    BY <1>1, <1>2, <2>1, Widths
  <2>. QED
    BY <2>2, <2>3, <2>4 DEF InFile, Rows
<1>4. ASSUME NEW n \in Chained, NEW m \in Chained
      PROVE  FreeRow(n, m) \in Rows /\ n < SectionSize /\ n < MaxNum
  <2>1. \A k \in Chained : k \in 0..MaxNum /\ k < next
    BY <1>1, WinnersBelow, Widths DEF Chained
  <2>2. n < SectionSize /\ n < MaxNum
    BY <1>1, <1>2, <2>1, Widths
  <2>. QED
    BY <2>1, <2>2 DEF FreeRow, Rows
<1>5. ASSUME Style = "Stream"
      PROVE  InFile(next, XRefBody) \in Rows
  <2>1. next \in 0..MaxNum /\ 0 \in 0..MaxNum
    BY <1>1, Widths
  <2>. QED
    BY <2>1 DEF InFile, Rows
<1>6. ASSUME NEW row \in SectionRows
      PROVE  row \in Rows /\ row.num < SectionSize /\ row.num < MaxNum
  <2>1. CASE \E c \in Winners : row = InFile(c.num, c.body)
    BY <1>3, <2>1 DEF InFile
  <2>2. CASE \E n, m \in Chained : row = FreeRow(n, m)
    BY <1>4, <2>2 DEF FreeRow
  <2>3. CASE Style = "Stream" /\ row = InFile(next, XRefBody)
    BY <1>2, <1>5, <2>3 DEF InFile
  <2>4. row \in FreeRows => \E n, m \in Chained : row = FreeRow(n, m)
    BY DEF FreeRows
  <2>. QED
    BY <2>1, <2>2, <2>3, <2>4 DEF SectionRows, StreamRows
<1>7. SectionSize \in 1..MaxNum
  BY <1>1, <1>2, Widths
<1>. QED
  BY <1>6, <1>7

\* Appending a section: what it brings the file.
LEMMA Appended ==
    ASSUME NumbersFit, IInv, AppendSection
    PROVE  \E section \in Sections :
              /\ section.rows = SectionRows /\ section.size = SectionSize
              /\ file' = Append(file, section)
<1>1. open /\ (Style = "Stream" => next < Limit)
  BY DEF AppendSection
<1>2. InfoNow \in 0..MaxNum /\ Style \in Styles
  BY NewestTyped DEF IInv, TypeOK, InfoNow, Sections, Style
<1>3. SectionSize \in 0..MaxNum /\ SectionRows \in SUBSET Rows
  BY <1>1, RowsBelow, Widths
<1>. DEFINE section == [rows |-> SectionRows, size |-> SectionSize, info |-> InfoNow,
                         style |-> Style]
<1>4. section \in Sections
  BY <1>2, <1>3 DEF Sections
<1>5. file' = Append(file, section)
  BY DEF AppendSection, SectionSize
<1>. QED
  BY <1>4, <1>5

LEMMA AppendInv == NumbersFit /\ IInv /\ AppendSection => IInv'
<1>. SUFFICES ASSUME NumbersFit, IInv, AppendSection PROVE IInv'
  OBVIOUS
<1>1. PICK section \in Sections :
          section.rows = SectionRows /\ file' = Append(file, section)
  BY Appended
<1>2. file \in Seq(Sections)
  BY DEF IInv, FileInv, Sections
<1>3. /\ file' \in Seq(Sections) /\ file' # <<>>
      /\ \A i \in DOMAIN file' : file'[i] = section \/ (i \in DOMAIN file /\ file'[i] = file[i])
  <2>1. /\ Append(file, section) \in Seq(Sections) /\ Append(file, section) # <<>>
        /\ \A i \in DOMAIN Append(file, section) :
              \/ i \in DOMAIN file /\ Append(file, section)[i] = file[i]
              \/ Append(file, section)[i] = section
    BY <1>2, Grown, AppendProperties
  <2>. QED
    BY <1>1, <2>1
<1>4. \A n \in Numbered' : n < MaxNum
  <2>1. \A row \in SectionRows : row.num < MaxNum
    BY RowsBelow DEF AppendSection
  <2>2. \A n \in Numbered : n < MaxNum
    BY DEF IInv, FileInv
  <2>3. \A n \in Numbered' : n \in Numbered \/ \E row \in SectionRows : n = row.num
    BY <1>1, <1>3 DEF Numbered
  <2>. QED
    BY <2>1, <2>2, <2>3
<1>5. FileInv'
  BY <1>3, <1>4 DEF FileInv, Sections
<1>. QED
  BY <1>5, Dropped DEF AppendSection

-----------------------------------------------------------------------------
LEMMA StepInv == NumbersFit /\ IInv /\ [Next]_vars => IInv'
<1>. SUFFICES ASSUME NumbersFit, IInv, [Next]_vars PROVE IInv'
  OBVIOUS
<1>1. ASSUME Discard PROVE IInv'
  <2>1. FileInv'
    BY <1>1 DEF Discard, IInv, FileInv, Numbered
  <2>. QED
    BY <1>1, <2>1, Dropped DEF Discard
<1>2. ASSUME NEW n \in CallerNums, NEW c \in {Freed(n)} \cup {SetTo(n, body) : body \in Bodies},
             Staging, Record(c, next), UNCHANGED <<file, open, info, handed>>
      PROVE  IInv'
  <2>1. n \in 0..MaxNum /\ n < MaxNum
    BY OverlayAssumption DEF NumbersFit
  <2>2. c \in AnyChange /\ c.num = n
    <3>1. CASE c = Freed(n)
      BY <2>1, <3>1 DEF Freed, AnyChange
    <3>2. ASSUME NEW body \in Bodies, c = SetTo(n, body)
          PROVE  c \in AnyChange /\ c.num = n
      BY <2>1, <3>2 DEF SetTo, AnyChange
    <3>. QED
      BY <3>1, <3>2
  <2>3. info' \in 0..MaxNum
    BY <1>2 DEF IInv, TypeOK
  <2>. QED
    BY <1>2, <2>1, <2>2, <2>3, RecordInv DEF Staging
<1>3. ASSUME NEW n \in CallerNums, Remove(n) PROVE IInv'
  BY <1>2, <1>3 DEF Remove
<1>4. ASSUME NEW n \in CallerNums, NEW body \in Bodies, Set(n, body) PROVE IInv'
  BY <1>2, <1>4 DEF Set
<1>5. ASSUME UNCHANGED vars PROVE IInv'
  BY <1>5 DEF IInv, TypeOK, FileInv, StageInv, Numbered, vars, stageVars
<1>. QED
  BY <1>1, <1>3, <1>4, <1>5, OpenInv, ReserveInv, PutInv, SetMetadataInv, AppendInv DEF Next

\* Every reachable state is well typed and keeps the numbering invariant.
THEOREM NumbersStayBelowNext ==
    ASSUME NumbersFit
    PROVE  Spec => []IInv
<1>1. IInv /\ [Next]_vars => IInv'
  BY StepInv
<1>. QED
  BY <1>1, InitInv, PTL DEF Spec

\* `reserve` and `put` hand out no number of the base, of the caller's, or
\* handed out before (update.rs 483-486).
THEOREM HandedNumbersAreFresh ==
    ASSUME NumbersFit
    PROVE  Spec => FreshNumbers
<1>. DEFINE Fresh == handed' # handed /\ handed' # <<>>
                       => /\ handed'[Len(handed')] \notin Numbered
                          /\ \A i \in DOMAIN handed : handed'[Len(handed')] # handed[i]
                          /\ \A i \in DOMAIN log : handed'[Len(handed')] # log[i].num
<1>1. ASSUME IInv, Next PROVE Fresh
  <2>1. ASSUME open, Allocated PROVE Fresh
    <3>1. handed \in Seq(0..MaxNum) /\ next \in 0..MaxNum /\ handed' = Append(handed, next)
      BY <1>1, <2>1, Widths DEF IInv, TypeOK, StageInv, Allocated
    <3>2. handed'[Len(handed')] = next
      BY <3>1, Grown
    <3>3. next \notin Numbered
      BY <1>1, <2>1, <3>1, NumberedTyped, Widths DEF IInv, StageInv
    <3>4. \A i \in DOMAIN handed : next # handed[i]
      <4>1. \A i \in DOMAIN handed : handed[i] \in 0..MaxNum /\ handed[i] < next
        BY <1>1, <2>1, <3>1, Elements DEF IInv, StageInv
      <4>. QED
        BY <3>1, <4>1, Widths
    <3>5. \A i \in DOMAIN log : next # log[i].num
      <4>1. \A i \in DOMAIN log : log[i] \in Changes /\ log[i].num < next
        BY <1>1, <2>1, Elements DEF IInv, TypeOK, StageInv
      <4>2. \A i \in DOMAIN log : log[i].num \in 1..MaxNum /\ log[i].num < next
        BY <4>1 DEF Changes
      <4>. QED
        BY <3>1, <4>2, Widths
    <3>. QED
      BY <3>2, <3>3, <3>4, <3>5
  <2>2. CASE Drop \/ Open
    BY <2>2 DEF Drop, Open
  <2>3. CASE handed' = handed
    BY <2>3
  <2>4. ASSUME NEW body \in Bodies, SetMetadata(body) PROVE Fresh
    BY <2>1, <2>3, <2>4 DEF SetMetadata, Staging
  <2>5. ASSUME NEW body \in Bodies, Put(body) PROVE Fresh
    BY <2>1, <2>5 DEF Put, Staging
  <2>6. CASE Reserve
    BY <2>1, <2>6 DEF Reserve, Staging
  <2>7. ASSUME NEW n \in CallerNums, Remove(n) \/ \E body \in Bodies : Set(n, body)
        PROVE  Fresh
    BY <2>3, <2>7 DEF Remove, Set
  <2>. QED
    BY <1>1, <2>2, <2>4, <2>5, <2>6, <2>7 DEF Next, Discard, AppendSection
<1>2. IInv /\ [Next]_vars => [Fresh]_vars
  BY <1>1
<1>3. IInv /\ [Next]_vars => IInv'
  BY StepInv
<1>. QED
  BY <1>2, <1>3, InitInv, PTL DEF Spec, FreshNumbers

-----------------------------------------------------------------------------
\* Only AppendSection changes the file, and its section stands in the last place.
LEMMA FileMoves ==
    ASSUME NumbersFit, IInv, [Next]_vars
    PROVE  \/ file' = file
           \/ /\ AppendSection
              /\ Len(file) \in Nat \ {0} /\ Len(file') = Len(file) + 1
              /\ \A i \in 1..Len(file) : file'[i] = file[i]
              /\ file'[Len(file')].rows = SectionRows
              /\ file'[Len(file')].size = SectionSize
<1>1. CASE AppendSection
  <2>1. PICK section \in Sections :
            /\ section.rows = SectionRows /\ section.size = SectionSize
            /\ file' = Append(file, section)
    BY <1>1, Appended
  <2>2. file \in Seq(Sections) /\ file # <<>>
    BY DEF IInv, FileInv, Sections
  <2>3. /\ Len(Append(file, section)) = Len(file) + 1
        /\ \A i \in 1..Len(file) : Append(file, section)[i] = file[i]
        /\ Append(file, section)[Len(file) + 1] = section
    BY <2>2, AppendProperties
  <2>4. Len(file) \in Nat \ {0}
    BY <2>2, EmptySeq
  <2>. QED
    BY <1>1, <2>1, <2>3, <2>4
<1>2. CASE ~AppendSection
  BY <1>2 DEF Next, vars, Open, Discard, Remove, Set, Reserve, Put, SetMetadata
<1>. QED
  BY <1>1, <1>2

LEMMA SizesStep ==
    ASSUME NumbersFit, IInv, SizeCovers, [Next]_vars
    PROVE  SizeCovers'
<1>1. CASE file' = file
  BY <1>1 DEF SizeCovers
<1>2. CASE file' # file
  <2>1. /\ AppendSection
        /\ Len(file) \in Nat \ {0} /\ Len(file') = Len(file) + 1
        /\ \A i \in 1..Len(file) : file'[i] = file[i]
        /\ file'[Len(file')].rows = SectionRows
        /\ file'[Len(file')].size = SectionSize
    BY <1>2, FileMoves
  <2>2. \A row \in SectionRows : row.num < SectionSize
    BY <2>1, RowsBelow DEF AppendSection
  <2>3. ASSUME NEW j \in 1..Len(file), NEW row \in file[j].rows
        PROVE  row.num < SectionSize
    <3>1. j \in DOMAIN file
      BY LenProperties DEF IInv, FileInv
    <3>2. row.num \in Numbered
      BY <3>1 DEF Numbered
    <3>3. row.num \in Nat /\ row.num < next /\ next \in 1..MaxNum
      BY <2>1, <3>2, NumberedTyped DEF IInv, StageInv, AppendSection
    <3>. QED
      BY <3>3, Widths DEF SectionSize
  <2>4. ASSUME NEW i \in 2..Len(file'), NEW j \in 1..i, NEW row \in file'[j].rows
        PROVE  row.num < file'[i].size
    <3>1. CASE i = Len(file')
      <4>1. j \in 1..Len(file) \/ j = Len(file')
        BY <2>1, <3>1
      <4>. QED
        BY <2>1, <2>2, <2>3, <3>1, <4>1
    <3>2. CASE i # Len(file')
      <4>1. i \in 2..Len(file) /\ i \in 1..Len(file) /\ j \in 1..Len(file)
        BY <2>1, <3>2
      <4>. QED
        BY <2>1, <4>1 DEF SizeCovers
    <3>. QED
      BY <3>1, <3>2
  <2>. QED
    BY <2>4 DEF SizeCovers
<1>. QED
  BY <1>1, <1>2

\* An appended section's `/Size` is above every number the file then has.
THEOREM SizesCoverEveryNumber ==
    ASSUME NumbersFit
    PROVE  Spec => []SizeCovers
<1>1. Init => SizeCovers
  BY DEF Init, SizeCovers
<1>2. IInv /\ SizeCovers /\ [Next]_vars => SizeCovers'
  BY SizesStep
<1>3. IInv /\ [Next]_vars => IInv'
  BY StepInv
<1>. QED
  BY <1>1, <1>2, <1>3, InitInv, PTL DEF Spec

-----------------------------------------------------------------------------
\* Two winners of the same number are the same change.
LEMMA OneWinner ==
    ASSUME log \in Seq(Changes), NEW c \in Winners, NEW d \in Winners, c.num = d.num
    PROVE  c = d
<1>1. Len(log) \in Nat /\ DOMAIN log = 1..Len(log)
  BY LenProperties
<1>2. PICK i \in DOMAIN log : c = log[i] /\ \A j \in (i + 1)..Len(log) : log[j].num # log[i].num
  BY DEF Winners
<1>3. PICK k \in DOMAIN log : d = log[k] /\ \A j \in (k + 1)..Len(log) : log[j].num # log[k].num
  BY DEF Winners
<1>4. i \in 1..Len(log) /\ k \in 1..Len(log)
  BY <1>1
<1>5. ~(i < k)
  <2>1. i < k => k \in (i + 1)..Len(log)
    BY <1>1, <1>4
  <2>. QED
    BY <1>2, <1>3, <2>1
<1>6. ~(k < i)
  <2>1. k < i => i \in (k + 1)..Len(log)
    BY <1>1, <1>4
  <2>. QED
    BY <1>2, <1>3, <2>1
<1>7. i = k
  BY <1>1, <1>4, <1>5, <1>6
<1>. QED
  BY <1>2, <1>3, <1>7

\* A free entry has one successor in the chain.
LEMMA OneSuccessor ==
    ASSUME IInv, open, NEW n \in Chained, NEW m \in Chained, NEW k \in Chained,
           Follows(n, m), Follows(n, k)
    PROVE  m = k
<1>1. \A f \in FreedNums : f \in 1..MaxNum
  BY WinnersBelow
<1>2. n \in Nat /\ m \in Nat /\ k \in Nat
  BY <1>1, Widths DEF Chained
<1>3. m # 0 => m \in FreedNums
  BY DEF Chained
<1>4. k # 0 => k \in FreedNums
  BY DEF Chained
<1>. QED
  BY <1>2, <1>3, <1>4 DEF Follows

LEMMA OneRowInSection ==
    ASSUME IInv, open
    PROVE  \A x, y \in SectionRows : x.num = y.num => x = y
<1>1. /\ \A c \in Winners : c.num \in 1..MaxNum /\ c.num < next
      /\ \A n \in FreedNums : n \in 1..MaxNum /\ n < next
      /\ next \in 1..MaxNum
  BY WinnersBelow DEF IInv, StageInv
<1>. DEFINE Kept == {c \in Winners : ~c.free}
            SetRows == {InFile(c.num, c.body) : c \in Kept}
<1>2. \A c, d \in Winners : c.num = d.num => c = d
  BY OneWinner DEF IInv, TypeOK
<1>3. ASSUME NEW x \in SetRows
      PROVE  x.num \notin Chained /\ x.num \in 1..MaxNum /\ x.num < next
  <2>1. PICK c \in Kept : x = InFile(c.num, c.body)
    OBVIOUS
  <2>2. x.num = c.num /\ c.num # 0
    BY <1>1, <2>1, Widths DEF InFile
  <2>3. c.num \notin FreedNums
    BY <1>2 DEF FreedNums
  <2>. QED
    BY <1>1, <2>2, <2>3 DEF Chained
<1>4. ASSUME NEW x \in FreeRows
      PROVE  x.num \in Chained /\ x.num \in Nat /\ x.num < next
  <2>1. PICK n \in Chained, m \in Chained : x = FreeRow(n, m)
    BY DEF FreeRows
  <2>2. x.num = n
    BY <2>1 DEF FreeRow
  <2>. QED
    BY <1>1, <2>2, Widths DEF Chained
<1>5. ASSUME NEW x \in StreamRows
      PROVE  x.num = next /\ x = InFile(next, XRefBody)
  BY DEF StreamRows, InFile
<1>6. ASSUME NEW x \in SetRows, NEW y \in SetRows, x.num = y.num PROVE x = y
  <2>1. PICK c \in Kept, d \in Kept : x = InFile(c.num, c.body) /\ y = InFile(d.num, d.body)
    OBVIOUS
  <2>2. c.num = d.num
    BY <1>6, <2>1 DEF InFile
  <2>. QED
    BY <1>2, <2>1, <2>2
<1>7. ASSUME NEW x \in FreeRows, NEW y \in FreeRows, x.num = y.num PROVE x = y
  <2>1. \A r \in FreeRows : \E n, m \in Chained : r = FreeRow(n, m) /\ Follows(n, m)
    BY DEF FreeRows
  <2>2. PICK n \in Chained, m \in Chained : x = FreeRow(n, m) /\ Follows(n, m)
    BY <2>1
  <2>3. PICK k \in Chained, l \in Chained : y = FreeRow(k, l) /\ Follows(k, l)
    BY <2>1
  <2>4. n = k
    BY <1>7, <2>2, <2>3 DEF FreeRow
  <2>5. m = l
    BY <2>2, <2>3, <2>4, OneSuccessor
  <2>. QED
    BY <2>2, <2>3, <2>4, <2>5
<1>8. SectionRows = SetRows \cup FreeRows \cup StreamRows
  BY DEF SectionRows
<1>9. ASSUME NEW x \in SectionRows, NEW y \in SectionRows, x.num = y.num PROVE x = y
  <2>1. CASE x \in StreamRows \/ y \in StreamRows
    BY <1>1, <1>3, <1>4, <1>5, <1>8, <1>9, <2>1, Widths
  <2>2. CASE x \in SetRows /\ y \in SetRows
    BY <1>6, <1>9, <2>2
  <2>3. CASE x \in FreeRows /\ y \in FreeRows
    BY <1>7, <1>9, <2>3
  <2>4. ~(x \in SetRows /\ y \in FreeRows) /\ ~(x \in FreeRows /\ y \in SetRows)
    BY <1>3, <1>4, <1>9
  <2>. QED
    BY <1>8, <2>1, <2>2, <2>3, <2>4
<1>. QED
  BY <1>9

\* The appended cross-reference data never carries two rows for one number
\* (update.rs 549-551).
THEOREM RowsAreUnique ==
    ASSUME NumbersFit
    PROVE  Spec => []OneRowPerNumber
<1>1. Init => OneRowPerNumber
  BY DEF Init, OneRowPerNumber
<1>2. IInv /\ OneRowPerNumber /\ [Next]_vars => OneRowPerNumber'
  <2>. SUFFICES ASSUME IInv, OneRowPerNumber, [Next]_vars PROVE OneRowPerNumber'
    OBVIOUS
  <2>1. CASE file' = file
    BY <2>1 DEF OneRowPerNumber
  <2>2. CASE file' # file
    <3>1. /\ open /\ Len(file) \in Nat \ {0} /\ Len(file') = Len(file) + 1
          /\ \A i \in 1..Len(file) : file'[i] = file[i]
          /\ file'[Len(file')].rows = SectionRows
      BY <2>2, FileMoves DEF AppendSection
    <3>2. ASSUME NEW i \in 2..Len(file')
          PROVE  \A x, y \in file'[i].rows : x.num = y.num => x = y
      <4>1. CASE i = Len(file')
        BY <3>1, <4>1, OneRowInSection
      <4>2. CASE i # Len(file')
        <5>1. i \in 2..Len(file) /\ i \in 1..Len(file)
          BY <3>1, <4>2
        <5>. QED
          BY <3>1, <5>1 DEF OneRowPerNumber
      <4>. QED
        BY <4>1, <4>2
    <3>. QED
      BY <3>2 DEF OneRowPerNumber
  <2>. QED
    BY <2>1, <2>2
<1>3. IInv /\ [Next]_vars => IInv'
  BY StepInv
<1>. QED
  BY <1>1, <1>2, <1>3, InitInv, PTL DEF Spec

-----------------------------------------------------------------------------
\* Induction over the subsets of a finite set, for a set of them.
LEMMA SubsetInduction ==
    ASSUME NEW S, IsFiniteSet(S), NEW T,
           \A s \in SUBSET S : (\A x \in s : s \ {x} \in T) => s \in T
    PROVE  SUBSET S \subseteq T
<1> DEFINE C == (SUBSET S) \ T
<1>1. SUFFICES ASSUME C # {} PROVE FALSE
  OBVIOUS
<1>2. C \subseteq SUBSET S /\ FiniteSubsetsOf(S) = SUBSET S
  BY FS_FiniteSubsetsOfFinite
<1>3. IsWellFoundedOn(StrictSubsetOrdering(S), SUBSET S)
  BY <1>2, FS_StrictSubsetOrderingWellFounded
<1> HIDE DEF C
<1>4. PICK s \in C : \A t \in C : ~(<<t, s>> \in StrictSubsetOrdering(S))
  BY <1>1, <1>2, <1>3, WFMin
<1>5. s \in SUBSET S /\ s \notin T
  BY <1>4 DEF C
<1>6. ASSUME NEW x \in s PROVE s \ {x} \in T
  <2>1. <<s \ {x}, s>> \in StrictSubsetOrdering(S)
    BY <1>5, <1>6 DEF StrictSubsetOrdering
  <2>. QED
    BY <1>4, <1>5, <2>1 DEF C
<1>. QED
  BY <1>5, <1>6

\* A finite set of numbers has a least and a greatest element.
LEMMA Extremes ==
    ASSUME NEW S \in SUBSET Nat, IsFiniteSet(S), S # {}
    PROVE  /\ \E x \in S : \A y \in S : x <= y
           /\ \E x \in S : \A y \in S : x >= y
<1> DEFINE Has(s) == /\ \E x \in s : \A y \in s : x <= y
                     /\ \E x \in s : \A y \in s : x >= y
           T == {s \in SUBSET S : s # {} => Has(s)}
<1>1. ASSUME NEW s \in SUBSET S, \A x \in s : s \ {x} \in T
      PROVE  s \in T
  <2>. SUFFICES ASSUME s # {} PROVE Has(s)
    OBVIOUS
  <2>1. PICK z \in s : TRUE
    OBVIOUS
  <2> DEFINE r == s \ {z}
  <2>2. CASE r = {}
    <3>1. \A y \in s : y = z /\ z \in Nat
      BY <2>1, <2>2
    <3>. QED
      BY <2>1, <3>1
  <2>3. CASE r # {}
    <3>1. Has(r)
      BY <1>1, <2>1, <2>3
    <3>2. PICK a \in r : \A y \in r : a <= y
      BY <3>1
    <3>3. PICK b \in r : \A y \in r : b >= y
      BY <3>1
    <3>4. /\ a \in Nat /\ b \in Nat /\ z \in Nat /\ a \in s /\ b \in s
          /\ \A y \in s : y = z \/ y \in r
          /\ \A y \in r : y \in Nat
      BY <2>1, <3>2, <3>3
    <3>. HIDE DEF r
    <3>5. \E x \in s : \A y \in s : x <= y
      <4>1. CASE z <= a
        BY <2>1, <3>2, <3>4, <4>1
      <4>2. CASE a <= z
        BY <3>2, <3>4, <4>2
      <4>. QED
        BY <3>4, <4>1, <4>2
    <3>6. \E x \in s : \A y \in s : x >= y
      <4>1. CASE z >= b
        BY <2>1, <3>3, <3>4, <4>1
      <4>2. CASE b >= z
        BY <3>3, <3>4, <4>2
      <4>. QED
        BY <3>4, <4>1, <4>2
    <3>. QED
      BY <3>5, <3>6
  <2>. QED
    BY <2>2, <2>3
<1>2. SUBSET S \subseteq T
  <2>. HIDE DEF T
  <2>. QED
    BY <1>1, SubsetInduction
<1>. QED
  BY <1>2

-----------------------------------------------------------------------------
\* The freed numbers and entry 0.
LEMMA ChainedTyped ==
    ASSUME IInv, open
    PROVE  /\ Chained \in SUBSET Nat /\ IsFiniteSet(Chained)
           /\ FreedNums \in SUBSET Nat /\ 0 \in Chained
           /\ \A k \in FreedNums : k # 0 /\ k \in Chained
           /\ \A k \in Chained : k = 0 \/ k \in FreedNums
<1>1. \A k \in FreedNums : k \in 1..MaxNum
  BY WinnersBelow
<1>2. Chained \subseteq 0..MaxNum
  BY <1>1, Widths DEF Chained
<1>3. IsFiniteSet(Chained)
  <2>1. 0 \in Int /\ MaxNum \in Int
    BY Widths
  <2>2. IsFiniteSet(0..MaxNum)
    BY <2>1, FS_Interval
  <2>. QED
    BY <1>2, <2>2, FS_Subset
<1>. QED
  BY <1>1, <1>2, <1>3, Widths DEF Chained

\* Every entry of the chain is followed, and follows.
LEMMA ChainCloses ==
    ASSUME IInv, open, NEW n \in Chained
    PROVE  /\ \E m \in Chained : Follows(n, m)
           /\ \E m \in Chained : Follows(m, n)
<1>1. /\ Chained \in SUBSET Nat /\ IsFiniteSet(Chained)
      /\ FreedNums \in SUBSET Nat /\ 0 \in Chained /\ n \in Nat
      /\ \A k \in FreedNums : k # 0 /\ k \in Chained
      /\ \A k \in Chained : k = 0 \/ k \in FreedNums
  BY ChainedTyped
<1>2. \E m \in Chained : Follows(n, m)
  <2> DEFINE above == {k \in FreedNums : k > n}
  <2>1. CASE above = {}
    <3>1. \A k \in FreedNums : k <= n
      BY <1>1, <2>1
    <3>2. Follows(n, 0)
      BY <3>1 DEF Follows
    <3>. QED
      BY <1>1, <3>2
  <2>2. CASE above # {}
    <3>1. above \in SUBSET Nat /\ IsFiniteSet(above)
      BY <1>1, FS_Subset
    <3>2. PICK m \in above : \A k \in above : m <= k
      <4>. HIDE DEF above
      <4>. QED
        BY <2>2, <3>1, Extremes
    <3>3. m # 0 /\ m > n /\ m \in Chained
      BY <1>1, <3>2
    <3>4. \A k \in FreedNums : k <= n \/ k >= m
      BY <1>1, <3>2
    <3>. QED
      BY <3>3, <3>4 DEF Follows
  <2>. QED
    BY <2>1, <2>2
<1>3. \E m \in Chained : Follows(m, n)
  <2>1. CASE n = 0
    <3>1. PICK m \in Chained : \A k \in Chained : m >= k
      BY <1>1, Extremes
    <3>2. \A k \in FreedNums : k <= m
      BY <1>1, <3>1
    <3>. QED
      BY <2>1, <3>2 DEF Follows
  <2>2. CASE n # 0
    <3> DEFINE below == {k \in Chained : k < n}
    <3>1. below \in SUBSET Nat /\ IsFiniteSet(below) /\ 0 \in below
      <4>1. below \subseteq Chained /\ 0 < n
        BY <1>1, <2>2
      <4>2. IsFiniteSet(below)
        BY <1>1, <4>1, FS_Subset
      <4>. QED
        BY <1>1, <4>1, <4>2
    <3>2. PICK m \in below : \A k \in below : m >= k
      <4>. HIDE DEF below
      <4>. QED
        BY <3>1, Extremes
    <3>3. m \in Chained /\ m \in Nat /\ n > m
      BY <1>1, <3>2
    <3>4. \A k \in FreedNums : k <= m \/ k >= n
      BY <1>1, <3>2
    <3>. QED
      BY <2>2, <3>3, <3>4 DEF Follows
  <2>. QED
    BY <2>1, <2>2
<1>. QED
  BY <1>2, <1>3

\* A link between two entries has its row.
LEMMA LinkHasRow ==
    ASSUME FreedNums # {}, NEW n \in Chained, NEW m \in Chained, Follows(n, m)
    PROVE  \E row \in FreeRows : row.num = n /\ row.next = m
<1>1. PICK p \in {q \in Chained \X Chained : Follows(q[1], q[2])} : p[1] = n /\ p[2] = m
  <2>1. PICK p \in Chained \X Chained : p[1] = n /\ p[2] = m
    <3>1. <<n, m>> \in Chained \X Chained /\ <<n, m>>[1] = n /\ <<n, m>>[2] = m
      OBVIOUS
    <3>. QED
      BY <3>1
  <2>2. Follows(p[1], p[2])
    BY <2>1
  <2>. QED
    BY <2>1, <2>2
<1>2. FreeRow(p[1], p[2]) \in FreeRows
  BY DEF FreeRows
<1>3. FreeRow(n, m) \in FreeRows
  BY <1>1, <1>2
<1>. QED
  BY <1>3 DEF FreeRow

\* The free rows of a section link all of them into a chain.
LEMMA SectionChain ==
    ASSUME IInv, open
    PROVE  LET free == {row \in SectionRows : row.type = "f"}
           IN  free # {} =>
                 /\ {row.next : row \in free} = {row.num : row \in free}
                 /\ \A row \in free : row.next = 0 \/ row.next > row.num
<1> DEFINE free == {row \in SectionRows : row.type = "f"}
<1>1. /\ \A c \in Winners : InFile(c.num, c.body).type = "n"
      /\ \A row \in StreamRows : row.type = "n"
      /\ \A row \in FreeRows : row.type = "f"
  BY DEF InFile, StreamRows, FreeRow, FreeRows
<1>2. free = FreeRows
  BY <1>1 DEF SectionRows
<1>3. ASSUME NEW row \in FreeRows
      PROVE  row.num \in Chained /\ row.next \in Chained /\ Follows(row.num, row.next)
  BY DEF FreeRows, FreeRow
<1>4. ASSUME FreeRows # {}, NEW n \in Chained, NEW m \in Chained, Follows(n, m)
      PROVE  \E row \in FreeRows : row.num = n /\ row.next = m
  <2>1. FreedNums # {}
    BY <1>4 DEF FreeRows
  <2>. QED
    BY <1>4, <2>1, LinkHasRow
<1>5. ASSUME FreeRows # {}
      PROVE  {row.next : row \in FreeRows} = {row.num : row \in FreeRows}
  <2>1. ASSUME NEW n \in Chained
        PROVE  n \in {row.next : row \in FreeRows} /\ n \in {row.num : row \in FreeRows}
    <3>1. PICK m \in Chained : Follows(n, m)
      BY ChainCloses
    <3>2. PICK k \in Chained : Follows(k, n)
      BY ChainCloses
    <3>3. PICK row \in FreeRows : row.num = n
      BY <1>4, <1>5, <3>1
    <3>4. PICK other \in FreeRows : other.next = n
      BY <1>4, <1>5, <3>2
    <3>. QED
      BY <3>3, <3>4
  <2>. QED
    BY <1>3, <2>1
<1>6. \A row \in FreeRows : row.next = 0 \/ row.next > row.num
  BY <1>3 DEF Follows
<1>. QED
  BY <1>2, <1>5, <1>6

\* From entry 0, the free entries of an appended section form one ascending
\* chain through all of them and back (update.rs 575-591).
THEOREM FreeEntriesAreChained ==
    ASSUME NumbersFit
    PROVE  Spec => []FreeChain
<1> DEFINE Chain(rows) ==
        LET free == {row \in rows : row.type = "f"}
        IN  free # {} =>
              /\ {row.next : row \in free} = {row.num : row \in free}
              /\ \A row \in free : row.next = 0 \/ row.next > row.num
<1>0. FreeChain <=> \A i \in 2..Len(file) : Chain(file[i].rows)
  BY DEF FreeChain
<1>1. Init => FreeChain
  BY DEF Init, FreeChain
<1>2. IInv /\ FreeChain /\ [Next]_vars => FreeChain'
  <2>. SUFFICES ASSUME IInv, FreeChain, [Next]_vars PROVE FreeChain'
    OBVIOUS
  <2>1. CASE file' = file
    BY <2>1 DEF FreeChain
  <2>2. CASE file' # file
    <3>1. /\ open /\ Len(file) \in Nat \ {0} /\ Len(file') = Len(file) + 1
          /\ \A i \in 1..Len(file) : file'[i] = file[i]
          /\ file'[Len(file')].rows = SectionRows
      BY <2>2, FileMoves DEF AppendSection
    <3>2. Chain(SectionRows)
      BY <3>1, SectionChain
    <3>3. \A i \in 2..Len(file) : Chain(file[i].rows)
      BY DEF FreeChain
    <3>. HIDE DEF Chain
    <3>4. ASSUME NEW i \in 2..Len(file') PROVE Chain(file'[i].rows)
      <4>1. i = Len(file') \/ (i \in 2..Len(file) /\ i \in 1..Len(file))
        BY <3>1
      <4>. QED
        BY <3>1, <3>2, <3>3, <4>1
    <3>. QED
      BY <3>4 DEF FreeChain, Chain
  <2>. QED
    BY <2>1, <2>2
<1>3. IInv /\ [Next]_vars => IInv'
  BY StepInv
<1>. QED
  BY <1>1, <1>2, <1>3, InitInv, PTL DEF Spec

Content == [0..MaxNum -> Bodies \cup {XRefBody}]

-----------------------------------------------------------------------------
\* The fold over a log, as the library defines it: a table over the sets of its
\* places, the highest place of a set coming last.
Highest(s) == CHOOSE x \in s : \A y \in s : x >= y

IsTable(view, changes, t) ==
    t = [s \in SUBSET DOMAIN changes |->
            IF s = {} THEN view
            ELSE LET x == Highest(s)
                 IN  [t[s \ {x}] EXCEPT ![changes[x].num] = changes[x].body]]

LEMMA ReplayUnfolds ==
    ASSUME NEW view, NEW changes
    PROVE  Replay(view, changes) = (CHOOSE t : IsTable(view, changes, t))[DOMAIN changes]
BY Zenon DEF Replay, Seqs!FoldLeft, Seqs!MapThenFoldSet, Seqs!Max, IsTable, Highest

\* What the changes at some places of a log make of an object: the body of the
\* last of them that is of its number.
Of(changes, s, n) == {i \in s : changes[i].num = n}
Outcome(view, changes, s) ==
    [n \in 0..MaxNum |-> IF Of(changes, s, n) = {} THEN view[n]
                         ELSE changes[Highest(Of(changes, s, n))].body]

LEMMA HighestIs ==
    ASSUME NEW s \in SUBSET Nat, IsFiniteSet(s), s # {}
    PROVE  Highest(s) \in s /\ \A y \in s : Highest(s) >= y
BY Extremes DEF Highest

\* The highest element of a set is the only one above all of it.
LEMMA HighestOnly ==
    ASSUME NEW s \in SUBSET Nat, NEW x \in s, \A y \in s : x >= y
    PROVE  Highest(s) = x
<1>1. Highest(s) \in s /\ \A y \in s : Highest(s) >= y
  BY DEF Highest
<1>2. Highest(s) \in Nat /\ x \in Nat /\ Highest(s) >= x /\ x >= Highest(s)
  BY <1>1
<1>. QED
  BY <1>2

\* Applying one more change, at a place above the others.
With(objects, change) == [objects EXCEPT ![change.num] = change.body]
Tops(changes, s, x) ==
    /\ s \in SUBSET Nat /\ x \in s /\ \A y \in s : x >= y
    /\ changes[x].num \in 0..MaxNum

LEMMA OutcomeGrows ==
    ASSUME NEW view, NEW changes, NEW s, NEW x, Tops(changes, s, x)
    PROVE  Outcome(view, changes, s) = With(Outcome(view, changes, s \ {x}), changes[x])
<1> DEFINE old == Outcome(view, changes, s \ {x})
           new == Outcome(view, changes, s)
<1>0. s \in SUBSET Nat /\ x \in s /\ (\A y \in s : x >= y) /\ changes[x].num \in 0..MaxNum
  BY DEF Tops
<1>1. ASSUME NEW n \in 0..MaxNum, n # changes[x].num PROVE new[n] = old[n]
  <2>1. Of(changes, s, n) = Of(changes, s \ {x}, n)
    BY <1>1 DEF Of
  <2>. QED
    BY <2>1 DEF Outcome
<1>2. ASSUME NEW n \in 0..MaxNum, n = changes[x].num PROVE new[n] = changes[x].body
  <2>1. x \in Of(changes, s, n) /\ Of(changes, s, n) \in SUBSET Nat
    BY <1>0, <1>2 DEF Of
  <2>2. \A y \in Of(changes, s, n) : x >= y
    BY <1>0 DEF Of
  <2>3. Highest(Of(changes, s, n)) = x
    BY <2>1, <2>2, HighestOnly
  <2>. QED
    BY <2>1, <2>3 DEF Outcome
<1>3. DOMAIN new = 0..MaxNum /\ DOMAIN old = 0..MaxNum
  BY DEF Outcome
<1>4. new = [n \in 0..MaxNum |-> new[n]] /\ old = [n \in 0..MaxNum |-> old[n]]
  BY DEF Outcome
<1>. HIDE DEF new, old
<1>5. new = [old EXCEPT ![changes[x].num] = changes[x].body]
  BY <1>0, <1>1, <1>2, <1>3, <1>4
<1>. QED
  BY <1>5 DEF new, old, With

\* Replaying a log leaves each object as the last change of it says.
LEMMA ReplayIs ==
    ASSUME NEW view \in Content, NEW changes \in Seq(Changes)
    PROVE  Replay(view, changes) = Outcome(view, changes, DOMAIN changes)
<1> DEFINE D == DOMAIN changes
           closed == [s \in SUBSET D |-> Outcome(view, changes, s)]
<1>1. D = 1..Len(changes) /\ Len(changes) \in Nat
  BY LenProperties
<1>2. D \in SUBSET Nat /\ IsFiniteSet(D)
  <2>1. 1 \in Int /\ Len(changes) \in Int
    BY <1>1
  <2>. QED
    BY <1>1, <2>1, FS_Interval
<1>3. \A x \in D : changes[x].num \in 0..MaxNum
  <2>1. \A x \in DOMAIN changes : changes[x] \in Changes
    BY Elements
  <2>. QED
    BY <2>1, Widths DEF Changes
<1>4. ASSUME NEW s \in SUBSET D, s # {}
      PROVE  /\ Highest(s) \in s /\ \A y \in s : Highest(s) >= y
             /\ s \ {Highest(s)} \in SUBSET D
  <2>1. s \in SUBSET Nat /\ IsFiniteSet(s)
    BY <1>2, FS_Subset
  <2>. QED
    BY <1>4, <2>1, HighestIs
<1>5. ASSUME NEW s \in SUBSET D, s # {}
      PROVE  Outcome(view, changes, s)
               = [Outcome(view, changes, s \ {Highest(s)})
                    EXCEPT ![changes[Highest(s)].num] = changes[Highest(s)].body]
  <2> DEFINE h == Highest(s)
  <2>1. h \in s /\ \A y \in s : h >= y
    BY <1>4, <1>5
  <2>2. Tops(changes, s, h)
    BY <1>2, <1>3, <2>1 DEF Tops
  <2>. HIDE DEF h
  <2>3. Outcome(view, changes, s) = With(Outcome(view, changes, s \ {h}), changes[h])
    BY <2>2, OutcomeGrows
  <2>. QED
    BY <2>3 DEF h, With
<1>6. Outcome(view, changes, {}) = view
  BY DEF Outcome, Of, Content
<1>7. IsTable(view, changes, closed)
  <2>1. ASSUME NEW s \in SUBSET D
        PROVE  closed[s] = IF s = {} THEN view
                           ELSE [closed[s \ {Highest(s)}]
                                   EXCEPT ![changes[Highest(s)].num] = changes[Highest(s)].body]
    BY <1>4, <1>5, <1>6
  <2>2. closed = [s \in SUBSET D |-> closed[s]]
    OBVIOUS
  <2>. HIDE DEF closed
  <2>. QED
    BY <2>1, <2>2 DEF IsTable
<1>8. PICK t : IsTable(view, changes, t) /\ Replay(view, changes) = t[D]
  <2>. HIDE DEF closed
  <2>1. IsTable(view, changes, CHOOSE t : IsTable(view, changes, t))
    BY <1>7
  <2>. QED
    BY <2>1, ReplayUnfolds
<1>9. SUBSET D \subseteq {s \in SUBSET D : t[s] = Outcome(view, changes, s)}
  <2> DEFINE T == {s \in SUBSET D : t[s] = Outcome(view, changes, s)}
  <2>1. ASSUME NEW s \in SUBSET D, \A x \in s : s \ {x} \in T
        PROVE  s \in T
    <3>1. CASE s = {}
      <4>1. t[s] = view
        BY <1>8, <3>1 DEF IsTable
      <4>. QED
        BY <1>6, <3>1, <4>1
    <3>2. CASE s # {}
      <4>1. t[s] = [t[s \ {Highest(s)}]
                      EXCEPT ![changes[Highest(s)].num] = changes[Highest(s)].body]
        BY <1>8, <3>2 DEF IsTable
      <4>2. t[s \ {Highest(s)}] = Outcome(view, changes, s \ {Highest(s)})
        BY <1>4, <2>1, <3>2
      <4>. QED
        BY <1>5, <3>2, <4>1, <4>2
    <3>. QED
      BY <3>1, <3>2
  <2>. HIDE DEF T
  <2>2. \A s \in SUBSET D : (\A x \in s : s \ {x} \in T) => s \in T
    BY <2>1
  <2>3. IsFiniteSet(D)
    BY <1>2
  <2>. HIDE DEF D
  <2>4. SUBSET D \subseteq T
    BY <2>2, <2>3, SubsetInduction
  <2>. QED
    BY <2>4 DEF T
<1>. QED
  BY <1>8, <1>9

-----------------------------------------------------------------------------
\* A replayed log is a version of the objects, and an empty one the same.
LEMMA ReplayTyped ==
    ASSUME NEW view \in Content, NEW changes \in Seq(Changes)
    PROVE  Replay(view, changes) \in Content
<1>1. DOMAIN changes = 1..Len(changes) /\ Len(changes) \in Nat
  BY LenProperties
<1>2. ASSUME NEW n \in 0..MaxNum
      PROVE  Outcome(view, changes, DOMAIN changes)[n] \in Bodies \cup {XRefBody}
  <2> DEFINE s == Of(changes, DOMAIN changes, n)
  <2>1. CASE s = {}
    BY <2>1 DEF Outcome, Content
  <2>2. CASE s # {}
    <3>1. s \subseteq DOMAIN changes /\ s \in SUBSET Nat
      BY <1>1 DEF Of
    <3>2. IsFiniteSet(s)
      <4>1. 1 \in Int /\ Len(changes) \in Int
        BY <1>1
      <4>. QED
        BY <1>1, <3>1, <4>1, FS_Interval, FS_Subset
    <3>3. Highest(s) \in DOMAIN changes
      <4>. HIDE DEF s
      <4>. QED
        BY <2>2, <3>1, <3>2, HighestIs
    <3>4. changes[Highest(s)].body \in Bodies \cup {XRefBody}
      <4>1. changes[Highest(s)] \in Changes
        BY <3>3, Elements
      <4>. QED
        BY <4>1 DEF Changes
    <3>. QED
      BY <2>2, <3>4 DEF Outcome
  <2>. QED
    BY <2>1, <2>2
<1>3. Replay(view, changes) = Outcome(view, changes, DOMAIN changes)
  BY ReplayIs
<1>4. Outcome(view, changes, DOMAIN changes)
        = [n \in 0..MaxNum |-> Outcome(view, changes, DOMAIN changes)[n]]
  BY DEF Outcome
<1>. QED
  BY <1>2, <1>3, <1>4 DEF Content

LEMMA ReplayNothing ==
    ASSUME NEW view \in Content
    PROVE  Replay(view, <<>>) = view
<1>1. <<>> \in Seq(Changes) /\ DOMAIN <<>> = {}
  BY EmptySeq, LenProperties
<1>2. Replay(view, <<>>) = Outcome(view, <<>>, {})
  BY <1>1, ReplayIs
<1>3. \A n : Of(<<>>, {}, n) = {}
  BY DEF Of
<1>. QED
  BY <1>2, <1>3 DEF Outcome, Content

\* A change recorded at the end of the log replaces the body of its object.
LEMMA ReplayOneMore ==
    ASSUME NEW view \in Content, NEW changes \in Seq(Changes), NEW c \in Changes
    PROVE  Replay(view, Append(changes, c)) = [Replay(view, changes) EXCEPT ![c.num] = c.body]
<1> DEFINE longer == Append(changes, c)
           x == Len(changes) + 1
<1>1. /\ DOMAIN changes = 1..Len(changes) /\ Len(changes) \in Nat
      /\ longer \in Seq(Changes) /\ DOMAIN longer = 1..x /\ longer[x] = c
      /\ \A i \in 1..Len(changes) : longer[i] = changes[i]
  BY AppendProperties, LenProperties
<1>2. c.num \in 0..MaxNum
  BY Widths DEF Changes
<1>3. /\ DOMAIN longer \in SUBSET Nat /\ x \in DOMAIN longer
      /\ \A y \in DOMAIN longer : x >= y
      /\ DOMAIN longer \ {x} = DOMAIN changes
  BY <1>1
<1>. HIDE DEF longer, x
<1>6. Tops(longer, DOMAIN longer, x)
  BY <1>1, <1>2, <1>3 DEF Tops
<1>4. Outcome(view, longer, DOMAIN longer)
        = With(Outcome(view, longer, DOMAIN changes), c)
  BY <1>1, <1>3, <1>6, OutcomeGrows
<1>5. Outcome(view, longer, DOMAIN changes) = Outcome(view, changes, DOMAIN changes)
  <2>1. ASSUME NEW n \in 0..MaxNum
        PROVE  Outcome(view, longer, DOMAIN changes)[n] = Outcome(view, changes, DOMAIN changes)[n]
    <3>1. Of(longer, DOMAIN changes, n) = Of(changes, DOMAIN changes, n)
      BY <1>1 DEF Of
    <3>2. CASE Of(changes, DOMAIN changes, n) = {}
      BY <3>1, <3>2 DEF Outcome
    <3>3. CASE Of(changes, DOMAIN changes, n) # {}
      <4> DEFINE s == Of(changes, DOMAIN changes, n)
      <4>1. s \in SUBSET DOMAIN changes /\ s \in SUBSET Nat
        BY <1>1 DEF Of
      <4>2. IsFiniteSet(s)
        <5>1. 1 \in Int /\ Len(changes) \in Int
          BY <1>1
        <5>. QED
          BY <1>1, <4>1, <5>1, FS_Interval, FS_Subset
      <4>. HIDE DEF s
      <4>3. Highest(s) \in DOMAIN changes
        BY <3>3, <4>1, <4>2, HighestIs DEF s
      <4>. QED
        BY <1>1, <3>1, <3>3, <4>3 DEF Outcome, s
    <3>. QED
      BY <3>2, <3>3
  <2>. QED
    BY <2>1 DEF Outcome
<1>. QED
  BY <1>1, <1>4, <1>5, ReplayIs DEF longer, With

-----------------------------------------------------------------------------
\* A freed number has no body, and entry 0 of the file is free in every section.
FreedAreEmpty == \A i \in DOMAIN log : log[i].free => log[i].body = XRefBody
HeadsAreFree == \A i \in DOMAIN file : \A row \in file[i].rows : row.num = 0 => row.type = "f"

\* The base's own entry 0 is the head of its free entries, as the format has it.
HeadIsFree == \A row \in Base : row.num = 0 => row.type = "f"

RInv == IInv /\ FreedAreEmpty /\ HeadsAreFree

-----------------------------------------------------------------------------
\* The newest section with a row for a number.
NewestFor(n) == CHOOSE j \in RowsFor(n) : \A k \in RowsFor(n) : k <= j

LEMMA NewestForIs ==
    ASSUME FileInv, NEW n, RowsFor(n) # {}
    PROVE  NewestFor(n) \in RowsFor(n) /\ \A k \in RowsFor(n) : k <= NewestFor(n)
<1>1. DOMAIN file = 1..Len(file) /\ Len(file) \in Nat
  BY LenProperties DEF FileInv
<1>2. RowsFor(n) \subseteq DOMAIN file /\ RowsFor(n) \in SUBSET Nat
  BY <1>1 DEF RowsFor
<1>3. IsFiniteSet(RowsFor(n))
  <2>1. 1 \in Int /\ Len(file) \in Int
    BY <1>1
  <2>. QED
    BY <1>1, <1>2, <2>1, FS_Interval, FS_Subset
<1>4. PICK j \in RowsFor(n) : \A k \in RowsFor(n) : j >= k
  BY <1>2, <1>3, Extremes
<1>5. \A k \in RowsFor(n) : k <= j
  BY <1>2, <1>4
<1>. QED
  BY <1>4, <1>5, Zenon DEF NewestFor

\* The row a reader uses.
RowOf(n) == CHOOSE x \in file[NewestFor(n)].rows : x.num = n

LEMMA RowOfIs ==
    ASSUME FileInv, NEW n, RowsFor(n) # {}
    PROVE  /\ NewestFor(n) \in DOMAIN file /\ RowOf(n) \in file[NewestFor(n)].rows
           /\ RowOf(n) \in Rows /\ RowOf(n).num = n
<1>1. NewestFor(n) \in RowsFor(n)
  BY NewestForIs
<1>2. NewestFor(n) \in DOMAIN file /\ \E row \in file[NewestFor(n)].rows : row.num = n
  BY <1>1 DEF RowsFor
<1>3. file[NewestFor(n)].rows \in SUBSET Rows
  BY <1>2, NumberedTyped DEF Sections
<1>4. RowOf(n) \in file[NewestFor(n)].rows /\ RowOf(n).num = n
  BY <1>2, Zenon DEF RowOf
<1>. QED
  BY <1>2, <1>3, <1>4

LEMMA Reading ==
    ASSUME NEW n
    PROVE  ReadsAs(n, XRefBody) = IF RowsFor(n) = {} THEN XRefBody
                                  ELSE IF RowOf(n).type = "n" THEN RowOf(n).body ELSE XRefBody
BY Zenon DEF ReadsAs, RowOf, NewestFor

\* What readers find is a version of the objects, in which entry 0 is none.
LEMMA ViewTyped == FileInv => View \in Content
<1>. SUFFICES ASSUME FileInv, NEW n \in 0..MaxNum
              PROVE  ReadsAs(n, XRefBody) \in Bodies \cup {XRefBody}
  BY DEF View, Content
<1>1. RowsFor(n) # {} => RowOf(n) \in Rows
  BY RowOfIs
<1>2. RowsFor(n) # {} => RowOf(n).body \in Bodies \cup {XRefBody}
  BY <1>1 DEF Rows
<1>. QED
  BY <1>2, Reading

LEMMA HeadReadsAbsent == FileInv /\ HeadsAreFree => View[0] = XRefBody
<1>. SUFFICES ASSUME FileInv, HeadsAreFree PROVE View[0] = XRefBody
  OBVIOUS
<1>1. View[0] = ReadsAs(0, XRefBody)
  BY Widths DEF View
<1>2. RowsFor(0) # {} => RowOf(0).type = "f"
  <2>. SUFFICES ASSUME RowsFor(0) # {} PROVE RowOf(0).type = "f"
    OBVIOUS
  <2>. QED
    BY RowOfIs DEF HeadsAreFree
<1>. QED
  BY <1>1, <1>2, Reading

\* A number without rows reads as absent.
LEMMA UnnumberedReadsAbsent ==
    ASSUME NEW n \in 0..MaxNum, n \notin Numbered
    PROVE  View[n] = XRefBody
<1>1. RowsFor(n) = {}
  BY DEF RowsFor, Numbered
<1>. QED
  BY <1>1, Reading DEF View

-----------------------------------------------------------------------------
\* A reader of the file with one more section finds the section's row for a
\* number, or what was there before.
LEMMA SectionReads ==
    ASSUME NumbersFit, RInv, AppendSection, NEW n \in 0..MaxNum
    PROVE  /\ \A row \in SectionRows :
                 row.num = n => View'[n] = IF row.type = "n" THEN row.body ELSE XRefBody
           /\ (\A row \in SectionRows : row.num # n) => View'[n] = View[n]
<1>1. PICK section \in Sections :
          section.rows = SectionRows /\ file' = Append(file, section)
  BY Appended DEF RInv
<1>2. file \in Seq(Sections)
  BY DEF RInv, IInv, FileInv, Sections
<1> DEFINE l == Len(file) + 1
<1>3. /\ DOMAIN file = 1..Len(file) /\ Len(file) \in Nat /\ DOMAIN file' = 1..l
      /\ \A i \in 1..Len(file) : file'[i] = file[i]
      /\ file'[l] = section
  BY <1>1, <1>2, AppendProperties, LenProperties
<1>4. FileInv' /\ FileInv
  BY AppendInv DEF RInv, IInv
<1>5. View'[n] = ReadsAs(n, XRefBody)' /\ View[n] = ReadsAs(n, XRefBody)
  BY DEF View
<1>6. ReadsAs(n, XRefBody)' = IF RowsFor(n)' = {} THEN XRefBody
                              ELSE IF RowOf(n)'.type = "n" THEN RowOf(n)'.body ELSE XRefBody
  BY Zenon DEF ReadsAs, RowOf, NewestFor
<1>7. ASSUME NEW row \in SectionRows, row.num = n
      PROVE  View'[n] = IF row.type = "n" THEN row.body ELSE XRefBody
  <2>1. l \in RowsFor(n)'
    BY <1>1, <1>3, <1>7 DEF RowsFor
  <2>2. RowsFor(n)' \subseteq 1..l
    BY <1>3 DEF RowsFor
  <2>3. NewestFor(n)' = l
    <3>1. \A k \in RowsFor(n)' : k <= l
      BY <1>3, <2>2
    <3>2. \A k \in RowsFor(n)' : (\A j \in RowsFor(n)' : j <= k) => k = l
      BY <1>3, <2>1, <2>2
    <3>. QED
      BY <2>1, <3>1, <3>2, Zenon DEF NewestFor
  <2>4. RowOf(n)' = row
    <3>1. \A x \in SectionRows : x.num = n => x = row
      BY <1>7, OneRowInSection DEF RInv, AppendSection
    <3>2. RowOf(n)' = CHOOSE x \in SectionRows : x.num = n
      BY <1>1, <1>3, <2>3 DEF RowOf
    <3>3. (CHOOSE x \in SectionRows : x.num = n) = row
      BY <1>7, <3>1
    <3>. QED
      BY <3>2, <3>3
  <2>. QED
    BY <1>5, <1>6, <2>1, <2>4
<1>8. ASSUME \A row \in SectionRows : row.num # n PROVE View'[n] = View[n]
  <2>1. RowsFor(n)' = RowsFor(n)
    BY <1>1, <1>3, <1>8 DEF RowsFor
  <2>2. CASE RowsFor(n) = {}
    BY <1>5, <1>6, <2>1, <2>2, Reading
  <2>3. CASE RowsFor(n) # {}
    <3>1. NewestFor(n)' = NewestFor(n)
      BY <2>1, Zenon DEF NewestFor
    <3>2. file'[NewestFor(n)] = file[NewestFor(n)]
      BY <1>3, <1>4, <2>3, RowOfIs
    <3>3. RowOf(n)' = RowOf(n)
      BY <3>1, <3>2, Zenon DEF RowOf
    <3>. QED
      BY <1>5, <1>6, <2>1, <2>3, <3>3, Reading
  <2>. QED
    BY <2>2, <2>3
<1>. QED
  BY <1>7, <1>8

\* The replayed log at a number: its winner's body, or what the file holds.
LEMMA ReplayedAt ==
    ASSUME RInv, NEW n \in 0..MaxNum
    PROVE  /\ \A c \in Winners : c.num = n => Replayed[n] = c.body
           /\ (\A c \in Winners : c.num # n) => Replayed[n] = View[n]
<1>1. log \in Seq(Changes) /\ View \in Content
  BY ViewTyped DEF RInv, IInv, TypeOK
<1>2. DOMAIN log = 1..Len(log) /\ Len(log) \in Nat
  BY <1>1, LenProperties
<1>3. Replayed = Outcome(View, log, DOMAIN log)
  BY <1>1, ReplayIs DEF Replayed
<1> DEFINE s == Of(log, DOMAIN log, n)
<1>4. s \subseteq DOMAIN log /\ s \in SUBSET Nat
  BY <1>2 DEF Of
<1>5. IsFiniteSet(s)
  <2>1. 1 \in Int /\ Len(log) \in Int
    BY <1>2
  <2>. QED
    BY <1>2, <1>4, <2>1, FS_Interval, FS_Subset
<1>6. ASSUME NEW c \in Winners, c.num = n PROVE Replayed[n] = c.body
  <2>1. PICK i \in DOMAIN log :
            c = log[i] /\ \A j \in (i + 1)..Len(log) : log[j].num # log[i].num
    BY DEF Winners
  <2>2. i \in s /\ \A y \in s : i >= y
    BY <1>2, <1>6, <2>1 DEF Of
  <2>3. Highest(s) = i
    <3>. HIDE DEF s
    <3>. QED
      BY <1>4, <2>2, HighestOnly
  <2>. QED
    BY <1>3, <2>1, <2>2, <2>3 DEF Outcome
<1>7. ASSUME \A c \in Winners : c.num # n PROVE Replayed[n] = View[n]
  <2>1. s = {}
    <3>. SUFFICES ASSUME s # {} PROVE FALSE
      OBVIOUS
    <3> DEFINE i == Highest(s)
    <3>1. i \in s /\ \A y \in s : i >= y
      <4>. HIDE DEF s
      <4>. QED
        BY <1>4, <1>5, HighestIs
    <3>2. i \in DOMAIN log /\ log[i].num = n
      BY <3>1 DEF Of
    <3>3. \A j \in (i + 1)..Len(log) : log[j].num # n
      <4>1. \A j \in DOMAIN log : log[j].num = n => i >= j
        BY <3>1 DEF Of
      <4>2. i \in Nat
        BY <1>2, <3>2
      <4>. HIDE DEF i
      <4>. QED
        BY <1>2, <4>1, <4>2
    <3>4. log[i] \in Winners
      BY <3>2, <3>3 DEF Winners
    <3>. QED
      BY <1>7, <3>2, <3>4
  <2>. QED
    BY <1>3, <2>1 DEF Outcome
<1>. QED
  BY <1>6, <1>7

-----------------------------------------------------------------------------
\* A change a caller makes: a body is set, or a number freed.
Plain(c) == c \in AnyChange /\ (c.free => c.body = XRefBody)

LEMMA PlainChanges ==
    ASSUME NEW n \in 0..MaxNum
    PROVE  Plain(Freed(n)) /\ \A body \in Bodies : Plain(SetTo(n, body))
BY DEF Plain, Freed, SetTo, AnyChange

\* Recording it keeps the freed numbers without a body, and replaces at most
\* its own object of the version the log makes.
LogOK(changes) ==
    changes \in Seq(Changes) /\ \A i \in DOMAIN changes : changes[i].free => changes[i].body = XRefBody

LEMMA RecordedPlain ==
    ASSUME NEW c, Plain(c), NEW changes, LogOK(changes), NEW view \in Content
    PROVE  /\ LogOK(Recorded(c, changes))
           /\ \A n \in 0..MaxNum :
                 n # c.num => Replay(view, Recorded(c, changes))[n] = Replay(view, changes)[n]
<1>1. CASE c.num = 0
  BY <1>1 DEF Recorded
<1>2. CASE c.num # 0
  <2>1. c \in Changes /\ Recorded(c, changes) = Append(changes, c) /\ changes \in Seq(Changes)
    BY <1>2, Widths DEF Plain, AnyChange, Changes, Recorded, LogOK
  <2>2. /\ Append(changes, c) \in Seq(Changes)
        /\ \A i \in DOMAIN Append(changes, c) :
              \/ i \in DOMAIN changes /\ Append(changes, c)[i] = changes[i]
              \/ Append(changes, c)[i] = c
    BY <2>1, Grown
  <2>3. LogOK(Append(changes, c))
    BY <2>2 DEF LogOK, Plain
  <2>4. Replay(view, Append(changes, c)) = [Replay(view, changes) EXCEPT ![c.num] = c.body]
    BY <2>1, ReplayOneMore
  <2>5. Replay(view, changes) \in Content
    BY <2>1, ReplayTyped
  <2>6. \A n \in 0..MaxNum :
           n # c.num => [Replay(view, changes) EXCEPT ![c.num] = c.body][n] = Replay(view, changes)[n]
    BY <2>5 DEF Content
  <2>. QED
    BY <2>1, <2>3, <2>4, <2>6
<1>. QED
  BY <1>1, <1>2

\* The abstract specification's own instance of Cardinality is the same one.
LEMMA SameCardinality == \A S : Promise!Cardinality(S) = Cardinality(S)
BY Zenon DEF Promise!Cardinality, Cardinality

\* A set within two elements has at most two.
LEMMA AtMostTwo ==
    ASSUME NEW a, NEW b, NEW S \in SUBSET {a, b}
    PROVE  Cardinality(S) <= 2
<1>1. IsFiniteSet({a}) /\ Cardinality({a}) = 1
  BY FS_Singleton
<1>2. {a, b} = {a} \cup {b}
  OBVIOUS
<1>3. /\ IsFiniteSet({a, b})
      /\ Cardinality({a, b}) = IF b \in {a} THEN Cardinality({a}) ELSE Cardinality({a}) + 1
  BY <1>1, <1>2, FS_AddElement
<1>4. IsFiniteSet(S) /\ Cardinality(S) <= Cardinality({a, b})
  BY <1>3, FS_Subset
<1>5. Cardinality(S) \in Nat /\ Cardinality({a, b}) \in Nat
  BY <1>3, <1>4, FS_CardinalityType
<1>. QED
  BY <1>1, <1>3, <1>4, <1>5

-----------------------------------------------------------------------------
Pending == IF open THEN Replayed ELSE [n \in {} |-> XRefBody]

LEMMA PendingOpen ==
    ASSUME RInv
    PROVE  /\ open <=> Pending # Promise!Closed
           /\ open => Pending = Replayed
           /\ ~open => Pending = Promise!Closed
           /\ Replayed \in Content /\ View \in Content
<1>1. View \in Content /\ Replayed \in Content
  BY ViewTyped, ReplayTyped DEF RInv, IInv, TypeOK, Replayed
<1>2. Replayed # Promise!Closed
  <2>1. 0 \in DOMAIN Replayed
    BY <1>1, Widths DEF Content
  <2>2. DOMAIN Promise!Closed = {}
    BY DEF Promise!Closed
  <2>. QED
    BY <2>1, <2>2
<1>3. Promise!Closed = [n \in {} |-> XRefBody]
  BY DEF Promise!Closed
<1>. QED
  BY <1>1, <1>2, <1>3 DEF Pending

LEMMA TypedNext == (RInv => View \in Content /\ Replayed \in Content)'
<1>1. RInv => View \in Content /\ Replayed \in Content
  BY PendingOpen
<1>. QED
  BY <1>1, PTL

LEMMA SameContent ==
    ASSUME NEW f \in Content, NEW g \in Content, \A n \in 0..MaxNum : f[n] = g[n]
    PROVE  f = g
<1>1. f = [n \in 0..MaxNum |-> f[n]] /\ g = [n \in 0..MaxNum |-> g[n]]
  BY DEF Content
<1>. QED
  BY <1>1

LEMMA RInvInit == ASSUME HeadIsFree PROVE Init => RInv
<1>. SUFFICES ASSUME Init PROVE FreedAreEmpty /\ HeadsAreFree
  BY InitInv DEF RInv
<1>1. FreedAreEmpty
  BY DEF Init, FreedAreEmpty
<1>2. HeadsAreFree
  <2>1. PICK s \in Styles :
            file = <<[rows |-> Base, size |-> Declared, info |-> BaseInfo, style |-> s]>>
    BY DEF Init
  <2>2. DOMAIN file = {1} /\ file[1].rows = Base
    BY <2>1
  <2>. QED
    BY <2>2 DEF HeadsAreFree, HeadIsFree
<1>. QED
  BY <1>1, <1>2

\* The staging operations on the log.
Stages == /\ open /\ UNCHANGED <<file, open>>
          /\ \E c, d : /\ Plain(c) /\ Plain(d)
                       /\ log' = Recorded(d, Recorded(c, log)) \/ log' = Recorded(c, log)

LEMMA StageSteps ==
    ASSUME NumbersFit, RInv,
           \/ \E n \in CallerNums : Remove(n) \/ \E body \in Bodies : Set(n, body)
           \/ \E body \in Bodies : Put(body) \/ SetMetadata(body)
    PROVE  Stages
<1>1. ASSUME NEW n \in CallerNums, Remove(n) \/ \E body \in Bodies : Set(n, body)
      PROVE  Stages
  <2>1. n \in 0..MaxNum
    BY OverlayAssumption
  <2>2. PICK c : Plain(c) /\ log' = Recorded(c, log)
    BY <1>1, <2>1, PlainChanges DEF Remove, Set, Record
  <2>. QED
    BY <1>1, <2>2 DEF Stages, Remove, Set, Staging
<1>2. ASSUME NEW body \in Bodies, Put(body) PROVE Stages
  <2>1. next \in 0..MaxNum
    BY <1>2, Widths DEF RInv, IInv, StageInv, Put, Staging
  <2>2. Plain(SetTo(next, body)) /\ log' = Recorded(SetTo(next, body), log)
    BY <1>2, <2>1, PlainChanges DEF Put, Record
  <2>. QED
    BY <1>2, <2>2 DEF Stages, Put, Staging
<1>3. ASSUME NEW body \in Bodies, SetMetadata(body) PROVE Stages
  <2>1. PICK target \in 0..MaxNum :
            log' = Recorded(SetTo(BaseXmp, body), Recorded(SetTo(target, body), log))
    BY <1>3 DEF SetMetadata
  <2>2. Plain(SetTo(BaseXmp, body)) /\ Plain(SetTo(target, body))
    BY PlainChanges, OverlayAssumption
  <2>. QED
    BY <1>3, <2>1, <2>2 DEF Stages, SetMetadata, Staging
<1>. QED
  BY <1>1, <1>2, <1>3

\* The step kinds of the specification.
LEMMA StepKinds ==
    ASSUME NumbersFit, RInv, [Next]_vars
    PROVE  \/ Open \/ Discard \/ AppendSection \/ Stages
           \/ UNCHANGED <<file, open, log>>
<1>1. CASE Reserve
  BY <1>1 DEF Reserve
<1>2. CASE UNCHANGED vars
  BY <1>2 DEF vars, stageVars
<1>. QED
  BY <1>1, <1>2, StageSteps DEF Next

LEMMA StagedLog ==
    ASSUME RInv, Stages
    PROVE  /\ LogOK(log')
           /\ \E a, b : \A n \in 0..MaxNum :
                 n \notin {a, b} => Replay(View, log')[n] = Replay(View, log)[n]
<1>1. LogOK(log) /\ View \in Content
  BY ViewTyped DEF RInv, IInv, TypeOK, FreedAreEmpty, LogOK
<1>2. PICK c, d : /\ Plain(c) /\ Plain(d)
                  /\ log' = Recorded(d, Recorded(c, log)) \/ log' = Recorded(c, log)
  BY DEF Stages
<1>3. /\ LogOK(Recorded(c, log))
      /\ \A n \in 0..MaxNum :
            n # c.num => Replay(View, Recorded(c, log))[n] = Replay(View, log)[n]
  BY <1>1, <1>2, RecordedPlain
<1>4. /\ LogOK(Recorded(d, Recorded(c, log)))
      /\ \A n \in 0..MaxNum :
            n # d.num => Replay(View, Recorded(d, Recorded(c, log)))[n]
                           = Replay(View, Recorded(c, log))[n]
  BY <1>1, <1>2, <1>3, RecordedPlain
<1>5. \A n \in 0..MaxNum :
         n \notin {c.num, d.num} => Replay(View, log')[n] = Replay(View, log)[n]
  BY <1>2, <1>3, <1>4
<1>. QED
  BY <1>2, <1>3, <1>4, <1>5

LEMMA RInvStep == NumbersFit /\ RInv /\ [Next]_vars => RInv'
<1>. SUFFICES ASSUME NumbersFit, RInv, [Next]_vars PROVE FreedAreEmpty' /\ HeadsAreFree'
  BY StepInv DEF RInv
<1>1. FreedAreEmpty'
  <2>1. CASE Open \/ Discard \/ AppendSection
    <3>1. log' = <<>>
      BY <2>1 DEF Open, Discard, AppendSection, Drop
    <3>. QED
      BY <3>1 DEF FreedAreEmpty
  <2>2. CASE Stages
    BY <2>2, StagedLog DEF LogOK, FreedAreEmpty
  <2>3. CASE UNCHANGED <<file, open, log>>
    BY <2>3 DEF RInv, FreedAreEmpty
  <2>. QED
    BY <2>1, <2>2, <2>3, StepKinds
<1>2. HeadsAreFree'
  <2>1. CASE file' = file
    BY <2>1 DEF RInv, HeadsAreFree
  <2>2. CASE file' # file
    <3>1. /\ open /\ Len(file) \in Nat \ {0} /\ Len(file') = Len(file) + 1
          /\ \A i \in 1..Len(file) : file'[i] = file[i]
          /\ file'[Len(file')].rows = SectionRows
      BY <2>2, FileMoves DEF AppendSection, RInv
    <3>2. /\ file \in Seq(Sections) /\ FileInv'
          /\ DOMAIN file = 1..Len(file)
      BY StepInv, LenProperties DEF RInv, IInv, FileInv, Sections
    <3>3. DOMAIN file' = 1..Len(file')
      BY <3>2, LenProperties DEF FileInv
    <3>4. \A row \in SectionRows : row.num = 0 => row.type = "f"
      <4>1. \A c \in Winners : InFile(c.num, c.body).num # 0
        BY <3>1, WinnersBelow, Widths DEF InFile, RInv
      <4>2. \A row \in StreamRows : row.num # 0
        <5>1. next # 0
          BY <3>1, Widths DEF RInv, IInv, StageInv
        <5>. QED
          BY <5>1 DEF StreamRows, InFile
      <4>3. \A row \in FreeRows : row.type = "f"
        BY DEF FreeRows, FreeRow
      <4>. QED
        BY <4>1, <4>2, <4>3 DEF SectionRows
    <3>5. ASSUME NEW i \in DOMAIN file', NEW row \in file'[i].rows, row.num = 0
          PROVE  row.type = "f"
      <4>1. i = Len(file') \/ i \in 1..Len(file)
        BY <3>1, <3>3
      <4>. QED
        BY <3>1, <3>2, <3>4, <3>5, <4>1 DEF RInv, HeadsAreFree
    <3>. QED
      BY <3>5 DEF HeadsAreFree
  <2>. QED
    BY <2>1, <2>2
<1>. QED
  BY <1>1, <1>2

-----------------------------------------------------------------------------
\* Every freed number has a free row.
LEMMA FreedHaveRows ==
    ASSUME IInv, open, FreedNums # {}, NEW n \in Chained
    PROVE  \E row \in SectionRows : row.num = n /\ row.type = "f"
<1>1. PICK m \in Chained : Follows(n, m)
  BY ChainCloses
<1>2. PICK row \in FreeRows : row.num = n /\ row.next = m
  BY <1>1, LinkHasRow
<1>3. row \in SectionRows /\ row.type = "f"
  BY <1>2 DEF SectionRows, FreeRows, FreeRow
<1>. QED
  BY <1>2, <1>3

\* What is appended reads as what was staged.
LEMMA AppendCommits ==
    ASSUME NumbersFit, RInv, AppendSection
    PROVE  View' = Replayed
<1>0. open /\ (Style = "Stream" => next < Limit)
  BY DEF AppendSection
<1>1. /\ \A c \in Winners : c.num \in 1..MaxNum /\ c.num < next
      /\ \A n \in FreedNums : n \in 1..MaxNum /\ n < next
      /\ next \in 1..MaxNum
  BY <1>0, WinnersBelow DEF RInv, IInv, StageInv
<1>2. \A c \in Winners : c.free => c.body = XRefBody
  BY DEF Winners, RInv, FreedAreEmpty
<1>3. ASSUME NEW n \in 0..MaxNum PROVE View'[n] = Replayed[n]
  <2>1. ASSUME NEW c \in Winners, c.num = n PROVE View'[n] = Replayed[n]
    <3>1. Replayed[n] = c.body
      BY <2>1, ReplayedAt
    <3>2. CASE c.free
      <4>1. n \in FreedNums /\ n \in Chained /\ FreedNums # {}
        BY <2>1, <3>2 DEF FreedNums, Chained
      <4>2. PICK row \in SectionRows : row.num = n /\ row.type = "f"
        BY <4>1, <1>0, FreedHaveRows DEF RInv
      <4>. QED
        BY <1>2, <2>1, <3>1, <3>2, <4>2, SectionReads
    <3>3. CASE ~c.free
      <4>1. InFile(c.num, c.body) \in SectionRows
        BY <3>3 DEF SectionRows
      <4>2. InFile(c.num, c.body).num = n /\ InFile(c.num, c.body).type = "n"
            /\ InFile(c.num, c.body).body = c.body
        BY <2>1 DEF InFile
      <4>. QED
        BY <3>1, <4>1, <4>2, SectionReads
    <3>. QED
      BY <3>2, <3>3
  <2>2. ASSUME \A c \in Winners : c.num # n PROVE View'[n] = Replayed[n]
    <3>1. Replayed[n] = View[n]
      BY <2>2, ReplayedAt
    <3>2. CASE \A row \in SectionRows : row.num # n
      BY <3>1, <3>2, SectionReads
    <3>3. ASSUME NEW row \in SectionRows, row.num = n PROVE View'[n] = View[n]
      <4>1. CASE row \in StreamRows
        <5>1. row.num = next /\ row.body = XRefBody /\ row.type = "n"
          BY <4>1 DEF StreamRows, InFile
        <5>2. n \notin Numbered
          BY <1>0, <1>1, <3>3, <5>1, NumberedTyped, Widths DEF RInv, IInv, StageInv
        <5>. QED
          BY <3>3, <5>1, <5>2, SectionReads, UnnumberedReadsAbsent
      <4>2. CASE row \in FreeRows
        <5>1. row.num \in Chained /\ row.type = "f"
          BY <4>2 DEF FreeRows, FreeRow
        <5>2. n \notin FreedNums
          BY <2>2 DEF FreedNums
        <5>3. n = 0
          BY <3>3, <5>1, <5>2 DEF Chained
        <5>. QED
          BY <3>3, <5>1, <5>3, SectionReads, HeadReadsAbsent DEF RInv, IInv
      <4>3. ~\E c \in Winners : row = InFile(c.num, c.body)
        BY <2>2, <3>3 DEF InFile
      <4>. QED
        BY <4>1, <4>2, <4>3 DEF SectionRows
    <3>. QED
      BY <3>1, <3>2, <3>3
  <2>. QED
    BY <2>1, <2>2
<1>4. Replayed \in Content /\ View' \in Content
  <2>1. RInv'
    BY RInvStep DEF Next
  <2>. QED
    BY <2>1, PendingOpen, TypedNext
<1>. QED
  BY <1>3, <1>4, SameContent

\* The staged version is private to the update, the last change of a number
\* counts, and appending a section makes exactly that version the file's,
\* whatever the earlier sections hold (update.rs 545-608).
THEOREM SectionsCommitWhatWasStaged ==
    ASSUME NumbersFit, HeadIsFree
    PROVE  Spec => ImplementsRevisions
<1>1. Init => Promise!RevInit
  <2>. SUFFICES ASSUME Init PROVE Promise!RevInit
    OBVIOUS
  <2>1. RInv /\ ~open
    BY RInvInit DEF Init
  <2>2. View \in Content /\ Pending = Promise!Closed
    BY <2>1, PendingOpen
  <2>. QED
    BY <2>2 DEF Promise!RevInit, Content, Pending
<1>2. RInv /\ [Next]_vars => [Promise!RevNext]_(Promise!revisionVars)
  <2>. SUFFICES ASSUME RInv, [Next]_vars
                PROVE  Promise!RevNext \/ UNCHANGED <<View, Pending>>
    BY DEF Promise!revisionVars, Pending
  <2>0. RInv'
    BY RInvStep
  <2>1. /\ open <=> Pending # Promise!Closed
        /\ open => Pending = Replayed
        /\ ~open => Pending = Promise!Closed
        /\ Replayed \in Content /\ View \in Content
    BY PendingOpen
  <2>2. /\ open' => Pending' = Replayed'
        /\ ~open' => Pending' = Promise!Closed
        /\ Replayed' \in Content /\ View' \in Content
    <3>1. View' \in Content /\ Replayed' \in Content
      BY <2>0, TypedNext
    <3>. QED
      BY <3>1 DEF Pending, Promise!Closed
  <2>3. ASSUME file' = file PROVE View' = View
    BY <2>3 DEF View, ReadsAs, RowsFor
  <2>4. Replayed' = Replay(View', log') /\ Replayed = Replay(View, log)
    BY DEF Replayed
  <2>5. CASE Open
    <3>1. ~open /\ open' /\ View' = View /\ log' = <<>>
      BY <2>3, <2>5 DEF Open
    <3>2. Pending' = View
      BY <2>1, <2>2, <2>4, <3>1, ReplayNothing
    <3>. QED
      BY <2>1, <3>1, <3>2 DEF Promise!RevNext, Promise!RevOpen, Pending
  <2>6. CASE Discard
    <3>1. open /\ ~open' /\ View' = View
      BY <2>3, <2>6 DEF Discard, Drop
    <3>. QED
      BY <2>1, <2>2, <3>1 DEF Promise!RevNext, Promise!RevDiscard, Pending
  <2>7. CASE AppendSection
    <3>1. open /\ ~open' /\ View' = Replayed
      BY <2>7, AppendCommits DEF AppendSection, Drop
    <3>. QED
      BY <2>1, <2>2, <3>1 DEF Promise!RevNext, Promise!RevCommit, Pending
  <2>8. CASE Stages
    <3>1. open /\ open' /\ View' = View
      BY <2>3, <2>8 DEF Stages
    <3>2. PICK a, b : \A n \in 0..MaxNum :
                 n \notin {a, b} => Replay(View, log')[n] = Replay(View, log)[n]
      BY <2>8, StagedLog
    <3>3. Pending = Replay(View, log) /\ Pending' = Replay(View, log')
      BY <2>1, <2>2, <2>4, <3>1
    <3>4. {n \in 0..MaxNum : Pending'[n] # Pending[n]} \in SUBSET {a, b}
      BY <3>2, <3>3
    <3>5. Cardinality({n \in 0..MaxNum : Pending'[n] # Pending[n]}) <= 2
      BY <3>4, AtMostTwo
    <3>6. Pending # Promise!Closed /\ Pending' \in Content
      BY <2>1, <2>2, <3>1
    <3>7. Promise!RevChange
      <4> DEFINE now == IF open THEN Replayed ELSE [n \in {} |-> XRefBody]
      <4>1. now = Pending /\ now' = Pending'
        BY DEF Pending
      <4>2. now # Promise!Closed
        BY <3>6, <4>1
      <4>3. now' \in [0..MaxNum -> Bodies \cup {XRefBody}]
        BY <3>6, <4>1 DEF Content
      <4>4. Promise!Cardinality({n \in 0..MaxNum : now'[n] # now[n]}) <= 2
        BY <3>5, <4>1, SameCardinality
      <4>. QED
        BY <3>1, <4>2, <4>3, <4>4, Zenon DEF Promise!RevChange
    <3>. QED
      BY <3>7 DEF Promise!RevNext
  <2>9. CASE UNCHANGED <<file, open, log>>
    <3>1. View' = View /\ open' = open /\ log' = log
      BY <2>3, <2>9
    <3>2. Replayed' = Replayed
      BY <2>4, <3>1
    <3>. QED
      BY <3>1, <3>2 DEF Pending
  <2>. QED
    BY <2>5, <2>6, <2>7, <2>8, <2>9, StepKinds
<1>3. RInv /\ [Next]_vars => RInv'
  BY RInvStep
<1>4. Init => RInv
  BY RInvInit
<1>. QED
  BY <1>1, <1>2, <1>3, <1>4, PTL DEF Spec, ImplementsRevisions, Promise!RevSpec
=============================================================================
