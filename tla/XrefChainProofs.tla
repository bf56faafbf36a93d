-------------------------- MODULE XrefChainProofs --------------------------
(***************************************************************************)
(* The walks over cross-reference sections proved for every file: they are *)
(* all the same run over its sections, so they agree, and the run keeps    *)
(* the newest revision's entry for each object.                            *)
(***************************************************************************)
EXTENDS XrefChain, WellFoundedInduction, FiniteSetTheorems, SequenceTheorems, TLAPS

Places == Offsets \cup {Nowhere}
Tables == UNION {[S -> Offsets] : S \in SUBSET Nums}

LEMMA Constants == /\ Offsets \in SUBSET Nat /\ Nowhere \notin Offsets
                   /\ IsFiniteSet(Offsets) /\ Files \subseteq [Offsets -> Section]
                   /\ Starts \subseteq Offsets /\ MaxFaults \in Nat
BY XrefChainAssumption DEF Nowhere

LEMMA SectionParts ==
    ASSUME NEW f \in [Offsets -> Section], NEW o \in Offsets
    PROVE  /\ f[o] \in Section /\ f[o].parses \in BOOLEAN /\ f[o].defines \in SUBSET Nums
           /\ f[o].root \in BOOLEAN /\ f[o].prev \in Places /\ f[o].xrefstm \in Places
BY DEF Section, Places

LEMMA TablesAre ==
    ASSUME NEW t
    PROVE  t \in Tables <=> /\ t = [n \in DOMAIN t |-> t[n]] /\ DOMAIN t \in SUBSET Nums
                            /\ \A n \in DOMAIN t : t[n] \in Offsets
BY DEF Tables

LEMMA NoTable == <<>> \in Tables /\ DOMAIN <<>> = {}
<1>1. <<>> = [n \in {} |-> 0]
  OBVIOUS
<1>2. DOMAIN <<>> = {}
  OBVIOUS
<1>. QED
  BY <1>1, <1>2, TablesAre

\* A table without entries is the empty one.
LEMMA EmptyTable == \A t \in Tables : DOMAIN t = {} <=> t = <<>>
<1>. SUFFICES ASSUME NEW t \in Tables, DOMAIN t = {} PROVE t = <<>>
  BY NoTable
<1>1. t = [n \in {} |-> t[n]]
  BY TablesAre
<1>2. <<>> = [n \in {} |-> <<>>[n]]
  OBVIOUS
<1>. QED
  BY <1>1, <1>2

-----------------------------------------------------------------------------
(* The reference run over the sections of f, a constant: its state, what one *)
(* section with its hybrid stream adds, and the states it reaches.           *)
Stages == [next : Places, visited : SUBSET Offsets, sections : Seq(Offsets), table : Tables]

Merge(f, t, o) == [n \in DOMAIN t \cup f[o].defines |-> IF n \in DOMAIN t THEN t[n] ELSE o]

Unseen(l, o) == o # Nowhere /\ o \notin l.visited

\* The hybrid stream read with the next section, and the one of use.
Stream(f, l) ==
    LET h == f[l.next].xrefstm IN IF h \notin l.visited \cup {l.next} THEN h ELSE Nowhere
Useful(f, h) == IF h # Nowhere /\ f[h].parses THEN h ELSE Nowhere

CanAdvance(f, l) == Unseen(l, l.next) /\ f[l.next].parses

Advance(f, l) ==
    LET h == Useful(f, Stream(f, l))
    IN  [next |-> f[l.next].prev,
         visited |-> l.visited \cup ({l.next, Stream(f, l)} \ {Nowhere}),
         sections |-> l.sections \o (IF h = Nowhere THEN <<l.next>> ELSE <<l.next, h>>),
         table |-> Merge(f, IF h = Nowhere THEN l.table ELSE Merge(f, l.table, h), l.next)]

Closed(f, S) == \A l \in S : CanAdvance(f, l) => Advance(f, l) \in S
Leads(f, a, b) == \A S \in SUBSET Stages : Closed(f, S) /\ a \in S => b \in S

Begin(s) == [next |-> s, visited |-> {}, sections |-> <<>>, table |-> <<>>]

LEMMA BeginTyped == \A s \in Offsets : Begin(s) \in Stages
BY NoTable, EmptySeq DEF Begin, Stages, Places

LEMMA MergeTyped ==
    ASSUME NEW f \in [Offsets -> Section], NEW t \in Tables, NEW o \in Offsets
    PROVE  Merge(f, t, o) \in Tables /\ DOMAIN Merge(f, t, o) = DOMAIN t \cup f[o].defines
<1>1. DOMAIN Merge(f, t, o) = DOMAIN t \cup f[o].defines
  BY DEF Merge
<1>2. DOMAIN t \in SUBSET Nums /\ f[o].defines \in SUBSET Nums
  BY TablesAre, SectionParts
<1>3. \A n \in DOMAIN Merge(f, t, o) : Merge(f, t, o)[n] \in Offsets
  BY <1>1, TablesAre DEF Merge
<1>4. Merge(f, t, o) = [n \in DOMAIN Merge(f, t, o) |-> Merge(f, t, o)[n]]
  BY DEF Merge
<1>. QED
  BY <1>1, <1>2, <1>3, <1>4, TablesAre

LEMMA StreamTyped ==
    ASSUME NEW f \in [Offsets -> Section], NEW l \in Stages, l.next \in Offsets
    PROVE  /\ Stream(f, l) \in Places /\ Useful(f, Stream(f, l)) \in Places
           /\ Stream(f, l) # Nowhere =>
                 Stream(f, l) = f[l.next].xrefstm /\ Stream(f, l) \notin l.visited \cup {l.next}
BY SectionParts DEF Stream, Useful, Stages, Places

LEMMA AdvanceTyped ==
    ASSUME NEW f \in [Offsets -> Section], NEW l \in Stages, CanAdvance(f, l)
    PROVE  Advance(f, l) \in Stages
<1>1. l.next \in Offsets /\ l.sections \in Seq(Offsets) /\ l.table \in Tables
      /\ l.visited \in SUBSET Offsets
  BY DEF Stages, Places, CanAdvance, Unseen
<1> DEFINE h == Useful(f, Stream(f, l))
           hs == IF h = Nowhere THEN <<l.next>> ELSE <<l.next, h>>
           ht == IF h = Nowhere THEN l.table ELSE Merge(f, l.table, h)
<1>2. Stream(f, l) \in Places /\ h \in Places /\ f[l.next].prev \in Places
  BY <1>1, StreamTyped, SectionParts
<1>3. hs \in Seq(Offsets)
  BY <1>1, <1>2 DEF Places
<1>4. l.sections \o hs \in Seq(Offsets)
  BY <1>1, <1>3, ConcatProperties
<1>5. ht \in Tables
  BY <1>1, <1>2, MergeTyped DEF Places
<1>6. Merge(f, ht, l.next) \in Tables
  BY <1>1, <1>5, MergeTyped
<1>7. l.visited \cup ({l.next, Stream(f, l)} \ {Nowhere}) \in SUBSET Offsets
  BY <1>1, <1>2 DEF Places
<1>. QED
  BY <1>2, <1>4, <1>6, <1>7 DEF Advance, Stages

\* Every state reaches itself, and what it reaches leads on.
LEMMA LeadsOn ==
    ASSUME NEW f \in [Offsets -> Section], NEW a \in Stages, NEW b, Leads(f, a, b)
    PROVE  b \in Stages /\ (CanAdvance(f, b) => Leads(f, a, Advance(f, b)))
<1>1. Closed(f, Stages)
  BY AdvanceTyped DEF Closed
<1>2. b \in Stages
  BY <1>1 DEF Leads
<1>. QED
  BY <1>2 DEF Leads, Closed

LEMMA LeadsSelf == ASSUME NEW f, NEW a PROVE Leads(f, a, a)
BY DEF Leads

\* What holds at the start and from a state to the next holds all along.
LEMMA AllAlong ==
    ASSUME NEW f, NEW a, NEW b, Leads(f, a, b), NEW S \in SUBSET Stages, Closed(f, S), a \in S
    PROVE  b \in S
BY DEF Leads

\* The run is deterministic: it stops in one state.
LEMMA OneEnd ==
    ASSUME NEW f \in [Offsets -> Section], NEW a \in Stages, NEW x, NEW y,
           Leads(f, a, x), Leads(f, a, y), ~CanAdvance(f, x), ~CanAdvance(f, y)
    PROVE  x = y
<1> DEFINE S == {l \in Stages : Leads(f, a, l) /\ Leads(f, l, x)}
<1>1. a \in S
  BY LeadsSelf
<1>2. ASSUME NEW l \in S, CanAdvance(f, l) PROVE Advance(f, l) \in S
  <2>1. Leads(f, a, Advance(f, l)) /\ Advance(f, l) \in Stages
    BY <1>2, LeadsOn, AdvanceTyped
  <2>2. ASSUME NEW T \in SUBSET Stages, Closed(f, T), Advance(f, l) \in T
        PROVE  x \in T
    <3>1. T \cup {l} \in SUBSET Stages /\ l \in T \cup {l}
      OBVIOUS
    <3>2. Closed(f, T \cup {l})
      BY <2>2 DEF Closed
    <3>3. x \in T \cup {l}
      BY <3>1, <3>2 DEF Leads
    <3>4. x # l
      BY <1>2
    <3>. QED
      BY <3>3, <3>4
  <2>. QED
    BY <2>1, <2>2 DEF Leads
<1>3. Closed(f, S)
  BY <1>2 DEF Closed
<1>4. y \in S
  <2>. HIDE DEF S
  <2>1. S \in SUBSET Stages
    BY DEF S
  <2>. QED
    BY <1>1, <1>3, <2>1, AllAlong
<1>5. Leads(f, y, x) /\ y \in Stages
  BY <1>4
<1>6. Closed(f, {y})
  BY DEF Closed
<1>. QED
  BY <1>5, <1>6 DEF Leads

-----------------------------------------------------------------------------
(* The loaders are on the run.                                              *)
FileOK == file \in Files /\ start \in Starts

Proj(w) == [next |-> w.next, visited |-> w.visited, sections |-> w.sections, table |-> w.table]

\* A loader about to read the hybrid stream of the section after stage l.
Between(f, l, w) ==
    /\ CanAdvance(f, l) /\ Stream(f, l) # Nowhere
    /\ w.next = l.next /\ w.visited = l.visited \cup {l.next}
    /\ w.sections = l.sections /\ w.table = l.table

\* Where a chain ends, and where it breaks.
Over(l) == ~Unseen(l, l.next)
BreaksOff(f, l) == Unseen(l, l.next) /\ ~f[l.next].parses

Follows(f, s, m, w) ==
    /\ w.at = "chain" => Leads(f, Begin(s), Proj(w))
    /\ w.at = "hybrid" => \E l \in Stages : Leads(f, Begin(s), l) /\ Between(f, l, w)
    /\ w.at = "loaded" => w.table # <<>>
    /\ w.at = "loaded" \/ (w.at = "scan" /\ w.table # <<>>) =>
          Leads(f, Begin(s), Proj(w)) /\ Over(Proj(w))
    /\ w.at = "failed" /\ m = "async" =>
          \E l \in Stages : /\ Leads(f, Begin(s), l)
                            /\ BreaksOff(f, l) \/ (Over(l) /\ l.table = <<>>)

\* A failed read excuses the asynchronous loader.
Healthy(m) == m = "sync" \/ faults = MaxFaults
OnTheRun == \A m \in Modes : Healthy(m) => Follows(file, start, m, walk[m])

LEMMA FileParts ==
    ASSUME FileOK
    PROVE  /\ file \in [Offsets -> Section] /\ start \in Offsets /\ Begin(start) \in Stages
BY Constants, BeginTyped DEF FileOK

LEMMA ProjTyped ==
    ASSUME NEW w \in Walk
    PROVE  /\ Proj(w) \in Stages /\ w.next \in Places /\ w.visited \in SUBSET Offsets
           /\ w.sections \in Seq(Offsets) /\ w.table \in Tables /\ w.root \in BOOLEAN
           /\ Proj(w).next = w.next /\ Proj(w).visited = w.visited
           /\ Proj(w).sections = w.sections /\ Proj(w).table = w.table
BY DEF Walk, Proj, Stages, Places, Tables

LEMMA MergedIs == \A t, o : Merged(t, o) = Merge(file, t, o)
BY DEF Merged, Merge

\* A loader takes a section: the fields of its state.
Took(v, w, o, h) ==
    /\ v \in Walk /\ v.at = "chain" /\ v.next = file[o].prev /\ v.visited = w.visited
    /\ v.sections = w.sections \o (IF h = Nowhere THEN <<o>> ELSE <<o, h>>)
    /\ v.table = Merge(file, IF h = Nowhere THEN w.table ELSE Merge(file, w.table, h), o)

LEMMA TakingIs ==
    ASSUME FileOK, NEW w \in Walk, NEW o \in Offsets, NEW h \in Places
    PROVE  Took(Taking(w, o, h), w, o, h)
<1> DEFINE hs == w.sections \o (IF h = Nowhere THEN <<o>> ELSE <<o, h>>)
           ht == IF h = Nowhere THEN w.table ELSE Merge(file, w.table, h)
           t == Merge(file, ht, o)
           r == w.root \/ file[o].root \/ (h # Nowhere /\ file[h].root)
<1>1. file \in [Offsets -> Section]
  BY FileParts
<1>2. w.sections \in Seq(Offsets) /\ w.table \in Tables /\ w.root \in BOOLEAN
  BY ProjTyped
<1>3. hs \in Seq(Offsets)
  <2>1. (IF h = Nowhere THEN <<o>> ELSE <<o, h>>) \in Seq(Offsets)
    BY DEF Places
  <2>. QED
    BY <1>2, <2>1, ConcatProperties
<1>4. t \in Tables
  <2>1. ht \in Tables
    BY <1>1, <1>2, MergeTyped DEF Places
  <2>. QED
    BY <1>1, <2>1, MergeTyped
<1>5. r \in BOOLEAN /\ file[o].prev \in Places
  BY <1>1, <1>2, SectionParts DEF Places
<1>6. Taking(w, o, h) = [w EXCEPT !.at = "chain", !.next = file[o].prev, !.table = t,
                                  !.root = r, !.sections = hs]
  BY MergedIs DEF Taking
<1>. HIDE DEF hs, t, r
<1>7. [w EXCEPT !.at = "chain", !.next = file[o].prev, !.table = t, !.root = r, !.sections = hs]
        \in Walk
  BY <1>3, <1>4, <1>5 DEF Walk, Places, Tables
<1>8. LET v == [w EXCEPT !.at = "chain", !.next = file[o].prev, !.table = t, !.root = r,
                         !.sections = hs]
      IN  /\ v.at = "chain" /\ v.next = file[o].prev /\ v.visited = w.visited
          /\ v.sections = hs /\ v.table = t
  BY DEF Walk
<1>. QED
  BY <1>6, <1>7, <1>8 DEF hs, t, Took

-----------------------------------------------------------------------------
\* What reading does to a loader's state.
Seen(w, o) == [w EXCEPT !.visited = @ \cup {o}]

LEMMA SeenIs ==
    ASSUME NEW w \in Walk, NEW o \in Offsets
    PROVE  LET v == Seen(w, o)
           IN  /\ v \in Walk /\ v.at = w.at /\ v.next = w.next /\ v.visited = w.visited \cup {o}
               /\ v.sections = w.sections /\ v.table = w.table
               /\ [v EXCEPT !.at = "hybrid"] \in Walk
               /\ [v EXCEPT !.at = "hybrid"].at = "hybrid"
               /\ Proj([v EXCEPT !.at = "hybrid"]) = Proj(v)
BY DEF Seen, Walk, Proj

LEMMA GivenUpIs ==
    ASSUME NEW w \in Walk, NEW m \in Modes
    PROVE  /\ GivenUp(w, m) \in Walk /\ GivenUp(w, m).table = <<>>
           /\ GivenUp(w, m).at = IF m = "sync" THEN "scan" ELSE "failed"
BY NoTable DEF GivenUp, Walk, Tables

LEMMA EndedIs ==
    ASSUME NEW w \in Walk, NEW at \in {"loaded", "scan", "failed"}
    PROVE  /\ [w EXCEPT !.at = at] \in Walk /\ [w EXCEPT !.at = at].at = at
           /\ [w EXCEPT !.at = at].table = w.table /\ Proj([w EXCEPT !.at = at]) = Proj(w)
BY DEF Walk, Proj

LEMMA RecoveredIs ==
    ASSUME NEW w \in Walk, NEW root \in BOOLEAN
    PROVE  /\ [w EXCEPT !.at = "recovered", !.table = <<>>, !.root = root] \in Walk
           /\ [w EXCEPT !.at = "recovered", !.table = <<>>, !.root = root].at = "recovered"
BY NoTable DEF Walk, Tables

\* Taking a section without a hybrid stream, or with one, is a step of the run.
LEMMA TakesOne ==
    ASSUME FileOK, NEW w \in Walk, Fresh(w, w.next), file[w.next].parses,
           ~Fresh(Seen(w, w.next), file[w.next].xrefstm)
    PROVE  /\ CanAdvance(file, Proj(w))
           /\ Proj(Taking(Seen(w, w.next), w.next, Nowhere)) = Advance(file, Proj(w))
           /\ Taking(Seen(w, w.next), w.next, Nowhere) \in Walk
           /\ Taking(Seen(w, w.next), w.next, Nowhere).at = "chain"
<1> DEFINE l == Proj(w)
           v == Taking(Seen(w, w.next), w.next, Nowhere)
<1>1. /\ l.next = w.next /\ l.visited = w.visited /\ l.sections = w.sections /\ l.table = w.table
      /\ w.next \in Offsets /\ Nowhere \in Places
  BY ProjTyped DEF Fresh, Places
<1>2. CanAdvance(file, l)
  BY <1>1 DEF CanAdvance, Unseen, Fresh
<1>3. Seen(w, w.next) \in Walk /\ Seen(w, w.next).visited = w.visited \cup {w.next}
      /\ Seen(w, w.next).sections = w.sections /\ Seen(w, w.next).table = w.table
  BY <1>1, SeenIs
<1>4. Stream(file, l) = Nowhere /\ Useful(file, Stream(file, l)) = Nowhere
  BY <1>1, <1>3 DEF Stream, Useful, Fresh
<1>5. /\ v \in Walk /\ v.at = "chain" /\ v.next = file[w.next].prev
      /\ v.visited = w.visited \cup {w.next}
      /\ v.sections = w.sections \o <<w.next>> /\ v.table = Merge(file, w.table, w.next)
  <2>1. Took(v, Seen(w, w.next), w.next, Nowhere)
    BY <1>1, <1>3, TakingIs
  <2>. QED
    BY <2>1, <1>3 DEF Took
<1>6. l.visited \cup ({l.next, Stream(file, l)} \ {Nowhere}) = w.visited \cup {w.next}
  BY <1>1, <1>4, Constants
<1>. HIDE DEF l, v
<1>7. Proj(v) = Advance(file, l)
  BY <1>1, <1>4, <1>5, <1>6 DEF Proj, Advance
<1>. QED
  BY <1>2, <1>5, <1>7 DEF l, v

LEMMA TakesBoth ==
    ASSUME FileOK, NEW w \in Walk, NEW l \in Stages, Between(file, l, w)
    PROVE  LET h == file[w.next].xrefstm
               v == Taking(Seen(w, h), w.next, IF file[h].parses THEN h ELSE Nowhere)
           IN  v \in Walk /\ v.at = "chain" /\ Proj(v) = Advance(file, l)
<1> DEFINE h == file[w.next].xrefstm
           use == IF file[h].parses THEN h ELSE Nowhere
           v == Taking(Seen(w, h), w.next, use)
<1>1. /\ w.next = l.next /\ w.visited = l.visited \cup {l.next} /\ w.sections = l.sections
      /\ w.table = l.table /\ l.next \in Offsets /\ Stream(file, l) # Nowhere
  BY DEF Between, CanAdvance, Unseen, Stages, Places
<1>2. Stream(file, l) = h /\ h \in Offsets
  BY <1>1, FileParts, StreamTyped DEF Places
<1>3. Useful(file, Stream(file, l)) = use /\ use \in Places
  BY <1>1, <1>2 DEF Useful, Places
<1>4. Seen(w, h) \in Walk /\ Seen(w, h).visited = w.visited \cup {h}
      /\ Seen(w, h).sections = w.sections /\ Seen(w, h).table = w.table
  BY <1>2, SeenIs
<1>5. /\ v \in Walk /\ v.at = "chain" /\ v.next = file[w.next].prev
      /\ v.visited = w.visited \cup {h}
      /\ v.sections = w.sections \o (IF use = Nowhere THEN <<w.next>> ELSE <<w.next, use>>)
      /\ v.table = Merge(file, IF use = Nowhere THEN w.table ELSE Merge(file, w.table, use), w.next)
  <2>. HIDE DEF h, use
  <2>1. Took(v, Seen(w, h), w.next, use)
    BY <1>1, <1>3, <1>4, TakingIs
  <2>. QED
    BY <2>1, <1>1, <1>4 DEF Took
<1>6. l.visited \cup ({l.next, Stream(file, l)} \ {Nowhere}) = w.visited \cup {h}
  BY <1>1, <1>2, Constants
<1>. HIDE DEF h, use, v
<1>7. Proj(v) = Advance(file, l)
  BY <1>1, <1>3, <1>5, <1>6 DEF Proj, Advance
<1>. QED
  BY <1>5, <1>7 DEF h, use, v

-----------------------------------------------------------------------------
(* Every step keeps the loaders on the run.                                 *)
\* There is a hybrid stream to read.
HasHybrid(f, w) == w.at = "hybrid" => w.next \in Offsets /\ f[w.next].xrefstm \in Offsets
HybridsStand == \A m \in Modes : HasHybrid(file, walk[m])

WInv == FileOK /\ TypeOK /\ HybridsStand /\ OnTheRun

LEMMA MoveKeeps ==
    ASSUME WInv, NEW m \in Modes, NEW v \in Walk, walk' = [walk EXCEPT ![m] = v],
           UNCHANGED <<file, start>>, iter' \in Iteration,
           faults' = faults \/ (faults > 0 /\ faults' = faults - 1),
           HasHybrid(file, v), Healthy(m)' => Follows(file, start, m, v)
    PROVE  WInv'
<1>. USE DEF WInv
<1>1. FileOK'
  BY DEF FileOK
<1>2. faults \in 0..MaxFaults /\ faults' \in 0..MaxFaults /\ MaxFaults \in Nat
  BY Constants DEF TypeOK
<1>3. walk \in [Modes -> Walk] /\ walk' \in [Modes -> Walk] /\ walk'[m] = v
  BY DEF TypeOK
<1>4. TypeOK'
  BY <1>2, <1>3 DEF TypeOK
<1>5. ASSUME NEW k \in Modes, k # m PROVE walk'[k] = walk[k]
  BY <1>3, <1>5
<1>6. HybridsStand'
  <2>1. \A k \in Modes : HasHybrid(file, walk'[k])
    BY <1>3, <1>5 DEF HybridsStand
  <2>. QED
    BY <2>1 DEF HybridsStand, HasHybrid
<1>7. OnTheRun'
  <2>1. ASSUME NEW k \in Modes, Healthy(k)' PROVE Follows(file', start', k, walk'[k])
    <3>1. Healthy(k)
      BY <2>1, <1>2 DEF Healthy
    <3>2. CASE k = m
      BY <3>2, <1>3, <2>1
    <3>3. CASE k # m
      BY <3>1, <3>3, <1>5 DEF OnTheRun
    <3>. QED
      BY <3>2, <3>3
  <2>2. \A k \in Modes : Healthy(k)' => Follows(file', start', k, walk'[k])
    BY <2>1
  <2>. QED
    BY <2>2 DEF OnTheRun, Follows
<1>. QED
  BY <1>1, <1>4, <1>6, <1>7

\* The same when no loader moves.
LEMMA RestKeeps ==
    ASSUME WInv, UNCHANGED <<file, start, walk, faults>>, iter' \in Iteration
    PROVE  WInv'
<1>1. FileOK'
  BY DEF WInv, FileOK
<1>2. TypeOK'
  BY DEF WInv, TypeOK
<1>3. HybridsStand'
  BY DEF WInv, HybridsStand, HasHybrid
<1>4. OnTheRun'
  BY DEF WInv, OnTheRun, Follows, Healthy
<1>. QED
  BY <1>1, <1>2, <1>3, <1>4 DEF WInv

LEMMA WalkIs == ASSUME WInv, NEW m \in Modes
                PROVE  /\ walk[m] \in Walk /\ iter \in Iteration /\ HasHybrid(file, walk[m])
                       /\ Healthy(m) => Follows(file, start, m, walk[m])
BY DEF WInv, TypeOK, HybridsStand, OnTheRun

LEMMA ReadSectionKeeps ==
    ASSUME WInv, NEW m \in Modes, ReadSection(m)
    PROVE  WInv'
<1> DEFINE w == walk[m]
           z == Seen(w, w.next)
           v == IF ~file[w.next].parses THEN GivenUp(z, m)
                ELSE IF Fresh(z, file[w.next].xrefstm) THEN [z EXCEPT !.at = "hybrid"]
                ELSE Taking(z, w.next, Nowhere)
<1>1. /\ w.at = "chain" /\ Fresh(w, w.next) /\ walk' = [walk EXCEPT ![m] = v]
      /\ UNCHANGED <<file, start, iter, faults>>
  BY DEF ReadSection, Seen
<1>2. FileOK /\ w \in Walk /\ iter \in Iteration /\ file \in [Offsets -> Section]
      /\ Begin(start) \in Stages
  BY WalkIs, FileParts DEF WInv
<1>3. w.next \in Offsets /\ Proj(w) \in Stages
  BY <1>1, <1>2, ProjTyped DEF Fresh, Places
<1>4. z \in Walk /\ z.visited = w.visited \cup {w.next} /\ z.sections = w.sections
      /\ z.table = w.table /\ z.next = w.next
      /\ [z EXCEPT !.at = "hybrid"] \in Walk /\ [z EXCEPT !.at = "hybrid"].at = "hybrid"
      /\ Proj([z EXCEPT !.at = "hybrid"]) = Proj(z)
  BY <1>2, <1>3, SeenIs
<1>5. Healthy(m) => Leads(file, Begin(start), Proj(w))
  BY <1>1, WalkIs DEF Follows
<1>6. Healthy(m)' => Healthy(m)
  BY <1>1 DEF Healthy
<1>7. Proj(w).next = w.next /\ Proj(w).visited = w.visited /\ Proj(w).sections = w.sections
      /\ Proj(w).table = w.table
  BY <1>2, ProjTyped
<1>8. v \in Walk /\ HasHybrid(file, v) /\ (Healthy(m) => Follows(file, start, m, v))
  <2>1. CASE ~file[w.next].parses
    <3>1. v = GivenUp(z, m)
      BY <2>1
    <3>2. v \in Walk /\ v.table = <<>> /\ v.at = IF m = "sync" THEN "scan" ELSE "failed"
      <4>. HIDE DEF v, z
      <4>. QED
        BY <1>4, <3>1, GivenUpIs
    <3>3. BreaksOff(file, Proj(w))
      BY <1>1, <1>7, <2>1 DEF BreaksOff, Unseen, Fresh
    <3>. HIDE DEF v, w, z
    <3>4. ASSUME Healthy(m) PROVE Follows(file, start, m, v)
      BY <3>2, <3>3, <3>4, <1>3, <1>5 DEF Follows
    <3>. QED
      BY <3>2, <3>4 DEF HasHybrid
  <2>2. CASE file[w.next].parses /\ Fresh(z, file[w.next].xrefstm)
    <3>1. v = [z EXCEPT !.at = "hybrid"]
      BY <2>2
    <3>2. v.next = w.next /\ v.visited = z.visited /\ v.sections = z.sections /\ v.table = z.table
      BY <3>1, <1>4 DEF Walk
    <3>3. file[w.next].xrefstm \in Offsets
      BY <2>2, <1>2, <1>3, SectionParts DEF Fresh, Places
    <3>4. CanAdvance(file, Proj(w)) /\ Stream(file, Proj(w)) # Nowhere
      BY <1>1, <1>4, <1>7, <2>2 DEF CanAdvance, Unseen, Fresh, Stream
    <3>5. Between(file, Proj(w), v)
      BY <3>2, <3>4, <1>4, <1>7 DEF Between
    <3>6. v.at = "hybrid" /\ v \in Walk
      BY <1>4, <3>1
    <3>. HIDE DEF v, w, z
    <3>. QED
      BY <3>2, <3>3, <3>5, <3>6, <1>3, <1>5 DEF Follows, HasHybrid
  <2>3. CASE file[w.next].parses /\ ~Fresh(z, file[w.next].xrefstm)
    <3>1. v = Taking(z, w.next, Nowhere)
      BY <2>3
    <3>2. CanAdvance(file, Proj(w)) /\ Proj(v) = Advance(file, Proj(w)) /\ v \in Walk
          /\ v.at = "chain"
      BY <1>1, <1>2, <2>3, <3>1, TakesOne
    <3>. HIDE DEF v, w, z
    <3>3. ASSUME Healthy(m) PROVE Leads(file, Begin(start), Proj(v))
      BY <3>2, <3>3, <1>2, <1>5, LeadsOn
    <3>. QED
      BY <3>2, <3>3 DEF Follows, HasHybrid
  <2>. QED
    BY <2>1, <2>2, <2>3
<1>. HIDE DEF v, w, z
<1>. QED
  BY <1>1, <1>2, <1>6, <1>8, MoveKeeps

LEMMA ReadHybridKeeps ==
    ASSUME WInv, NEW m \in Modes, ReadHybrid(m)
    PROVE  WInv'
<1> DEFINE w == walk[m]
           h == file[w.next].xrefstm
           use == IF file[h].parses THEN h ELSE Nowhere
           v == Taking(Seen(w, h), w.next, use)
<1>1. /\ w.at = "hybrid" /\ walk' = [walk EXCEPT ![m] = v]
      /\ UNCHANGED <<file, start, iter, faults>>
  BY DEF ReadHybrid, Seen
<1>2. FileOK /\ w \in Walk /\ iter \in Iteration /\ file \in [Offsets -> Section]
      /\ Begin(start) \in Stages /\ w.next \in Offsets /\ h \in Offsets
  BY <1>1, WalkIs, FileParts DEF WInv, HasHybrid
<1>3. v \in Walk /\ v.at = "chain"
  <2>1. Seen(w, h) \in Walk /\ use \in Places
    BY <1>2, SeenIs DEF Places
  <2>2. Took(v, Seen(w, h), w.next, use)
    BY <1>2, <2>1, TakingIs
  <2>. QED
    BY <2>2 DEF Took
<1>4. ASSUME Healthy(m) PROVE Leads(file, Begin(start), Proj(v))
  <2>1. PICK l \in Stages : Leads(file, Begin(start), l) /\ Between(file, l, w)
    BY <1>1, <1>4, WalkIs DEF Follows
  <2>2. Proj(v) = Advance(file, l)
    BY <1>2, <2>1, TakesBoth
  <2>3. CanAdvance(file, l)
    BY <2>1 DEF Between
  <2>. HIDE DEF v
  <2>. QED
    BY <1>2, <2>1, <2>2, <2>3, LeadsOn
<1>5. HasHybrid(file, v) /\ (Healthy(m) => Follows(file, start, m, v))
  <2>. HIDE DEF v
  <2>. QED
    BY <1>3, <1>4 DEF HasHybrid, Follows
<1>6. Healthy(m)' => Healthy(m)
  BY <1>1 DEF Healthy
<1>. HIDE DEF v
<1>. QED
  BY <1>1, <1>2, <1>3, <1>5, <1>6, MoveKeeps

LEMMA ReadFailsKeeps ==
    ASSUME WInv, ReadFails
    PROVE  WInv'
<1> DEFINE w == walk["async"]
           g == GivenUp(w, "async")
           h == file[w.next].xrefstm
           v == Taking(Seen(w, h), w.next, Nowhere)
<1>1. /\ faults > 0 /\ faults' = faults - 1 /\ UNCHANGED <<file, start, iter>>
      /\ \/ walk' = [walk EXCEPT !["async"] = g]
         \/ w.at = "hybrid" /\ walk' = [walk EXCEPT !["async"] = v]
  BY DEF ReadFails, Seen
<1>2. FileOK /\ w \in Walk /\ iter \in Iteration /\ "async" \in Modes
      /\ HasHybrid(file, w) /\ faults \in 0..MaxFaults /\ MaxFaults \in Nat
  BY WalkIs, Constants DEF WInv, TypeOK, Modes
<1>3. ~Healthy("async")'
  BY <1>1, <1>2 DEF Healthy
<1>4. g \in Walk /\ HasHybrid(file, g)
  <2>1. g \in Walk /\ g.at = "failed"
    BY <1>2, GivenUpIs
  <2>. HIDE DEF g
  <2>. QED
    BY <2>1 DEF HasHybrid
<1>5. ASSUME w.at = "hybrid" PROVE v \in Walk /\ HasHybrid(file, v)
  <2>0. w.next \in Offsets /\ h \in Offsets
    BY <1>2, <1>5 DEF HasHybrid
  <2>1. Seen(w, h) \in Walk /\ Nowhere \in Places
    BY <1>2, <2>0, SeenIs DEF Places
  <2>2. Took(v, Seen(w, h), w.next, Nowhere)
    BY <1>2, <2>0, <2>1, TakingIs
  <2>3. v \in Walk /\ v.at = "chain"
    BY <2>2 DEF Took
  <2>. HIDE DEF v
  <2>. QED
    BY <2>3 DEF HasHybrid
<1>. HIDE DEF v, g, w
<1>6. CASE walk' = [walk EXCEPT !["async"] = g]
  BY <1>1, <1>2, <1>3, <1>4, <1>6, MoveKeeps
<1>7. CASE w.at = "hybrid" /\ walk' = [walk EXCEPT !["async"] = v]
  BY <1>1, <1>2, <1>3, <1>5, <1>7, MoveKeeps
<1>. QED
  BY <1>1, <1>6, <1>7

LEMMA ChainEndsKeeps ==
    ASSUME WInv, NEW m \in Modes, ChainEnds(m)
    PROVE  WInv'
<1> DEFINE w == walk[m]
           at == IF w.table # <<>> /\ (m = "sync" => w.root) THEN "loaded"
                 ELSE IF m = "sync" THEN "scan" ELSE "failed"
           v == [w EXCEPT !.at = at]
<1>1. /\ w.at = "chain" /\ ~Fresh(w, w.next) /\ walk' = [walk EXCEPT ![m] = v]
      /\ UNCHANGED <<file, start, iter, faults>>
  BY DEF ChainEnds
<1>2. w \in Walk /\ iter \in Iteration /\ at \in {"loaded", "scan", "failed"}
  BY WalkIs
<1>3. v \in Walk /\ v.at = at /\ v.table = w.table /\ Proj(v) = Proj(w)
  <2>. HIDE DEF at, w
  <2>. QED
    BY <1>2, EndedIs
<1>4. Over(Proj(w)) /\ Proj(w) \in Stages /\ Proj(w).table = w.table
  BY <1>1, <1>2, ProjTyped DEF Over, Unseen, Fresh
<1>5. ASSUME Healthy(m) PROVE Leads(file, Begin(start), Proj(w))
  BY <1>1, <1>5, WalkIs DEF Follows
<1>6. at = "loaded" => w.table # <<>>
  OBVIOUS
<1>7. at = "failed" /\ m = "async" => w.table = <<>>
  OBVIOUS
<1>8. Healthy(m)' => Healthy(m)
  BY <1>1 DEF Healthy
<1>. HIDE DEF v, w, at
<1>9. HasHybrid(file, v) /\ (Healthy(m) => Follows(file, start, m, v))
  BY <1>2, <1>3, <1>4, <1>5, <1>6, <1>7 DEF HasHybrid, Follows
<1>. QED
  BY <1>1, <1>2, <1>3, <1>8, <1>9, MoveKeeps

LEMMA ScanKeeps ==
    ASSUME WInv, Scan
    PROVE  WInv'
<1> DEFINE w == walk["sync"]
           r(root) == [w EXCEPT !.at = "recovered", !.table = <<>>, !.root = root]
           at == IF w.table # <<>> THEN "loaded" ELSE "failed"
           v == [w EXCEPT !.at = at]
<1>1. /\ w.at = "scan" /\ UNCHANGED <<file, start, iter, faults>>
      /\ \/ \E root \in BOOLEAN : walk' = [walk EXCEPT !["sync"] = r(root)]
         \/ walk' = [walk EXCEPT !["sync"] = v]
  BY DEF Scan
<1>2. w \in Walk /\ iter \in Iteration /\ "sync" \in Modes /\ Healthy("sync")
      /\ Follows(file, start, "sync", w)
  BY WalkIs DEF Modes, Healthy
<1>3. v \in Walk /\ v.at = at /\ v.table = w.table /\ Proj(v) = Proj(w)
  <2>1. at \in {"loaded", "scan", "failed"}
    OBVIOUS
  <2>. HIDE DEF at, w
  <2>. QED
    BY <1>2, <2>1, EndedIs
<1>4. HasHybrid(file, v) /\ Follows(file, start, "sync", v)
  <2>1. at = "loaded" => w.table # <<>> /\ Leads(file, Begin(start), Proj(w)) /\ Over(Proj(w))
    BY <1>1, <1>2 DEF Follows
  <2>2. at \in {"loaded", "failed"}
    OBVIOUS
  <2>. HIDE DEF v, w, at
  <2>. QED
    BY <1>3, <2>1, <2>2 DEF HasHybrid, Follows
<1>5. ASSUME NEW root \in BOOLEAN
      PROVE  r(root) \in Walk /\ HasHybrid(file, r(root)) /\ Follows(file, start, "sync", r(root))
  <2>1. r(root) \in Walk /\ r(root).at = "recovered"
    BY <1>2, RecoveredIs
  <2>. HIDE DEF r
  <2>. QED
    BY <2>1 DEF HasHybrid, Follows
<1>. HIDE DEF v, w, r
<1>6. ASSUME NEW root \in BOOLEAN, walk' = [walk EXCEPT !["sync"] = r(root)] PROVE WInv'
  BY <1>1, <1>2, <1>5, <1>6, MoveKeeps
<1>7. CASE walk' = [walk EXCEPT !["sync"] = v]
  BY <1>1, <1>2, <1>3, <1>4, <1>7, MoveKeeps
<1>. QED
  BY <1>1, <1>6, <1>7

LEMMA QueuedTyped ==
    ASSUME NEW o \in Places, NEW S
    PROVE  Queued(o, S) \in Seq(Offsets)
BY DEF Queued, Places

LEMMA IterTyped ==
    ASSUME FileOK, iter \in Iteration, Iterate
    PROVE  iter' \in Iteration
<1>1. file \in [Offsets -> Section] /\ start \in Offsets
  BY FileParts
<1>2. CASE StartSections
  <2>1. <<start>> \in Seq(Offsets)
    BY <1>1
  <2>. QED
    BY <1>2, <2>1 DEF StartSections, Iteration
<1>3. CASE NextSection
  <2> DEFINE off == Head(iter.pending)
             visited == iter.visited \cup {off}
             rest == Tail(iter.pending)
             p == IF file[off].parses THEN rest \o Further(off, visited) ELSE <<>>
             y == Append(iter.yielded, IF file[off].parses THEN off ELSE Nowhere)
  <2>1. iter.pending \in Seq(Offsets) /\ iter.pending # <<>> /\ iter.visited \in SUBSET Offsets
        /\ iter.yielded \in Seq(Offsets \cup {Nowhere})
    BY <1>3 DEF NextSection, Iteration
  <2>2. off \in Offsets /\ rest \in Seq(Offsets)
    BY <2>1
  <2>3. Further(off, visited) \in Seq(Offsets)
    <3>1. Queued(file[off].prev, visited) \in Seq(Offsets)
          /\ Queued(file[off].xrefstm, visited) \in Seq(Offsets)
      BY <1>1, <2>2, SectionParts, QueuedTyped
    <3>. QED
      BY <3>1, ConcatProperties DEF Further
  <2>4. p \in Seq(Offsets)
    <3>1. rest \o Further(off, visited) \in Seq(Offsets)
      BY <2>2, <2>3, ConcatProperties
    <3>. QED
      BY <3>1, EmptySeq
  <2>5. y \in Seq(Offsets \cup {Nowhere})
    BY <2>1, <2>2
  <2>6. visited \in SUBSET Offsets
    BY <2>1, <2>2
  <2>7. iter' = [iter EXCEPT !.pending = rest]
        \/ iter' = [iter EXCEPT !.visited = visited, !.pending = p, !.yielded = y]
    BY <1>3 DEF NextSection
  <2>. HIDE DEF rest, visited, p, y
  <2>. QED
    BY <2>2, <2>4, <2>5, <2>6, <2>7 DEF Iteration
<1>4. CASE SectionsEnd
  BY <1>4 DEF SectionsEnd, Iteration
<1>. QED
  BY <1>2, <1>3, <1>4 DEF Iterate

LEMMA WInit == Init => WInv
<1>. SUFFICES ASSUME Init PROVE WInv
  OBVIOUS
<1>1. FileOK
  BY DEF Init, FileOK
<1>2. start \in Offsets /\ Begin(start) \in Stages
  BY <1>1, FileParts
<1> DEFINE w == [at |-> "chain", next |-> start, visited |-> {}, sections |-> <<>>,
                 table |-> <<>>, root |-> FALSE]
<1>3. walk = [m \in Modes |-> w]
  BY DEF Init
<1>4. w \in Walk /\ Proj(w) = Begin(start) /\ w.at = "chain"
  BY <1>2, NoTable, EmptySeq DEF Walk, Tables, Proj, Begin
<1>. HIDE DEF w
<1>5. walk \in [Modes -> Walk] /\ \A m \in Modes : walk[m] = w
  BY <1>3, <1>4
<1>6. iter \in Iteration /\ faults \in 0..MaxFaults
  BY Constants DEF Init, Iteration
<1>7. HybridsStand
  BY <1>4, <1>5 DEF HybridsStand, HasHybrid
<1>8. OnTheRun
  BY <1>4, <1>5, LeadsSelf DEF OnTheRun, Follows
<1>. QED
  BY <1>1, <1>5, <1>6, <1>7, <1>8 DEF WInv, TypeOK

LEMMA WStep == WInv /\ [Next]_vars => WInv'
<1>. SUFFICES ASSUME WInv, [Next]_vars PROVE WInv'
  OBVIOUS
<1>1. ASSUME NEW m \in Modes, Load(m) PROVE WInv'
  BY <1>1, ReadSectionKeeps, ReadHybridKeeps, ChainEndsKeeps DEF Load
<1>2. CASE Iterate
  <2>1. UNCHANGED <<file, start, walk, faults>>
    BY <1>2 DEF Iterate, StartSections, NextSection, SectionsEnd
  <2>2. iter' \in Iteration
    BY <1>2, IterTyped DEF WInv, TypeOK
  <2>. QED
    BY <2>1, <2>2, RestKeeps
<1>3. CASE UNCHANGED vars
  BY <1>3, RestKeeps DEF vars, WInv, TypeOK
<1>4. "sync" \in Modes /\ "async" \in Modes
  BY DEF Modes
<1>. QED
  BY <1>1, <1>2, <1>3, <1>4, ScanKeeps, ReadFailsKeeps DEF Next

-----------------------------------------------------------------------------
(* The element iterator is on the run of a regular file.                    *)
Plain == Regular(file) /\ start \notin Hybrids(file)

\* A hybrid stream is visited with its own section, and is never next.
Tidy(f) == {l \in Stages : /\ l.next \notin Hybrids(f)
                           /\ \A h \in l.visited \cap Hybrids(f) :
                                 \E o \in l.visited : f[o].xrefstm = h}

\* Then the stream of the next section is always new.
LEMMA TidyStream ==
    ASSUME NEW f \in [Offsets -> Section], Regular(f), NEW l \in Tidy(f), CanAdvance(f, l)
    PROVE  /\ l.next \in Offsets /\ Stream(f, l) = f[l.next].xrefstm
           /\ Useful(f, Stream(f, l)) = f[l.next].xrefstm
           /\ f[l.next].prev \notin Hybrids(f)
           /\ f[l.next].xrefstm # Nowhere => f[l.next].xrefstm \in Hybrids(f)
<1> DEFINE h == f[l.next].xrefstm
<1>1. l \in Stages /\ l.next \in Offsets /\ l.next \notin l.visited /\ l.visited \in SUBSET Offsets
  BY DEF Tidy, CanAdvance, Unseen, Stages, Places
<1>2. h # Nowhere => h \in Hybrids(f)
  BY <1>1 DEF Hybrids
<1>3. h # Nowhere => h \notin l.visited
  <2>1. SUFFICES ASSUME h # Nowhere, h \in l.visited PROVE FALSE
    OBVIOUS
  <2>2. PICK o \in l.visited : f[o].xrefstm = h
    BY <1>2, <2>1 DEF Tidy
  <2>3. o = l.next
    BY <1>1, <2>1, <2>2 DEF Regular
  <2>. QED
    BY <1>1, <2>3
<1>4. l.next \notin Hybrids(f)
  BY DEF Tidy
<1>5. Stream(f, l) = h
  BY <1>2, <1>3, <1>4 DEF Stream
<1>6. Useful(f, h) = h
  BY <1>2 DEF Useful, Regular
<1>7. f[l.next].prev \notin Hybrids(f)
  BY <1>1 DEF Regular
<1>. QED
  BY <1>1, <1>2, <1>5, <1>6, <1>7

LEMMA TidyOn ==
    ASSUME NEW f \in [Offsets -> Section], Regular(f), NEW k \in Tidy(f), CanAdvance(f, k)
    PROVE  Advance(f, k) \in Tidy(f)
<1> DEFINE h == f[k.next].xrefstm
           a == Advance(f, k)
<1>1. k.next \in Offsets /\ Stream(f, k) = h /\ f[k.next].prev \notin Hybrids(f) /\ k \in Stages
  BY TidyStream DEF Tidy
<1>2. a \in Stages
  BY <1>1, AdvanceTyped
<1>3. a.next = f[k.next].prev /\ a.visited = k.visited \cup ({k.next, h} \ {Nowhere})
  BY <1>1 DEF Advance
<1>4. k.next \in a.visited /\ k.visited \subseteq a.visited
  BY <1>1, <1>3, Constants
<1>. HIDE DEF a
<1>5. ASSUME NEW g \in a.visited \cap Hybrids(f) PROVE \E o \in a.visited : f[o].xrefstm = g
  <2>1. CASE g = h
    BY <1>4, <2>1
  <2>2. CASE g = k.next
    BY <2>2 DEF Tidy
  <2>3. CASE g \in k.visited
    BY <2>3, <1>4 DEF Tidy
  <2>. QED
    BY <1>3, <2>1, <2>2, <2>3
<1>6. a \in Tidy(f)
  BY <1>1, <1>2, <1>3, <1>5 DEF Tidy
<1>. QED
  BY <1>6 DEF a

LEMMA TidyAlways ==
    ASSUME NEW f \in [Offsets -> Section], Regular(f), NEW s \in Offsets, s \notin Hybrids(f),
           NEW l, Leads(f, Begin(s), l)
    PROVE  l \in Tidy(f)
<1>1. Begin(s) \in Tidy(f)
  BY BeginTyped DEF Tidy, Begin
<1>2. Closed(f, Tidy(f))
  BY TidyOn DEF Closed
<1>3. Tidy(f) \in SUBSET Stages
  BY DEF Tidy
<1>. QED
  BY <1>1, <1>2, <1>3, AllAlong

\* Between two sections; before a section's hybrid stream; after a broken one.
Settled(i, l) ==
    i.visited = l.visited /\ i.yielded = l.sections /\ i.pending = Queued(l.next, l.visited)
Halfway(f, i, l) ==
    /\ CanAdvance(f, l) /\ f[l.next].xrefstm # Nowhere
    /\ i.visited = l.visited \cup {l.next} /\ i.yielded = Append(l.sections, l.next)
    /\ i.pending = <<f[l.next].xrefstm>> \o Queued(f[l.next].prev, i.visited)
Broken(f, i, l) == BreaksOff(f, l) /\ i.pending = <<>>

Visits(f, s, i) ==
    /\ i.at = "waiting" => i.visited = {} /\ i.yielded = <<>>
    /\ i.at = "done" => i.pending = <<>>
    /\ i.at # "waiting" =>
          \E l \in Stages : /\ Leads(f, Begin(s), l)
                            /\ Settled(i, l) \/ Halfway(f, i, l) \/ Broken(f, i, l)

IterInv == Plain => Visits(file, start, iter)

LEMMA QueuedIs ==
    ASSUME NEW o \in Places, NEW S
    PROVE  /\ Queued(o, S) = <<>> <=> (o \in S \/ o = Nowhere)
           /\ Queued(o, S) # <<>> => Queued(o, S) = <<o>> /\ Head(Queued(o, S)) = o
                                     /\ Tail(Queued(o, S)) = <<>>
BY DEF Queued

\* One turn of the iterator.
Turn(f, i, j) ==
    LET off     == Head(i.pending)
        visited == i.visited \cup {off}
        rest    == Tail(i.pending)
    IN  IF off \in i.visited THEN j = [i EXCEPT !.pending = rest]
        ELSE j = [i EXCEPT !.visited = visited,
                           !.pending = IF f[off].parses
                                       THEN rest \o (Queued(f[off].xrefstm, visited)
                                                     \o Queued(f[off].prev, visited))
                                       ELSE <<>>,
                           !.yielded = Append(@, IF f[off].parses THEN off ELSE Nowhere)]

\* From between two sections: a broken section, one without a hybrid stream,
\* or the first half of one with a stream.
LEMMA FromSettled ==
    ASSUME NEW f \in [Offsets -> Section], Regular(f), NEW i \in Iteration, NEW j,
           NEW l \in Tidy(f), Settled(i, l), i.pending # <<>>, Turn(f, i, j)
    PROVE  \/ Broken(f, j, l)
           \/ CanAdvance(f, l) /\ Settled(j, Advance(f, l))
           \/ Halfway(f, j, l)
<1>1. l \in Stages /\ l.next \in Places
  BY DEF Tidy, Stages
<1>2. Unseen(l, l.next) /\ Head(i.pending) = l.next /\ Tail(i.pending) = <<>> /\ l.next \in Offsets
  BY <1>1, QueuedIs DEF Settled, Unseen, Places
<1> DEFINE V == i.visited \cup {l.next}
           h == f[l.next].xrefstm
           prev == f[l.next].prev
           p == Queued(h, V) \o Queued(prev, V)
<1>3. h \in Places /\ prev \in Places /\ V = l.visited \cup {l.next} /\ l.next \notin i.visited
      /\ i.yielded = l.sections /\ l.sections \in Seq(Offsets)
  BY <1>1, <1>2, SectionParts DEF Settled, Unseen, Stages
<1>4. Queued(h, V) \in Seq(Offsets) /\ Queued(prev, V) \in Seq(Offsets) /\ p \in Seq(Offsets)
  BY <1>3, QueuedTyped, ConcatProperties
<1>5. <<>> \o p = p
  BY <1>4, ConcatEmptySeq
<1>6. CASE ~f[l.next].parses
  <2>1. j.pending = <<>>
    BY <1>2, <1>3, <1>6 DEF Turn, Iteration
  <2>. QED
    BY <1>2, <1>6, <2>1 DEF Broken, BreaksOff
<1>7. CASE f[l.next].parses
  <2>1. CanAdvance(f, l)
    BY <1>2, <1>7 DEF CanAdvance
  <2>2. Stream(f, l) = h /\ Useful(f, Stream(f, l)) = h /\ (h # Nowhere => h \in Hybrids(f))
    BY <2>1, TidyStream
  <2>3. j = [i EXCEPT !.visited = V, !.pending = <<>> \o p, !.yielded = Append(@, l.next)]
    BY <1>2, <1>3, <1>7, Zenon DEF Turn
  <2>. HIDE DEF V, p, h, prev
  <2>4. j.visited = V /\ j.pending = p /\ j.yielded = Append(l.sections, l.next)
    BY <2>3, <1>3, <1>5 DEF Iteration
  <2>5. CASE h = Nowhere
    <3>1. Queued(h, V) = <<>>
      BY <2>5, QueuedIs DEF Places
    <3>2. p = Queued(prev, V)
      BY <3>1, <1>4, ConcatEmptySeq DEF p
    <3>3. Append(l.sections, l.next) = l.sections \o <<l.next>>
      BY <1>3, <1>2, AppendIsConcat
    <3>4. l.visited \cup ({l.next, Nowhere} \ {Nowhere}) = V
      BY <1>2, <1>3, Constants
    <3>5. Advance(f, l).next = prev /\ Advance(f, l).visited = V
          /\ Advance(f, l).sections = l.sections \o <<l.next>>
      BY <2>2, <2>5, <3>4 DEF Advance, prev
    <3>. QED
      BY <2>1, <2>4, <3>2, <3>3, <3>5 DEF Settled
  <2>6. CASE h # Nowhere
    <3>1. h \notin V
      BY <2>2, <2>6, <1>3 DEF Stream, h
    <3>2. Queued(h, V) = <<h>>
      BY <2>6, <3>1, <1>3, QueuedIs
    <3>. QED
      BY <2>1, <2>4, <2>6, <3>2, <1>3 DEF Halfway, p, h, prev
  <2>. QED
    BY <2>5, <2>6
<1>. QED
  BY <1>6, <1>7

\* The second half.
LEMMA FromHalfway ==
    ASSUME NEW f \in [Offsets -> Section], Regular(f), NEW i \in Iteration, NEW j,
           NEW l \in Tidy(f), Halfway(f, i, l), Turn(f, i, j)
    PROVE  CanAdvance(f, l) /\ Settled(j, Advance(f, l))
<1> DEFINE h == f[l.next].xrefstm
           prev == f[l.next].prev
           V == i.visited
           W == V \cup {h}
           q == Queued(prev, V)
<1>1. l \in Stages /\ CanAdvance(f, l) /\ l.next \in Offsets /\ Stream(f, l) = h
      /\ Useful(f, Stream(f, l)) = h /\ h \in Hybrids(f) /\ h # Nowhere /\ prev \notin Hybrids(f)
  BY TidyStream DEF Halfway, Tidy
<1>2. h \in Offsets /\ prev \in Places /\ V = l.visited \cup {l.next} /\ l.sections \in Seq(Offsets)
      /\ i.yielded = Append(l.sections, l.next) /\ i.pending = <<h>> \o q
  BY <1>1, SectionParts DEF Halfway, Stages, Places
<1>3. q \in Seq(Offsets)
  BY <1>2, QueuedTyped
<1>4. Head(i.pending) = h /\ Tail(i.pending) = q
  <2>. HIDE DEF q, h
  <2>. QED
    BY <1>2, <1>3
<1>5. h \notin V
  BY <1>1, <1>2 DEF Stream
<1>6. f[h].parses /\ f[h].prev = Nowhere /\ f[h].xrefstm = Nowhere
  BY <1>1 DEF Regular
<1>7. Queued(Nowhere, W) = <<>>
  BY DEF Queued
<1>8. j = [i EXCEPT !.visited = W, !.pending = q \o (<<>> \o <<>>), !.yielded = Append(@, h)]
  BY <1>4, <1>5, <1>6, <1>7, Zenon DEF Turn
<1>9. q \o (<<>> \o <<>>) = q
  <2>1. <<>> \o <<>> = <<>>
    BY EmptySeq, ConcatEmptySeq
  <2>. QED
    BY <1>3, <2>1, ConcatEmptySeq
<1>10. q = Queued(prev, W)
  BY <1>1 DEF Queued
<1>11. l.visited \cup ({l.next, h} \ {Nowhere}) = W
  BY <1>1, <1>2, Constants
<1>12. Append(Append(l.sections, l.next), h) = l.sections \o <<l.next, h>>
  <2>. HIDE DEF h
  <2>. QED
    BY <1>1, <1>2
<1>13. Advance(f, l).next = prev /\ Advance(f, l).visited = W
       /\ Advance(f, l).sections = l.sections \o <<l.next, h>>
  BY <1>1, <1>11 DEF Advance
<1>. HIDE DEF h, prev, V, W, q
<1>14. j.visited = W /\ j.pending = q /\ j.yielded = l.sections \o <<l.next, h>>
  BY <1>2, <1>8, <1>9, <1>12 DEF Iteration
<1>. QED
  BY <1>1, <1>10, <1>13, <1>14 DEF Settled

\* The iterator stays on the run.
LEMMA VisitsOn ==
    ASSUME WInv, Plain, Visits(file, start, iter), Iterate
    PROVE  Visits(file, start, iter')
<1>1. file \in [Offsets -> Section] /\ start \in Offsets /\ Begin(start) \in Stages
      /\ iter \in Iteration /\ Regular(file) /\ start \notin Hybrids(file)
  BY FileParts DEF WInv, TypeOK, Plain
<1>2. CASE StartSections
  <2>1. iter'.at = "sections" /\ iter'.visited = {} /\ iter'.yielded = <<>>
        /\ iter'.pending = <<start>>
    BY <1>1, <1>2 DEF StartSections, Visits, Iteration
  <2>2. Queued(start, {}) = <<start>>
    BY <1>1, Constants DEF Queued
  <2>3. Settled(iter', Begin(start))
    BY <2>1, <2>2 DEF Settled, Begin
  <2>. QED
    BY <1>1, <2>1, <2>3, LeadsSelf DEF Visits
<1>3. CASE NextSection
  <2>1. iter.at = "sections" /\ iter.pending # <<>> /\ Turn(file, iter, iter')
    BY <1>3 DEF NextSection, Turn, Further
  <2>2. PICK l \in Stages : /\ Leads(file, Begin(start), l)
                            /\ Settled(iter, l) \/ Halfway(file, iter, l) \/ Broken(file, iter, l)
    BY <2>1 DEF Visits
  <2>3. l \in Tidy(file)
    BY <1>1, <2>2, TidyAlways
  <2>4. iter'.at = "sections"
    BY <1>1, <2>1 DEF Turn, Iteration
  <2>5. \/ Broken(file, iter', l) \/ Halfway(file, iter', l)
        \/ CanAdvance(file, l) /\ Settled(iter', Advance(file, l))
    <3>1. CASE Settled(iter, l)
      BY <1>1, <2>1, <2>3, <3>1, FromSettled
    <3>2. CASE Halfway(file, iter, l)
      BY <1>1, <2>1, <2>3, <3>2, FromHalfway
    <3>3. CASE Broken(file, iter, l)
      BY <2>1, <3>3 DEF Broken
    <3>. QED
      BY <2>2, <3>1, <3>2, <3>3
  <2>6. CanAdvance(file, l) =>
           Advance(file, l) \in Stages /\ Leads(file, Begin(start), Advance(file, l))
    BY <1>1, <2>2, LeadsOn, AdvanceTyped
  <2>. QED
    BY <2>2, <2>4, <2>5, <2>6 DEF Visits
<1>4. CASE SectionsEnd
  <2>1. iter.at = "sections" /\ iter'.at = "done" /\ iter.pending = <<>>
        /\ iter'.pending = iter.pending /\ iter'.visited = iter.visited
        /\ iter'.yielded = iter.yielded
    BY <1>1, <1>4 DEF SectionsEnd, Iteration
  <2>2. PICK l \in Stages : /\ Leads(file, Begin(start), l)
                            /\ Settled(iter, l) \/ Halfway(file, iter, l) \/ Broken(file, iter, l)
    BY <2>1 DEF Visits
  <2>3. Settled(iter', l) \/ Halfway(file, iter', l) \/ Broken(file, iter', l)
    BY <2>1, <2>2 DEF Settled, Halfway, Broken
  <2>. QED
    BY <2>1, <2>2, <2>3 DEF Visits
<1>. QED
  BY <1>2, <1>3, <1>4 DEF Iterate

IInv == WInv /\ IterInv

LEMMA IInit == Init => IInv
<1>1. Init => Visits(file, start, iter)
  BY DEF Init, Visits
<1>. QED
  BY <1>1, WInit DEF IInv, IterInv

LEMMA IStep == IInv /\ [Next]_vars => IInv'
<1>. SUFFICES ASSUME IInv, [Next]_vars PROVE IInv'
  OBVIOUS
<1>1. WInv'
  BY WStep DEF IInv
<1>2. UNCHANGED <<file, start>> /\ (Iterate \/ UNCHANGED iter)
  BY DEF Next, Load, ReadSection, ReadHybrid, ChainEnds, Scan, ReadFails, Iterate,
         StartSections, NextSection, SectionsEnd, vars
<1>3. IterInv'
  <2>1. SUFFICES ASSUME Plain PROVE Visits(file, start, iter')
    BY <1>2 DEF IterInv, Plain, Visits
  <2>2. Visits(file, start, iter)
    BY <2>1 DEF IInv, IterInv
  <2>3. CASE Iterate
    BY <2>1, <2>2, <2>3, VisitsOn DEF IInv
  <2>4. CASE UNCHANGED iter
    BY <2>2, <2>4
  <2>. QED
    BY <1>2, <2>3, <2>4
<1>. QED
  BY <1>1, <1>3 DEF IInv

-----------------------------------------------------------------------------
\* The loaders and the iterator stop in the same state.
LEMMA Agreement ==
    ASSUME IInv
    PROVE  DocumentsAgree
<1>1. /\ file \in [Offsets -> Section] /\ Begin(start) \in Stages /\ TypeOK
      /\ walk["sync"] \in Walk /\ walk["async"] \in Walk
      /\ Follows(file, start, "sync", walk["sync"])
      /\ faults = MaxFaults => Follows(file, start, "async", walk["async"])
  BY FileParts, WalkIs DEF IInv, WInv, Modes, Healthy
<1> DEFINE a == Proj(walk["sync"])
           b == Proj(walk["async"])
<1>2. Loaded("sync") => Leads(file, Begin(start), a) /\ Over(a) /\ a.table # <<>>
                        /\ a.table = walk["sync"].table
  BY <1>1, ProjTyped DEF Loaded, Follows
<1>3. ASSUME Loaded("sync"), faults = MaxFaults, walk["async"].at = "failed" PROVE FALSE
  <2>1. PICK l \in Stages : /\ Leads(file, Begin(start), l)
                            /\ BreaksOff(file, l) \/ (Over(l) /\ l.table = <<>>)
    BY <1>1, <1>3 DEF Follows
  <2>2. ~CanAdvance(file, l) /\ ~CanAdvance(file, a)
    BY <1>2, <1>3, <2>1 DEF BreaksOff, Over, CanAdvance
  <2>3. a = l
    BY <1>1, <1>2, <1>3, <2>1, <2>2, OneEnd
  <2>. QED
    BY <1>2, <1>3, <2>1, <2>3 DEF BreaksOff, Over
<1>4. ASSUME Loaded("sync"), Loaded("async"), faults = MaxFaults
      PROVE  /\ walk["sync"].table = walk["async"].table
             /\ iter.at = "done" /\ Plain => iter.yielded = walk["async"].sections
  <2>1. Leads(file, Begin(start), b) /\ Over(b) /\ b.table = walk["async"].table
        /\ b.sections = walk["async"].sections
    BY <1>1, <1>4, ProjTyped DEF Loaded, Follows
  <2>2. ~CanAdvance(file, b) /\ ~CanAdvance(file, a)
    BY <1>2, <1>4, <2>1 DEF Over, CanAdvance
  <2>3. a = b
    BY <1>1, <1>2, <1>4, <2>1, <2>2, OneEnd
  <2>4. ASSUME iter.at = "done", Plain PROVE iter.yielded = walk["async"].sections
    <3>1. PICK l \in Stages : /\ Leads(file, Begin(start), l)
                              /\ \/ Settled(iter, l) \/ Halfway(file, iter, l)
                                 \/ Broken(file, iter, l)
      BY <2>4 DEF IInv, IterInv, Visits
    <3>2. iter.pending = <<>> /\ l.next \in Places
      BY <2>4 DEF IInv, IterInv, Visits, Stages
    <3>3. ~Halfway(file, iter, l)
      <4>1. SUFFICES ASSUME Halfway(file, iter, l) PROVE FALSE
        OBVIOUS
      <4>2. l.next \in Offsets
        BY <3>2, <4>1 DEF Halfway, CanAdvance, Unseen, Places
      <4>3. file[l.next].prev \in Places /\ file[l.next].xrefstm \in Places
            /\ file[l.next].xrefstm # Nowhere
        BY <1>1, <4>1, <4>2, SectionParts DEF Halfway
      <4>4. Queued(file[l.next].prev, iter.visited) \in Seq(Offsets)
            /\ <<file[l.next].xrefstm>> \in Seq(Offsets)
        BY <4>3, QueuedTyped DEF Places
      <4>5. <<file[l.next].xrefstm>> \o Queued(file[l.next].prev, iter.visited) = <<>>
        BY <3>2, <4>1 DEF Halfway
      <4>. HIDE DEF Queued
      <4>. QED
        BY <4>4, <4>5
    <3>4. CASE Broken(file, iter, l)
      <4>1. ~CanAdvance(file, l) /\ Unseen(l, l.next)
        BY <3>4 DEF Broken, BreaksOff, CanAdvance
      <4>2. l = b
        BY <1>1, <2>1, <2>2, <3>1, <4>1, OneEnd
      <4>. QED
        BY <2>1, <4>1, <4>2 DEF Over
    <3>5. CASE Settled(iter, l)
      <4>1. ~Unseen(l, l.next)
        BY <3>2, <3>5, QueuedIs DEF Settled, Unseen
      <4>2. l = b
        BY <1>1, <2>1, <2>2, <3>1, <4>1, OneEnd DEF CanAdvance
      <4>. QED
        BY <2>1, <3>5, <4>2 DEF Settled
    <3>. QED
      BY <3>1, <3>3, <3>4, <3>5
  <2>. QED
    BY <1>2, <1>4, <2>1, <2>3, <2>4
<1>. QED
  BY <1>1, <1>3, <1>4 DEF DocumentsAgree, Plain

\* The two loaders of a file that opens without recovery and without failed
\* reads both succeed, with the same table, and the element iterator lists the
\* sections of a regular file in the loaders' order (xref.rs `load_chain`,
\* document.rs `load_xref_chain`, elements.rs `next`), for every file.
THEOREM TheDocumentsAgree == Spec => []DocumentsAgree
<1>1. Spec => []IInv
  BY IInit, IStep, PTL DEF Spec
<1>. QED
  BY <1>1, Agreement, PTL

-----------------------------------------------------------------------------
(* The reference Chain: the function it is defined by exists.               *)
\* The natural numbers, one after the other.
LEMMA OneByOne ==
    ASSUME NEW S \in SUBSET Nat, 0 \in S, \A n \in S : n + 1 \in S
    PROVE  S = Nat
<1>. SUFFICES ASSUME Nat \ S # {} PROVE FALSE
  OBVIOUS
<1>1. PICK x \in Nat \ S : \A y \in Nat \ S : ~(<<y, x>> \in OpToRel(<, Nat))
  BY NatLessThanWellFounded, WFMin, Zenon
<1>2. x \in Nat /\ x \notin S
  BY <1>1
<1>3. x # 0
  BY <1>2
<1>4. x - 1 \in Nat /\ x - 1 < x /\ (x - 1) + 1 = x
  BY <1>2, <1>3
<1>5. x - 1 \notin S
  BY <1>2, <1>4
<1>6. <<x - 1, x>> \in OpToRel(<, Nat)
  <2>. DEFINE y == x - 1
  <2>1. y \in Nat /\ y < x
    BY <1>4
  <2>. HIDE DEF y
  <2>2. <<y, x>> \in OpToRel(<, Nat)
    BY <1>2, <2>1, Zenon DEF OpToRel
  <2>. QED
    BY <2>2 DEF y
<1>. QED
  BY <1>1, <1>4, <1>5, <1>6, Zenon

\* One more section, while the chain goes on.
More(f, c) ==
    LET last == f[Last(c)]
    IN  IF ~last.parses \/ last.prev = Nowhere THEN c ELSE Append(c, last.prev)

Chains == {c \in Seq(Offsets) : c # <<>>}

\* The function Chain is defined by, and what there is of it up to n.
IsUpto(f, s, u) == u = [k \in Nat |-> IF k = 0 THEN <<s>> ELSE More(f, u[k - 1])]
Part(f, s, n, u) ==
    u \in [0..n -> Chains] /\ u[0] = <<s>> /\ \A k \in 1..n : u[k] = More(f, u[k - 1])

LEMMA ChainIsUpto ==
    ASSUME NEW f, NEW s
    PROVE  Chain(f, s) = (CHOOSE u : IsUpto(f, s, u))[Cardinality(Offsets)]
BY Zenon DEF Chain, IsUpto, More

LEMMA MoreTyped ==
    ASSUME NEW f \in [Offsets -> Section], NEW c \in Chains
    PROVE  More(f, c) \in Chains
<1>1. c \in Seq(Offsets) /\ c # <<>> /\ Len(c) \in Nat \ {0} /\ c[Len(c)] \in Offsets
  BY DEF Chains
<1>2. Last(c) \in Offsets /\ f[Last(c)].prev \in Places
  BY <1>1, SectionParts DEF Last
<1>3. CASE f[Last(c)].prev = Nowhere
  BY <1>3 DEF More
<1>4. CASE f[Last(c)].prev # Nowhere
  <2> DEFINE p == f[Last(c)].prev
  <2>1. p \in Offsets
    BY <1>2, <1>4 DEF Places
  <2>. HIDE DEF p
  <2>2. Append(c, p) \in Seq(Offsets) /\ Append(c, p) # <<>>
    BY <1>1, <2>1
  <2>. QED
    BY <2>2 DEF More, Chains, p
<1>. QED
  BY <1>3, <1>4

LEMMA PartsExist ==
    ASSUME NEW f \in [Offsets -> Section], NEW s \in Offsets
    PROVE  \A n \in Nat : \E u : Part(f, s, n, u)
<1> DEFINE S == {n \in Nat : \E u : Part(f, s, n, u)}
<1>1. 0 \in S
  <2> DEFINE u == [k \in 0..0 |-> <<s>>]
  <2>1. <<s>> \in Chains
    BY DEF Chains
  <2>2. Part(f, s, 0, u)
    BY <2>1 DEF Part
  <2>. QED
    BY <2>2
<1>2. ASSUME NEW n \in S PROVE n + 1 \in S
  <2>1. n \in Nat
    OBVIOUS
  <2>2. PICK u : Part(f, s, n, u)
    OBVIOUS
  <2> DEFINE v == [k \in 0..(n + 1) |-> IF k = n + 1 THEN More(f, u[n]) ELSE u[k]]
  <2>3. u[n] \in Chains
    BY <2>1, <2>2 DEF Part
  <2>4. More(f, u[n]) \in Chains
    BY <2>3, MoreTyped
  <2>5. \A k \in 0..n : k \in 0..(n + 1) /\ k # n + 1
    BY <2>1
  <2>6. v \in [0..(n + 1) -> Chains]
    BY <2>1, <2>2, <2>4 DEF Part
  <2>7. v[0] = <<s>>
    BY <2>1, <2>2 DEF Part
  <2>8. ASSUME NEW k \in 1..(n + 1) PROVE v[k] = More(f, v[k - 1])
    <3>1. k - 1 \in 0..n /\ k \in 0..(n + 1)
      BY <2>1
    <3>2. v[k - 1] = u[k - 1]
      BY <3>1, <2>5
    <3>3. CASE k = n + 1
      <4>1. k - 1 = n
        BY <2>1, <3>3
      <4>. QED
        BY <3>1, <3>2, <3>3, <4>1
    <3>4. CASE k # n + 1
      <4>1. k \in 1..n
        BY <2>1, <3>4
      <4>. QED
        BY <3>1, <3>2, <3>4, <4>1, <2>2 DEF Part
    <3>. QED
      BY <3>3, <3>4
  <2>. HIDE DEF v
  <2>9. Part(f, s, n + 1, v)
    BY <2>6, <2>7, <2>8 DEF Part
  <2>. QED
    BY <2>1, <2>9
<1>3. S = Nat
  <2>. HIDE DEF S
  <2>1. S \in SUBSET Nat
    BY DEF S
  <2>. QED
    BY <1>1, <1>2, <2>1, OneByOne
<1>. QED
  BY <1>3

LEMMA PartsAgree ==
    ASSUME NEW f, NEW s, NEW n \in Nat, NEW m \in Nat, NEW u, NEW v,
           Part(f, s, n, u), Part(f, s, m, v), NEW i \in 0..n, i \in 0..m
    PROVE  u[i] = v[i]
<1> DEFINE S == {k \in Nat : k \in 0..n /\ k \in 0..m => u[k] = v[k]}
<1>1. 0 \in S
  BY DEF Part
<1>2. ASSUME NEW k \in S PROVE k + 1 \in S
  <2>1. k \in Nat /\ (k + 1) - 1 = k
    OBVIOUS
  <2>2. SUFFICES ASSUME k + 1 \in 0..n, k + 1 \in 0..m PROVE u[k + 1] = v[k + 1]
    BY <2>1
  <2>3. k \in 0..n /\ k \in 0..m /\ k + 1 \in 1..n /\ k + 1 \in 1..m
    BY <2>1, <2>2
  <2>4. u[k] = v[k]
    BY <2>3
  <2>5. u[k + 1] = More(f, u[k]) /\ v[k + 1] = More(f, v[k])
    BY <2>1, <2>3 DEF Part
  <2>. QED
    BY <2>4, <2>5
<1>3. S = Nat
  <2>. HIDE DEF S
  <2>1. S \in SUBSET Nat
    BY DEF S
  <2>. QED
    BY <1>1, <1>2, <2>1, OneByOne
<1>4. i \in S
  BY <1>3
<1>. QED
  BY <1>4

LEMMA UptoExists ==
    ASSUME NEW f \in [Offsets -> Section], NEW s \in Offsets
    PROVE  \E u : IsUpto(f, s, u)
<1> DEFINE p(n) == CHOOSE u : Part(f, s, n, u)
           g == [n \in Nat |-> p(n)[n]]
           d(n) == IF n = 0 THEN <<s>> ELSE More(f, g[n - 1])
<1>1. ASSUME NEW n \in Nat PROVE Part(f, s, n, p(n))
  BY PartsExist
<1>2. ASSUME NEW n \in Nat PROVE g[n] = d(n)
  <2>. HIDE DEF p
  <2>1. CASE n = 0
    BY <1>1, <2>1 DEF Part
  <2>2. CASE n # 0
    <3>1. n - 1 \in Nat /\ n \in 1..n /\ n - 1 \in 0..n /\ n - 1 \in 0..(n - 1)
      BY <2>2
    <3>2. p(n)[n] = More(f, p(n)[n - 1])
      BY <1>1, <3>1 DEF Part
    <3>3. Part(f, s, n, p(n)) /\ Part(f, s, n - 1, p(n - 1))
      BY <1>1, <3>1
    <3>4. p(n)[n - 1] = p(n - 1)[n - 1]
      BY <3>1, <3>3, PartsAgree
    <3>. QED
      BY <2>2, <3>1, <3>2, <3>4
  <2>. QED
    BY <2>1, <2>2
<1>3. g = [n \in Nat |-> g[n]]
  OBVIOUS
<1>. HIDE DEF g
<1>4. g = [n \in Nat |-> d(n)]
  <2>. HIDE DEF d
  <2>. QED
    BY <1>2, <1>3
<1>. QED
  BY <1>4 DEF IsUpto

\* The links of a chain, and where it stops.
Linked(f, s, c) ==
    c \in Chains /\ c[1] = s /\ \A i \in 1..(Len(c) - 1) : c[i + 1] = f[c[i]].prev
Stops(f, c) == ~f[c[Len(c)]].parses \/ f[c[Len(c)]].prev = Nowhere

LEMMA MoreLinked ==
    ASSUME NEW f \in [Offsets -> Section], NEW s, NEW c, Linked(f, s, c)
    PROVE  /\ Linked(f, s, More(f, c))
           /\ Stops(f, c) => More(f, c) = c
           /\ ~Stops(f, c) => Len(More(f, c)) = Len(c) + 1
<1>1. c \in Seq(Offsets) /\ Len(c) \in Nat \ {0} /\ Last(c) = c[Len(c)] /\ c \in Chains
  BY DEF Linked, Chains, Last
<1>2. CASE Stops(f, c)
  BY <1>1, <1>2 DEF Stops, More
<1>3. CASE ~Stops(f, c)
  <2> DEFINE p == f[c[Len(c)]].prev
  <2>1. More(f, c) = Append(c, p) /\ p # Nowhere
    BY <1>1, <1>3 DEF Stops, More
  <2>2. More(f, c) \in Chains
    BY <1>1, MoreTyped
  <2>3. p \in Offsets
    BY <1>1, <2>1, SectionParts DEF Places
  <2>. HIDE DEF p
  <2>4. /\ Len(Append(c, p)) = Len(c) + 1 /\ Append(c, p)[Len(c) + 1] = p
        /\ \A i \in 1..Len(c) : Append(c, p)[i] = c[i]
    BY <1>1, <2>3
  <2>5. ASSUME NEW i \in 1..Len(c) PROVE Append(c, p)[i + 1] = f[Append(c, p)[i]].prev
    <3>1. CASE i = Len(c)
      BY <3>1, <1>1, <2>4 DEF p
    <3>2. CASE i # Len(c)
      <4>1. i \in 1..(Len(c) - 1) /\ i + 1 \in 1..Len(c)
        BY <1>1, <3>2
      <4>. QED
        BY <4>1, <2>4 DEF Linked
    <3>. QED
      BY <3>1, <3>2
  <2>6. 1 \in 1..Len(c) /\ (Len(c) + 1) - 1 = Len(c)
    BY <1>1
  <2>7. Linked(f, s, Append(c, p))
    BY <2>1, <2>2, <2>4, <2>5, <2>6 DEF Linked
  <2>. QED
    BY <1>3, <2>1, <2>4, <2>7
<1>. QED
  BY <1>2, <1>3

\* The reference chain stops, unless it has more sections than there are places.
LEMMA ChainIs ==
    ASSUME NEW f \in [Offsets -> Section], NEW s \in Offsets
    PROVE  /\ Linked(f, s, Chain(f, s))
           /\ Stops(f, Chain(f, s)) \/ Len(Chain(f, s)) = Cardinality(Offsets) + 1
<1> DEFINE u == CHOOSE g : IsUpto(f, s, g)
<1>1. IsUpto(f, s, u)
  BY UptoExists
<1>. HIDE DEF u
<1>2. u[0] = <<s>> /\ \A k \in Nat : u[k + 1] = More(f, u[k])
  <2>1. u[0] = <<s>>
    BY <1>1 DEF IsUpto
  <2>2. ASSUME NEW k \in Nat PROVE u[k + 1] = More(f, u[k])
    <3>1. k + 1 \in Nat /\ k + 1 # 0 /\ (k + 1) - 1 = k
      OBVIOUS
    <3> DEFINE d(j) == IF j = 0 THEN <<s>> ELSE More(f, u[j - 1])
    <3>2. u[k + 1] = d(k + 1)
      <4>1. u = [j \in Nat |-> d(j)]
        BY <1>1 DEF IsUpto
      <4>. HIDE DEF d
      <4>. QED
        BY <3>1, <4>1
    <3>. QED
      BY <3>1, <3>2
  <2>. QED
    BY <2>1, <2>2
<1> DEFINE S == {k \in Nat : Linked(f, s, u[k]) /\ (Stops(f, u[k]) \/ Len(u[k]) = k + 1)}
<1>3. 0 \in S
  <2>1. Linked(f, s, <<s>>) /\ Len(<<s>>) = 0 + 1
    BY DEF Linked, Chains
  <2>. QED
    BY <1>2, <2>1
<1>4. ASSUME NEW k \in S PROVE k + 1 \in S
  <2>1. k \in Nat /\ Linked(f, s, u[k]) /\ (Stops(f, u[k]) \/ Len(u[k]) = k + 1)
        /\ u[k + 1] = More(f, u[k])
    BY <1>2
  <2>2. Linked(f, s, u[k + 1])
    BY <2>1, MoreLinked
  <2>3. Stops(f, u[k + 1]) \/ Len(u[k + 1]) = (k + 1) + 1
    <3>1. CASE Stops(f, u[k])
      BY <2>1, <3>1, MoreLinked
    <3>2. CASE ~Stops(f, u[k])
      BY <2>1, <3>2, MoreLinked
    <3>. QED
      BY <3>1, <3>2
  <2>. QED
    BY <2>1, <2>2, <2>3
<1>5. S = Nat
  <2>. HIDE DEF S
  <2>1. S \in SUBSET Nat
    BY DEF S
  <2>. QED
    BY <1>3, <1>4, <2>1, OneByOne
<1>6. Cardinality(Offsets) \in Nat
  BY Constants, FS_CardinalityType
<1>7. Cardinality(Offsets) \in S
  BY <1>5, <1>6
<1>8. Chain(f, s) = u[Cardinality(Offsets)]
  BY ChainIsUpto DEF u
<1>. QED
  BY <1>7, <1>8

-----------------------------------------------------------------------------
(* The table of the run is that of the newest revisions.                    *)
\* The revision whose table is at o has an entry for n, and where it has it.
Has(f, o, n) ==
    n \in f[o].defines \/ (f[o].xrefstm # Nowhere /\ n \in f[f[o].xrefstm].defines)
Own(f, o, n) ==
    IF f[o].xrefstm # Nowhere /\ n \in f[f[o].xrefstm].defines THEN f[o].xrefstm ELSE o

FirstHas(f, c, n, i) == Has(f, c[i], n) /\ \A j \in 1..(i - 1) : ~Has(f, c[j], n)

TableOf(f, c, k, t) ==
    /\ \A n \in Nums \ DOMAIN t : \A i \in 1..k : ~Has(f, c[i], n)
    /\ \A n \in DOMAIN t : \E i \in 1..k : FirstHas(f, c, n, i) /\ t[n] = Own(f, c[i], n)

Before(c, k) == {c[i] : i \in 1..k}

\* The run has read the first k sections of the chain.
Read(f, c, k, l) ==
    /\ k \in 0..Len(c) /\ Before(c, k) \subseteq l.visited
    /\ Cardinality(Before(c, k)) = k
    /\ l.next = IF k < Len(c) THEN c[k + 1] ELSE Nowhere
    /\ TableOf(f, c, k, l.table)

\* What the next section, with its stream, adds to a table.
LEMMA BothMerged ==
    ASSUME NEW f \in [Offsets -> Section], Regular(f), NEW l \in Tidy(f), CanAdvance(f, l)
    PROVE  /\ DOMAIN Advance(f, l).table =
                 DOMAIN l.table \cup {n \in Nums : Has(f, l.next, n)}
           /\ \A n \in DOMAIN l.table : Advance(f, l).table[n] = l.table[n]
           /\ \A n \in DOMAIN Advance(f, l).table \ DOMAIN l.table :
                 Advance(f, l).table[n] = Own(f, l.next, n)
<1> DEFINE o == l.next
           h == f[o].xrefstm
           t == l.table
           g == Merge(f, t, h)
           a == Advance(f, l).table
<1>1. o \in Offsets /\ Useful(f, Stream(f, l)) = h /\ h \in Places /\ t \in Tables
      /\ f[o].defines \in SUBSET Nums
  BY TidyStream, SectionParts DEF Tidy, Stages
<1>2. a = Merge(f, IF h = Nowhere THEN t ELSE g, o)
  BY <1>1 DEF Advance
<1>3. CASE h = Nowhere
  <2>1. a = Merge(f, t, o)
    BY <1>2, <1>3
  <2>2. DOMAIN a = DOMAIN t \cup f[o].defines
    BY <2>1 DEF Merge
  <2>3. \A n \in DOMAIN a : a[n] = IF n \in DOMAIN t THEN t[n] ELSE o
    BY <2>1, <2>2 DEF Merge
  <2>. HIDE DEF a, t, o
  <2>4. {n \in Nums : Has(f, o, n)} = f[o].defines
    BY <1>1, <1>3 DEF Has
  <2>5. \A n : Own(f, o, n) = o
    BY <1>3 DEF Own
  <2>6. /\ DOMAIN a = DOMAIN t \cup {n \in Nums : Has(f, o, n)}
        /\ \A n \in DOMAIN t : a[n] = t[n]
        /\ \A n \in DOMAIN a \ DOMAIN t : a[n] = Own(f, o, n)
    BY <2>2, <2>3, <2>4, <2>5
  <2>. QED
    BY <2>6 DEF a, t, o
<1>4. CASE h # Nowhere
  <2>1. a = Merge(f, g, o) /\ f[h].defines \in SUBSET Nums
    BY <1>1, <1>2, <1>4, SectionParts DEF Places
  <2>2. DOMAIN g = DOMAIN t \cup f[h].defines
    BY DEF Merge
  <2>3. \A n \in DOMAIN g : g[n] = IF n \in DOMAIN t THEN t[n] ELSE h
    BY <2>2 DEF Merge
  <2>. HIDE DEF g
  <2>4. DOMAIN a = DOMAIN g \cup f[o].defines
    BY <2>1 DEF Merge
  <2>5. \A n \in DOMAIN a : a[n] = IF n \in DOMAIN g THEN g[n] ELSE o
    BY <2>1, <2>4 DEF Merge
  <2>6. {n \in Nums : Has(f, o, n)} = f[o].defines \cup f[h].defines
    BY <1>1, <1>4, <2>1 DEF Has
  <2>7. \A n : Own(f, o, n) = IF n \in f[h].defines THEN h ELSE o
    BY <1>4 DEF Own
  <2>. HIDE DEF a, t, o, h
  <2>8. /\ DOMAIN a = DOMAIN t \cup {n \in Nums : Has(f, o, n)}
        /\ \A n \in DOMAIN t : a[n] = t[n]
        /\ \A n \in DOMAIN a \ DOMAIN t : a[n] = Own(f, o, n)
    BY <2>2, <2>3, <2>4, <2>5, <2>6, <2>7
  <2>. QED
    BY <2>8 DEF a, t, o
<1>. QED
  BY <1>3, <1>4

\* So the table stays that of the sections read.
LEMMA TableOn ==
    ASSUME NEW f \in [Offsets -> Section], Regular(f), NEW l \in Tidy(f), CanAdvance(f, l),
           NEW c, NEW k \in Nat, TableOf(f, c, k, l.table), l.next = c[k + 1]
    PROVE  TableOf(f, c, k + 1, Advance(f, l).table)
<1> DEFINE t == l.table
           a == Advance(f, l).table
           o == c[k + 1]
<1>1. /\ DOMAIN a = DOMAIN t \cup {n \in Nums : Has(f, o, n)}
      /\ \A n \in DOMAIN t : a[n] = t[n]
      /\ \A n \in DOMAIN a \ DOMAIN t : a[n] = Own(f, o, n)
      /\ DOMAIN a \in SUBSET Nums
  <2>1. a \in Tables
    BY AdvanceTyped DEF Stages, Tidy
  <2>. QED
    BY <2>1, BothMerged, TablesAre
<1>. HIDE DEF a, t
<1>2. /\ \A n \in Nums \ DOMAIN t : \A i \in 1..k : ~Has(f, c[i], n)
      /\ \A n \in DOMAIN t : \E i \in 1..k : FirstHas(f, c, n, i) /\ t[n] = Own(f, c[i], n)
  BY DEF TableOf, t
<1>3. \A i \in 1..(k + 1) : i = k + 1 \/ i \in 1..k
  OBVIOUS
<1>4. \A i \in 1..k : i \in 1..(k + 1)
  OBVIOUS
<1>5. ASSUME NEW n \in Nums \ DOMAIN a, NEW i \in 1..(k + 1) PROVE ~Has(f, c[i], n)
  BY <1>1, <1>2, <1>3
<1>6. ASSUME NEW n \in DOMAIN a
      PROVE  \E i \in 1..(k + 1) : FirstHas(f, c, n, i) /\ a[n] = Own(f, c[i], n)
  <2>1. CASE n \in DOMAIN t
    BY <1>1, <1>2, <1>4, <2>1
  <2>2. CASE n \notin DOMAIN t
    <3>1. n \in Nums /\ Has(f, o, n) /\ a[n] = Own(f, o, n)
      BY <1>1, <2>2
    <3>2. \A j \in 1..((k + 1) - 1) : ~Has(f, c[j], n)
      BY <1>2, <2>2, <3>1
    <3>3. k + 1 \in 1..(k + 1)
      OBVIOUS
    <3>. QED
      BY <3>1, <3>2, <3>3 DEF FirstHas
  <2>. QED
    BY <2>1, <2>2
<1>7. TableOf(f, c, k + 1, a)
  BY <1>5, <1>6 DEF TableOf
<1>. QED
  BY <1>7 DEF a

LEMMA ReadOn ==
    ASSUME NEW f \in [Offsets -> Section], Regular(f), NEW s \in Offsets,
           NEW l \in Tidy(f), CanAdvance(f, l), NEW k, Read(f, Chain(f, s), k, l)
    PROVE  Read(f, Chain(f, s), k + 1, Advance(f, l))
<1> DEFINE c == Chain(f, s)
           a == Advance(f, l)
           N == Cardinality(Offsets)
<1>1. Linked(f, s, c) /\ (Stops(f, c) \/ Len(c) = N + 1) /\ c \in Seq(Offsets) /\ Len(c) \in Nat
  <2>1. Linked(f, s, c) /\ (Stops(f, c) \/ Len(c) = N + 1)
    BY ChainIs
  <2>. HIDE DEF c
  <2>2. c \in Seq(Offsets)
    BY <2>1 DEF Linked, Chains
  <2>. QED
    BY <2>1, <2>2
<1>2. /\ k \in 0..Len(c) /\ Before(c, k) \subseteq l.visited /\ Cardinality(Before(c, k)) = k
      /\ l.next = IF k < Len(c) THEN c[k + 1] ELSE Nowhere
      /\ TableOf(f, c, k, l.table)
  BY DEF Read
<1>3. l.next # Nowhere /\ l.next \notin l.visited /\ l.next \in Offsets /\ f[l.next].parses
      /\ l.visited \in SUBSET Offsets
  BY DEF CanAdvance, Unseen, Tidy, Stages, Places
<1>4. k < Len(c) /\ l.next = c[k + 1] /\ k + 1 \in 0..Len(c) /\ k \in Nat
  BY <1>1, <1>2, <1>3
<1>5. a.next = f[l.next].prev /\ l.visited \subseteq a.visited /\ l.next \in a.visited
  BY <1>3, Constants DEF Advance
<1>6. TableOf(f, c, k + 1, a.table)
  BY <1>2, <1>4, TableOn
<1>7. Before(c, k + 1) = Before(c, k) \cup {c[k + 1]}
  <2>1. 1..(k + 1) = (1..k) \cup {k + 1}
    BY <1>4
  <2>. QED
    BY <2>1 DEF Before
<1>. HIDE DEF a, c
<1>8. Before(c, k + 1) \subseteq a.visited
  BY <1>2, <1>4, <1>5, <1>7
<1>9. IsFiniteSet(Offsets) /\ N \in Nat
  BY Constants, FS_CardinalityType
<1>10. Cardinality(Before(c, k + 1)) = k + 1
  <2>1. Before(c, k) \subseteq Offsets
    BY <1>2, <1>3
  <2>2. IsFiniteSet(Before(c, k))
    BY <2>1, <1>9, FS_Subset
  <2>3. c[k + 1] \notin Before(c, k)
    BY <1>2, <1>3, <1>4
  <2>4. Cardinality(Before(c, k) \cup {c[k + 1]}) = Cardinality(Before(c, k)) + 1
    BY <2>2, <2>3, FS_AddElement, Zenon
  <2>. QED
    BY <1>2, <1>7, <2>4
<1>11. k + 1 <= N
  <2>1. Before(c, k + 1) \subseteq Offsets
    BY <1>2, <1>3, <1>4, <1>7
  <2>. QED
    BY <1>9, <1>10, <2>1, FS_Subset
<1>12. a.next = IF k + 1 < Len(c) THEN c[(k + 1) + 1] ELSE Nowhere
  <2>1. CASE k + 1 < Len(c)
    <3>1. k + 1 \in 1..(Len(c) - 1)
      BY <1>1, <1>4, <2>1
    <3>2. c[(k + 1) + 1] = f[c[k + 1]].prev
      BY <1>1, <3>1 DEF Linked
    <3>. QED
      BY <1>4, <1>5, <2>1, <3>2
  <2>2. CASE ~(k + 1 < Len(c))
    <3>1. Len(c) = k + 1
      BY <1>1, <1>4, <2>2
    <3>2. Stops(f, c)
      BY <1>1, <1>9, <1>11, <3>1
    <3>3. f[l.next].prev = Nowhere
      BY <1>3, <1>4, <3>1, <3>2 DEF Stops
    <3>. QED
      BY <1>5, <2>2, <3>3
  <2>. QED
    BY <2>1, <2>2
<1>13. Read(f, c, k + 1, a)
  BY <1>4, <1>6, <1>8, <1>10, <1>12 DEF Read
<1>. QED
  BY <1>13 DEF a, c

LEMMA ReadAlways ==
    ASSUME NEW f \in [Offsets -> Section], Regular(f), NEW s \in Offsets, s \notin Hybrids(f),
           NEW l, Leads(f, Begin(s), l)
    PROVE  \E k : Read(f, Chain(f, s), k, l)
<1> DEFINE c == Chain(f, s)
           S == {x \in Tidy(f) : \E k : Read(f, c, k, x)}
<1>1. Begin(s) \in S
  <2>1. Begin(s) \in Tidy(f)
    BY LeadsSelf, TidyAlways
  <2>2. c[1] = s /\ Len(c) \in Nat \ {0}
    <3>1. Linked(f, s, c)
      BY ChainIs
    <3>. HIDE DEF c
    <3>. QED
      BY <3>1 DEF Linked, Chains
  <2>. HIDE DEF c
  <2>3. Before(c, 0) = {} /\ Cardinality({}) = 0
    BY FS_EmptySet DEF Before
  <2>4. TableOf(f, c, 0, <<>>)
    BY NoTable DEF TableOf
  <2>5. Read(f, c, 0, Begin(s))
    <3>1. Begin(s).visited = {} /\ Begin(s).next = s /\ Begin(s).table = <<>>
      BY DEF Begin
    <3>2. 0 \in 0..Len(c) /\ 0 < Len(c) /\ 0 + 1 = 1
      BY <2>2
    <3>. HIDE DEF Begin
    <3>3. Begin(s).next = IF 0 < Len(c) THEN c[0 + 1] ELSE Nowhere
      BY <2>2, <3>1, <3>2
    <3>. QED
      BY <2>3, <2>4, <3>1, <3>2, <3>3 DEF Read
  <2>. QED
    BY <2>1, <2>5
<1>2. ASSUME NEW x \in S, CanAdvance(f, x) PROVE Advance(f, x) \in S
  <2>1. x \in Tidy(f)
    OBVIOUS
  <2>2. PICK k : Read(f, c, k, x)
    OBVIOUS
  <2>3. Read(f, c, k + 1, Advance(f, x))
    BY <1>2, <2>1, <2>2, ReadOn
  <2>4. Advance(f, x) \in Tidy(f)
    BY <1>2, <2>1, TidyOn
  <2>. QED
    BY <2>3, <2>4
<1>. HIDE DEF c
<1>3. Closed(f, S) /\ S \in SUBSET Stages
  BY <1>2 DEF Closed, Tidy
<1>4. l \in S
  <2>. HIDE DEF S
  <2>. QED
    BY <1>1, <1>3, AllAlong
<1>. QED
  BY <1>4 DEF c

\* The first section of a chain with an entry is the one Newest finds.
LEMMA NewestIs ==
    ASSUME NEW f, NEW c \in Seq(Offsets), NEW n, NEW i \in 1..Len(c), FirstHas(f, c, n, i)
    PROVE  Newest(f, c, n) = i
<1> DEFINE P(j) == Has(f, c[j], n) /\ \A k \in 1..(j - 1) : ~Has(f, c[k], n)
<1>1. DOMAIN c = 1..Len(c) /\ Len(c) \in Nat
  OBVIOUS
<1>2. Newest(f, c, n) = CHOOSE j \in DOMAIN c : P(j)
  BY Zenon DEF Newest, Has
<1>3. P(i)
  BY DEF FirstHas
<1>4. ASSUME NEW j \in DOMAIN c, P(j) PROVE j = i
  <2>1. j \in Nat /\ i \in Nat /\ 1 <= j /\ 1 <= i
    BY <1>1
  <2>2. ~(j < i)
    <3>1. j < i => j \in 1..(i - 1)
      BY <2>1
    <3>. QED
      BY <3>1, <1>3, <1>4
  <2>3. ~(i < j)
    <3>1. i < j => i \in 1..(j - 1)
      BY <2>1
    <3>. QED
      BY <3>1, <1>3, <1>4
  <2>. QED
    BY <2>1, <2>2, <2>3
<1>. HIDE DEF P
<1>5. (CHOOSE j \in DOMAIN c : P(j)) = i
  BY <1>1, <1>3, <1>4
<1>. QED
  BY <1>2, <1>5

LEMMA Winners ==
    ASSUME IInv
    PROVE  NewestRevisionWins
<1>. SUFFICES ASSUME Regular(file), start \notin Hybrids(file), NEW m \in Modes, Loaded(m),
                     NEW n \in DOMAIN walk[m].table, m = "async" => faults = MaxFaults
              PROVE  LET off == Chain(file, start)[Newest(file, Chain(file, start), n)]
                         h   == file[off].xrefstm
                     IN  walk[m].table[n] = IF h # Nowhere /\ n \in file[h].defines
                                            THEN h ELSE off
  <2>1. faults \in Nat /\ MaxFaults \in Nat /\ (faults < MaxFaults \/ faults = MaxFaults)
    BY Constants DEF IInv, WInv, TypeOK
  <2>. QED
    BY <2>1 DEF NewestRevisionWins
<1>1. file \in [Offsets -> Section] /\ start \in Offsets /\ walk[m] \in Walk
  BY FileParts, WalkIs DEF IInv, WInv
<1>2. Healthy(m)
  BY DEF Healthy, Modes
<1> DEFINE l == Proj(walk[m])
           c == Chain(file, start)
<1>3. Leads(file, Begin(start), l) /\ l.table = walk[m].table
  BY <1>1, <1>2, WalkIs, ProjTyped DEF IInv, Follows, Loaded
<1>. HIDE DEF l
<1>4. PICK k : Read(file, c, k, l)
  BY <1>1, <1>3, ReadAlways
<1>5. c \in Seq(Offsets) /\ Len(c) \in Nat
  BY <1>1, ChainIs DEF Linked, Chains
<1>6. PICK i \in 1..k : FirstHas(file, c, n, i) /\ l.table[n] = Own(file, c[i], n)
  BY <1>3, <1>4 DEF Read, TableOf
<1>7. i \in 1..Len(c)
  BY <1>4, <1>5 DEF Read
<1>8. Newest(file, c, n) = i
  BY <1>5, <1>6, <1>7, NewestIs
<1>. QED
  BY <1>3, <1>6, <1>8 DEF Own

\* Whatever the chain of a regular file is like, of any length, looping or not,
\* each object is where the newest revision with an entry for it says, and there
\* where the hybrid stream says before the table (xref.rs `load_chain`).
THEOREM TheNewestRevisionWins == Spec => []NewestRevisionWins
<1>1. Spec => []IInv
  BY IInit, IStep, PTL DEF Spec
<1>. QED
  BY <1>1, Winners, PTL
=============================================================================
