----------------------------- MODULE XrefChain ------------------------------
(***************************************************************************)
(* The three walks over a file's cross-reference sections: `load_chain`    *)
(* (pdfboss-core/src/xref.rs), which opens a synchronous document and has  *)
(* a scan of the whole file to fall back on, `load_xref_chain`             *)
(* (pdfboss-aio/src/document.rs), which opens an asynchronous one through  *)
(* reads that may fail, and the sections stage of the element iterator     *)
(* (pdfboss-core/src/elements.rs), which walks them once more.             *)
(*                                                                         *)
(* A section is where it is, the numbers it has entries for, and where it  *)
(* points; the entry a table keeps for a number is the section it is from. *)
(***************************************************************************)
EXTENDS Integers, Sequences, FiniteSets, SequencesExt

CONSTANTS
    Offsets,  \* where sections may be
    Nums,     \* object numbers
    Files,    \* functions from Offsets to Section
    Starts,   \* what `startxref` may name
    MaxFaults \* bound: reads that fail

Nowhere == 0

\* `XrefSectionInfo`; what does not parse points nowhere and defines nothing.
Section == [parses : BOOLEAN, defines : SUBSET Nums, root : BOOLEAN,
            prev : Offsets \cup {Nowhere}, xrefstm : Offsets \cup {Nowhere}]

ASSUME XrefChainAssumption ==
    /\ Offsets \subseteq Nat \ {Nowhere} /\ IsFiniteSet(Offsets)
    /\ IsFiniteSet(Nums)
    /\ Files \subseteq [Offsets -> Section] /\ Starts \subseteq Offsets
    /\ MaxFaults \in Nat

VARIABLES
    file,    \* the sections of the file
    start,   \* the offset its last `startxref` names
    walk,    \* walk[m]: the loader of the document of kind m, see Walk
    iter,    \* the element iterator of the synchronous document
    faults   \* reads that may still fail

vars == <<file, start, walk, iter, faults>>

Modes == {"sync", "async"}

\* `acc`, `visited` and `next` of a loader, the sections it recorded, and the
\* section whose hybrid stream it is about to read.
Walk == [at : {"chain", "hybrid", "loaded", "scan", "recovered", "failed"},
         next : Offsets \cup {Nowhere}, visited : SUBSET Offsets, sections : Seq(Offsets),
         table : UNION {[S -> Offsets] : S \in SUBSET Nums}, root : BOOLEAN]

\* `pending`, `visited` and what was yielded: offsets, and Nowhere for an error.
Iteration == [at : {"waiting", "sections", "done"}, pending : Seq(Offsets),
              visited : SUBSET Offsets, yielded : Seq(Offsets \cup {Nowhere})]

TypeOK ==
    /\ walk \in [Modes -> Walk] /\ iter \in Iteration
    /\ faults \in 0..MaxFaults

Init ==
    /\ file \in Files /\ start \in Starts
    /\ walk = [m \in Modes |-> [at |-> "chain", next |-> start, visited |-> {},
                                sections |-> <<>>, table |-> <<>>, root |-> FALSE]]
    /\ iter = [at |-> "waiting", pending |-> <<>>, visited |-> {}, yielded |-> <<>>]
    /\ faults = MaxFaults

-----------------------------------------------------------------------------
\* Mutant of Merged: The older section wins.
MergedLatest(table, off) ==
    [n \in DOMAIN table \cup file[off].defines |-> IF n \in file[off].defines THEN off ELSE table[n]]

\* `merge`, `merge_section`: the entries there win.
Merged(table, off) ==
    [n \in DOMAIN table \cup file[off].defines |-> IF n \in DOMAIN table THEN table[n] ELSE off]

\* The loader w after both a table and the hybrid stream it names, or only one
\* of them, were merged; sections are recorded in the other order.
Taking(w, off, hybrid) ==
    [w EXCEPT !.at = "chain", !.next = file[off].prev,
              !.table = Merged(IF hybrid = Nowhere THEN @ ELSE Merged(@, hybrid), off),
              !.root = @ \/ file[off].root \/ (hybrid # Nowhere /\ file[hybrid].root),
              !.sections = @ \o (IF hybrid = Nowhere THEN <<off>> ELSE <<off, hybrid>>)]

\* Mutant of Fresh: Only the section just read is remembered.
FreshSince(w, off) == off # Nowhere /\ (w.sections # <<>> => off # Last(w.sections))

\* Whether an offset leads to a section not visited before.
Fresh(w, off) == off # Nowhere /\ off \notin w.visited

\* A chain that is broken gives no table.
GivenUp(w, m) == [w EXCEPT !.at = IF m = "sync" THEN "scan" ELSE "failed", !.table = <<>>]

\* `parse_section_at`, of the section `next` names: it must parse.
ReadSection(m) ==
    LET w == walk[m]
        s == file[w.next]
        seen == [w EXCEPT !.visited = @ \cup {w.next}]
    IN  /\ w.at = "chain" /\ Fresh(w, w.next)
        /\ walk' = [walk EXCEPT ![m] =
              IF ~s.parses THEN GivenUp(seen, m)
              ELSE IF Fresh(seen, s.xrefstm) THEN [seen EXCEPT !.at = "hybrid"]
              ELSE Taking(seen, w.next, Nowhere)]
        /\ UNCHANGED <<file, start, iter, faults>>

\* Of a hybrid stream: a broken one leaves the table alone.
ReadHybrid(m) ==
    LET w == walk[m]
        h == file[w.next].xrefstm
        seen == [w EXCEPT !.visited = @ \cup {h}]
    IN  /\ w.at = "hybrid"
        /\ walk' = [walk EXCEPT ![m] =
              Taking(seen, w.next, IF file[h].parses THEN h ELSE Nowhere)]
        /\ UNCHANGED <<file, start, iter, faults>>

\* A read of the asynchronous document fails: of a hybrid stream, as if broken.
ReadFails ==
    LET w == walk["async"]
    IN  /\ faults > 0 /\ faults' = faults - 1
        /\ \/ /\ w.at = "chain" /\ Fresh(w, w.next)
              /\ walk' = [walk EXCEPT !["async"] = GivenUp(@, "async")]
           \/ /\ w.at = "hybrid"
              /\ walk' = [walk EXCEPT !["async"] =
                    Taking([w EXCEPT !.visited = @ \cup {file[w.next].xrefstm}], w.next, Nowhere)]
        /\ UNCHANGED <<file, start, iter>>

\* The chain ends, or comes back to a section: without entries it failed, and
\* the synchronous document wants a /Root as well.
ChainEnds(m) ==
    LET w == walk[m]
    IN  /\ w.at = "chain" /\ ~Fresh(w, w.next)
        /\ walk' = [walk EXCEPT ![m].at =
              IF w.table # <<>> /\ (m = "sync" => w.root) THEN "loaded"
              ELSE IF m = "sync" THEN "scan" ELSE "failed"]
        /\ UNCHANGED <<file, start, iter, faults>>

\* `recovery_scan`: the objects it finds, if any, replace the table, and a /Root
\* may be found with them; a chain that was whole is used after all otherwise.
Scan ==
    LET w == walk["sync"]
    IN  /\ w.at = "scan"
        /\ \/ \E root \in BOOLEAN :
                 walk' = [walk EXCEPT !["sync"] =
                             [w EXCEPT !.at = "recovered", !.table = <<>>, !.root = root]]
           \/ walk' = [walk EXCEPT !["sync"].at =
                           IF w.table # <<>> THEN "loaded" ELSE "failed"]
        /\ UNCHANGED <<file, start, iter, faults>>

-----------------------------------------------------------------------------
\* The iterator reaches its sections stage.
StartSections ==
    /\ iter.at = "waiting" /\ walk["sync"].at \in {"loaded", "recovered"}
    /\ iter' = [iter EXCEPT !.at = "sections", !.pending = <<start>>]
    /\ UNCHANGED <<file, start, walk, faults>>

\* An offset queued unless it was visited.
Queued(off, visited) == IF off \in visited \cup {Nowhere} THEN <<>> ELSE <<off>>

\* Mutant of Further: The chain goes on before the hybrid stream.
FurtherFirst(off, visited) == Queued(file[off].prev, visited) \o Queued(file[off].xrefstm, visited)

\* What a section queues.
Further(off, visited) == Queued(file[off].xrefstm, visited) \o Queued(file[off].prev, visited)

\* `next`, one turn of its sections stage: a broken section is the last one.
NextSection ==
    /\ iter.at = "sections" /\ iter.pending # <<>>
    /\ LET off     == Head(iter.pending)
           visited == iter.visited \cup {off}
           rest    == Tail(iter.pending)
       IN  iter' = IF off \in iter.visited THEN [iter EXCEPT !.pending = rest]
                   ELSE [iter EXCEPT
                           !.visited = visited,
                           !.pending = IF file[off].parses
                                       THEN rest \o Further(off, visited) ELSE <<>>,
                           !.yielded = Append(@, IF file[off].parses THEN off ELSE Nowhere)]
    /\ UNCHANGED <<file, start, walk, faults>>

SectionsEnd ==
    /\ iter.at = "sections" /\ iter.pending = <<>>
    /\ iter' = [iter EXCEPT !.at = "done"]
    /\ UNCHANGED <<file, start, walk, faults>>

-----------------------------------------------------------------------------
Load(m) == ReadSection(m) \/ ReadHybrid(m) \/ ChainEnds(m)

Iterate == StartSections \/ NextSection \/ SectionsEnd

Next == Load("sync") \/ Scan \/ Load("async") \/ ReadFails \/ Iterate

Spec == Init /\ [][Next]_vars

\* A loader runs to its end, its reads are answered, and the iterator is drained.
FairSpec ==
    Spec /\ WF_vars(Load("sync") \/ Scan) /\ WF_vars(Load("async")) /\ WF_vars(Iterate)

-----------------------------------------------------------------------------
\* The reference: the sections of the chain of f from s, newest first, until it
\* ends, breaks or comes back; a hybrid stream belongs before its own table.
Chain(f, s) ==
    LET upto[k \in Nat] ==
            IF k = 0 THEN <<s>>
            ELSE LET before == upto[k - 1]
                     last   == f[Last(before)]
                 IN  IF ~last.parses \/ last.prev = Nowhere THEN before
                     ELSE Append(before, last.prev)
    IN  upto[Cardinality(Offsets)]

\* The position of the newest revision on the chain that has an entry for n.
Newest(f, chain, n) ==
    LET has(i) == \/ n \in f[chain[i]].defines
                  \/ f[chain[i]].xrefstm # Nowhere /\ n \in f[f[chain[i]].xrefstm].defines
    IN  CHOOSE i \in DOMAIN chain : has(i) /\ \A j \in 1..(i - 1) : ~has(j)

\* Files as writers make them: hybrid streams are no part of any chain, and
\* lead nowhere.
Hybrids(f) == {f[o].xrefstm : o \in Offsets} \ {Nowhere}
Regular(f) ==
    /\ \A h \in Hybrids(f) : f[h].parses /\ f[h].prev = Nowhere /\ f[h].xrefstm = Nowhere
    /\ \A o \in Offsets : f[o].prev \notin Hybrids(f)
    /\ \A o, p \in Offsets : f[o].xrefstm = f[p].xrefstm => f[o].xrefstm = Nowhere \/ o = p

Loaded(m) == walk[m].at = "loaded"

\* An object is where the newest revision that has an entry for it says, and of
\* that revision the hybrid stream before the table, which marks its objects
\* free (xref.rs 150-156; document.rs 1973-1978); loops in the chain do not change
\* the order.  A failed read of a hybrid stream does, in the asynchronous document:
\* the object is then where the table, or an older revision, says.
NewestRevisionWins ==
    Regular(file) /\ start \notin Hybrids(file) =>
        \A m \in Modes :
            Loaded(m) =>
                \A n \in DOMAIN walk[m].table :
                    LET chain == Chain(file, start)
                        own   == walk[m].table[n]
                        off   == chain[Newest(file, chain, n)]
                        h     == file[off].xrefstm
                    IN  \/ faults < MaxFaults /\ m = "async"
                        \/ own = IF h # Nowhere /\ n \in file[h].defines THEN h ELSE off

\* The state is well typed, and the two documents of a file agree: one whose
\* chain opens without recovery opens in both, with the same table, and, when it
\* is regular, with the sections listed in the same order (document.rs
\* 1979-1986: "matching pdfboss-core's element iterator").
DocumentsAgree ==
    /\ TypeOK
    /\ Loaded("sync") /\ faults = MaxFaults => walk["async"].at # "failed"
    /\ Loaded("sync") /\ Loaded("async") /\ faults = MaxFaults =>
          /\ walk["sync"].table = walk["async"].table
          /\ iter.at = "done" /\ Regular(file) /\ start \notin Hybrids(file)
             => iter.yielded = walk["async"].sections

\* No section is recorded or listed twice, and every walk ends, however the
\* sections point at each other (xref.rs 150-156, elements.rs 279-281).
WalksEnd ==
    /\ [](/\ \A m \in Modes : IsInjective(walk[m].sections)
          /\ IsInjective(SelectSeq(iter.yielded, LAMBDA o : o # Nowhere)))
    /\ \A m \in Modes : walk[m].at \in {"chain", "hybrid", "scan"} ~>
                        walk[m].at \in {"loaded", "recovered", "failed"}
    /\ iter.at = "sections" ~> iter.at = "done"
=============================================================================
