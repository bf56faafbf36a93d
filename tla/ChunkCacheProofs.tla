-------------------------- MODULE ChunkCacheProofs --------------------------
(***************************************************************************)
(* ChunkCache proved for any readers, requests and reads, any chunk size,  *)
(* budget and batch, and any declared length and source.                   *)
(*                                                                         *)
(* Size sums over a set by a recursion of the library: its table of        *)
(* partial sums is shown to exist, and induction is stated over sets (of   *)
(* numbers, of subsets), where it follows from well-foundedness.           *)
(***************************************************************************)
EXTENDS ChunkCache, WellFoundedInduction, FiniteSetTheorems, SequenceTheorems, TLAPS

\* The chunks as the source has them, and the bytes some of them take.
Source == [i \in Indices |-> Chunk(i, SourceLen)]
Weight(S) == Size(Source, S)

\* The order of use lists every resident chunk once.
RecencyInv ==
    /\ recency \in Seq(Indices) /\ IsInjective(recency)
    /\ ToSet(recency) = DOMAIN chunks

\* A resident chunk is all the source has of it.
ContentInv ==
    /\ DOMAIN chunks \subseteq Indices
    /\ chunks = [i \in DOMAIN chunks |-> Chunk(i, SourceLen)]

\* The counter is the residents' weight, within the budget or that of one chunk.
BooksInv ==
    /\ bytes = Weight(DOMAIN chunks)
    /\ bytes <= MaxBytes \/ Cardinality(DOMAIN chunks) = 1

\* What a reading may be.
Readings == [at : {"done", "lookup", "batch", "fetch", "insert"}, got : Seq(Int),
             first : Nat, run : Nat, data : Seq(Int), next : Nat]

\* Where a reading is in the file, in which chunk, and how far its run reaches.
PosOf(w, q) == q.offset + Len(w.got)
ChunkOf(w, q) == PosOf(w, q) \div ChunkSize
FilledOf(w) == w.first * ChunkSize + Len(w.data)
Reach(w) ==
    IF (w.first + w.run) * ChunkSize <= SourceLen THEN (w.first + w.run) * ChunkSize ELSE SourceLen

\* What was copied is what the request gets, as far as it goes.
Progress(w, q) ==
    /\ w.got = Bytes(q.offset, PosOf(w, q))
    /\ Len(w.got) = 0 \/ PosOf(w, q) <= SourceLen
    /\ Len(w.got) < Want(q) \/ (w.at = "lookup" /\ Want(q) = 0)

\* A run lies around the wanted chunk, in the file, and is within the budget;
\* what was fetched is the source's bytes from its start on.
RunInv(w, q) ==
    /\ w.first <= ChunkOf(w, q) /\ ChunkOf(w, q) < w.first + w.run
    /\ w.first + w.run <= ChunksTotal /\ w.run <= MaxChunks
    /\ w.data = Bytes(w.first * ChunkSize, FilledOf(w))
    /\ Len(w.data) = 0 \/ FilledOf(w) <= Reach(w)
    /\ w.at = "fetch" => w.next = 0
    /\ w.at = "insert" => FilledOf(w) >= Reach(w) /\ w.next <= Max({1, Pieces(w.data)})

\* Reading w of request q: what holds of it at each of its steps.
ReadingInv(w, q) ==
    /\ w \in Readings /\ q \in Requests \cup {Idle}
    /\ w.at = "done" <=> q = Idle
    /\ w.at # "done" => Progress(w, q)
    /\ w.at \in {"lookup", "batch"} => w.data = <<>> /\ w.next = 0
    /\ w.at \in {"fetch", "insert"} => RunInv(w, q)

ReadersInv ==
    /\ asked \in [Readers -> Requests \cup {Idle}]
    /\ reader \in [Readers -> Readings]
    /\ \A r \in Readers : ReadingInv(reader[r], asked[r])

\* The batch never exceeds the largest run.
BatchInv ==
    /\ batch \in Nat \ {0} /\ batch <= MaxChunks
    /\ previousMiss \in Indices \cup {NoMiss}
    /\ reads \in 0..MaxReads

\* What holds of the cache between two locks of it.
CacheInv == RecencyInv /\ ContentInv /\ BooksInv

\* The inductive invariant: the cache, the batch and every reading.
IInv == RecencyInv /\ ContentInv /\ BooksInv /\ BatchInv /\ ReadersInv

-----------------------------------------------------------------------------
\* Induction over the natural numbers, for a set of them.
LEMMA NatInductionOnSets ==
    ASSUME NEW T, 0 \in T, \A n \in Nat : n \in T => n + 1 \in T
    PROVE  Nat \subseteq T
<1> DEFINE C == Nat \ T
<1>1. SUFFICES ASSUME C # {} PROVE FALSE
  OBVIOUS
<1>2. C \subseteq Nat
  OBVIOUS
<1> HIDE DEF C
<1>3. PICK x \in C : \A y \in C : ~(<<y, x>> \in OpToRel(<, Nat))
  BY <1>1, <1>2, NatLessThanWellFounded, WFMin, Zenon
<1>4. \A y \in C : ~(y < x)
  BY <1>2, <1>3 DEF OpToRel
<1>5. x \in Nat /\ x # 0
  BY <1>3 DEF C
<1>6. x - 1 \in Nat /\ x - 1 < x /\ (x - 1) + 1 = x
  BY <1>5
<1>7. x - 1 \in T
  BY <1>4, <1>6 DEF C
<1>8. x \in T
  BY <1>6, <1>7
<1>. QED
  BY <1>3, <1>8 DEF C

\* Induction over the subsets of a finite set, for a set of them.
LEMMA SubsetInduction ==
    ASSUME NEW S, IsFiniteSet(S), NEW T,
           \A s \in SUBSET S : (\A x \in s : s \ {x} \in T) => s \in T
    PROVE  SUBSET S \subseteq T
<1> DEFINE C == (SUBSET S) \ T
<1>1. SUFFICES ASSUME C # {} PROVE FALSE
  OBVIOUS
<1>2. C \subseteq SUBSET S /\ FiniteSubsetsOf(S) = SUBSET S
  BY FS_FiniteSubsetsOfFinite
<1>3. IsWellFoundedOn(StrictSubsetOrdering(S), SUBSET S)
  BY <1>2, FS_StrictSubsetOrderingWellFounded
<1> HIDE DEF C
<1>4. PICK s \in C : \A t \in C : ~(<<t, s>> \in StrictSubsetOrdering(S))
  BY <1>1, <1>2, <1>3, WFMin
<1>5. s \in SUBSET S /\ s \notin T
  BY <1>4 DEF C
<1>6. ASSUME NEW x \in s PROVE s \ {x} \in T
  <2>1. s \ {x} \in SUBSET S /\ s \ {x} # s
    BY <1>5, <1>6
  <2>2. <<s \ {x}, s>> \in StrictSubsetOrdering(S)
    BY <1>5, <2>1 DEF StrictSubsetOrdering
  <2>. QED
    BY <1>4, <2>1, <2>2 DEF C
<1>. QED
  BY <1>5, <1>6

-----------------------------------------------------------------------------
\* What the recursion of MapThenSumSet asks of its table of partial sums.
IsTable(store, S, t) ==
    t = [s \in SUBSET S |->
           IF s = {} THEN 0
           ELSE LET x == CHOOSE x \in s : TRUE IN Len(store[x]) + t[s \ {x}]]

\* Size is looked up in such a table.
LEMMA SizeIsATable ==
    ASSUME NEW store, NEW S
    PROVE  Size(store, S) = (CHOOSE t : IsTable(store, S, t))[S]
BY Zenon DEF Size, MapThenSumSet, MapThenFoldSet, IsTable

\* A table of numbers that meets the recursion's equation where it is looked up.
Sums(store, S, t) ==
    /\ t \in [SUBSET S -> Nat]
    /\ t[{}] = 0
    /\ \A s \in SUBSET S : s # {} =>
          LET x == CHOOSE x \in s : TRUE IN t[s] = Len(store[x]) + t[s \ {x}]

\* Such a table of numbers is one of the recursion.
LEMMA SumsAreATable ==
    ASSUME NEW store, NEW S, NEW t, Sums(store, S, t)
    PROVE  IsTable(store, S, t)
<1> DEFINE d(s) == IF s = {} THEN 0
                   ELSE LET x == CHOOSE x \in s : TRUE IN Len(store[x]) + t[s \ {x}]
<1>1. t = [s \in SUBSET S |-> t[s]]
  BY DEF Sums
<1>2. ASSUME NEW s \in SUBSET S PROVE t[s] = d(s)
  BY DEF Sums
<1>3. [s \in SUBSET S |-> t[s]] = [s \in SUBSET S |-> d(s)]
  BY <1>2, Zenon
<1>. QED
  BY <1>1, <1>3, Zenon DEF IsTable

\* The lengths are numbers: there is such a table.
Measured(store, S) == \A x \in S : Len(store[x]) \in Nat

\* Sums of the subsets of at most n elements.
SumsTo(store, S, n, t) ==
    /\ t \in [SUBSET S -> Nat]
    /\ t[{}] = 0
    /\ \A s \in SUBSET S : s # {} /\ Cardinality(s) <= n =>
          LET x == CHOOSE x \in s : TRUE IN t[s] = Len(store[x]) + t[s \ {x}]

\* There is one: the sums of ever larger subsets.
LEMMA SumsExist ==
    ASSUME NEW store, NEW S, IsFiniteSet(S), Measured(store, S)
    PROVE  \E t : Sums(store, S, t)
<1> DEFINE T == {n \in Nat : \E t : SumsTo(store, S, n, t)}
<1>0. \A s \in SUBSET S : s # {} => LET x == CHOOSE x \in s : TRUE
                                    IN  /\ x \in s /\ Len(store[x]) \in Nat
                                        /\ s \ {x} \in SUBSET S
                                        /\ Cardinality(s) \in Nat
                                        /\ Cardinality(s) > 0
                                        /\ Cardinality(s \ {x}) = Cardinality(s) - 1
  <2>. TAKE s \in SUBSET S
  <2>. HAVE s # {}
  <2> DEFINE x == CHOOSE x \in s : TRUE
  <2>1. x \in s
    OBVIOUS
  <2>. HIDE DEF x
  <2>2. IsFiniteSet(s)
    BY FS_Subset
  <2>3. /\ Cardinality(s) \in Nat
        /\ Cardinality(s \ {x}) = Cardinality(s) - 1
    BY <2>1, <2>2, FS_RemoveElement, FS_CardinalityType
  <2>4. Cardinality(s) # 0
    BY <2>1, <2>2, FS_EmptySet
  <2>5. Len(store[x]) \in Nat
    BY <2>1 DEF Measured
  <2>. QED
    BY <2>1, <2>3, <2>4, <2>5 DEF x
<1>1. 0 \in T
  <2> DEFINE t == [s \in SUBSET S |-> 0]
  <2>0. ASSUME NEW s \in SUBSET S, s # {} PROVE ~(Cardinality(s) <= 0)
    <3>1. Cardinality(s) \in Nat /\ Cardinality(s) > 0
      BY <1>0, <2>0, Zenon
    <3>. QED
      BY <3>1
  <2>1. SumsTo(store, S, 0, t)
    <3>1. t \in [SUBSET S -> Nat] /\ t[{}] = 0
      OBVIOUS
    <3>. QED
      BY <2>0, <3>1, Zenon DEF SumsTo
  <2>. QED
    BY <2>1
<1>2. ASSUME NEW n \in Nat, n \in T PROVE n + 1 \in T
  <2>1. PICK t : SumsTo(store, S, n, t)
    BY <1>2
  <2> DEFINE d(s) == LET x == CHOOSE x \in s : TRUE IN Len(store[x]) + t[s \ {x}]
             u == [s \in SUBSET S |-> IF Cardinality(s) = n + 1 THEN d(s) ELSE t[s]]
  <2>2. \A s \in SUBSET S : Cardinality(s) = n + 1 => s # {}
    BY FS_EmptySet
  <2>3. ASSUME NEW s \in SUBSET S PROVE u[s] \in Nat
    BY <1>0, <2>1, <2>2 DEF SumsTo
  <2>4. u \in [SUBSET S -> Nat]
    BY <2>3
  <2>5. u[{}] = 0
    BY <2>1, FS_EmptySet DEF SumsTo
  <2>6. ASSUME NEW s \in SUBSET S, s # {}, Cardinality(s) <= n + 1
        PROVE  LET x == CHOOSE x \in s : TRUE IN u[s] = Len(store[x]) + u[s \ {x}]
    <3> DEFINE x == CHOOSE x \in s : TRUE
    <3>1. /\ x \in s /\ s \ {x} \in SUBSET S /\ Cardinality(s) \in Nat
          /\ Cardinality(s \ {x}) = Cardinality(s) - 1
      BY <1>0, <2>6
    <3>2. u[s \ {x}] = t[s \ {x}]
      BY <3>1, <2>6
    <3>3. u[s] = Len(store[x]) + t[s \ {x}]
      BY <3>1, <2>1, <2>6 DEF SumsTo
    <3>. QED
      BY <3>2, <3>3
  <2>7. SumsTo(store, S, n + 1, u)
    BY <2>4, <2>5, <2>6, Zenon DEF SumsTo
  <2>. QED
    BY <2>7
<1>3. Nat \subseteq T
  <2>. HIDE DEF T
  <2>. QED
    BY <1>1, <1>2, NatInductionOnSets
<1>4. Cardinality(S) \in Nat
  BY FS_CardinalityType
<1>5. PICK t : SumsTo(store, S, Cardinality(S), t)
  BY <1>3, <1>4
<1>6. \A s \in SUBSET S : Cardinality(s) <= Cardinality(S)
  BY FS_Subset
<1>. QED
  BY <1>5, <1>6 DEF SumsTo, Sums

-----------------------------------------------------------------------------
\* The choice of the element taken out of a set first does not matter.
LEMMA SumsSplit ==
    ASSUME NEW store, NEW S, IsFiniteSet(S), Measured(store, S), NEW t, Sums(store, S, t)
    PROVE  \A s \in SUBSET S : \A x \in s : t[s] = Len(store[x]) + t[s \ {x}]
<1> DEFINE T == {s \in SUBSET S : \A x \in s : t[s] = Len(store[x]) + t[s \ {x}]}
<1>1. ASSUME NEW s \in SUBSET S, \A x \in s : s \ {x} \in T
      PROVE  s \in T
  <2>. SUFFICES ASSUME NEW x \in s PROVE t[s] = Len(store[x]) + t[s \ {x}]
    OBVIOUS
  <2> DEFINE y == CHOOSE y \in s : TRUE
  <2>1. y \in s /\ t[s] = Len(store[y]) + t[s \ {y}]
    BY DEF Sums
  <2>. HIDE DEF y
  <2>2. CASE x = y
    BY <2>1, <2>2
  <2>3. CASE x # y
    <3>1. t[s \ {y}] = Len(store[x]) + t[(s \ {y}) \ {x}]
      BY <1>1, <2>1, <2>3
    <3>2. t[s \ {x}] = Len(store[y]) + t[(s \ {x}) \ {y}]
      BY <1>1, <2>1, <2>3
    <3> DEFINE rest == t[(s \ {y}) \ {x}]
               a == Len(store[x])
               b == Len(store[y])
    <3>3. (s \ {y}) \ {x} = (s \ {x}) \ {y}
      OBVIOUS
    <3>4. rest \in Nat /\ a \in Nat /\ b \in Nat
      BY <2>1 DEF Sums, Measured
    <3>5. t[s] = b + (a + rest) /\ t[s \ {x}] = b + rest
      BY <2>1, <3>1, <3>2, <3>3, Zenon
    <3>. HIDE DEF rest, a, b
    <3>6. t[s] = a + t[s \ {x}]
      BY <3>4, <3>5
    <3>. QED
      BY <3>6 DEF a
  <2>. QED
    BY <2>2, <2>3
<1>2. SUBSET S \subseteq T
  <2>. HIDE DEF T
  <2>. QED
    BY <1>1, SubsetInduction
<1>. QED
  BY <1>2

\* Nor does the set the table was made for, nor what is outside of the set.
LEMMA SumsAgree ==
    ASSUME NEW store, NEW S, NEW t, Sums(store, S, t), IsFiniteSet(S), Measured(store, S),
           NEW other, NEW R \in SUBSET S, NEW u, Sums(other, R, u),
           \A x \in R : Len(other[x]) = Len(store[x])
    PROVE  t[R] = u[R]
<1> DEFINE T == {s \in SUBSET R : t[s] = u[s]}
<1>0. IsFiniteSet(R) /\ Measured(other, R)
  BY FS_Subset DEF Measured
<1>1. ASSUME NEW s \in SUBSET R, \A x \in s : s \ {x} \in T
      PROVE  s \in T
  <2>1. CASE s = {}
    BY <2>1 DEF Sums
  <2>2. CASE s # {}
    <3>1. PICK x : x \in s
      BY <2>2
    <3>2. t[s] = Len(store[x]) + t[s \ {x}]
      <4>1. s \in SUBSET S
        OBVIOUS
      <4>. QED
        BY <3>1, <4>1, SumsSplit
    <3>3. u[s] = Len(other[x]) + u[s \ {x}]
      BY <1>0, <3>1, SumsSplit
    <3>4. t[s \ {x}] = u[s \ {x}]
      BY <1>1, <3>1
    <3>. QED
      BY <3>1, <3>2, <3>3, <3>4
  <2>. QED
    BY <2>1, <2>2
<1>2. SUBSET R \subseteq T
  <2>. HIDE DEF T
  <2>. QED
    BY <1>0, <1>1, SubsetInduction
<1>. QED
  BY <1>2

\* The size of some chunks is their sum, whichever way it is taken.
LEMMA SizeIsASum ==
    ASSUME NEW store, NEW S, IsFiniteSet(S), Measured(store, S)
    PROVE  \E t : Sums(store, S, t) /\ Size(store, S) = t[S]
<1> DEFINE t == CHOOSE t : IsTable(store, S, t)
<1>1. \E u : IsTable(store, S, u)
  BY SumsExist, SumsAreATable
<1>2. IsTable(store, S, t)
  BY <1>1, Zenon
<1>3. Size(store, S) = t[S]
  BY SizeIsATable, Zenon
<1>. HIDE DEF t
<1>4. Sums(store, S, t)
  <2>1. t[{}] = 0
    BY <1>2 DEF IsTable
  <2>2. \A s \in SUBSET S : s # {} =>
          LET x == CHOOSE x \in s : TRUE IN t[s] = Len(store[x]) + t[s \ {x}]
    BY <1>2 DEF IsTable
  <2>3. t \in [SUBSET S -> Nat]
    <3> DEFINE T == {s \in SUBSET S : t[s] \in Nat}
    <3>1. ASSUME NEW s \in SUBSET S, \A x \in s : s \ {x} \in T
          PROVE  s \in T
      <4>1. CASE s = {}
        BY <2>1, <4>1
      <4>2. CASE s # {}
        <5> DEFINE x == CHOOSE x \in s : TRUE
        <5>1. x \in s /\ t[s] = Len(store[x]) + t[s \ {x}]
          BY <2>2, <4>2
        <5>. HIDE DEF x
        <5>2. t[s \ {x}] \in Nat
          BY <3>1, <5>1
        <5>3. Len(store[x]) \in Nat
          BY <5>1 DEF Measured
        <5>. QED
          BY <5>1, <5>2, <5>3
      <4>. QED
        BY <4>1, <4>2
    <3>2. SUBSET S \subseteq T
      <4>. HIDE DEF T
      <4>. QED
        BY <3>1, SubsetInduction
    <3>3. t = [s \in SUBSET S |-> t[s]]
      BY <1>2 DEF IsTable
    <3>. QED
      BY <3>2, <3>3
  <2>. QED
    BY <2>1, <2>2, <2>3, Zenon DEF Sums
<1>. QED
  BY <1>3, <1>4

\* The facts about sizes the rest goes by.
LEMMA SizeFacts ==
    ASSUME NEW store, NEW S, IsFiniteSet(S), Measured(store, S)
    PROVE  /\ Size(store, S) \in Nat
           /\ S = {} => Size(store, S) = 0
           /\ \A x \in S : Size(store, S) = Len(store[x]) + Size(store, S \ {x})
<1>1. PICK t : Sums(store, S, t) /\ Size(store, S) = t[S]
  BY SizeIsASum
<1>2. Size(store, S) \in Nat /\ (S = {} => Size(store, S) = 0)
  BY <1>1 DEF Sums
<1>3. ASSUME NEW x \in S PROVE Size(store, S) = Len(store[x]) + Size(store, S \ {x})
  <2>1. IsFiniteSet(S \ {x}) /\ Measured(store, S \ {x}) /\ S \ {x} \in SUBSET S
    BY FS_Subset DEF Measured
  <2>2. PICK u : Sums(store, S \ {x}, u) /\ Size(store, S \ {x}) = u[S \ {x}]
    BY <2>1, SizeIsASum
  <2>3. t[S \ {x}] = u[S \ {x}]
    BY <1>1, <2>1, <2>2, SumsAgree
  <2>4. t[S] = Len(store[x]) + t[S \ {x}]
    BY <1>1, SumsSplit
  <2>. QED
    BY <1>1, <2>2, <2>3, <2>4
<1>. QED
  BY <1>2, <1>3

\* Only the lengths of the chunks in the set count.
LEMMA SizeAgrees ==
    ASSUME NEW store, NEW other, NEW S, IsFiniteSet(S), Measured(store, S),
           \A x \in S : Len(other[x]) = Len(store[x])
    PROVE  Size(other, S) = Size(store, S)
<1>1. Measured(other, S) /\ S \in SUBSET S
  BY DEF Measured
<1>2. PICK t : Sums(store, S, t) /\ Size(store, S) = t[S]
  BY SizeIsASum
<1>3. PICK u : Sums(other, S, u) /\ Size(other, S) = u[S]
  BY <1>1, SizeIsASum
<1>. QED
  BY <1>1, <1>2, <1>3, SumsAgree

\* The sizes of two sets apart add up.
LEMMA SizeOfBoth ==
    ASSUME NEW store, NEW S, NEW R, IsFiniteSet(S), IsFiniteSet(R), S \cap R = {},
           Measured(store, S), Measured(store, R)
    PROVE  Size(store, S \cup R) = Size(store, S) + Size(store, R)
<1> DEFINE T == {r \in SUBSET R : Size(store, S \cup r) = Size(store, S) + Size(store, r)}
<1>1. ASSUME NEW r \in SUBSET R, \A x \in r : r \ {x} \in T
      PROVE  r \in T
  <2>0. /\ IsFiniteSet(r) /\ IsFiniteSet(S \cup r)
        /\ Measured(store, r) /\ Measured(store, S \cup r)
    BY FS_Subset, FS_Union DEF Measured
  <2>1. CASE r = {}
    <3>1. S \cup r = S /\ Size(store, r) = 0 /\ Size(store, S) \in Nat
      BY <2>0, <2>1, SizeFacts
    <3>. QED
      BY <3>1
  <2>2. CASE r # {}
    <3>1. PICK x : x \in r
      BY <2>2
    <3>2. x \in S \cup r /\ (S \cup r) \ {x} = S \cup (r \ {x})
      BY <3>1
    <3>3. /\ Size(store, r) = Len(store[x]) + Size(store, r \ {x})
          /\ Size(store, S \cup r) = Len(store[x]) + Size(store, S \cup (r \ {x}))
      BY <2>0, <3>1, <3>2, SizeFacts
    <3>4. Size(store, S \cup (r \ {x})) = Size(store, S) + Size(store, r \ {x})
      BY <1>1, <3>1
    <3>5. /\ Size(store, S) \in Nat /\ Size(store, r \ {x}) \in Nat
          /\ Len(store[x]) \in Nat
      <4>1. IsFiniteSet(r \ {x}) /\ Measured(store, r \ {x})
        BY <2>0, FS_Subset DEF Measured
      <4>. QED
        BY <2>0, <3>1, <4>1, SizeFacts DEF Measured
    <3>. QED
      BY <3>3, <3>4, <3>5
  <2>. QED
    BY <2>1, <2>2
<1>2. SUBSET R \subseteq T
  <2>. HIDE DEF T
  <2>. QED
    BY <1>1, SubsetInduction
<1>. QED
  BY <1>2

\* Chunks of at most c bytes each.
LEMMA SizeBounded ==
    ASSUME NEW store, NEW S, IsFiniteSet(S), Measured(store, S), NEW c \in Nat,
           \A x \in S : Len(store[x]) <= c
    PROVE  Size(store, S) <= c * Cardinality(S)
<1> DEFINE T == {s \in SUBSET S : Size(store, s) <= c * Cardinality(s)}
<1>1. ASSUME NEW s \in SUBSET S, \A x \in s : s \ {x} \in T
      PROVE  s \in T
  <2>0. IsFiniteSet(s) /\ Measured(store, s)
    BY FS_Subset DEF Measured
  <2>1. CASE s = {}
    <3>1. Size(store, s) = 0 /\ Cardinality(s) = 0
      BY <2>0, <2>1, SizeFacts, FS_EmptySet
    <3>. QED
      BY <3>1
  <2>2. CASE s # {}
    <3>1. PICK x : x \in s
      BY <2>2
    <3> DEFINE n == Cardinality(s)
               m == Size(store, s \ {x})
    <3>2. n \in Nat /\ Cardinality(s \ {x}) = n - 1
      BY <2>0, <3>1, FS_RemoveElement, FS_CardinalityType
    <3>3. Size(store, s) = Len(store[x]) + m
      BY <2>0, <3>1, SizeFacts
    <3>4. m \in Nat
      <4>1. IsFiniteSet(s \ {x}) /\ Measured(store, s \ {x})
        BY <2>0, FS_Subset DEF Measured
      <4>. QED
        BY <4>1, SizeFacts
    <3>5. m <= c * (n - 1)
      BY <1>1, <3>1, <3>2
    <3>6. Len(store[x]) \in Nat /\ Len(store[x]) <= c
      BY <3>1 DEF Measured
    <3>. HIDE DEF n, m
    <3>7. c * (n - 1) = c * n - c /\ c * n \in Nat
      BY <3>2
    <3>8. Size(store, s) <= c * n
      BY <3>3, <3>4, <3>5, <3>6, <3>7
    <3>. QED
      BY <3>8 DEF n
  <2>. QED
    BY <2>1, <2>2
<1>2. SUBSET S \subseteq T
  <2>. HIDE DEF T
  <2>. QED
    BY <1>1, SubsetInduction
<1>. QED
  BY <1>2

-----------------------------------------------------------------------------
\* The constants, and what Min and Max give for two and three integers.
LEMMA Constants ==
    /\ ChunkSize \in Nat /\ ChunkSize > 0
    /\ FileLen \in Nat /\ SourceLen \in Nat /\ SourceLen <= FileLen
BY ChunkCacheAssumption

\* What Min gives for two integers.
LEMMA MinOfTwo ==
    ASSUME NEW a \in Int, NEW b \in Int
    PROVE  Min({a, b}) = IF a <= b THEN a ELSE b
<1> DEFINE m == IF a <= b THEN a ELSE b
<1>1. m \in {a, b} /\ \A y \in {a, b} : m <= y
  OBVIOUS
<1>2. \A x \in {a, b} : (\A y \in {a, b} : x <= y) => x = m
  OBVIOUS
<1>. QED
  BY <1>1, <1>2 DEF Min

\* What Min gives for three integers.
LEMMA MinOfThree ==
    ASSUME NEW a \in Int, NEW b \in Int, NEW c \in Int
    PROVE  /\ Min({a, b, c}) \in {a, b, c}
           /\ Min({a, b, c}) <= a /\ Min({a, b, c}) <= b /\ Min({a, b, c}) <= c
<1> DEFINE ab == IF a <= b THEN a ELSE b
           m == IF ab <= c THEN ab ELSE c
<1>1. m \in {a, b, c} /\ \A y \in {a, b, c} : m <= y
  OBVIOUS
<1>2. Min({a, b, c}) \in {a, b, c} /\ \A y \in {a, b, c} : Min({a, b, c}) <= y
  BY <1>1 DEF Min
<1>. QED
  BY <1>2

\* What Max gives for two integers.
LEMMA MaxOfTwo ==
    ASSUME NEW a \in Int, NEW b \in Int
    PROVE  Max({a, b}) = IF a >= b THEN a ELSE b
<1> DEFINE m == IF a >= b THEN a ELSE b
<1>1. m \in {a, b} /\ \A y \in {a, b} : m >= y
  OBVIOUS
<1>2. \A x \in {a, b} : (\A y \in {a, b} : x >= y) => x = m
  OBVIOUS
<1>. QED
  BY <1>1, <1>2 DEF Max

\* A set of naturals that is not empty has a least element.
LEMMA LeastOf ==
    ASSUME NEW S, S \subseteq Nat, S # {}
    PROVE  Min(S) \in S /\ \A y \in S : Min(S) <= y
<1>1. PICK x \in S : \A y \in S : ~(<<y, x>> \in OpToRel(<, Nat))
  BY NatLessThanWellFounded, WFMin, Zenon
<1>2. ASSUME NEW y \in S PROVE x <= y
  <2>1. x \in Nat /\ y \in Nat
    OBVIOUS
  <2>2. ~(y < x)
    BY <1>1, <2>1 DEF OpToRel
  <2>. QED
    BY <2>1, <2>2
<1>. QED
  BY <1>1, <1>2 DEF Min

\* One that is bounded has a greatest.
LEMMA GreatestOf ==
    ASSUME NEW S, S \subseteq Nat, S # {}, NEW n \in Nat, \A y \in S : y <= n
    PROVE  Max(S) \in S /\ \A y \in S : y <= Max(S)
<1> DEFINE D == {n - y : y \in S}
<1>1. D \subseteq Nat /\ D # {}
  <2>1. \A y \in S : n - y \in Nat
    OBVIOUS
  <2>. QED
    BY <2>1
<1>. HIDE DEF D
<1>2. PICK d \in D : \A e \in D : d <= e
  BY <1>1, LeastOf
<1>3. PICK x \in S : d = n - x
  BY <1>2 DEF D
<1>4. ASSUME NEW y \in S PROVE x >= y
  <2>1. n - y \in D
    BY DEF D
  <2>. QED
    BY <1>2, <1>3, <2>1
<1>5. \E z \in S : \A y \in S : z >= y
  BY <1>3, <1>4
<1>6. Max(S) \in S /\ \A y \in S : Max(S) >= y
  BY <1>5, Zenon DEF Max
<1>. QED
  BY <1>6

-----------------------------------------------------------------------------
\* Offsets and chunks.
LEMMA Products ==
    ASSUME NEW i \in Int, NEW j \in Int
    PROVE  /\ i * ChunkSize \in Int
           /\ i >= 0 => i * ChunkSize >= 0
           /\ (i + j) * ChunkSize = i * ChunkSize + j * ChunkSize
           /\ (i + 1) * ChunkSize = i * ChunkSize + ChunkSize
           /\ i <= j => i * ChunkSize <= j * ChunkSize
           /\ i < j => i * ChunkSize + ChunkSize <= j * ChunkSize
           /\ i * ChunkSize < j * ChunkSize => i < j
<1>1. i * ChunkSize \in Int /\ j * ChunkSize \in Int
  BY Constants
<1>2. (i + j) * ChunkSize = i * ChunkSize + j * ChunkSize
  BY Constants
<1>3. (i + 1) * ChunkSize = i * ChunkSize + ChunkSize
  BY Constants
<1>4. i >= 0 => i * ChunkSize >= 0
  BY Constants
<1>5. i <= j => i * ChunkSize <= j * ChunkSize
  BY Constants
<1>6. i < j => i * ChunkSize + ChunkSize <= j * ChunkSize
  <2>1. i < j => (i + 1) * ChunkSize <= j * ChunkSize
    BY Constants
  <2>. QED
    BY <2>1, <1>3
<1>7. i >= j => i * ChunkSize >= j * ChunkSize
  BY Constants
<1>. QED
  BY <1>1, <1>2, <1>3, <1>4, <1>5, <1>6, <1>7

\* What \div and % give for the chunk size.
LEMMA Division ==
    ASSUME NEW p \in Nat
    PROVE  /\ p \div ChunkSize \in Nat /\ p % ChunkSize \in Nat
           /\ p % ChunkSize < ChunkSize
           /\ p = (p \div ChunkSize) * ChunkSize + (p % ChunkSize)
BY Constants

\* Chunk k starts before byte n, in a row of as many chunks as n bytes take.
LEMMA Ceiling ==
    ASSUME NEW n \in Nat, NEW k \in Nat
    PROVE  /\ (n + ChunkSize - 1) \div ChunkSize \in Nat
           /\ k < (n + ChunkSize - 1) \div ChunkSize <=> k * ChunkSize < n
<1> DEFINE p == n + ChunkSize - 1
           d == p \div ChunkSize
           m == p % ChunkSize
<1>1. p \in Nat
  BY Constants
<1>. HIDE DEF p
<1>2. d \in Nat /\ m \in Nat /\ m < ChunkSize /\ p = d * ChunkSize + m
  BY <1>1, Division
<1>. HIDE DEF d, m
<1>3. d * ChunkSize \in Int /\ k * ChunkSize \in Int
  BY <1>2, Products
<1>4. p = n + ChunkSize - 1
  BY DEF p
<1>5. k < d => k * ChunkSize + ChunkSize <= d * ChunkSize
  BY <1>2, Products
<1>6. d <= k => d * ChunkSize <= k * ChunkSize
  BY <1>2, Products
<1>7. k < d <=> k * ChunkSize < n
  BY <1>2, <1>3, <1>4, <1>5, <1>6, Constants
<1>. QED
  BY <1>2, <1>7 DEF d, p

-----------------------------------------------------------------------------
\* Pieces of the source.
LEMMA BytesAre ==
    ASSUME NEW from \in Nat, NEW until \in Int
    PROVE  /\ Bytes(from, until) \in Seq(Int)
           /\ Len(Bytes(from, until)) = IF until > from THEN until - from ELSE 0
           /\ \A i \in 1..Len(Bytes(from, until)) : Bytes(from, until)[i] = from + i - 1
<1> DEFINE n == IF until > from THEN until - from ELSE 0
<1>1. n \in Nat
  OBVIOUS
<1>2. Bytes(from, until) = [i \in 1..n |-> from + i - 1]
  BY DEF Bytes
<1>. HIDE DEF n
<1>3. Bytes(from, until) \in [1..n -> Int]
  BY <1>1, <1>2
<1>4. Bytes(from, until) \in Seq(Int) /\ Len(Bytes(from, until)) = n
  BY <1>1, <1>3, <1>2
<1>5. n = IF until > from THEN until - from ELSE 0
  BY DEF n
<1>. QED
  BY <1>2, <1>4, <1>5

\* Bytes of the file are a sequence of integers.
LEMMA BytesSeq ==
    ASSUME NEW from \in Nat, NEW until \in Int
    PROVE  Bytes(from, until) \in Seq(Int)
BY BytesAre, Zenon

\* How many of them there are.
LEMMA BytesLen ==
    ASSUME NEW from \in Nat, NEW until \in Int
    PROVE  Len(Bytes(from, until)) = IF until > from THEN until - from ELSE 0
BY BytesAre, Zenon

\* Which they are.
LEMMA BytesItem ==
    ASSUME NEW from \in Nat, NEW until \in Int, NEW i \in 1..Len(Bytes(from, until))
    PROVE  Bytes(from, until)[i] = from + i - 1
BY BytesAre, Zenon

\* There are none from a position that is not before the end.
LEMMA BytesEmpty ==
    ASSUME NEW from \in Nat, NEW until \in Int, until <= from
    PROVE  Bytes(from, until) = <<>>
<1>1. Bytes(from, until) \in Seq(Int)
  BY BytesSeq
<1>2. Len(Bytes(from, until)) = 0
  BY BytesLen
<1>. QED
  BY <1>1, <1>2, EmptySeq

\* Adjacent stretches of the file join into one.
LEMMA BytesJoin ==
    ASSUME NEW from \in Nat, NEW mid \in Nat, NEW until \in Nat, from <= mid, mid <= until
    PROVE  Bytes(from, mid) \o Bytes(mid, until) = Bytes(from, until)
<1> DEFINE a == Bytes(from, mid)
           b == Bytes(mid, until)
           c == Bytes(from, until)
<1>0. mid \in Int /\ until \in Int
  OBVIOUS
<1>1. a \in Seq(Int) /\ b \in Seq(Int) /\ c \in Seq(Int)
  BY <1>0, BytesSeq, Zenon
<1>2. Len(a) = mid - from /\ Len(b) = until - mid /\ Len(c) = until - from
  <2>1. Len(a) = mid - from
    BY BytesLen
  <2>2. Len(b) = until - mid
    BY BytesLen
  <2>3. Len(c) = until - from
    BY BytesLen
  <2>. QED
    BY <2>1, <2>2, <2>3
<1>3. /\ \A i \in 1..Len(a) : a[i] = from + i - 1
      /\ \A i \in 1..Len(b) : b[i] = mid + i - 1
      /\ \A i \in 1..Len(c) : c[i] = from + i - 1
  BY <1>0, BytesItem, Zenon
<1>. HIDE DEF a, b, c
<1>4. /\ a \o b \in Seq(Int) /\ Len(a \o b) = Len(a) + Len(b)
      /\ \A i \in 1..(Len(a) + Len(b)) :
            (a \o b)[i] = IF i <= Len(a) THEN a[i] ELSE b[i - Len(a)]
  BY <1>1, ConcatProperties
<1>5. Len(a \o b) = Len(c)
  BY <1>2, <1>4
<1>6. ASSUME NEW i \in 1..Len(a \o b) PROVE (a \o b)[i] = c[i]
  <2>1. (a \o b)[i] = IF i <= Len(a) THEN a[i] ELSE b[i - Len(a)]
    BY <1>4
  <2>2. c[i] = from + i - 1
    BY <1>3, <1>5
  <2>3. CASE i <= Len(a)
    <3>1. a[i] = from + i - 1
      BY <1>2, <1>3, <2>3
    <3>. QED
      BY <2>1, <2>2, <2>3, <3>1
  <2>4. CASE i > Len(a)
    <3>1. i - Len(a) \in 1..Len(b)
      BY <1>2, <1>5, <2>4
    <3>2. b[i - Len(a)] = mid + (i - Len(a)) - 1
      BY <1>3, <3>1
    <3>. QED
      BY <1>2, <2>1, <2>2, <2>4, <3>2
  <2>. QED
    BY <1>2, <2>3, <2>4
<1>7. a \o b = c
  BY <1>1, <1>4, <1>5, <1>6, SeqEqual
<1>. QED
  BY <1>7 DEF a, b, c

\* A slice of the source's bytes is bytes of the source.
LEMMA BytesSlice ==
    ASSUME NEW from \in Nat, NEW until \in Int, NEW m \in Nat, NEW n \in Int,
           n <= Len(Bytes(from, until))
    PROVE  SubSeq(Bytes(from, until), m + 1, n) = Bytes(from + m, from + n)
<1> DEFINE s == Bytes(from, until)
           t == Bytes(from + m, from + n)
           u == SubSeq(s, m + 1, n)
<1>1. s \in Seq(Int) /\ t \in Seq(Int)
  <2>1. from + m \in Nat /\ from + n \in Int
    OBVIOUS
  <2>. QED
    BY <2>1, BytesSeq
<1>2. \A i \in 1..Len(s) : s[i] = from + i - 1
  BY BytesAre, Zenon
<1>3. Len(t) = IF n > m THEN n - m ELSE 0
  <2>1. from + m \in Nat /\ from + n \in Int
    OBVIOUS
  <2>2. Len(t) = IF from + n > from + m THEN (from + n) - (from + m) ELSE 0
    BY <2>1, BytesLen, Zenon
  <2>. HIDE DEF t
  <2>. QED
    BY <2>2
<1>4. \A i \in 1..Len(t) : t[i] = from + m + i - 1
  <2>1. from + m \in Nat /\ from + n \in Int
    OBVIOUS
  <2>. QED
    BY <2>1, BytesAre, Zenon
<1>5. n <= Len(s) /\ Len(s) \in Nat
  BY <1>1, LenProperties
<1>. HIDE DEF s, t
<1>6. \A i \in (m + 1)..n : s[i] \in Int
  BY <1>2, <1>5
<1>7. /\ u \in Seq(Int) /\ Len(u) = (IF m + 1 <= n THEN n - (m + 1) + 1 ELSE 0)
      /\ \A i \in 1..(n - (m + 1) + 1) : u[i] = s[m + 1 + i - 1]
  BY <1>6, SubSeqProperties
<1>. HIDE DEF u
<1>8. Len(u) = Len(t)
  BY <1>3, <1>7
<1>9. ASSUME NEW i \in 1..Len(u) PROVE u[i] = t[i]
  <2>1. i \in 1..(n - (m + 1) + 1) /\ m + 1 + i - 1 = m + i
    BY <1>7
  <2>2. u[i] = s[m + i] /\ m + i \in 1..Len(s)
    BY <1>5, <1>7, <2>1
  <2>3. s[m + i] = from + (m + i) - 1
    BY <1>2, <2>2
  <2>4. t[i] = from + m + i - 1
    BY <1>4, <1>8
  <2>. QED
    BY <2>2, <2>3, <2>4
<1>10. u = t
  BY <1>1, <1>7, <1>8, <1>9, SeqEqual
<1>. QED
  BY <1>10 DEF s, t, u

-----------------------------------------------------------------------------
\* The order of use without chunk i.
Others(i) ==
    IF i \in ToSet(recency)
    THEN RemoveAt(recency, CHOOSE k \in DOMAIN recency : recency[k] = i)
    ELSE recency

\* Where its items were: f is increasing and misses the place of i only.
Kept(i, f) ==
    LET o == Others(i)
    IN  /\ f \in [1..Len(o) -> 1..Len(recency)]
        /\ \A j \in 1..Len(o) : o[j] = recency[f[j]] /\ recency[f[j]] # i
        /\ \A j, l \in 1..Len(o) : j < l => f[j] < f[l]
        /\ \A m \in 1..Len(recency) : recency[m] = i \/ \E j \in 1..Len(o) : f[j] = m

\* What is left of the order of use without chunk i.
LEMMA OthersKept ==
    ASSUME recency \in Seq(Indices), IsInjective(recency), NEW i
    PROVE  Others(i) \in Seq(Indices) /\ \E f : Kept(i, f)
<1> DEFINE n == Len(recency)
<1>0. n \in Nat /\ DOMAIN recency = 1..n /\ \A j \in 1..n : recency[j] \in Indices
  BY LenProperties, ElementOfSeq
<1>. HIDE DEF n
<1>1. CASE i \notin ToSet(recency)
  <2>1. Others(i) = recency
    BY <1>1 DEF Others
  <2>2. \A j \in 1..n : recency[j] # i
    BY <1>0, <1>1 DEF ToSet
  <2> DEFINE f == [j \in 1..n |-> j]
  <2>3. f \in [1..n -> 1..n] /\ \A j \in 1..n : f[j] = j
    OBVIOUS
  <2>. HIDE DEF f
  <2>4. Kept(i, f)
    BY <1>0, <2>1, <2>2, <2>3 DEF Kept, n
  <2>. QED
    BY <2>1, <2>4
<1>2. CASE i \in ToSet(recency)
  <2> DEFINE k == CHOOSE k \in DOMAIN recency : recency[k] = i
             a == SubSeq(recency, 1, k - 1)
             b == SubSeq(recency, k + 1, n)
             o == Others(i)
  <2>1. k \in 1..n /\ recency[k] = i
    BY <1>0, <1>2 DEF ToSet
  <2>2. o = a \o b
    BY <1>2 DEF Others, RemoveAt, n
  <2>. HIDE DEF k, o
  <2>3. a \in Seq(Indices) /\ Len(a) = k - 1 /\ \A j \in 1..(k - 1) : a[j] = recency[j]
    <3>1. \A j \in 1..(k - 1) : recency[j] \in Indices
      BY <1>0, <2>1
    <3>2. /\ a \in Seq(Indices) /\ Len(a) = IF 1 <= k - 1 THEN (k - 1) - 1 + 1 ELSE 0
          /\ \A j \in 1..((k - 1) - 1 + 1) : a[j] = recency[1 + j - 1]
      BY <1>0, <2>1, <3>1, SubSeqProperties
    <3>. HIDE DEF a
    <3>. QED
      BY <1>0, <2>1, <3>2
  <2>4. b \in Seq(Indices) /\ Len(b) = n - k /\ \A j \in 1..(n - k) : b[j] = recency[k + j]
    <3>1. \A j \in (k + 1)..n : recency[j] \in Indices
      BY <1>0, <2>1
    <3>2. /\ b \in Seq(Indices) /\ Len(b) = IF k + 1 <= n THEN n - (k + 1) + 1 ELSE 0
          /\ \A j \in 1..(n - (k + 1) + 1) : b[j] = recency[(k + 1) + j - 1]
      BY <1>0, <2>1, <3>1, SubSeqProperties
    <3>. HIDE DEF b
    <3>3. n - (k + 1) + 1 = n - k /\ \A j \in 1..(n - k) : (k + 1) + j - 1 = k + j
      BY <1>0, <2>1
    <3>. QED
      BY <1>0, <2>1, <3>2, <3>3
  <2>. HIDE DEF a, b
  <2>5. /\ o \in Seq(Indices) /\ Len(o) = n - 1
        /\ \A j \in 1..(n - 1) : o[j] = IF j <= k - 1 THEN a[j] ELSE b[j - (k - 1)]
    <3>1. Len(o) = Len(a) + Len(b)
      BY <2>2, <2>3, <2>4, ConcatProperties
    <3>2. Len(o) = n - 1
      BY <1>0, <2>1, <2>3, <2>4, <3>1
    <3>3. \A j \in 1..(Len(a) + Len(b)) : o[j] = IF j <= Len(a) THEN a[j] ELSE b[j - Len(a)]
      BY <2>2, <2>3, <2>4, ConcatProperties
    <3>4. o \in Seq(Indices)
      BY <2>2, <2>3, <2>4, ConcatProperties
    <3>. QED
      BY <1>0, <2>1, <2>3, <2>4, <3>1, <3>2, <3>3, <3>4
  <2> DEFINE f == [j \in 1..(n - 1) |-> IF j < k THEN j ELSE j + 1]
  <2>6. /\ f \in [1..(n - 1) -> 1..n]
        /\ \A j \in 1..(n - 1) : f[j] = IF j < k THEN j ELSE j + 1
    BY <1>0, <2>1
  <2>. HIDE DEF f
  <2>7. ASSUME NEW j \in 1..(n - 1) PROVE o[j] = recency[f[j]] /\ recency[f[j]] # i
    <3>1. f[j] \in 1..n /\ f[j] # k
      BY <1>0, <2>1, <2>6
    <3>2. recency[f[j]] # i
      BY <1>0, <2>1, <3>1 DEF IsInjective
    <3>3. CASE j < k
      <4>1. o[j] = a[j] /\ a[j] = recency[j]
        BY <1>0, <2>1, <2>3, <2>5, <3>3
      <4>. QED
        BY <2>6, <3>2, <3>3, <4>1
    <3>4. CASE ~(j < k)
      <4>1. j - (k - 1) \in 1..(n - k) /\ k + (j - (k - 1)) = j + 1
        BY <1>0, <2>1, <3>4
      <4>2. o[j] = b[j - (k - 1)] /\ b[j - (k - 1)] = recency[k + (j - (k - 1))]
        BY <1>0, <2>1, <2>4, <2>5, <3>4, <4>1
      <4>. QED
        BY <2>6, <3>2, <3>4, <4>1, <4>2
    <3>. QED
      BY <3>3, <3>4
  <2>8. \A j, l \in 1..(n - 1) : j < l => f[j] < f[l]
    BY <1>0, <2>1, <2>6
  <2>9. ASSUME NEW m \in 1..n, recency[m] # i PROVE \E j \in 1..(n - 1) : f[j] = m
    <3>1. m # k
      BY <2>1, <2>9
    <3>2. CASE m < k
      <4>1. m \in 1..(n - 1)
        BY <1>0, <2>1, <3>2
      <4>. QED
        BY <2>6, <3>2, <4>1
    <3>3. CASE m > k
      <4>1. m - 1 \in 1..(n - 1) /\ ~(m - 1 < k) /\ (m - 1) + 1 = m
        BY <1>0, <2>1, <3>3
      <4>. QED
        BY <2>6, <4>1
    <3>. QED
      BY <1>0, <2>1, <3>1, <3>2, <3>3
  <2>10. Kept(i, f)
    <3>1. Len(Others(i)) = n - 1
      BY <2>5 DEF o
    <3>. QED
      BY <2>6, <2>7, <2>8, <2>9, <3>1 DEF Kept, n, o
  <2>. QED
    BY <2>5, <2>10 DEF o
<1>. QED
  BY <1>1, <1>2

\* What using a chunk does to the order of use.
LEMMA UsedOrder ==
    ASSUME recency \in Seq(Indices), IsInjective(recency), NEW i \in Indices
    PROVE  LET warm == Used(i)
               n    == Len(Used(i))
           IN  /\ warm \in Seq(Indices) /\ n \in Nat \ {0} /\ warm[n] = i
               /\ IsInjective(warm)
               /\ ToSet(warm) = ToSet(recency) \cup {i}
               /\ \A a, b \in 1..n : a < b /\ b < n => Warmer(warm[b], warm[a])
<1> DEFINE o == Others(i)
           warm == Used(i)
           n == Len(recency)
           m == Len(o)
<1>1. o \in Seq(Indices)
  BY OthersKept
<1>2. PICK f : Kept(i, f)
  BY OthersKept
<1>3. warm = Append(o, i)
  BY DEF Used, Others
<1>4. /\ f \in [1..m -> 1..n]
      /\ \A j \in 1..m : o[j] = recency[f[j]] /\ recency[f[j]] # i
      /\ \A j, l \in 1..m : j < l => f[j] < f[l]
      /\ \A k \in 1..n : recency[k] = i \/ \E j \in 1..m : f[j] = k
  BY <1>2 DEF Kept
<1>5. n \in Nat /\ DOMAIN recency = 1..n
  BY LenProperties
<1>. HIDE DEF o, warm, n
<1>6. m \in Nat
  BY <1>1, LenProperties
<1>7. /\ warm \in Seq(Indices) /\ Len(warm) = m + 1
      /\ warm[m + 1] = i /\ \A j \in 1..m : warm[j] = o[j]
  BY <1>1, <1>3, AppendProperties
<1>8. DOMAIN warm = 1..(m + 1)
  BY <1>7, LenProperties
<1>. HIDE DEF m
<1>9. ASSUME NEW j \in DOMAIN warm, NEW l \in DOMAIN warm, j < l PROVE warm[j] # warm[l]
  <2>1. j \in 1..m /\ warm[j] = recency[f[j]] /\ recency[f[j]] # i
    BY <1>4, <1>6, <1>7, <1>8, <1>9
  <2>2. CASE l = m + 1
    BY <1>7, <2>1, <2>2
  <2>3. CASE l # m + 1
    <3>1. l \in 1..m /\ warm[l] = recency[f[l]]
      BY <1>4, <1>6, <1>7, <1>8, <2>3
    <3>2. f[j] \in 1..n /\ f[l] \in 1..n /\ f[j] < f[l]
      BY <1>4, <1>9, <2>1, <3>1
    <3>3. f[j] # f[l]
      BY <1>5, <3>2
    <3>. QED
      BY <1>5, <2>1, <3>1, <3>2, <3>3 DEF IsInjective
  <2>. QED
    BY <2>2, <2>3
<1>10. IsInjective(warm)
  <2>1. \A j, l \in DOMAIN warm : j = l \/ j < l \/ l < j
    BY <1>6, <1>8
  <2>. QED
    BY <1>9, <2>1 DEF IsInjective
<1>11. ToSet(warm) = ToSet(recency) \cup {i}
  <2>1. ASSUME NEW j \in DOMAIN warm PROVE warm[j] \in ToSet(recency) \cup {i}
    <3>1. CASE j = m + 1
      BY <1>7, <3>1
    <3>2. CASE j # m + 1
      <4>1. j \in 1..m
        BY <1>6, <1>8, <3>2
      <4>2. warm[j] = recency[f[j]] /\ f[j] \in DOMAIN recency
        BY <1>4, <1>5, <1>7, <4>1
      <4>. QED
        BY <4>2 DEF ToSet
    <3>. QED
      BY <3>1, <3>2
  <2>2. ASSUME NEW k \in DOMAIN recency PROVE recency[k] \in ToSet(warm)
    <3>1. CASE recency[k] = i
      <4>1. m + 1 \in DOMAIN warm
        BY <1>6, <1>8
      <4>. QED
        BY <1>7, <3>1, <4>1 DEF ToSet
    <3>2. CASE recency[k] # i
      <4>1. PICK j \in 1..m : f[j] = k
        BY <1>4, <1>5, <3>2
      <4>2. j \in DOMAIN warm /\ warm[j] = recency[k]
        BY <1>4, <1>6, <1>7, <1>8, <4>1
      <4>. QED
        BY <4>2 DEF ToSet
    <3>. QED
      BY <3>1, <3>2
  <2>3. i \in ToSet(warm)
    <3>1. m + 1 \in DOMAIN warm
      BY <1>6, <1>8
    <3>. QED
      BY <1>7, <3>1 DEF ToSet
  <2>. QED
    BY <2>1, <2>2, <2>3 DEF ToSet
<1>12. ASSUME NEW a \in 1..(m + 1), NEW b \in 1..(m + 1), a < b, b < m + 1
       PROVE  Warmer(warm[b], warm[a])
  <2>1. a \in 1..m /\ b \in 1..m
    BY <1>6, <1>12
  <2>2. f[a] \in DOMAIN recency /\ f[b] \in DOMAIN recency /\ f[a] < f[b]
    BY <1>4, <1>5, <1>12, <2>1
  <2>3. warm[a] = recency[f[a]] /\ warm[b] = recency[f[b]]
    BY <1>4, <1>7, <2>1
  <2>. QED
    BY <2>2, <2>3 DEF Warmer
<1>. QED
  BY <1>6, <1>7, <1>10, <1>11, <1>12 DEF warm

-----------------------------------------------------------------------------
\* A chunk is bytes of the source, at most ChunkSize of them.
LEMMA ChunkIs ==
    ASSUME NEW i \in Nat
    PROVE  LET end == IF (i + 1) * ChunkSize <= SourceLen THEN (i + 1) * ChunkSize ELSE SourceLen
           IN  /\ end \in Nat /\ end <= i * ChunkSize + ChunkSize
               /\ i * ChunkSize \in Nat
               /\ Chunk(i, SourceLen) = Bytes(i * ChunkSize, end)
<1>1. i * ChunkSize \in Int /\ (i + 1) * ChunkSize \in Int /\ i * ChunkSize >= 0
      /\ (i + 1) * ChunkSize = i * ChunkSize + ChunkSize
  BY Products
<1>2. Min({(i + 1) * ChunkSize, SourceLen})
        = IF (i + 1) * ChunkSize <= SourceLen THEN (i + 1) * ChunkSize ELSE SourceLen
  BY <1>1, MinOfTwo, Constants
<1>. QED
  BY <1>1, <1>2, Constants DEF Chunk

\* A chunk is a sequence of at most ChunkSize bytes.
LEMMA ChunkLen ==
    ASSUME NEW i \in Nat
    PROVE  /\ Chunk(i, SourceLen) \in Seq(Int)
           /\ Len(Chunk(i, SourceLen)) \in Nat /\ Len(Chunk(i, SourceLen)) <= ChunkSize
<1>1. PICK end \in Nat : /\ end <= i * ChunkSize + ChunkSize
                         /\ Chunk(i, SourceLen) = Bytes(i * ChunkSize, end)
  BY ChunkIs
<1>2. i * ChunkSize \in Nat
  BY ChunkIs
<1>3. Chunk(i, SourceLen) \in Seq(Int)
  BY <1>1, <1>2, BytesSeq
<1>4. Len(Chunk(i, SourceLen)) = IF end > i * ChunkSize THEN end - i * ChunkSize ELSE 0
  <2>1. end \in Int
    OBVIOUS
  <2>. QED
    BY <1>1, <1>2, <2>1, BytesLen, Zenon
<1>. QED
  BY <1>1, <1>2, <1>3, <1>4, Constants

\* The file has finitely many chunks.
LEMMA IndicesFinite ==
    /\ ChunksTotal \in Nat /\ Indices \subseteq Nat /\ IsFiniteSet(Indices)
    /\ \A S \in SUBSET Indices : IsFiniteSet(S)
<1>1. ChunksTotal \in Nat
  BY Ceiling, Constants DEF ChunksTotal
<1>2. IsFiniteSet(Indices)
  BY <1>1, FS_Interval DEF Indices
<1>3. Indices \subseteq Nat
  BY <1>1 DEF Indices
<1>. QED
  BY <1>1, <1>2, <1>3, FS_Subset

\* What some chunks weigh, and that each adds its length.
LEMMA Weights ==
    ASSUME NEW S \in SUBSET Indices
    PROVE  /\ Weight(S) \in Nat
           /\ S = {} => Weight(S) = 0
           /\ \A x \in S : Weight(S) = Len(Chunk(x, SourceLen)) + Weight(S \ {x})
           /\ Weight(S) <= ChunkSize * Cardinality(S)
           /\ Measured(Source, S)
<1>1. IsFiniteSet(S)
  BY IndicesFinite
<1>2. ASSUME NEW x \in S
      PROVE  /\ Source[x] = Chunk(x, SourceLen)
             /\ Len(Source[x]) \in Nat /\ Len(Source[x]) <= ChunkSize
  <2>1. x \in Indices /\ x \in Nat
    BY IndicesFinite
  <2>2. Source[x] = Chunk(x, SourceLen)
    BY <2>1 DEF Source
  <2>. QED
    BY <2>1, <2>2, ChunkLen
<1>3. Measured(Source, S)
  BY <1>2 DEF Measured
<1>4. Weight(S) <= ChunkSize * Cardinality(S)
  BY <1>1, <1>2, <1>3, Constants, SizeBounded DEF Weight
<1>5. /\ Size(Source, S) \in Nat
      /\ S = {} => Size(Source, S) = 0
      /\ \A x \in S : Size(Source, S) = Len(Source[x]) + Size(Source, S \ {x})
  BY <1>1, <1>3, SizeFacts
<1>. QED
  BY <1>2, <1>3, <1>4, <1>5 DEF Weight

\* Disjoint sets of chunks weigh what both do.
LEMMA WeightOfBoth ==
    ASSUME NEW S \in SUBSET Indices, NEW R \in SUBSET Indices, S \cap R = {}
    PROVE  Weight(S \cup R) = Weight(S) + Weight(R)
<1>1. IsFiniteSet(S) /\ IsFiniteSet(R)
  BY IndicesFinite
<1>2. Measured(Source, S) /\ Measured(Source, R)
  BY Weights
<1>. QED
  BY <1>1, <1>2, SizeOfBoth DEF Weight

\* A store that holds the source's chunks weighs what they do.
LEMMA WeightOfStore ==
    ASSUME NEW store, NEW S \in SUBSET Indices, \A x \in S : store[x] = Chunk(x, SourceLen)
    PROVE  Size(store, S) = Weight(S)
<1>1. IsFiniteSet(S) /\ Measured(Source, S)
  BY IndicesFinite, Weights
<1>2. \A x \in S : Len(store[x]) = Len(Source[x])
  BY DEF Source
<1>. QED
  BY <1>1, <1>2, SizeAgrees DEF Weight

-----------------------------------------------------------------------------
\* The items of a row of chunks after the first k, and those up to it.
After(w, k) == {w[j] : j \in (k + 1)..Len(w)}
UpTo(w, k) == {w[j] : j \in 1..k}

\* A row without repetitions, cut after its first k chunks.
LEMMA RowSplit ==
    ASSUME NEW w \in Seq(Indices), IsInjective(w), NEW k \in 0..Len(w)
    PROVE  /\ After(w, k) \in SUBSET Indices /\ UpTo(w, k) \in SUBSET Indices
           /\ After(w, k) \cup UpTo(w, k) = ToSet(w) /\ After(w, k) \cap UpTo(w, k) = {}
           /\ Weight(ToSet(w)) - Weight(UpTo(w, k)) = Weight(After(w, k))
           /\ SubSeq(w, k + 1, Len(w)) \in Seq(Indices)
           /\ IsInjective(SubSeq(w, k + 1, Len(w)))
           /\ ToSet(SubSeq(w, k + 1, Len(w))) = After(w, k)
<1> DEFINE n == Len(w)
           s == SubSeq(w, k + 1, n)
<1>1. n \in Nat /\ DOMAIN w = 1..n /\ \A j \in 1..n : w[j] \in Indices
  BY LenProperties, ElementOfSeq
<1>2. k \in 0..n
  OBVIOUS
<1>3. After(w, k) = {w[j] : j \in (k + 1)..n}
  BY DEF After
<1>. HIDE DEF n
<1>4. After(w, k) \in SUBSET Indices /\ UpTo(w, k) \in SUBSET Indices
  BY <1>1, <1>2, <1>3 DEF UpTo
<1>5. After(w, k) \cup UpTo(w, k) = ToSet(w)
  BY <1>1, <1>2, <1>3 DEF UpTo, ToSet
<1>6. After(w, k) \cap UpTo(w, k) = {}
  <2>1. ASSUME NEW j \in (k + 1)..n, NEW l \in 1..k PROVE w[j] # w[l]
    BY <1>1, <1>2 DEF IsInjective
  <2>. QED
    BY <1>3, <2>1 DEF UpTo
<1>7. Weight(ToSet(w)) - Weight(UpTo(w, k)) = Weight(After(w, k))
  <2>1. Weight(ToSet(w)) = Weight(After(w, k)) + Weight(UpTo(w, k))
    BY <1>4, <1>5, <1>6, WeightOfBoth
  <2>2. Weight(After(w, k)) \in Nat /\ Weight(UpTo(w, k)) \in Nat
    BY <1>4, Weights
  <2>. QED
    BY <2>1, <2>2
<1>8. /\ s \in Seq(Indices)
      /\ Len(s) = IF k + 1 <= n THEN n - (k + 1) + 1 ELSE 0
      /\ \A j \in 1..(n - (k + 1) + 1) : s[j] = w[k + 1 + j - 1]
  <2>1. \A j \in (k + 1)..n : w[j] \in Indices
    BY <1>1, <1>2
  <2>. QED
    BY <1>1, <1>2, <2>1, SubSeqProperties
<1>. HIDE DEF s
<1>9. Len(s) = n - k /\ \A j \in 1..(n - k) : s[j] = w[k + j]
  <2>1. Len(s) = n - k
    BY <1>1, <1>2, <1>8
  <2>2. ASSUME NEW j \in 1..(n - k) PROVE s[j] = w[k + j]
    <3>1. j \in 1..(n - (k + 1) + 1) /\ k + 1 + j - 1 = k + j
      BY <1>1, <1>2
    <3>. QED
      BY <1>8, <3>1
  <2>. QED
    BY <2>1, <2>2
<1>10. DOMAIN s = 1..(n - k)
  BY <1>8, <1>9, LenProperties
<1>11. IsInjective(s)
  <2>1. SUFFICES ASSUME NEW a \in 1..(n - k), NEW b \in 1..(n - k), s[a] = s[b] PROVE a = b
    BY <1>10 DEF IsInjective
  <2>2. k + a \in DOMAIN w /\ k + b \in DOMAIN w /\ w[k + a] = w[k + b]
    BY <1>1, <1>2, <1>9, <2>1
  <2>3. k + a = k + b
    BY <2>2 DEF IsInjective
  <2>. QED
    BY <1>2, <2>3
<1>12. ToSet(s) = After(w, k)
  <2>1. ASSUME NEW a \in DOMAIN s PROVE s[a] \in After(w, k)
    BY <1>1, <1>2, <1>3, <1>9, <1>10
  <2>2. ASSUME NEW j \in (k + 1)..n PROVE w[j] \in ToSet(s)
    <3>1. j - k \in 1..(n - k) /\ k + (j - k) = j
      BY <1>1, <1>2
    <3>. QED
      BY <1>9, <1>10, <3>1 DEF ToSet
  <2>. QED
    BY <1>3, <2>1, <2>2 DEF ToSet
<1>. QED
  BY <1>4, <1>5, <1>6, <1>7, <1>8, <1>11, <1>12 DEF s, n

-----------------------------------------------------------------------------
\* What an insertion does: the first g of the warm row are evicted, g being the
\* least number that leaves the budget held, or one chunk.
Inserted(i, g) ==
    LET warm == Used(i)
        n    == Len(Used(i))
    IN  /\ g \in 0..(n - 1)
        /\ recency' = SubSeq(warm, g + 1, n)
        /\ chunks' = [j \in After(warm, g) |-> Chunk(j, SourceLen)]
        /\ bytes' = Weight(After(warm, g))
        /\ Weight(After(warm, g)) <= MaxBytes \/ g = n - 1
        /\ \A h \in 0..(g - 1) : Weight(After(warm, h)) > MaxBytes

\* An insertion of the source's own chunk is one such.
LEMMA Insertion ==
    ASSUME RecencyInv, ContentInv, BooksInv, NEW i \in Indices, Insert(i, Chunk(i, SourceLen))
    PROVE  \E g : Inserted(i, g)
<1> DEFINE data == Chunk(i, SourceLen)
           added == Len(data) - (IF i \in DOMAIN chunks THEN Len(chunks[i]) ELSE 0)
           warm == Used(i)
           n == Len(warm)
           store == [j \in DOMAIN chunks \cup {i} |-> IF j = i THEN data ELSE chunks[j]]
           after(k) == bytes + added - Size(store, {warm[j] : j \in 1..k})
           stops == {k \in 0..(n - 1) : after(k) <= MaxBytes \/ k = n - 1}
           g == Min(stops)
<1>1. /\ recency' = SubSeq(warm, g + 1, n)
      /\ chunks' = Restrict(store, ToSet(recency'))
      /\ bytes' = after(g)
  BY DEF Insert, InsertCounting
<1>2. /\ warm \in Seq(Indices) /\ n \in Nat \ {0} /\ IsInjective(warm)
      /\ ToSet(warm) = DOMAIN chunks \cup {i}
  BY UsedOrder DEF RecencyInv
<1>3. \A j \in DOMAIN chunks \cup {i} : store[j] = Chunk(j, SourceLen)
  BY DEF ContentInv
<1>4. bytes + added = Weight(ToSet(warm))
  <2>1. ToSet(warm) \in SUBSET Indices
    BY <1>2 DEF ContentInv
  <2>2. DOMAIN chunks \in SUBSET Indices /\ bytes = Weight(DOMAIN chunks)
    BY DEF ContentInv, BooksInv
  <2>3. Weight(DOMAIN chunks) \in Nat /\ Len(data) \in Nat
    <3>1. i \in Nat
      BY IndicesFinite
    <3>. QED
      BY <2>2, <3>1, Weights, ChunkLen
  <2>4. CASE i \in DOMAIN chunks
    <3>1. ToSet(warm) = DOMAIN chunks
      BY <1>2, <2>4
    <3>2. Len(chunks[i]) = Len(data)
      BY <2>4 DEF ContentInv
    <3>. QED
      BY <2>2, <2>3, <2>4, <3>1, <3>2
  <2>5. CASE i \notin DOMAIN chunks
    <3>1. i \in ToSet(warm) /\ ToSet(warm) \ {i} = DOMAIN chunks
      BY <1>2, <2>5
    <3>2. Weight(ToSet(warm)) = Len(data) + Weight(DOMAIN chunks)
      BY <2>1, <3>1, Weights
    <3>. QED
      BY <2>2, <2>3, <2>5, <3>2
  <2>. QED
    BY <2>4, <2>5
<1>5. bytes \in Nat /\ added \in Int
  <2>1. i \in Nat /\ Len(data) \in Nat /\ bytes \in Nat
    BY IndicesFinite, ChunkLen, Weights DEF ContentInv, BooksInv
  <2>2. i \in DOMAIN chunks => Len(chunks[i]) \in Nat
    BY <2>1 DEF ContentInv
  <2>. HIDE DEF data
  <2>. QED
    BY <2>1, <2>2
<1>6. ASSUME NEW k \in 0..n PROVE after(k) = Weight(After(warm, k))
  <2>1. {warm[j] : j \in 1..k} = UpTo(warm, k)
    BY DEF UpTo
  <2>2. UpTo(warm, k) \in SUBSET Indices /\ UpTo(warm, k) \subseteq DOMAIN chunks \cup {i}
    BY <1>2, <1>6, RowSplit
  <2>3. Size(store, UpTo(warm, k)) = Weight(UpTo(warm, k))
    <3>1. \A x \in UpTo(warm, k) : store[x] = Chunk(x, SourceLen)
      BY <1>3, <2>2
    <3>. HIDE DEF store
    <3>. QED
      BY <2>2, <3>1, WeightOfStore
  <2>4. after(k) = Weight(ToSet(warm)) - Weight(UpTo(warm, k))
    <3> DEFINE u == Size(store, {warm[j] : j \in 1..k})
    <3>1. u = Weight(UpTo(warm, k))
      BY <2>1, <2>3, Zenon
    <3>2. u \in Nat
      BY <2>2, <3>1, Weights
    <3>3. after(k) = bytes + added - u
      OBVIOUS
    <3>4. bytes \in Nat /\ added \in Int
      BY <1>5
    <3>. HIDE DEF u, added, after
    <3>. QED
      BY <1>4, <3>1, <3>2, <3>3, <3>4
  <2>5. Weight(ToSet(warm)) - Weight(UpTo(warm, k)) = Weight(After(warm, k))
    BY <1>2, <1>6, RowSplit, Zenon
  <2>. QED
    BY <2>4, <2>5, Zenon
<1>. HIDE DEF after, added
<1>7. stops \subseteq Nat /\ n - 1 \in stops
  BY <1>2
<1>8. g \in stops /\ \A k \in stops : g <= k
  <2>1. stops # {}
    BY <1>7
  <2>. HIDE DEF stops
  <2>. QED
    BY <1>7, <2>1, LeastOf
<1>9. g \in 0..(n - 1) /\ (after(g) <= MaxBytes \/ g = n - 1)
  BY <1>8
<1>10. \A h \in 0..(g - 1) : ~(after(h) <= MaxBytes)
  <2>1. SUFFICES ASSUME NEW h \in 0..(g - 1), after(h) <= MaxBytes PROVE FALSE
    OBVIOUS
  <2>2. h \in 0..(n - 1) /\ ~(g <= h)
    BY <1>2, <1>9
  <2>3. h \in stops
    BY <2>1, <2>2
  <2>. QED
    BY <1>8, <2>2, <2>3
<1>. HIDE DEF stops, g
<1>11. g \in 0..n /\ g \in Int
  BY <1>2, <1>9
<1>12. ToSet(recency') = After(warm, g)
  BY <1>1, <1>2, <1>11, RowSplit, Zenon
<1>13. chunks' = [j \in After(warm, g) |-> Chunk(j, SourceLen)]
  <2>1. After(warm, g) \subseteq DOMAIN chunks \cup {i}
    BY <1>2, <1>11, RowSplit
  <2>2. chunks' = [j \in After(warm, g) |-> store[j]]
    BY <1>1, <1>12, Zenon DEF Restrict
  <2>3. \A j \in After(warm, g) : store[j] = Chunk(j, SourceLen)
    BY <1>3, <2>1
  <2>. HIDE DEF store
  <2>. QED
    BY <2>2, <2>3
<1>14. after(g) = Weight(After(warm, g))
  BY <1>6, <1>11
<1>15. ASSUME NEW h \in 0..(g - 1) PROVE Weight(After(warm, h)) > MaxBytes
  <2>1. h \in 0..n
    BY <1>2, <1>11
  <2>2. Weight(After(warm, h)) \in Nat
    BY <1>2, <2>1, RowSplit, Weights
  <2>3. ~(Weight(After(warm, h)) <= MaxBytes)
    BY <1>6, <1>10, <2>1
  <2>4. MaxBytes \in Nat
    BY ChunkCacheAssumption
  <2>. QED
    BY <2>2, <2>3, <2>4
<1>16. Inserted(i, g)
  BY <1>1, <1>9, <1>13, <1>14, <1>15, Zenon DEF Inserted, warm, n
<1>. QED
  BY <1>16

-----------------------------------------------------------------------------
\* A request is not Idle, and its numbers are natural.
LEMMA RequestsAre ==
    ASSUME NEW q \in Requests
    PROVE  q # Idle /\ q.offset \in Nat /\ q.want \in Nat
BY ReadAtAssumption DEF Idle

\* What read_at wants of a request, and what the source promises for it.
LEMMA WantIs ==
    ASSUME NEW q \in Requests
    PROVE  /\ Want(q) \in Nat
           /\ Want(q) = 0 => Promised(q) = <<>>
           /\ Want(q) > 0 =>
                /\ q.offset < FileLen /\ q.offset + Want(q) <= FileLen
                /\ Promised(q) = Bytes(q.offset, IF q.offset + Want(q) <= SourceLen
                                                 THEN q.offset + Want(q) ELSE SourceLen)
<1> DEFINE o == q.offset
           n == q.want
           m == Min({o + n, FileLen, SourceLen})
<1>0. o \in Nat /\ n \in Nat /\ FileLen \in Nat /\ SourceLen \in Nat /\ SourceLen <= FileLen
  BY RequestsAre, Constants
<1>1. Want(q) = IF o >= FileLen THEN 0 ELSE Min({n, FileLen - o})
  BY DEF Want
<1>2. Promised(q) = IF o >= FileLen THEN <<>> ELSE Bytes(o, m)
  BY DEF Promised
<1>. HIDE DEF o, n
<1>3. Min({n, FileLen - o}) = IF n <= FileLen - o THEN n ELSE FileLen - o
  BY <1>0, MinOfTwo
<1>4. m \in {o + n, FileLen, SourceLen} /\ m <= o + n /\ m <= FileLen /\ m <= SourceLen
  <2>1. o + n \in Int /\ FileLen \in Int /\ SourceLen \in Int
    BY <1>0
  <2>. QED
    BY <2>1, MinOfThree, Zenon
<1>. HIDE DEF m
<1>5. Want(q) \in Nat
  BY <1>0, <1>1, <1>3
<1>6. ASSUME Want(q) = 0 PROVE Promised(q) = <<>>
  <2>1. CASE o >= FileLen
    BY <1>2, <2>1
  <2>2. CASE ~(o >= FileLen)
    <3>1. m \in Int /\ m <= o
      BY <1>0, <1>1, <1>3, <1>4, <1>6, <2>2
    <3>2. Bytes(o, m) = <<>>
      BY <1>0, <3>1, BytesEmpty
    <3>. QED
      BY <1>2, <2>2, <3>2
  <2>. QED
    BY <2>1, <2>2
<1>7. ASSUME Want(q) > 0
      PROVE  /\ o < FileLen /\ o + Want(q) <= FileLen
             /\ m = IF o + Want(q) <= SourceLen THEN o + Want(q) ELSE SourceLen
  BY <1>0, <1>1, <1>3, <1>4, <1>7
<1>8. Want(q) > 0 => Promised(q) = Bytes(o, m)
  BY <1>0, <1>2, <1>7
<1>. QED
  BY <1>5, <1>6, <1>7, <1>8, Zenon DEF o

\* Reading goes on at this chunk.
LEMMA WantedIndex ==
    ASSUME NEW w \in Readings, NEW q \in Requests, Len(w.got) < Want(q)
    PROVE  /\ PosOf(w, q) \in Nat /\ PosOf(w, q) < FileLen
           /\ ChunkOf(w, q) \in Indices /\ ChunkOf(w, q) \in Nat
           /\ ChunkOf(w, q) * ChunkSize <= PosOf(w, q)
           /\ PosOf(w, q) = ChunkOf(w, q) * ChunkSize + (PosOf(w, q) % ChunkSize)
           /\ PosOf(w, q) % ChunkSize \in Nat /\ PosOf(w, q) % ChunkSize < ChunkSize
<1> DEFINE p == PosOf(w, q)
           i == ChunkOf(w, q)
           m == p % ChunkSize
<1>1. Len(w.got) \in Nat
  BY DEF Readings
<1>2. q.offset \in Nat /\ Want(q) \in Nat /\ q.offset + Want(q) <= FileLen
  BY <1>1, RequestsAre, WantIs
<1>3. p \in Nat /\ p < FileLen
  BY <1>1, <1>2, Constants DEF PosOf
<1>4. i = p \div ChunkSize
  BY DEF ChunkOf
<1>. HIDE DEF p, i
<1>5. i \in Nat /\ m \in Nat /\ m < ChunkSize /\ p = i * ChunkSize + m
  BY <1>3, <1>4, Division
<1>6. i * ChunkSize \in Int
  BY <1>5, Products
<1>. HIDE DEF m
<1>7. i * ChunkSize <= p
  BY <1>5, <1>6
<1>8. i < ChunksTotal
  <2>1. i * ChunkSize < FileLen
    BY <1>3, <1>6, <1>7, Constants
  <2>. QED
    BY <1>5, <2>1, Ceiling, Constants DEF ChunksTotal
<1>9. i \in Indices
  BY <1>5, <1>8, IndicesFinite DEF Indices
<1>. QED
  BY <1>3, <1>5, <1>7, <1>9 DEF p, i, m

-----------------------------------------------------------------------------
\* The readings after a step of reader r.
LEMMA Moves ==
    ASSUME ReadersInv, NEW r \in Readers, NEW w, NEW q, ReadingInv(w, q),
           reader' = [reader EXCEPT ![r] = w], asked' = [asked EXCEPT ![r] = q]
    PROVE  ReadersInv'
<1>1. w \in Readings /\ q \in Requests \cup {Idle}
  BY DEF ReadingInv
<1>2. reader' \in [Readers -> Readings] /\ asked' \in [Readers -> Requests \cup {Idle}]
  BY <1>1 DEF ReadersInv
<1>3. ASSUME NEW s \in Readers PROVE ReadingInv(reader'[s], asked'[s])
  <2>1. CASE s = r
    <3>1. reader'[s] = w /\ asked'[s] = q
      BY <2>1 DEF ReadersInv
    <3>. QED
      BY <3>1
  <2>2. CASE s # r
    <3>1. reader'[s] = reader[s] /\ asked'[s] = asked[s]
      BY <2>2 DEF ReadersInv
    <3>. QED
      BY <3>1 DEF ReadersInv
  <2>. QED
    BY <2>1, <2>2
<1>. QED
  BY <1>2, <1>3, Zenon DEF ReadersInv

\* A read that is not answered by this step waits for what it waited for.
LEMMA GoesOn ==
    ASSUME ReadersInv, NEW r \in Readers, NEW w, ReadingInv(w, asked[r]),
           reader' = [reader EXCEPT ![r] = w], UNCHANGED asked
    PROVE  ReadersInv'
<1>1. asked' = [asked EXCEPT ![r] = asked[r]]
  BY DEF ReadersInv
<1>. QED
  BY <1>1, Moves, Zenon

\* A reader that reads nothing.
LEMMA DoneReading == ReadingInv(Reading("done", <<>>), Idle)
<1> DEFINE w == Reading("done", <<>>)
<1>1. w \in Readings /\ w.at = "done"
  BY DEF Readings, Reading
<1>. HIDE DEF w
<1>2. ReadingInv(w, Idle)
  BY <1>1 DEF ReadingInv
<1>. QED
  BY <1>2 DEF w

\* A read that begins, or goes on, with what it got.
LEMMA LookupReading ==
    ASSUME NEW got \in Seq(Int), NEW q \in Requests,
           got = Bytes(q.offset, q.offset + Len(got)),
           Len(got) = 0 \/ q.offset + Len(got) <= SourceLen,
           Len(got) < Want(q) \/ Want(q) = 0
    PROVE  ReadingInv(Reading("lookup", got), q)
<1> DEFINE w == Reading("lookup", got)
<1>1. w \in Readings /\ w.at = "lookup" /\ w.got = got /\ w.data = <<>> /\ w.next = 0
  BY DEF Readings, Reading
<1>. HIDE DEF w
<1>2. q # Idle
  BY RequestsAre
<1>3. Progress(w, q)
  BY <1>1 DEF Progress, PosOf
<1>4. ReadingInv(w, q)
  BY <1>1, <1>2, <1>3 DEF ReadingInv
<1>. QED
  BY <1>4 DEF w

\* Nothing but lookup and failure is under way for a read that waits.
LEMMA Waits ==
    ASSUME ReadersInv, NEW r \in Readers, reader[r].at # "done"
    PROVE  /\ asked[r] \in Requests /\ asked[r] # Idle /\ reader[r] \in Readings
           /\ ReadingInv(reader[r], asked[r]) /\ Progress(reader[r], asked[r])
BY DEF ReadersInv, ReadingInv

\* Copying from the wanted chunk as the source has it.
LEMMA Delivered ==
    ASSUME ReadersInv, NEW r \in Readers, reader[r].at # "done",
           Len(reader[r].got) < Want(asked[r]),
           Deliver(r, Chunk(Wanted(r), SourceLen))
    PROVE  ReadersInv' /\ (Answer(r) \/ UNCHANGED askVars)
<1> DEFINE w == reader[r]
           q == asked[r]
           p == PosOf(w, q)
           i == Wanted(r)
           chunk == Chunk(i, SourceLen)
           within == p % ChunkSize
           end == IF (i + 1) * ChunkSize <= SourceLen THEN (i + 1) * ChunkSize ELSE SourceLen
           count == Min({Want(q) - Len(w.got), Len(chunk) - within})
           got == w.got \o SubSeq(chunk, within + 1, within + count)
<1>0. /\ q \in Requests /\ q # Idle /\ w \in Readings /\ Progress(w, q)
      /\ q.offset \in Nat /\ Want(q) \in Nat /\ w.got \in Seq(Int) /\ Len(w.got) \in Nat
  <2>1. q \in Requests /\ q # Idle /\ w \in Readings /\ Progress(w, q)
    BY Waits
  <2>. QED
    BY <2>1, RequestsAre, WantIs DEF Readings
<1>1. Pos(r) = p /\ i = ChunkOf(w, q)
  BY DEF Pos, Wanted, PosOf, ChunkOf
<1>2. /\ p \in Nat /\ p < FileLen /\ i \in Nat /\ within \in Nat /\ within < ChunkSize
      /\ p = i * ChunkSize + within
  BY <1>0, <1>1, WantedIndex
<1>3. i * ChunkSize \in Nat /\ (i + 1) * ChunkSize = i * ChunkSize + ChunkSize
  <2>1. i * ChunkSize \in Nat
    BY <1>2, ChunkIs
  <2>2. (i + 1) * ChunkSize = i * ChunkSize + ChunkSize
    BY <1>2, Constants
  <2>. QED
    BY <2>1, <2>2
<1>4. end \in Nat /\ chunk = Bytes(i * ChunkSize, end)
  BY <1>2, ChunkIs
<1>5. /\ chunk \in Seq(Int)
      /\ Len(chunk) = IF end > i * ChunkSize THEN end - i * ChunkSize ELSE 0
  <2>1. end \in Int
    BY <1>4
  <2>. HIDE DEF end
  <2>. QED
    BY <1>3, <1>4, <2>1, BytesSeq, BytesLen, Zenon
<1>6. /\ IF within >= Len(chunk) \/ Len(got) = Want(q)
         THEN /\ reader' = [reader EXCEPT ![r] = Reading("done", <<>>)]
              /\ asked' = [asked EXCEPT ![r] = Idle]
              /\ answers' = [answers EXCEPT ![r] = got]
         ELSE /\ reader' = [reader EXCEPT ![r] = Reading("lookup", got)]
              /\ UNCHANGED askVars
  BY <1>1, Zenon DEF Deliver
<1>7. Len(chunk) \in Nat /\ Len(chunk) <= ChunkSize
  BY <1>2, ChunkLen
<1>8. count = IF Want(q) - Len(w.got) <= Len(chunk) - within
              THEN Want(q) - Len(w.got) ELSE Len(chunk) - within
  <2>1. Want(q) - Len(w.got) \in Int /\ Len(chunk) - within \in Int
    BY <1>0, <1>2, <1>7
  <2>. QED
    BY <2>1, MinOfTwo, Zenon
<1>9. count \in Int /\ count <= Want(q) - Len(w.got)
  BY <1>0, <1>2, <1>7, <1>8
<1>10. within + count <= Len(chunk)
  BY <1>0, <1>2, <1>7, <1>8
<1>11. w.got = Bytes(q.offset, p) /\ (Len(w.got) = 0 \/ p <= SourceLen)
  BY <1>0 DEF Progress
<1>12. p = q.offset + Len(w.got)
  BY DEF PosOf
<1>13. /\ q.offset \in Nat /\ Len(w.got) \in Nat /\ Want(q) \in Nat
       /\ p \in Nat /\ count \in Int /\ p = q.offset + Len(w.got)
  BY <1>0, <1>2, <1>9, <1>12
<1>14. SubSeq(chunk, within + 1, within + count) = Bytes(p, p + count)
  <2>1. within + count \in Int
    BY <1>2, <1>9
  <2>2. within + count <= Len(Bytes(i * ChunkSize, end))
    BY <1>4, <1>10, Zenon
  <2>3. SubSeq(Bytes(i * ChunkSize, end), within + 1, within + count)
          = Bytes(i * ChunkSize + within, i * ChunkSize + (within + count))
    <3>1. end \in Int
      BY <1>4
    <3>2. within \in Nat
      BY <1>2
    <3>3. i * ChunkSize \in Nat
      BY <1>3
    <3>. QED
      BY <2>1, <2>2, <3>1, <3>2, <3>3, BytesSlice, Zenon
  <2>4. i * ChunkSize + (within + count) = p + count
    BY <1>2, <1>3, <1>9
  <2>. QED
    BY <1>2, <1>4, <2>3, <2>4, Zenon
<1>15. got \in Seq(Int)
  <2>1. p + count \in Int
    BY <1>2, <1>9
  <2>2. SubSeq(chunk, within + 1, within + count) \in Seq(Int)
    BY <1>2, <1>14, <2>1, BytesSeq
  <2>. QED
    BY <1>0, <2>2, ConcatProperties
<1>. HIDE DEF end, chunk, within, count, p, i
<1>16. CASE within >= Len(chunk)
  \* The source ends before the wanted byte: what there is was copied.
  <2>1. SourceLen <= p
    <3>1. end \in {(i + 1) * ChunkSize, SourceLen} /\ (end = SourceLen \/ end = i * ChunkSize + ChunkSize)
      BY <1>3 DEF end
    <3>. QED
      BY <1>2, <1>3, <1>4, <1>5, <1>7, <1>16, <3>1, Constants
  <2>2. got = w.got
    <3>1. p + count <= p /\ p + count \in Int
      BY <1>2, <1>7, <1>9, <1>10, <1>16
    <3>2. Bytes(p, p + count) = <<>>
      BY <1>2, <3>1, BytesEmpty
    <3>. QED
      BY <1>0, <1>14, <3>2, ConcatEmptySeq
  <2>3. w.got = Promised(q)
    <3>1. Promised(q) = Bytes(q.offset, SourceLen)
      <4>1. ~(q.offset + Want(q) <= SourceLen) /\ Want(q) > 0
        BY <1>0, <1>12, <2>1, Constants
      <4>. QED
        BY <1>0, <4>1, WantIs
    <3>2. CASE p = SourceLen
      BY <1>11, <3>1, <3>2
    <3>3. CASE p # SourceLen
      <4>1. Len(w.got) = 0 /\ SourceLen <= q.offset /\ p <= q.offset
        BY <1>0, <1>2, <1>11, <1>12, <2>1, <3>3, Constants
      <4>2. Bytes(q.offset, SourceLen) = <<>> /\ Bytes(q.offset, p) = <<>>
        BY <1>0, <1>2, <4>1, BytesEmpty, Constants
      <4>. QED
        BY <1>11, <3>1, <4>2
    <3>. QED
      BY <3>2, <3>3
  <2>4. Answer(r)
    BY <1>0, <1>6, <1>16, <2>2, <2>3, Zenon DEF Answer
  <2>5. ReadersInv'
    BY <1>6, <1>16, DoneReading, Moves, Zenon
  <2>. QED
    BY <2>4, <2>5
<1>17. CASE ~(within >= Len(chunk))
  <2>1. count > 0 /\ p + count \in Nat /\ p + count <= SourceLen
    <3>1. count > 0
      BY <1>0, <1>2, <1>7, <1>8, <1>17
    <3>2. end <= SourceLen
      BY <1>3, Constants DEF end
    <3>3. Len(chunk) = end - i * ChunkSize
      BY <1>2, <1>3, <1>4, <1>5, <1>17
    <3>. QED
      BY <1>2, <1>3, <1>4, <1>9, <1>10, <3>1, <3>2, <3>3, Constants
  <2>2. got = Bytes(q.offset, p + count)
    <3>1. Bytes(q.offset, p) \o Bytes(p, p + count) = Bytes(q.offset, p + count)
      <4>1. q.offset <= p /\ p <= p + count
        BY <1>13, <2>1
      <4>2. q.offset \in Nat /\ p \in Nat /\ p + count \in Nat
        BY <1>13, <2>1
      <4>. QED
        BY <4>1, <4>2, BytesJoin
    <3>. QED
      BY <1>11, <1>14, <3>1
  <2>3. Len(got) = Len(w.got) + count
    <3>1. Len(Bytes(q.offset, p + count))
            = IF p + count > q.offset THEN (p + count) - q.offset ELSE 0
      <4>1. p + count \in Int
        BY <2>1
      <4>. QED
        BY <1>0, <4>1, BytesLen, Zenon
    <3>2. p + count > q.offset
      BY <1>13, <2>1
    <3>3. (p + count) - q.offset = Len(w.got) + count
      BY <1>13
    <3>. QED
      BY <2>2, <3>1, <3>2, <3>3
  <2>. HIDE DEF got
  <2>4. Len(got) <= Want(q)
    BY <1>9, <1>13, <2>3
  <2>5. q.offset + Len(got) = p + count
    BY <1>13, <2>3
  <2>6. CASE Len(got) = Want(q)
    <3>1. got = Promised(q)
      <4>1. Want(q) > 0 /\ q.offset + Want(q) <= SourceLen
        BY <1>0, <2>1, <2>5, <2>6
      <4>. QED
        BY <1>0, <2>2, <2>5, <2>6, <4>1, WantIs
    <3>2. Answer(r)
      BY <1>0, <1>6, <2>6, <3>1, Zenon DEF Answer
    <3>3. ReadersInv'
      BY <1>6, <2>6, DoneReading, Moves, Zenon
    <3>. QED
      BY <3>2, <3>3
  <2>7. CASE Len(got) # Want(q)
    <3>1. Len(got) < Want(q) \/ Want(q) = 0
      <4>1. Len(got) \in Nat /\ Want(q) \in Nat
        BY <1>13, <1>15, LenProperties DEF got
      <4>. QED
        BY <2>4, <2>7, <4>1
    <3>2. got = Bytes(q.offset, q.offset + Len(got)) /\ q.offset + Len(got) <= SourceLen
      BY <2>1, <2>2, <2>5
    <3>3. ReadingInv(Reading("lookup", got), q)
      BY <1>0, <1>15, <3>1, <3>2, LookupReading DEF got
    <3>4. reader' = [reader EXCEPT ![r] = Reading("lookup", got)] /\ UNCHANGED askVars
      BY <1>6, <1>17, <2>7
    <3>5. ReadersInv'
      BY <3>3, <3>4, GoesOn, Zenon DEF askVars
    <3>. QED
      BY <3>4, <3>5
  <2>. QED
    BY <2>6, <2>7
<1>. QED
  BY <1>16, <1>17

-----------------------------------------------------------------------------
\* Where a chunk starts.
LEMMA ChunkStart ==
    ASSUME NEW i \in Nat
    PROVE  i * ChunkSize \in Nat
<1>1. i * ChunkSize \in Int /\ (i >= 0 => i * ChunkSize >= 0)
  BY Products
<1>. QED
  BY <1>1

\* Chunks lie in the order of their indices and do not overlap.
LEMMA ChunkOrder ==
    ASSUME NEW i \in Nat, NEW j \in Nat
    PROVE  /\ i * ChunkSize < j * ChunkSize => i < j
           /\ i < j => i * ChunkSize + ChunkSize <= j * ChunkSize
<1>1. i \in Int /\ j \in Int
  OBVIOUS
<1>. QED
  BY <1>1, Products, Zenon

\* A run is in Indices, and what its reads reach.
LEMMA RunIs ==
    ASSUME NEW w \in Readings, NEW q, RunInv(w, q)
    PROVE  /\ w.first \in Nat /\ w.run \in Nat /\ Len(w.data) \in Nat
           /\ w.first * ChunkSize \in Nat
           /\ (w.first + w.run) * ChunkSize \in Nat
           /\ (w.first + w.run) * ChunkSize = w.first * ChunkSize + w.run * ChunkSize
           /\ w.run * ChunkSize \in Nat
           /\ Reach(w) \in Nat /\ Reach(w) <= SourceLen
           /\ Reach(w) <= (w.first + w.run) * ChunkSize
           /\ FilledOf(w) \in Nat
<1>1. w.first \in Nat /\ w.run \in Nat /\ Len(w.data) \in Nat
  BY DEF Readings
<1>2. w.first * ChunkSize \in Nat /\ (w.first + w.run) * ChunkSize \in Nat /\ w.run * ChunkSize \in Nat
  <2>1. w.first + w.run \in Nat
    BY <1>1
  <2>. QED
    BY <1>1, <2>1, ChunkStart, Zenon
<1>3. (w.first + w.run) * ChunkSize = w.first * ChunkSize + w.run * ChunkSize
  BY <1>1, Constants
<1>4. Reach(w) \in Nat /\ Reach(w) <= SourceLen /\ Reach(w) <= (w.first + w.run) * ChunkSize
  BY <1>2, Constants DEF Reach
<1>5. FilledOf(w) \in Nat
  BY <1>1, <1>2 DEF FilledOf
<1>. QED
  BY <1>1, <1>2, <1>3, <1>4, <1>5

\* Each piece of a complete run is a chunk of the source.
LEMMA PieceIs ==
    ASSUME NEW w \in Readings, NEW q, RunInv(w, q), w.at = "insert",
           NEW k \in Nat, k < Pieces(w.data)
    PROVE  /\ Piece(w.data, k) = Chunk(w.first + k, SourceLen)
           /\ w.first + k \in Indices /\ k < w.run
<1> DEFINE f == w.first * ChunkSize
           a == k * ChunkSize
           n == Len(w.data)
           m == IF (k + 1) * ChunkSize <= n THEN (k + 1) * ChunkSize ELSE n
           i == w.first + k
           end == IF (i + 1) * ChunkSize <= SourceLen THEN (i + 1) * ChunkSize ELSE SourceLen
           last == (w.first + w.run) * ChunkSize
           size == w.run * ChunkSize
<1>1. /\ w.first \in Nat /\ w.run \in Nat /\ n \in Nat /\ f \in Nat /\ last \in Nat /\ size \in Nat
      /\ last = f + size
  BY RunIs
<1>2. a \in Nat /\ i \in Nat
  <2>1. a \in Nat
    BY ChunkStart, Zenon
  <2>2. i \in Nat
    BY <1>1
  <2>. QED
    BY <2>1, <2>2, Zenon
<1>3. a < n
  BY <1>1, Ceiling DEF Pieces
<1>4. (k + 1) * ChunkSize = a + ChunkSize
  BY Constants
<1>5. i * ChunkSize = f + a
  BY <1>1, Constants
<1>6. (i + 1) * ChunkSize = f + a + ChunkSize
  <2>1. (i + 1) * ChunkSize = i * ChunkSize + ChunkSize
    BY <1>2, Constants
  <2>. QED
    BY <1>1, <1>2, <1>5, <2>1, Constants
<1>7. f + n = Reach(w) /\ (Reach(w) = last \/ Reach(w) = SourceLen) /\ Reach(w) <= last /\ Reach(w) <= SourceLen
  <2>1. f + n >= Reach(w) /\ (n = 0 \/ f + n <= Reach(w)) /\ Reach(w) \in Nat
    BY RunIs DEF RunInv, FilledOf
  <2>2. f + n = Reach(w)
    <3>1. f \in Nat /\ n \in Nat /\ n > 0
      BY <1>1, <1>2, <1>3
    <3>. HIDE DEF f, n
    <3>. QED
      BY <2>1, <3>1
  <2>. QED
    BY <2>2, RunIs DEF Reach
<1>8. w.data = Bytes(f, f + n)
  BY DEF RunInv, FilledOf
<1>9. k < w.run
  <2>1. a < size
    <3>. HIDE DEF a, n, f, size, last
    <3>. QED
      BY <1>1, <1>2, <1>3, <1>7
  <2>. QED
    BY <1>1, <2>1, ChunkOrder, Zenon
<1>10. a + ChunkSize <= size
  BY <1>1, <1>9, ChunkOrder, Zenon
<1>11. i \in Indices
  <2>1. w.first \in Nat /\ w.run \in Nat /\ ChunksTotal \in Nat
    BY <1>1, IndicesFinite
  <2>2. w.first + w.run <= ChunksTotal
    BY DEF RunInv
  <2>. QED
    BY <1>9, <2>1, <2>2 DEF Indices
<1>12. Piece(w.data, k) = SubSeq(w.data, a + 1, m)
  <2>1. (k + 1) * ChunkSize \in Int
    BY <1>2, <1>4, Constants
  <2>2. Min({(k + 1) * ChunkSize, n}) = m
    <3>1. n \in Int
      BY <1>1
    <3>. QED
      BY <2>1, <3>1, MinOfTwo, Zenon
  <2>. QED
    BY <2>2 DEF Piece
<1>13. m = (IF a + ChunkSize <= n THEN a + ChunkSize ELSE n)
  BY <1>4
<1>14. end = IF f + a + ChunkSize <= SourceLen THEN f + a + ChunkSize ELSE SourceLen
  BY <1>6
<1>15. Chunk(i, SourceLen) = Bytes(i * ChunkSize, end)
  BY <1>2, ChunkIs
<1>. HIDE DEF f, a, n, m, i, end, last, size
<1>16. m \in Nat /\ m <= n
  BY <1>1, <1>2, <1>13, Constants
<1>17. f + m = end
  BY <1>1, <1>2, <1>3, <1>7, <1>10, <1>13, <1>14, Constants
<1>18. SubSeq(Bytes(f, f + n), a + 1, m) = Bytes(f + a, f + m)
  <2>1. f + n \in Int /\ m \in Int
    BY <1>1, <1>16
  <2>2. Len(Bytes(f, f + n)) = IF f + n > f THEN (f + n) - f ELSE 0
    BY <1>1, <2>1, BytesLen, Zenon
  <2>3. m <= Len(Bytes(f, f + n))
    BY <1>1, <1>16, <2>2
  <2>. QED
    <3>1. f \in Nat
      BY <1>1
    <3>2. a \in Nat
      BY <1>2
    <3>3. f + n \in Int
      BY <2>1
    <3>4. m \in Int
      BY <2>1
    <3>. QED
      BY <2>3, <3>1, <3>2, <3>3, <3>4, BytesSlice, Zenon
<1>19. Piece(w.data, k) = Chunk(i, SourceLen)
  BY <1>5, <1>8, <1>12, <1>15, <1>17, <1>18, Zenon
<1>. QED
  BY <1>9, <1>11, <1>19 DEF i

\* A chunk of a complete run that has no piece lies past the end of the source.
LEMMA NoPiece ==
    ASSUME NEW w \in Readings, NEW q, RunInv(w, q), w.at = "insert",
           NEW k \in Nat, k < w.run, ~(k < Pieces(w.data))
    PROVE  Chunk(w.first + k, SourceLen) = <<>>
<1> DEFINE f == w.first * ChunkSize
           a == k * ChunkSize
           n == Len(w.data)
           i == w.first + k
           end == IF (i + 1) * ChunkSize <= SourceLen THEN (i + 1) * ChunkSize ELSE SourceLen
           last == (w.first + w.run) * ChunkSize
           size == w.run * ChunkSize
<1>1. /\ w.first \in Nat /\ w.run \in Nat /\ n \in Nat /\ f \in Nat /\ last \in Nat /\ size \in Nat
      /\ last = f + size
  BY RunIs
<1>2. a \in Nat /\ i \in Nat
  <2>1. a \in Nat
    BY ChunkStart, Zenon
  <2>2. i \in Nat
    BY <1>1
  <2>. QED
    BY <2>1, <2>2, Zenon
<1>3. a >= n
  <2>1. ~(a < n)
    BY <1>1, Ceiling DEF Pieces
  <2>. HIDE DEF a, n
  <2>. QED
    BY <1>1, <1>2, <2>1
<1>4. i * ChunkSize = f + a
  BY <1>1, Constants
<1>5. a + ChunkSize <= size
  BY <1>1, ChunkOrder, Zenon
<1>6. f + n >= Reach(w) /\ (Reach(w) = last \/ Reach(w) = SourceLen)
  BY DEF RunInv, FilledOf, Reach
<1>7. end \in Nat /\ Chunk(i, SourceLen) = Bytes(i * ChunkSize, end)
  BY <1>2, ChunkIs
<1>8. end <= SourceLen
  BY Constants, <1>7
<1>. HIDE DEF f, a, n, i, end, last, size
<1>9. end <= f + a
  BY <1>1, <1>2, <1>3, <1>5, <1>6, <1>7, <1>8, Constants
<1>10. Bytes(f + a, end) = <<>>
  <2>1. f + a \in Nat /\ end \in Int
    BY <1>1, <1>2, <1>7
  <2>. QED
    BY <1>9, <2>1, BytesEmpty
<1>. QED
  BY <1>4, <1>7, <1>10 DEF i

-----------------------------------------------------------------------------
\* The invariant of the cache where the cache does not change.
LEMMA CacheStays ==
    ASSUME CacheInv, UNCHANGED <<chunks, recency, bytes>>
    PROVE  CacheInv'
BY DEF CacheInv, RecencyInv, ContentInv, BooksInv, ToSet, IsInjective

\* That of the batch where it does not change.
LEMMA BatchStays ==
    ASSUME BatchInv, UNCHANGED <<batch, previousMiss, reads>>
    PROVE  BatchInv'
BY DEF BatchInv

\* An insertion preserves the invariant of the cache.
LEMMA InsertInv ==
    ASSUME CacheInv, NEW i \in Indices, Insert(i, Chunk(i, SourceLen))
    PROVE  CacheInv' /\ UNCHANGED <<batch, previousMiss>>
<1> DEFINE warm == Used(i)
           n == Len(warm)
<1>1. PICK g : Inserted(i, g)
  BY Insertion DEF CacheInv
<1>2. /\ g \in 0..(n - 1)
      /\ recency' = SubSeq(warm, g + 1, n)
      /\ chunks' = [j \in After(warm, g) |-> Chunk(j, SourceLen)]
      /\ bytes' = Weight(After(warm, g))
      /\ Weight(After(warm, g)) <= MaxBytes \/ g = n - 1
  BY <1>1 DEF Inserted
<1>3. warm \in Seq(Indices) /\ n \in Nat \ {0} /\ IsInjective(warm)
  BY UsedOrder DEF CacheInv, RecencyInv
<1>. HIDE DEF warm
<1>4. g \in 0..Len(warm)
  BY <1>2, <1>3
<1>5. /\ After(warm, g) \in SUBSET Indices
      /\ recency' \in Seq(Indices) /\ IsInjective(recency')
      /\ ToSet(recency') = After(warm, g)
  BY <1>2, <1>3, <1>4, RowSplit
<1>6. DOMAIN chunks' = After(warm, g)
  BY <1>2
<1>7. RecencyInv'
  BY <1>5, <1>6, Zenon DEF RecencyInv
<1>8. ContentInv'
  BY <1>2, <1>5, <1>6 DEF ContentInv
<1>9. BooksInv'
  <2>1. g = n - 1 => Cardinality(After(warm, g)) = 1
    <3>1. SUFFICES ASSUME g = n - 1 PROVE Cardinality(After(warm, g)) = 1
      OBVIOUS
    <3>2. (g + 1)..n = {n}
      BY <1>3, <3>1
    <3>3. After(warm, g) = {warm[n]}
      BY <3>2 DEF After
    <3>. QED
      BY <3>3, FS_Singleton
  <2>. QED
    BY <1>2, <1>6, <2>1 DEF BooksInv
<1>10. UNCHANGED <<batch, previousMiss>>
  BY DEF Insert, InsertCounting
<1>. QED
  BY <1>7, <1>8, <1>9, <1>10 DEF CacheInv

-----------------------------------------------------------------------------
\* A run is one chunk, or fits the budget.
LEMMA LargestRun ==
    /\ MaxChunks \in Nat \ {0}
    /\ \A n \in Nat : n <= MaxChunks => n <= 1 \/ ChunkSize * n <= MaxBytes
<1> DEFINE share == MaxBytes \div BudgetShare
           room == Min({MaxBatchBytes, share})
           most == room \div ChunkSize
<1>1. share \in Nat /\ share <= MaxBytes
  <2>1. MaxBytes \in Nat /\ BudgetShare \in Nat \ {0}
    BY ChunkCacheAssumption
  <2>2. share \in Nat /\ share <= BudgetShare * share /\ BudgetShare * share <= MaxBytes
    BY <2>1
  <2>. QED
    BY <2>1, <2>2
<1>. HIDE DEF share
<1>2. room \in Nat /\ room <= share
  BY <1>1, MinOfTwo, ChunkCacheAssumption
<1>. HIDE DEF room
<1>3. /\ most \in Nat /\ room % ChunkSize \in Nat
      /\ room = most * ChunkSize + (room % ChunkSize)
  BY <1>2, Division
<1>4. MaxChunks = Max({1, most})
  BY DEF MaxChunks, most, room, share
<1> DEFINE rest == room % ChunkSize
<1>5. most * ChunkSize \in Nat /\ rest \in Nat /\ room = most * ChunkSize + rest
  BY <1>3, ChunkStart
<1>. HIDE DEF most, rest
<1>6. MaxChunks = IF 1 >= most THEN 1 ELSE most
  BY <1>3, <1>4, MaxOfTwo
<1>7. ASSUME NEW n \in Nat, n <= most
      PROVE  ChunkSize * n <= MaxBytes
  <2>1. n * ChunkSize \in Nat /\ n * ChunkSize <= most * ChunkSize
    <3>1. n \in Int /\ most \in Int /\ n <= most
      BY <1>3, <1>7
    <3>2. n * ChunkSize <= most * ChunkSize
      BY <3>1, Products, Zenon
    <3>. QED
      BY <3>2, ChunkStart
  <2>2. ChunkSize * n = n * ChunkSize
    BY Constants
  <2> DEFINE a == n * ChunkSize
             b == most * ChunkSize
  <2>3. a \in Nat /\ a <= b /\ b \in Nat /\ room = b + rest
    BY <1>5, <2>1
  <2>. HIDE DEF a, b
  <2>4. a <= MaxBytes
    BY <1>1, <1>2, <1>5, <2>3, ChunkCacheAssumption
  <2>. QED
    BY <2>2, <2>4 DEF a
<1>8. MaxChunks \in Nat \ {0}
  BY <1>3, <1>6
<1>9. ASSUME NEW n \in Nat, n <= MaxChunks
      PROVE  n <= 1 \/ ChunkSize * n <= MaxBytes
  <2>1. n <= 1 \/ n <= most
    BY <1>3, <1>6, <1>9
  <2>. QED
    BY <1>7, <2>1
<1>. QED
  BY <1>8, <1>9

\* A batch is at least one chunk and at most the largest run.
LEMMA BatchSizes ==
    ASSUME BatchInv, NEW i
    PROVE  /\ MaxChunks \in Nat \ {0}
           /\ BatchAfter(i) \in Nat \ {0} /\ BatchAfter(i) <= MaxChunks
<1>1. MaxChunks \in Nat \ {0}
  BY LargestRun
<1>2. batch \in Nat \ {0} /\ batch <= MaxChunks
  BY DEF BatchInv
<1>3. Min({batch * 2, MaxChunks}) = IF batch * 2 <= MaxChunks THEN batch * 2 ELSE MaxChunks
  BY <1>1, <1>2, MinOfTwo
<1>4. batch \div 2 \in Nat /\ batch \div 2 <= batch
  BY <1>2
<1>5. Max({1, batch \div 2}) = IF 1 >= batch \div 2 THEN 1 ELSE batch \div 2
  BY <1>4, MaxOfTwo
<1>. QED
  BY <1>1, <1>2, <1>3, <1>4, <1>5 DEF BatchAfter

\* The run decided on.
LEMMA RunDecided ==
    ASSUME NEW i \in Indices, NEW n \in Nat \ {0}
    PROVE  LET first == RunFirst(i, n)
               last  == RunLast(i, n)
           IN  /\ first \in Nat /\ first <= i
               /\ last \in Nat /\ i <= last /\ last < ChunksTotal
               /\ last - first < n
<1> DEFINE starts == {f \in 0..i : i - f < n /\ \A j \in f..(i - 1) : j \notin DOMAIN chunks}
           first == RunFirst(i, n)
           top == Max({i, ChunksTotal - 1})
           ends == {l \in i..top : l - first < n /\ \A j \in (i + 1)..l : j \notin DOMAIN chunks}
           last == RunLast(i, n)
<1>1. i \in Nat /\ ChunksTotal \in Nat /\ i < ChunksTotal
  BY IndicesFinite DEF Indices
<1>2. starts \subseteq Nat /\ i \in starts
  BY <1>1
<1>3. first = Min(starts)
  BY DEF RunFirst
<1>4. first \in starts
  <2>1. starts # {}
    BY <1>2
  <2>. HIDE DEF starts, first
  <2>. QED
    BY <1>2, <1>3, <2>1, LeastOf
<1>5. first \in 0..i /\ i - first < n
  BY <1>4
<1>6. top = ChunksTotal - 1
  BY <1>1, MaxOfTwo
<1>7. last = Max(ends)
  BY DEF RunLast
<1>. HIDE DEF starts, first, top
<1>8. ends \subseteq Nat /\ i \in ends /\ \A l \in ends : l <= top
  BY <1>1, <1>5, <1>6
<1>9. last \in ends
  <2>1. ends # {} /\ top \in Nat
    BY <1>1, <1>6, <1>8
  <2>. HIDE DEF ends, last
  <2>. QED
    BY <1>7, <1>8, <2>1, GreatestOf
<1>10. last \in i..top /\ last - first < n
  BY <1>9
<1>. HIDE DEF last, ends
<1>11. /\ first \in Nat /\ first <= i /\ last \in Nat /\ i <= last
       /\ last < ChunksTotal /\ last - first < n
  BY <1>1, <1>5, <1>6, <1>10
<1>. QED
  BY <1>11 DEF first, last

-----------------------------------------------------------------------------
\* A read begins: the caller asks.
LEMMA BeginStep ==
    ASSUME IInv, NEW r \in Readers, Begin(r)
    PROVE  IInv' /\ Ask(r)
<1>1. PICK q \in Requests : asked' = [asked EXCEPT ![r] = q]
  BY DEF Begin, Ask
<1>2. ReadingInv(Reading("lookup", <<>>), q)
  <2>1. <<>> \in Seq(Int) /\ Len(<<>>) = 0
    OBVIOUS
  <2>2. <<>> = Bytes(q.offset, q.offset + 0)
    <3>1. q.offset \in Nat /\ q.offset + 0 \in Int /\ q.offset + 0 <= q.offset
      BY RequestsAre
    <3>. QED
      BY <3>1, BytesEmpty
  <2>3. 0 < Want(q) \/ Want(q) = 0
    BY WantIs
  <2>. QED
    BY <2>1, <2>2, <2>3, LookupReading
<1>3. ReadersInv'
  BY <1>1, <1>2, Moves DEF Begin, IInv
<1>4. CacheInv'
  BY CacheStays DEF IInv, CacheInv, Begin, cacheVars
<1>5. BatchInv'
  BY ChunkCacheAssumption DEF Begin, cacheVars, IInv, BatchInv
<1>. QED
  BY <1>3, <1>4, <1>5 DEF IInv, CacheInv, Begin

\* A read that ends without an answer of its own, or with nothing to read.
LEMMA EndStep ==
    ASSUME IInv, NEW r \in Readers, ReadNothing(r) \/ FetchFails(r) \/ Drop(r)
    PROVE  IInv' /\ (Answer(r) \/ Fail(r) \/ Abandon(r))
<1>1. /\ reader' = [reader EXCEPT ![r] = Reading("done", <<>>)]
      /\ asked' = [asked EXCEPT ![r] = Idle]
      /\ UNCHANGED <<cacheVars, reads>>
  BY DEF ReadNothing, FetchFails, Drop, Fail, Abandon
<1>2. ReadersInv'
  BY <1>1, DoneReading, Moves, Zenon DEF IInv
<1>3. CacheInv' /\ BatchInv'
  BY <1>1, CacheStays, BatchStays DEF IInv, CacheInv, cacheVars
<1>4. CASE ReadNothing(r)
  <2>1. asked[r] \in Requests /\ asked[r] # Idle /\ Want(asked[r]) = 0
    BY <1>4, Waits DEF ReadNothing, IInv
  <2>2. Promised(asked[r]) = <<>>
    BY <2>1, WantIs
  <2>3. Answer(r)
    BY <1>4, <2>1, <2>2 DEF ReadNothing, Answer
  <2>. QED
    BY <1>2, <1>3, <2>3 DEF IInv, CacheInv
<1>5. CASE FetchFails(r) \/ Drop(r)
  BY <1>2, <1>3, <1>5 DEF FetchFails, Drop, IInv, CacheInv
<1>. QED
  BY <1>4, <1>5

\* What a read that needs a chunk needs it for.
LEMMA NeedsChunk ==
    ASSUME IInv, NEW r \in Readers, reader[r].at # "done",
           reader[r].at = "lookup" => Want(asked[r]) > 0
    PROVE  /\ asked[r] \in Requests /\ asked[r] # Idle /\ reader[r] \in Readings
           /\ ReadingInv(reader[r], asked[r]) /\ Progress(reader[r], asked[r])
           /\ Len(reader[r].got) < Want(asked[r])
           /\ Wanted(r) = ChunkOf(reader[r], asked[r])
           /\ Wanted(r) \in Indices /\ Wanted(r) \in Nat
<1>1. /\ asked[r] \in Requests /\ asked[r] # Idle /\ reader[r] \in Readings
      /\ ReadingInv(reader[r], asked[r]) /\ Progress(reader[r], asked[r])
  BY Waits DEF IInv
<1>2. Want(asked[r]) \in Nat
  BY <1>1, WantIs
<1>3. Len(reader[r].got) < Want(asked[r])
  BY <1>1, <1>2 DEF Progress
<1>4. Wanted(r) = ChunkOf(reader[r], asked[r])
  BY DEF Wanted, Pos, ChunkOf, PosOf
<1>. QED
  BY <1>1, <1>3, <1>4, WantedIndex

\* A hit moves the chunk to the warm end, and may answer.
LEMMA HitStep ==
    ASSUME IInv, NEW r \in Readers, Hit(r)
    PROVE  IInv' /\ (Answer(r) \/ UNCHANGED askVars)
<1> DEFINE i == Wanted(r)
<1>1. /\ reader[r].at = "lookup" /\ Want(asked[r]) > 0 /\ i \in DOMAIN chunks
      /\ recency' = Used(i) /\ Deliver(r, chunks[i])
      /\ UNCHANGED <<chunks, bytes, batch, previousMiss, reads>>
  BY DEF Hit
<1>2. i \in Indices /\ Len(reader[r].got) < Want(asked[r])
  BY <1>1, NeedsChunk
<1>3. chunks[i] = Chunk(i, SourceLen)
  BY <1>1 DEF IInv, ContentInv
<1>4. ReadersInv' /\ (Answer(r) \/ UNCHANGED askVars)
  <2>1. Deliver(r, Chunk(Wanted(r), SourceLen))
    BY <1>1, <1>3, Zenon
  <2>2. reader[r].at # "done" /\ ReadersInv
    BY <1>1 DEF IInv
  <2>. QED
    BY <1>2, <2>1, <2>2, Delivered, Zenon
<1>5. RecencyInv'
  <2>1. /\ Used(i) \in Seq(Indices) /\ IsInjective(Used(i))
        /\ ToSet(Used(i)) = ToSet(recency) \cup {i}
    BY <1>2, UsedOrder DEF IInv, RecencyInv
  <2>2. ToSet(Used(i)) = DOMAIN chunks
    BY <1>1, <2>1 DEF IInv, RecencyInv
  <2>. QED
    BY <1>1, <2>1, <2>2, Zenon DEF RecencyInv
<1>6. ContentInv' /\ BooksInv'
  BY <1>1 DEF IInv, ContentInv, BooksInv
<1>7. BatchInv'
  BY <1>1, BatchStays DEF IInv
<1>. QED
  BY <1>4, <1>5, <1>6, <1>7 DEF IInv

\* A step of a read between its lookup and its answer: the readings that change.
LEMMA MissStep ==
    ASSUME IInv, NEW r \in Readers, Miss(r)
    PROVE  IInv' /\ UNCHANGED askVars
<1> DEFINE w == reader[r]
           q == asked[r]
           x == [w EXCEPT !.at = "batch"]
<1>1. /\ w \in Readings /\ ReadingInv(w, q) /\ q \in Requests /\ q # Idle
      /\ Len(w.got) < Want(q) /\ w.at = "lookup"
  BY NeedsChunk DEF Miss
<1>2. reader' = [reader EXCEPT ![r] = x] /\ UNCHANGED <<asked, answers, cacheVars, reads>>
  BY DEF Miss
<1>3. x \in Readings /\ x.at = "batch" /\ x.got = w.got /\ x.data = w.data /\ x.next = w.next
  BY <1>1 DEF Readings
<1>. HIDE DEF x
<1>4. ReadingInv(x, q)
  BY <1>1, <1>3 DEF ReadingInv, Progress, PosOf
<1>5. ReadersInv'
  BY <1>2, <1>4, GoesOn, Zenon DEF IInv
<1>6. CacheInv' /\ BatchInv'
  BY <1>2, CacheStays, BatchStays DEF IInv, CacheInv, cacheVars
<1>. QED
  BY <1>2, <1>5, <1>6 DEF IInv, CacheInv, askVars

\* The decided run lies around the wanted chunk, and nothing is fetched yet.
LEMMA DecideStep ==
    ASSUME IInv, NEW r \in Readers, DecideRun(r)
    PROVE  IInv' /\ UNCHANGED askVars
<1> DEFINE w == reader[r]
           q == asked[r]
           i == Wanted(r)
           n == BatchAfter(i)
           first == RunFirst(i, n)
           run == RunLast(i, n) - RunFirst(i, n) + 1
           x == [w EXCEPT !.at = "fetch", !.first = first, !.run = run]
<1>1. /\ w \in Readings /\ ReadingInv(w, q) /\ q \in Requests /\ q # Idle
      /\ Len(w.got) < Want(q) /\ w.at = "batch" /\ i = ChunkOf(w, q) /\ i \in Indices
  BY NeedsChunk DEF DecideRun
<1>2. /\ reader' = [reader EXCEPT ![r] = x] /\ batch' = n /\ previousMiss' = i
      /\ UNCHANGED <<asked, answers, chunks, recency, bytes, reads>>
  BY DEF DecideRun
<1>3. MaxChunks \in Nat /\ n \in Nat \ {0} /\ n <= MaxChunks
  BY BatchSizes DEF IInv
<1>4. /\ first \in Nat /\ first <= i
      /\ RunLast(i, n) \in Nat /\ i <= RunLast(i, n) /\ RunLast(i, n) < ChunksTotal
      /\ RunLast(i, n) - first < n
  BY <1>1, <1>3, RunDecided
<1>5. i \in Nat /\ ChunksTotal \in Nat
  BY <1>1, IndicesFinite
<1>. HIDE DEF i, n
<1>6. /\ run \in Nat /\ run <= MaxChunks
      /\ first <= i /\ i < first + run /\ first + run <= ChunksTotal
  BY <1>3, <1>4, <1>5
<1>. HIDE DEF first, run
<1>7. /\ x \in Readings /\ x.at = "fetch" /\ x.got = w.got /\ x.data = w.data /\ x.next = w.next
      /\ x.first = first /\ x.run = run
  BY <1>1, <1>4, <1>6 DEF Readings, first
<1>. HIDE DEF x
<1>8. w.data = <<>> /\ w.next = 0 /\ Progress(w, q)
  BY <1>1 DEF ReadingInv
<1>9. Progress(x, q) /\ ChunkOf(x, q) = i
  BY <1>1, <1>7, <1>8 DEF Progress, PosOf, ChunkOf
<1>10. x.data = Bytes(x.first * ChunkSize, FilledOf(x)) /\ Len(x.data) = 0
  <2>1. Len(x.data) = 0 /\ x.data = <<>> /\ x.first \in Nat
    BY <1>4, <1>7, <1>8 DEF first
  <2>2. x.first * ChunkSize \in Nat
    BY <2>1, ChunkStart
  <2>3. FilledOf(x) = x.first * ChunkSize
    BY <2>1, <2>2 DEF FilledOf
  <2>4. Bytes(x.first * ChunkSize, FilledOf(x)) = <<>>
    BY <2>2, <2>3, BytesEmpty
  <2>. QED
    BY <2>1, <2>4
<1>11. RunInv(x, q)
  BY <1>6, <1>7, <1>8, <1>9, <1>10 DEF RunInv
<1>12. ReadingInv(x, q)
  BY <1>1, <1>7, <1>9, <1>11 DEF ReadingInv
<1>13. ReadersInv'
  BY <1>2, <1>12, GoesOn, Zenon DEF IInv
<1>14. CacheInv'
  BY <1>2, CacheStays DEF IInv, CacheInv
<1>15. BatchInv'
  BY <1>1, <1>2, <1>3 DEF IInv, BatchInv
<1>. QED
  BY <1>2, <1>13, <1>14, <1>15 DEF IInv, CacheInv, askVars

\* Where the reads of a run stop.
LEMMA ReachIs ==
    ASSUME NEW r \in Readers, reader[r] \in Readings, RunInv(reader[r], asked[r])
    PROVE  Min({RunEnd(r), SourceLen}) = Reach(reader[r]) /\ Filled(r) = FilledOf(reader[r])
<1> DEFINE w == reader[r]
           last == (w.first + w.run) * ChunkSize
<1>1. last \in Nat
  BY RunIs
<1>2. RunEnd(r) = Min({FileLen, last})
  BY DEF RunEnd
<1>3. Reach(w) = IF last <= SourceLen THEN last ELSE SourceLen
  BY DEF Reach
<1>. HIDE DEF last
<1>4. RunEnd(r) = IF FileLen <= last THEN FileLen ELSE last
  BY <1>1, <1>2, MinOfTwo, Constants
<1>5. RunEnd(r) \in Int
  BY <1>1, <1>4, Constants
<1>6. Min({RunEnd(r), SourceLen}) = IF RunEnd(r) <= SourceLen THEN RunEnd(r) ELSE SourceLen
  BY <1>5, MinOfTwo, Constants
<1>7. Min({RunEnd(r), SourceLen}) = Reach(w)
  BY <1>1, <1>3, <1>4, <1>6, Constants
<1>. QED
  BY <1>7 DEF Filled, FilledOf

\* What an inner read adds are the next bytes of the run.
LEMMA FetchSomeStep ==
    ASSUME IInv, NEW r \in Readers, FetchSome(r)
    PROVE  IInv' /\ UNCHANGED askVars
<1> DEFINE w == reader[r]
           q == asked[r]
           f == w.first * ChunkSize
<1>1. /\ w \in Readings /\ ReadingInv(w, q) /\ q \in Requests /\ q # Idle /\ w.at = "fetch"
      /\ RunInv(w, q)
  BY NeedsChunk DEF FetchSome, ReadingInv
<1>2. Min({RunEnd(r), SourceLen}) = Reach(w) /\ Filled(r) = FilledOf(w)
  BY <1>1, ReachIs
<1>3. FilledOf(w) \in Nat /\ Reach(w) \in Nat /\ f \in Nat /\ Len(w.data) \in Nat
  BY <1>1, RunIs
<1>4. PICK until \in (Filled(r) + 1)..Min({RunEnd(r), SourceLen}) :
         reader' = [reader EXCEPT ![r].data = @ \o Bytes(Filled(r), until)]
  BY DEF FetchSome
<1>5. until \in Nat /\ FilledOf(w) < until /\ until <= Reach(w)
  BY <1>2, <1>3, <1>4
<1> DEFINE data == w.data \o Bytes(FilledOf(w), until)
           x == [w EXCEPT !.data = data]
<1>6. reader' = [reader EXCEPT ![r] = x]
  BY <1>2, <1>4
<1>7. data = Bytes(f, until)
  <2>1. f <= FilledOf(w)
    BY <1>3 DEF FilledOf
  <2>2. w.data = Bytes(f, FilledOf(w))
    BY <1>1 DEF RunInv
  <2>3. FilledOf(w) <= until
    BY <1>3, <1>5
  <2>4. f \in Nat
    BY <1>3
  <2>5. FilledOf(w) \in Nat
    BY <1>3
  <2>6. until \in Nat
    BY <1>5
  <2>7. Bytes(f, FilledOf(w)) \o Bytes(FilledOf(w), until) = Bytes(f, until)
    BY <2>1, <2>3, <2>4, <2>5, <2>6, BytesJoin, Zenon
  <2>. QED
    BY <2>2, <2>7, Zenon
<1>8. data \in Seq(Int) /\ Len(data) = until - f
  <2>1. until \in Int /\ until > f
    BY <1>3, <1>5 DEF FilledOf
  <2>2. Bytes(f, until) \in Seq(Int)
    BY <1>3, <2>1, BytesSeq
  <2>3. Len(Bytes(f, until)) = IF until > f THEN until - f ELSE 0
    BY <1>3, <2>1, BytesLen, Zenon
  <2>. QED
    BY <1>7, <2>1, <2>2, <2>3
<1>. HIDE DEF data
<1>9. /\ x \in Readings /\ x.at = "fetch" /\ x.got = w.got /\ x.data = data /\ x.next = w.next
      /\ x.first = w.first /\ x.run = w.run
  BY <1>1, <1>8 DEF Readings
<1>. HIDE DEF x
<1>10. FilledOf(x) = until /\ Reach(x) = Reach(w) /\ ChunkOf(x, q) = ChunkOf(w, q)
  <2>1. FilledOf(x) = until
    BY <1>3, <1>5, <1>8, <1>9 DEF FilledOf
  <2>. QED
    BY <1>9, <2>1 DEF Reach, ChunkOf, PosOf
<1>11. RunInv(x, q)
  BY <1>1, <1>5, <1>7, <1>9, <1>10 DEF RunInv
<1>12. Progress(x, q)
  BY <1>1, <1>9 DEF Progress, PosOf, ReadingInv
<1>13. ReadingInv(x, q)
  BY <1>1, <1>9, <1>11, <1>12 DEF ReadingInv
<1>14. UNCHANGED <<asked, answers, cacheVars, reads>>
  BY DEF FetchSome
<1>15. ReadersInv'
  BY <1>6, <1>13, <1>14, GoesOn, Zenon DEF IInv
<1>16. CacheInv' /\ BatchInv'
  BY <1>14, CacheStays, BatchStays DEF IInv, CacheInv, cacheVars
<1>. QED
  BY <1>14, <1>15, <1>16 DEF IInv, CacheInv, askVars

\* How many pieces a miss has to insert, at least the empty one.
LEMMA PiecesAre ==
    ASSUME NEW w \in Readings
    PROVE  /\ Pieces(w.data) \in Nat
           /\ Max({1, Pieces(w.data)}) = IF 1 >= Pieces(w.data) THEN 1 ELSE Pieces(w.data)
<1>1. Len(w.data) \in Nat
  BY DEF Readings
<1>2. Pieces(w.data) \in Nat
  BY <1>1, Ceiling DEF Pieces
<1>. QED
  BY <1>2, MaxOfTwo

\* A run is fetched as far as the source reaches.
LEMMA FetchedStep ==
    ASSUME IInv, NEW r \in Readers, Fetched(r)
    PROVE  IInv' /\ UNCHANGED askVars
<1> DEFINE w == reader[r]
           q == asked[r]
           x == [w EXCEPT !.at = "insert"]
<1>1. /\ w \in Readings /\ ReadingInv(w, q) /\ q \in Requests /\ q # Idle /\ w.at = "fetch"
      /\ RunInv(w, q) /\ Progress(w, q)
  BY NeedsChunk DEF Fetched, ReadingInv
<1>2. Filled(r) >= Min({RunEnd(r), SourceLen}) /\ UNCHANGED <<asked, answers, cacheVars, reads>>
  BY DEF Fetched
<1>3. FilledOf(w) >= Reach(w)
  BY <1>1, <1>2, ReachIs
<1>4. reader' = [reader EXCEPT ![r] = x]
  BY DEF Fetched
<1>5. /\ x \in Readings /\ x.at = "insert" /\ x.got = w.got /\ x.data = w.data /\ x.next = w.next
      /\ x.first = w.first /\ x.run = w.run
  BY <1>1 DEF Readings
<1>. HIDE DEF x
<1>6. /\ FilledOf(x) = FilledOf(w) /\ Reach(x) = Reach(w) /\ ChunkOf(x, q) = ChunkOf(w, q)
      /\ PosOf(x, q) = PosOf(w, q)
  BY <1>5 DEF FilledOf, Reach, ChunkOf, PosOf
<1>7. x.next = 0 /\ x.next <= Max({1, Pieces(x.data)})
  BY <1>1, <1>5, PiecesAre DEF RunInv
<1>8. RunInv(x, q)
  BY <1>1, <1>3, <1>5, <1>6, <1>7 DEF RunInv
<1>9. Progress(x, q)
  BY <1>1, <1>5, <1>6 DEF Progress
<1>10. ReadingInv(x, q)
  BY <1>1, <1>5, <1>8, <1>9 DEF ReadingInv
<1>11. ReadersInv'
  BY <1>2, <1>4, <1>10, GoesOn, Zenon DEF IInv
<1>12. CacheInv' /\ BatchInv'
  BY <1>2, CacheStays, BatchStays DEF IInv, CacheInv, cacheVars
<1>. QED
  BY <1>2, <1>11, <1>12 DEF IInv, CacheInv, askVars

-----------------------------------------------------------------------------
\* One piece more is inserted.
LEMMA NextPiece ==
    ASSUME IInv, NEW r \in Readers, reader[r].at = "insert",
           reader[r].next < Max({1, Pieces(reader[r].data)}),
           NEW i \in Indices, Insert(i, Chunk(i, SourceLen)),
           reader' = [reader EXCEPT ![r].next = reader[r].next + 1],
           UNCHANGED <<asked, answers, reads>>
    PROVE  IInv'
<1> DEFINE w == reader[r]
           q == asked[r]
           x == [w EXCEPT !.next = w.next + 1]
<1>1. /\ w \in Readings /\ ReadingInv(w, q) /\ q \in Requests /\ q # Idle /\ w.at = "insert"
      /\ RunInv(w, q) /\ Progress(w, q)
  BY NeedsChunk DEF ReadingInv
<1>2. reader' = [reader EXCEPT ![r] = x]
  OBVIOUS
<1>3. /\ x \in Readings /\ x.at = "insert" /\ x.got = w.got /\ x.data = w.data
      /\ x.next = w.next + 1 /\ x.first = w.first /\ x.run = w.run
  <2>1. w.next + 1 \in Nat
    BY <1>1 DEF Readings
  <2>2. w \in Readings /\ w.at = "insert"
    BY <1>1
  <2>. HIDE DEF w
  <2>. QED
    BY <2>1, <2>2 DEF Readings
<1>. HIDE DEF x
<1>4. /\ FilledOf(x) = FilledOf(w) /\ Reach(x) = Reach(w) /\ ChunkOf(x, q) = ChunkOf(w, q)
      /\ PosOf(x, q) = PosOf(w, q)
  BY <1>3 DEF FilledOf, Reach, ChunkOf, PosOf
<1>5. x.next <= Max({1, Pieces(x.data)})
  <2>1. w.next \in Nat /\ Max({1, Pieces(w.data)}) \in Nat
    <3>1. w.next \in Nat
      BY <1>1 DEF Readings
    <3>2. w \in Readings
      BY <1>1
    <3>. HIDE DEF w
    <3>3. Max({1, Pieces(w.data)}) \in Nat
      BY <3>2, PiecesAre
    <3>. QED
      BY <3>1, <3>3
  <2>2. w.next + 1 <= Max({1, Pieces(w.data)})
    BY <2>1
  <2>. QED
    BY <1>3, <2>2
<1>6. RunInv(x, q)
  BY <1>1, <1>3, <1>4, <1>5 DEF RunInv
<1>7. Progress(x, q)
  BY <1>1, <1>3, <1>4 DEF Progress
<1>8. ReadingInv(x, q)
  BY <1>1, <1>3, <1>6, <1>7 DEF ReadingInv
<1>9. ReadersInv'
  BY <1>2, <1>8, GoesOn, Zenon DEF IInv
<1>10. CacheInv' /\ UNCHANGED <<batch, previousMiss>>
  BY InsertInv DEF IInv, CacheInv
<1>11. BatchInv'
  BY <1>10, BatchStays DEF IInv
<1>. QED
  BY <1>9, <1>10, <1>11 DEF IInv, CacheInv

\* What an insertion step inserts: the source's chunk of the run that is next.
LEMMA Inserts ==
    ASSUME IInv, NEW r \in Readers, InsertPiece(r) \/ InsertEmpty(r)
    PROVE  /\ reader[r].at = "insert" /\ reader[r].next < Max({1, Pieces(reader[r].data)})
           /\ \E i \in Indices : /\ Insert(i, Chunk(i, SourceLen))
                                 /\ reader[r].first <= i /\ i < reader[r].first + reader[r].run
           /\ reader' = [reader EXCEPT ![r].next = reader[r].next + 1]
           /\ UNCHANGED <<asked, answers, reads>>
<1> DEFINE w == reader[r]
           q == asked[r]
<1>0. reader[r].at = "insert" /\ UNCHANGED <<asked, answers, reads>>
  BY DEF InsertPiece, InsertEmpty
<1>1. /\ w \in Readings /\ ReadingInv(w, q) /\ q \in Requests /\ w.at = "insert"
      /\ RunInv(w, q) /\ Progress(w, q)
      /\ Wanted(r) = ChunkOf(w, q) /\ Wanted(r) \in Indices /\ Wanted(r) \in Nat
  BY <1>0, NeedsChunk DEF ReadingInv
<1>2. w.next \in Nat /\ w.first \in Nat /\ w.run \in Nat
  BY <1>1 DEF Readings
<1>3. CASE InsertPiece(r)
  <2>1. w.next < Pieces(w.data) /\ Insert(w.first + w.next, Piece(w.data, w.next))
    BY <1>3 DEF InsertPiece
  <2>2. /\ Piece(w.data, w.next) = Chunk(w.first + w.next, SourceLen)
        /\ w.first + w.next \in Indices /\ w.next < w.run
    BY <1>1, <1>2, <2>1, PieceIs
  <2>3. w.first <= w.first + w.next /\ w.first + w.next < w.first + w.run
    BY <1>2, <2>2
  <2>4. w.next < Max({1, Pieces(w.data)})
    BY <1>1, <1>2, <2>1, PiecesAre
  <2>5. Insert(w.first + w.next, Chunk(w.first + w.next, SourceLen))
    BY <2>1, <2>2, Zenon
  <2>6. reader' = [reader EXCEPT ![r].next = reader[r].next + 1]
    BY <1>3 DEF InsertPiece
  <2>. QED
    BY <1>0, <2>2, <2>3, <2>4, <2>5, <2>6, Zenon
<1>4. CASE InsertEmpty(r)
  <2>1. w.data = <<>> /\ w.next = 0 /\ Insert(Wanted(r), <<>>)
    BY <1>4 DEF InsertEmpty
  <2>2. w.first <= Wanted(r) /\ Wanted(r) < w.first + w.run
    BY <1>1 DEF RunInv
  <2> DEFINE k == Wanted(r) - w.first
  <2>3. k \in Nat /\ k < w.run /\ w.first + k = Wanted(r)
    BY <1>1, <1>2, <2>2
  <2>4. ~(k < Pieces(w.data))
    <3>1. Len(w.data) = 0
      BY <2>1
    <3>2. k * ChunkSize \in Nat
      BY <2>3, ChunkStart
    <3>. HIDE DEF k
    <3>3. ~(k * ChunkSize < 0)
      BY <3>2
    <3>. QED
      BY <2>3, <3>1, <3>3, Ceiling DEF Pieces
  <2>. HIDE DEF k
  <2>5. Chunk(Wanted(r), SourceLen) = <<>>
    <3>1. Chunk(w.first + k, SourceLen) = <<>>
      BY <1>1, <2>3, <2>4, NoPiece
    <3>. QED
      BY <2>3, <3>1, Zenon
  <2>6. Insert(Wanted(r), Chunk(Wanted(r), SourceLen))
    BY <2>1, <2>5, Zenon
  <2>7. w.next < Max({1, Pieces(w.data)})
    BY <1>1, <2>1, PiecesAre
  <2>8. reader' = [reader EXCEPT ![r].next = reader[r].next + 1]
    BY <1>4, <2>1 DEF InsertEmpty
  <2>. QED
    BY <1>0, <1>1, <2>2, <2>6, <2>7, <2>8, Zenon
<1>. QED
  BY <1>3, <1>4

\* The insertions change the cache and nothing a caller sees.
LEMMA InsertStep ==
    ASSUME IInv, NEW r \in Readers, InsertPiece(r) \/ InsertEmpty(r)
    PROVE  IInv' /\ UNCHANGED askVars
<1>1. /\ reader[r].at = "insert" /\ reader[r].next < Max({1, Pieces(reader[r].data)})
      /\ reader' = [reader EXCEPT ![r].next = reader[r].next + 1]
      /\ UNCHANGED <<asked, answers, reads>>
  BY Inserts
<1>2. PICK i \in Indices : Insert(i, Chunk(i, SourceLen))
  BY Inserts
<1>3. IInv'
  BY <1>1, <1>2, NextPiece
<1>. QED
  BY <1>1, <1>3 DEF askVars

\* What the read goes on with after a miss is the chunk it wanted.
LEMMA UseResultStep ==
    ASSUME IInv, NEW r \in Readers, UseResult(r)
    PROVE  IInv' /\ (Answer(r) \/ UNCHANGED askVars)
<1> DEFINE w == reader[r]
           q == asked[r]
           k == Wanted(r) - w.first
<1>1. w.at = "insert" /\ Deliver(r, Result(r)) /\ UNCHANGED <<cacheVars, reads>>
  BY DEF UseResult
<1>2. /\ w \in Readings /\ ReadingInv(w, q) /\ RunInv(w, q) /\ Len(w.got) < Want(q)
      /\ Wanted(r) = ChunkOf(w, q) /\ Wanted(r) \in Nat
  BY <1>1, NeedsChunk DEF ReadingInv
<1>3. w.first \in Nat /\ w.run \in Nat /\ w.first <= Wanted(r) /\ Wanted(r) < w.first + w.run
  BY <1>2 DEF Readings, RunInv
<1>4. k \in Nat /\ k < w.run /\ w.first + k = Wanted(r)
  BY <1>2, <1>3
<1>5. Result(r) = IF k < Pieces(w.data) THEN Piece(w.data, k) ELSE <<>>
  BY DEF Result
<1>. HIDE DEF k
<1>6. Result(r) = Chunk(w.first + k, SourceLen)
  <2>1. CASE k < Pieces(w.data)
    BY <1>1, <1>2, <1>4, <1>5, <2>1, PieceIs
  <2>2. CASE ~(k < Pieces(w.data))
    BY <1>1, <1>2, <1>4, <1>5, <2>2, NoPiece
  <2>. QED
    BY <2>1, <2>2
<1>7. Deliver(r, Chunk(Wanted(r), SourceLen))
  BY <1>1, <1>4, <1>6, Zenon
<1>8. ReadersInv' /\ (Answer(r) \/ UNCHANGED askVars)
  <2>1. reader[r].at # "done" /\ ReadersInv
    BY <1>1 DEF IInv
  <2>. QED
    BY <1>2, <1>7, <2>1, Delivered, Zenon
<1>9. CacheInv' /\ BatchInv'
  BY <1>1, CacheStays, BatchStays DEF IInv, CacheInv, cacheVars
<1>. QED
  BY <1>8, <1>9 DEF IInv, CacheInv

-----------------------------------------------------------------------------
\* The cache starts empty, with nobody reading.
LEMMA InitInv ==
    ASSUME Init
    PROVE  IInv
<1>1. /\ chunks = <<>> /\ recency = <<>> /\ bytes = 0 /\ batch = 1 /\ previousMiss = NoMiss
      /\ reader = [r \in Readers |-> Reading("done", <<>>)] /\ reads = MaxReads
      /\ asked = [r \in Readers |-> Idle]
  BY DEF Init, AskInit
<1>2. DOMAIN chunks = {}
  BY <1>1
<1>3. RecencyInv
  <2>1. DOMAIN recency = {} /\ recency \in Seq(Indices)
    BY <1>1
  <2>2. ToSet(recency) = {}
    BY <2>1 DEF ToSet
  <2>. QED
    BY <1>2, <2>1, <2>2 DEF RecencyInv, IsInjective
<1>4. ContentInv
  <2>1. chunks = [i \in {} |-> Chunk(i, SourceLen)]
    BY <1>1
  <2>. QED
    BY <1>2, <2>1 DEF ContentInv
<1>5. BooksInv
  <2>1. {} \in SUBSET Indices
    OBVIOUS
  <2>2. Weight({}) = 0
    BY <2>1, Weights
  <2>. QED
    BY <1>1, <1>2, <2>2, Constants, ChunkCacheAssumption DEF BooksInv
<1>6. BatchInv
  <2>1. MaxChunks \in Nat \ {0}
    BY LargestRun
  <2>. QED
    BY <1>1, <2>1, ChunkCacheAssumption DEF BatchInv
<1>7. ReadersInv
  BY <1>1, DoneReading DEF ReadersInv, ReadingInv
<1>. QED
  BY <1>3, <1>4, <1>5, <1>6, <1>7 DEF IInv

\* Every step preserves the invariant and is one of ReadAt, or none.
LEMMA NextInv ==
    ASSUME IInv, [Next]_vars
    PROVE  IInv' /\ [AskNext]_askVars
<1>1. CASE UNCHANGED vars
  <2>1. CacheInv' /\ BatchInv'
    BY <1>1, CacheStays, BatchStays DEF IInv, CacheInv, cacheVars, vars
  <2>2. ReadersInv'
    BY <1>1 DEF IInv, ReadersInv, ReadingInv, vars
  <2>3. UNCHANGED askVars
    BY <1>1 DEF vars, askVars
  <2>4. IInv'
    BY <2>1, <2>2 DEF IInv, CacheInv
  <2>. QED
    BY <2>3, <2>4
<1>2. ASSUME NEW r \in Readers, Begin(r)
      PROVE  IInv' /\ [AskNext]_askVars
  BY <1>2, BeginStep DEF AskNext
<1>3. ASSUME NEW r \in Readers, ReadNothing(r) \/ FetchFails(r) \/ Drop(r)
      PROVE  IInv' /\ [AskNext]_askVars
  BY <1>3, EndStep DEF AskNext
<1>4. ASSUME NEW r \in Readers, Hit(r) \/ UseResult(r)
      PROVE  IInv' /\ [AskNext]_askVars
  BY <1>4, HitStep, UseResultStep DEF AskNext
<1>5. ASSUME NEW r \in Readers,
             Miss(r) \/ DecideRun(r) \/ FetchSome(r) \/ Fetched(r) \/ InsertPiece(r) \/ InsertEmpty(r)
      PROVE  IInv' /\ [AskNext]_askVars
  BY <1>5, MissStep, DecideStep, FetchSomeStep, FetchedStep, InsertStep
<1>. QED
  BY <1>1, <1>2, <1>3, <1>4, <1>5 DEF Next, Step

\* The chunks held, the bytes copied so far and the bytes fetched are the
\* source's own at their positions, whatever readers, requests, failures and
\* dropped reads there are: the inductive invariant of cache.rs.
THEOREM EveryByteIsTheSources == Spec => []IInv
<1>1. Init => IInv
  BY InitInv
<1>2. IInv /\ [Next]_vars => IInv'
  BY NextInv
<1>. QED
  BY <1>1, <1>2, PTL DEF Spec

\* The invariant implies what the run checks of the books.
LEMMA BooksAreRight ==
    ASSUME IInv
    PROVE  AccountingExact
<1>1. DOMAIN chunks \in SUBSET Indices /\ \A x \in DOMAIN chunks : chunks[x] = Chunk(x, SourceLen)
  BY DEF IInv, ContentInv
<1>2. Size(chunks, DOMAIN chunks) = Weight(DOMAIN chunks)
  BY <1>1, WeightOfStore
<1>3. Weight(DOMAIN chunks) \in Nat
  BY <1>1, Weights
<1>4. bytes = Size(chunks, DOMAIN chunks) /\ (bytes <= MaxBytes \/ Cardinality(DOMAIN chunks) = 1)
  BY <1>2 DEF IInv, BooksInv
<1>5. \A r \in Readers : reader[r].at \in {"done", "lookup", "batch", "fetch", "insert"}
  BY DEF IInv, ReadersInv, Readings
<1>6. TypeOK
  BY <1>1, <1>2, <1>3, <1>4, <1>5 DEF TypeOK, IInv, RecencyInv, BatchInv
<1>. QED
  BY <1>4, <1>6 DEF AccountingExact, BytesAccounted, BudgetHeld

\* The books of the cache are exact (cache.rs 37-50, 189-214): every resident
\* chunk is in the order of use once, the counter is the resident bytes, and
\* they fit the budget unless one chunk is all there is.
THEOREM TheBooksAreExact == Spec => []AccountingExact
<1>1. IInv => AccountingExact
  BY BooksAreRight
<1>. QED
  BY <1>1, EveryByteIsTheSources, PTL

\* Readers see what the source itself promises (cache.rs 26-27): every step of
\* the cache is a step of ReadAt or changes nothing a caller sees.
THEOREM TheCacheImplementsReadAt == Spec => ImplementsReadAt
<1>1. Init => AskInit
  BY DEF Init
<1>2. IInv /\ [Next]_vars => [AskNext]_askVars
  BY NextInv
<1>. QED
  BY <1>1, <1>2, EveryByteIsTheSources, PTL DEF Spec, ImplementsReadAt, AskSpec

-----------------------------------------------------------------------------
\* The piece to insert next advances by the insertions only.
LEMMA OnlyInsertsAdvance ==
    ASSUME IInv, [Next]_vars, NEW r \in Readers, reader[r].at = "insert",
           reader'[r].next > reader[r].next
    PROVE  InsertPiece(r) \/ InsertEmpty(r)
<1>1. reader \in [Readers -> Readings] /\ reader[r] \in Readings /\ reader[r].next \in Nat
  BY DEF IInv, ReadersInv, Readings
<1>2. /\ reader'[r].next # reader[r].next /\ reader'[r].next # 0
  BY <1>1
<1>3. PICK s \in Readers : Begin(s) \/ Step(s) \/ Drop(s)
  BY <1>2 DEF Next, vars
<1>4. s = r
  <2>1. SUFFICES ASSUME s # r PROVE reader'[r] = reader[r]
    BY <1>2
  <2>. QED
    BY <1>1, <1>3, <2>1 DEF Begin, Step, Drop, ReadNothing, Hit, Miss, DecideRun, FetchSome, Fetched,
                FetchFails, InsertPiece, InsertEmpty, UseResult, Deliver
<1>5. asked[r] # Idle
  BY DEF IInv, ReadersInv, ReadingInv
<1>6. ~Begin(r)
  BY <1>5 DEF Begin, Ask
<1>7. ~(ReadNothing(r) \/ Hit(r) \/ Miss(r) \/ DecideRun(r) \/ FetchSome(r) \/ Fetched(r)
        \/ FetchFails(r) \/ Drop(r))
  BY DEF ReadNothing, Hit, Miss, DecideRun, FetchSome, Fetched, FetchFails, Drop
<1>8. ~UseResult(r)
  <2>1. SUFFICES ASSUME UseResult(r) PROVE reader'[r].next = 0
    BY <1>2
  <2>. QED
    BY <1>1, <2>1 DEF UseResult, Deliver, Reading
<1>. QED
  BY <1>3, <1>4, <1>6, <1>7, <1>8 DEF Step

\* What an insertion drops of its own run is colder than a chunk of no part of it.
LEMMA RunStays ==
    ASSUME IInv, NEW r \in Readers, InsertPiece(r) \/ InsertEmpty(r),
           NEW j, j \in DOMAIN chunks, j \notin DOMAIN chunks',
           j \in reader[r].first..(reader[r].first + reader[r].next - 1)
    PROVE  \E x \in DOMAIN chunks \ (reader[r].first..(reader[r].first + reader[r].run - 1)) :
              Warmer(x, j)
<1> DEFINE w == reader[r]
           run == w.first..(w.first + w.run - 1)
<1>0. w.at = "insert"
  BY Inserts
<1>1. w \in Readings /\ RunInv(w, asked[r])
  BY <1>0, NeedsChunk DEF ReadingInv
<1>2. /\ w.next \in Nat /\ w.first \in Nat /\ w.run \in Nat /\ w.run <= MaxChunks
  BY <1>1 DEF Readings, RunInv
<1>3. PICK i \in Indices : /\ Insert(i, Chunk(i, SourceLen))
                           /\ w.first <= i /\ i < w.first + w.run
  BY Inserts
<1>4. i \in run
  <2>1. i \in Int
    BY IndicesFinite
  <2>. QED
    BY <1>2, <1>3, <2>1
<1>5. w.next < w.run
  <2>1. w.next # 0
    BY <1>2
  <2>2. InsertPiece(r)
    BY <2>1 DEF InsertEmpty
  <2>3. w.next < Pieces(w.data)
    BY <2>2 DEF InsertPiece
  <2>. QED
    BY <1>0, <1>1, <1>2, <2>3, PieceIs
<1>6. j \in run
  BY <1>2, <1>5
<1>7. run \in SUBSET Int /\ IsFiniteSet(run) /\ Cardinality(run) = w.run
  <2>1. w.first \in Int /\ w.first + w.run - 1 \in Int
    BY <1>2
  <2>2. /\ IsFiniteSet(run)
        /\ Cardinality(run) = IF w.first > w.first + w.run - 1 THEN 0
                              ELSE (w.first + w.run - 1) - w.first + 1
    BY <2>1, FS_Interval
  <2>. QED
    BY <1>2, <2>2
<1>. HIDE DEF run
<1> DEFINE warm == Used(i)
           n == Len(warm)
<1>8. PICK g : Inserted(i, g)
  BY <1>3, Insertion DEF IInv
<1>9. /\ warm \in Seq(Indices) /\ n \in Nat \ {0} /\ warm[n] = i /\ IsInjective(warm)
      /\ ToSet(warm) = DOMAIN chunks \cup {i}
      /\ \A a, b \in 1..n : a < b /\ b < n => Warmer(warm[b], warm[a])
  BY UsedOrder DEF IInv, RecencyInv
<1>10. /\ g \in 0..(n - 1)
       /\ chunks' = [k \in After(warm, g) |-> Chunk(k, SourceLen)]
       /\ \A h \in 0..(g - 1) : Weight(After(warm, h)) > MaxBytes
  BY <1>8 DEF Inserted
<1>. HIDE DEF n
<1>11. DOMAIN warm = 1..n /\ n = Len(warm)
  BY <1>9, LenProperties DEF n
<1>12. PICK p \in 1..n : warm[p] = j
  BY <1>9, <1>11 DEF ToSet
<1>13. p <= g
  <2>1. SUFFICES ASSUME ~(p <= g) PROVE j \in DOMAIN chunks'
    OBVIOUS
  <2>2. p \in (g + 1)..n
    BY <1>9, <1>10, <2>1
  <2>3. j \in After(warm, g)
    BY <1>11, <1>12, <2>2 DEF After
  <2>. QED
    BY <1>10, <2>3
<1>14. p - 1 \in 0..(g - 1) /\ p - 1 \in 0..n /\ p < n
  BY <1>9, <1>10, <1>13
<1> DEFINE late == After(warm, p - 1)
<1>15. Weight(late) > MaxBytes
  BY <1>10, <1>14
<1>16. late \in SUBSET Indices
  BY <1>9, <1>11, <1>14, RowSplit
<1>17. late = {warm[b] : b \in p..n}
  <2>1. (p - 1) + 1 = p
    BY <1>9
  <2>. QED
    BY <1>11, <2>1 DEF After
<1>. HIDE DEF late
<1>18. SUFFICES ASSUME \A x \in DOMAIN chunks : Warmer(x, j) => x \in run
                PROVE  FALSE
  BY DEF run
<1>19. late \subseteq run
  <2>1. SUFFICES ASSUME NEW b \in p..n PROVE warm[b] \in run
    BY <1>17
  <2>2. CASE b = p
    BY <1>6, <1>12, <2>2
  <2>3. CASE b = n
    BY <1>4, <1>9, <2>3
  <2>4. CASE b # p /\ b # n
    <3>1. b \in 1..n /\ p < b /\ b < n /\ n \in 1..n
      BY <1>9, <1>12, <2>4
    <3>2. Warmer(warm[b], warm[p])
      BY <1>9, <1>12, <3>1
    <3>3. warm[b] # warm[n]
      BY <1>9, <1>11, <3>1 DEF IsInjective
    <3>4. warm[b] \in DOMAIN chunks
      BY <1>9, <1>11, <3>1, <3>3 DEF ToSet
    <3>. QED
      BY <1>12, <1>18, <3>2, <3>4
  <2>. QED
    BY <2>2, <2>3, <2>4
<1>20. i # j
  <2>1. n \in 1..n /\ n # p
    BY <1>9, <1>14
  <2>. QED
    BY <1>9, <1>11, <1>12, <2>1 DEF IsInjective
<1>21. ~(w.run <= 1)
  BY <1>2, <1>4, <1>6, <1>20 DEF run
<1>22. ChunkSize * w.run <= MaxBytes
  BY <1>2, <1>21, LargestRun
<1>23. IsFiniteSet(late) /\ Cardinality(late) \in Nat /\ Cardinality(late) <= w.run
  BY <1>7, <1>19, FS_Subset, FS_CardinalityType
<1>24. Weight(late) \in Nat /\ Weight(late) <= ChunkSize * Cardinality(late)
  BY <1>16, Weights
<1>25. ChunkSize * Cardinality(late) <= ChunkSize * w.run
  BY <1>2, <1>23, Constants
<1> DEFINE a == ChunkSize * Cardinality(late)
           b == ChunkSize * w.run
<1>26. a \in Int /\ b \in Int
  BY <1>2, <1>23, Constants
<1>27. Weight(late) <= a /\ a <= b /\ b <= MaxBytes
  BY <1>22, <1>24, <1>25
<1>. HIDE DEF a, b
<1>. QED
  BY <1>15, <1>24, <1>26, <1>27, ChunkCacheAssumption

\* An insertion drops an earlier piece of its own run only beside a chunk of
\* another run that is warmer (cache.rs 136-137): what is warmer than the
\* dropped piece weighed more than the budget, and a run does not.
THEOREM RunsAreNotTheirOwnVictims == Spec => RunStaysResident
<1> DEFINE Stays ==
      \A r \in Readers :
          LET run   == reader[r].first..(reader[r].first + reader[r].run - 1)
              piece == reader[r].first..(reader[r].first + reader[r].next - 1)
          IN  reader[r].at = "insert" /\ reader'[r].next > reader[r].next
              => \A j \in (piece \cap DOMAIN chunks) \ DOMAIN chunks' :
                    \E x \in DOMAIN chunks \ run : Warmer(x, j)
<1>1. ASSUME IInv, [Next]_vars PROVE Stays
  <2>1. SUFFICES ASSUME NEW r \in Readers, reader[r].at = "insert",
                        reader'[r].next > reader[r].next
                 PROVE  \A j \in (reader[r].first..(reader[r].first + reader[r].next - 1)
                                    \cap DOMAIN chunks) \ DOMAIN chunks' :
                           \E x \in DOMAIN chunks
                                      \ (reader[r].first..(reader[r].first + reader[r].run - 1)) :
                              Warmer(x, j)
    BY Zenon
  <2>2. InsertPiece(r) \/ InsertEmpty(r)
    BY <1>1, <2>1, OnlyInsertsAdvance
  <2>. QED
    BY <1>1, <2>2, RunStays
<1>2. IInv /\ [Next]_vars => [Stays]_vars
  BY <1>1
<1>. QED
  BY <1>2, EveryByteIsTheSources, PTL DEF Spec, RunStaysResident
=============================================================================
