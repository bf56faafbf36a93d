--------------------------- MODULE ImporterProofs ---------------------------
(***************************************************************************)
(* Importer proved for any object graphs, and any number of sources and    *)
(* calls: whatever cycles they have and wherever calls are dropped, an     *)
(* object waits to be copied once, under a number that is its own; every   *)
(* slot left reserved is accounted for; the copy has the shape of what it  *)
(* is copied from; and every call gets a page of its own.                  *)
(***************************************************************************)
EXTENDS Importer, FiniteSetTheorems, SequenceTheorems, TLAPS

\* The sequences `reference` is called along: the objects of S, each once.
Lists(order, S) ==
    /\ order \in Seq(Objects)
    /\ \A i \in 1..Len(order) : order[i] \in S
    /\ \A x \in S : \E i \in 1..Len(order) : order[i] = x
    /\ \A i, j \in 1..Len(order) : order[i] = order[j] => i = j

LEMMA OrdersList ==
    ASSUME NEW S \in SUBSET Objects, NEW order \in Orders(S)
    PROVE  Lists(order, S)
<1>1. Cardinality(S) \in Nat
  BY ImporterAssumption, FS_Subset, FS_CardinalityType
<1>2. order \in [1..Cardinality(S) -> S]
  BY DEF Orders, Bijection, Injection
<1>3. order \in Seq(Objects) /\ Len(order) = Cardinality(S)
  BY <1>1, <1>2
<1>4. \A x \in S : \E i \in 1..Cardinality(S) : order[i] = x
  BY DEF Orders, Bijection, Surjection
<1>5. \A i, j \in 1..Cardinality(S) : order[i] = order[j] => i = j
  BY <1>2 DEF Orders, Bijection, Injection, IsInjective
<1>. QED
  BY <1>2, <1>3, <1>4, <1>5 DEF Lists

\* A page appended to a list it is not in.
LEMMA ListsAppend ==
    ASSUME NEW S \in SUBSET Objects, NEW order, Lists(order, S),
           NEW p \in Objects, p \notin S
    PROVE  Lists(Append(order, p), S \cup {p})
<1> DEFINE all == Append(order, p)
<1>1. /\ all \in Seq(Objects) /\ Len(all) = Len(order) + 1
      /\ \A i \in 1..Len(order) : all[i] = order[i]
      /\ all[Len(order) + 1] = p
      /\ Len(order) \in Nat
  BY DEF Lists
<1>2. \A i \in 1..Len(all) : i \in 1..Len(order) \/ i = Len(order) + 1
  BY <1>1
<1>3. \A i \in 1..Len(all) : all[i] \in S \cup {p}
  BY <1>1, <1>2 DEF Lists
<1>4. \A x \in S \cup {p} : \E i \in 1..Len(all) : all[i] = x
  BY <1>1 DEF Lists
<1>5. \A i, j \in 1..Len(all) : all[i] = all[j] => i = j
  BY <1>1, <1>2 DEF Lists
<1>. QED
  BY <1>1, <1>3, <1>4, <1>5 DEF Lists

\* The parts of a concatenation.
LEMMA Concatenated ==
    ASSUME NEW T, NEW s \in Seq(T), NEW t \in Seq(T)
    PROVE  /\ s \o t \in Seq(T) /\ Len(s \o t) = Len(s) + Len(t)
           /\ \A n \in 1..Len(s) : (s \o t)[n] = s[n]
           /\ \A i \in 1..Len(t) : (s \o t)[Len(s) + i] = t[i]
OBVIOUS

\* What `reference`, called along a list of S, makes of slots, map and queue: it
\* numbers the objects in turn behind the slots there are, reserves those slots,
\* and queues the objects.
Growth(order, S) ==
    /\ Len(slots) \in Nat \ {0} /\ Len(order) \in Nat /\ Len(pending) \in Nat
    /\ Grown(order) \in Seq(SlotType) /\ Len(Grown(order)) = Len(slots) + Len(order)
    /\ \A n \in 1..Len(slots) : Grown(order)[n] = slots[n]
    /\ \A i \in 1..Len(order) :
          /\ Grown(order)[Len(slots) + i] = Reserved(<<Turn, order[i]>>)
          /\ ~Grown(order)[Len(slots) + i].full
    /\ DOMAIN Numbered(order) = DOMAIN map \cup S
    /\ \A x \in DOMAIN map : Numbered(order)[x] = map[x]
    /\ \A i \in 1..Len(order) : Numbered(order)[order[i]] = Len(slots) + i
    /\ Queued(order) \in Seq(Objects) /\ Len(Queued(order)) = Len(pending) + Len(order)
    /\ \A i \in 1..Len(pending) : Queued(order)[i] = pending[i]
    /\ \A i \in 1..Len(order) : Queued(order)[Len(pending) + i] = order[i]

LEMMA Growing ==
    ASSUME IInv, NEW S \in SUBSET (Objects \ DOMAIN map), NEW order, Lists(order, S)
    PROVE  Growth(order, S)
<1> DEFINE L == Len(slots)
           K == Len(order)
           added == [i \in DOMAIN order |-> Reserved(<<Turn, order[i]>>)]
<1>1. /\ slots \in Seq(SlotType) /\ L \in Nat \ {0} /\ K \in Nat
      /\ order \in Seq(Objects) /\ DOMAIN order = 1..K
      /\ pending \in Seq(Objects) /\ Turn \in 1..MaxImporters
  BY DEF IInv, TypeOK, Lists
<1>2. \A i \in 1..K : Reserved(<<Turn, order[i]>>) \in SlotType
  BY <1>1, ImporterAssumption DEF Reserved, SlotType, Origins
<1>3. added \in Seq(SlotType) /\ Len(added) = K /\ \A i \in 1..K : added[i] = Reserved(<<Turn, order[i]>>)
  BY <1>1, <1>2
<1>4. Grown(order) = slots \o added
  BY DEF Grown
<1> HIDE DEF added
<1>5. /\ Grown(order) \in Seq(SlotType) /\ Len(Grown(order)) = L + K
      /\ \A n \in 1..L : Grown(order)[n] = slots[n]
      /\ \A i \in 1..K : Grown(order)[L + i] = added[i]
  <2>1. /\ slots \o added \in Seq(SlotType) /\ Len(slots \o added) = Len(slots) + Len(added)
        /\ \A n \in 1..Len(slots) : (slots \o added)[n] = slots[n]
        /\ \A i \in 1..Len(added) : (slots \o added)[Len(slots) + i] = added[i]
    <3>1. slots \in Seq(SlotType) /\ added \in Seq(SlotType)
      BY <1>1, <1>3
    <3> HIDE DEF L, K
    <3>. QED
      BY <3>1, Concatenated
  <2>. QED
    BY <1>3, <1>4, <2>1
<1>6. \A i \in 1..K : ~Grown(order)[L + i].full
  <2>1. \A i \in 1..K : ~Reserved(<<Turn, order[i]>>).full
    BY DEF Reserved
  <2>. QED
    BY <1>3, <1>5, <2>1
<1>7. Range(order) = S
  <2>1. \A x \in Range(order) : x \in S
    BY <1>1 DEF Range, Lists
  <2>2. \A x \in S : x \in Range(order)
    BY <1>1 DEF Range, Lists
  <2>. QED
    BY <2>1, <2>2
<1>8. /\ DOMAIN Numbered(order) = DOMAIN map \cup S
      /\ \A x \in DOMAIN map : Numbered(order)[x] = map[x]
  BY <1>7 DEF Numbered
<1>9. ASSUME NEW i \in 1..K
      PROVE  Numbered(order)[order[i]] = L + i
  <2>1. order[i] \in S /\ order[i] \notin DOMAIN map
    BY DEF Lists
  <2>2. (CHOOSE k \in DOMAIN order : order[k] = order[i]) = i
    BY <1>1 DEF Lists
  <2>. QED
    BY <1>7, <2>1, <2>2 DEF Numbered
<1>10. /\ Queued(order) \in Seq(Objects) /\ Len(Queued(order)) = Len(pending) + K
       /\ \A i \in 1..Len(pending) : Queued(order)[i] = pending[i]
       /\ \A i \in 1..K : Queued(order)[Len(pending) + i] = order[i]
  BY <1>1 DEF Queued
<1>11. Len(pending) \in Nat /\ \A i \in 1..K : Grown(order)[L + i] = Reserved(<<Turn, order[i]>>)
  BY <1>1, <1>3, <1>5
<1>12. /\ L \in Nat \ {0} /\ K \in Nat
       /\ Grown(order) \in Seq(SlotType) /\ Len(Grown(order)) = L + K
       /\ \A n \in 1..L : Grown(order)[n] = slots[n]
       /\ \A i \in 1..K : /\ Grown(order)[L + i] = Reserved(<<Turn, order[i]>>)
                          /\ ~Grown(order)[L + i].full
  BY <1>1, <1>5, <1>6, <1>11
<1>. QED
  BY <1>8, <1>9, <1>10, <1>11, <1>12 DEF Growth

\* Nothing of the map and the queue is disturbed by what `reference` adds.
LEMMA GrowingIsSound ==
    ASSUME IInv, NEW S \in SUBSET (Objects \ DOMAIN map), NEW order, Lists(order, S)
    PROVE  Sound(Grown(order), Numbered(order), Queued(order), drawn)
<1>0. Growth(order, S)
  BY Growing
<1> DEFINE L == Len(slots)
           K == Len(order)
           P == Len(pending)
           m == Numbered(order)
           g == Grown(order)
           q == Queued(order)
<1>1. /\ L \in Nat \ {0} /\ K \in Nat /\ P \in Nat
      /\ Len(g) = L + K /\ Len(q) = P + K
      /\ \A n \in 1..L : g[n] = slots[n]
      /\ \A i \in 1..K : ~g[L + i].full
      /\ DOMAIN m = DOMAIN map \cup S
      /\ \A x \in DOMAIN map : m[x] = map[x]
      /\ \A i \in 1..K : m[order[i]] = L + i
      /\ \A i \in 1..P : q[i] = pending[i]
      /\ \A i \in 1..K : q[P + i] = order[i]
  BY <1>0 DEF Growth
<1>2. Sound(slots, map, pending, drawn)
  BY DEF IInv
<1>3. /\ \A x \in S : \E i \in 1..K : order[i] = x
      /\ \A i \in 1..K : order[i] \in S
      /\ \A i, j \in 1..K : order[i] = order[j] => i = j
      /\ S \cap DOMAIN map = {}
  BY DEF Lists
<1> HIDE DEF L, K, P, m, g, q
<1>4. \A x \in S : \E i \in 1..K : x = order[i] /\ m[x] = L + i
  BY <1>1, <1>3
<1>5. \A x \in DOMAIN map : m[x] \in 2..L /\ m[x] = map[x]
  BY <1>1, <1>2 DEF Sound, L
<1>6. \A x \in DOMAIN m : m[x] \in 2..Len(g)
  BY <1>1, <1>4, <1>5
<1>7. \A x, y \in DOMAIN m : m[x] = m[y] => x = y
  <2> SUFFICES ASSUME NEW x \in DOMAIN m, NEW y \in DOMAIN m, m[x] = m[y]
               PROVE  x = y
    OBVIOUS
  <2>1. CASE x \in S /\ y \in S
    BY <1>1, <1>4, <2>1
  <2>2. CASE x \in DOMAIN map /\ y \in DOMAIN map
    BY <1>2, <1>5, <2>2 DEF Sound
  <2>3. CASE (x \in S /\ y \in DOMAIN map) \/ (x \in DOMAIN map /\ y \in S)
    BY <1>1, <1>4, <1>5, <2>3
  <2>4. x \in DOMAIN map \cup S /\ y \in DOMAIN map \cup S
    BY <1>1
  <2>. QED
    BY <2>1, <2>2, <2>3, <2>4
<1>8. \A i \in 1..Len(q) : \/ i \in 1..P /\ q[i] = pending[i]
                           \/ \E k \in 1..K : i = P + k /\ q[i] = order[k]
  <2> SUFFICES ASSUME NEW i \in 1..Len(q), i \notin 1..P
               PROVE  \E k \in 1..K : i = P + k /\ q[i] = order[k]
    BY <1>1
  <2>1. i - P \in 1..K /\ i = P + (i - P)
    BY <1>1
  <2>. QED
    BY <1>1, <2>1
<1>9. \A i \in 1..P : /\ pending[i] \in DOMAIN map /\ pending[i] # drawn
                      /\ ~g[m[pending[i]]].full
  <2> SUFFICES ASSUME NEW i \in 1..P
               PROVE  /\ pending[i] \in DOMAIN map /\ pending[i] # drawn
                      /\ ~g[m[pending[i]]].full
    OBVIOUS
  <2>1. pending[i] \in DOMAIN map /\ pending[i] # drawn /\ ~slots[map[pending[i]]].full
    BY <1>2 DEF Sound, P
  <2>2. m[pending[i]] = map[pending[i]] /\ m[pending[i]] \in 1..L
    BY <1>1, <1>5, <2>1
  <2>. QED
    BY <1>1, <2>1, <2>2
<1>10. \A k \in 1..K : /\ order[k] \in DOMAIN m /\ order[k] \notin DOMAIN map
                       /\ ~g[m[order[k]]].full
  BY <1>1, <1>3
<1>11. drawn # NoObj => drawn \in DOMAIN map /\ ~g[m[drawn]].full
  BY <1>1, <1>2, <1>5 DEF Sound
<1>12. S \subseteq Objects /\ NoObj \notin Objects
  BY ImporterAssumption
<1>13. \A i \in 1..Len(q) : q[i] \in DOMAIN m /\ q[i] # drawn /\ ~g[m[q[i]]].full
  <2> SUFFICES ASSUME NEW i \in 1..Len(q)
               PROVE  q[i] \in DOMAIN m /\ q[i] # drawn /\ ~g[m[q[i]]].full
    OBVIOUS
  <2>1. CASE i \in 1..P /\ q[i] = pending[i]
    BY <1>1, <1>9, <2>1
  <2>2. ASSUME NEW k \in 1..K, q[i] = order[k]
        PROVE  q[i] \in DOMAIN m /\ q[i] # drawn /\ ~g[m[q[i]]].full
    BY <1>3, <1>10, <1>11, <1>12, <2>2
  <2>. QED
    BY <1>8, <2>1, <2>2
<1>14. \A i, j \in 1..Len(q) : q[i] = q[j] => i = j
  <2> SUFFICES ASSUME NEW i \in 1..Len(q), NEW j \in 1..Len(q), q[i] = q[j]
               PROVE  i = j
    OBVIOUS
  <2>1. \A a, b \in 1..P : pending[a] = pending[b] => a = b
    BY <1>2 DEF Sound, P
  <2>2. \A a \in 1..P, k \in 1..K : pending[a] # order[k]
    BY <1>9, <1>10
  <2>3. CASE i \in 1..P /\ q[i] = pending[i] /\ j \in 1..P /\ q[j] = pending[j]
    BY <2>1, <2>3
  <2>4. ASSUME NEW k \in 1..K, i = P + k, q[i] = order[k],
               NEW l \in 1..K, j = P + l, q[j] = order[l]
        PROVE  i = j
    <3>1. k = l
      BY <1>3, <2>4
    <3>. QED
      BY <2>4, <3>1
  <2>5. \/ i \in 1..P /\ q[i] = pending[i]
        \/ \E k \in 1..K : i = P + k /\ q[i] = order[k]
    BY <1>8
  <2>6. \/ j \in 1..P /\ q[j] = pending[j]
        \/ \E l \in 1..K : j = P + l /\ q[j] = order[l]
    BY <1>8
  <2>. QED
    BY <2>2, <2>3, <2>4, <2>5, <2>6
<1>. QED
  BY <1>1, <1>6, <1>7, <1>11, <1>13, <1>14 DEF Sound, g, m, q

\* A slot is filled that nobody waits for, or one more is pushed.
LEMMA FillingIsSound ==
    ASSUME NEW T, NEW sl \in Seq(T), NEW m, NEW pe, NEW dr, Sound(sl, m, pe, dr),
           NEW n \in 1..Len(sl), NEW body,
           \A i \in 1..Len(pe) : m[pe[i]] # n,
           dr # NoObj => m[dr] # n
    PROVE  Sound([sl EXCEPT ![n] = body], m, pe, dr)
<1> DEFINE f == [sl EXCEPT ![n] = body]
<1>1. Len(f) = Len(sl) /\ \A k \in 1..Len(sl) : k # n => f[k] = sl[k]
  OBVIOUS
<1>2. Len(sl) \in Nat
  OBVIOUS
<1> HIDE DEF f
<1>3. \A x \in DOMAIN m : m[x] \in 1..Len(sl)
  BY <1>2 DEF Sound
<1>4. \A i \in 1..Len(pe) : pe[i] \in DOMAIN m /\ f[m[pe[i]]] = sl[m[pe[i]]]
  BY <1>1, <1>3 DEF Sound
<1>5. dr # NoObj => dr \in DOMAIN m /\ f[m[dr]] = sl[m[dr]]
  BY <1>1, <1>3 DEF Sound
<1>. QED
  BY <1>1, <1>4, <1>5 DEF Sound, f

LEMMA PushingIsSound ==
    ASSUME NEW T, NEW sl \in Seq(T), NEW m, NEW pe, NEW dr, Sound(sl, m, pe, dr), NEW body \in T
    PROVE  Sound(Append(sl, body), m, pe, dr)
<1> DEFINE f == Append(sl, body)
<1>1. Len(f) = Len(sl) + 1 /\ Len(sl) \in Nat /\ \A k \in 1..Len(sl) : f[k] = sl[k]
  OBVIOUS
<1> HIDE DEF f
<1>2. \A x \in DOMAIN m : m[x] \in 1..Len(sl) /\ m[x] \in 2..Len(f)
  BY <1>1 DEF Sound
<1>3. \A i \in 1..Len(pe) : pe[i] \in DOMAIN m /\ f[m[pe[i]]] = sl[m[pe[i]]]
  BY <1>1, <1>2 DEF Sound
<1>4. dr # NoObj => dr \in DOMAIN m /\ f[m[dr]] = sl[m[dr]]
  BY <1>1, <1>2 DEF Sound
<1>. QED
  BY <1>1, <1>2, <1>3, <1>4 DEF Sound, f

\* The queue without its last object.
LEMMA Popping ==
    ASSUME IInv, pending # <<>>
    PROVE  /\ Popped \in Seq(Objects) /\ Len(Popped) = Len(pending) - 1
           /\ Len(pending) \in Nat \ {0}
           /\ \A i \in 1..Len(Popped) : Popped[i] = pending[i] /\ Popped[i] # Top
           /\ Top \in Objects /\ Top \in DOMAIN map /\ Top # drawn /\ ~slots[map[Top]].full
           /\ map[Top] \in 2..Len(slots)
           /\ Sound(slots, map, Popped, drawn)
<1> DEFINE P == Len(pending)
<1>1. pending \in Seq(Objects) /\ P \in Nat \ {0}
  BY DEF IInv, TypeOK
<1>2. /\ Popped \in Seq(Objects) /\ Len(Popped) = P - 1
      /\ \A i \in 1..(P - 1) : Popped[i] = pending[i]
  <2> DEFINE n == P - 1
  <2>1. n \in Int /\ \A i \in 1..n : pending[i] \in Objects
    BY <1>1
  <2>2. /\ SubSeq(pending, 1, n) \in Seq(Objects)
        /\ Len(SubSeq(pending, 1, n)) = IF 1 <= n THEN n - 1 + 1 ELSE 0
        /\ \A i \in 1..(n - 1 + 1) : SubSeq(pending, 1, n)[i] = pending[1 + i - 1]
    BY <2>1, SubSeqProperties
  <2>3. Popped = SubSeq(pending, 1, n) /\ n \in Nat
    BY <1>1 DEF Popped
  <2>. HIDE DEF n
  <2>4. Len(Popped) = n /\ \A i \in 1..n : Popped[i] = pending[i]
    BY <2>2, <2>3
  <2>. QED
    BY <2>2, <2>3, <2>4 DEF n
<1>3. Sound(slots, map, pending, drawn)
  BY DEF IInv
<1>4. P \in 1..P /\ Top = pending[P] /\ pending[P] \in Objects
  BY <1>1 DEF Top
<1>5. /\ Top \in DOMAIN map /\ Top # drawn /\ ~slots[map[Top]].full
      /\ map[Top] \in 2..Len(slots)
  BY <1>3, <1>4 DEF Sound
<1>6. \A i \in 1..(P - 1) : i \in 1..P /\ i # P
  BY <1>1
<1>7. \A i \in 1..(P - 1) : Popped[i] = pending[i] /\ Popped[i] # Top
  BY <1>2, <1>3, <1>4, <1>6 DEF Sound
<1> HIDE DEF P
<1>8. Sound(slots, map, Popped, drawn)
  BY <1>2, <1>3, <1>6 DEF Sound, P
<1>. QED
  BY <1>1, <1>2, <1>4, <1>5, <1>7, <1>8 DEF P

LEMMA InitInv == Init => IInv
<1> SUFFICES ASSUME Init PROVE IInv
  OBVIOUS
<1>1. <<0, NoObj>> \in Origins
  BY ImporterAssumption DEF Origins
<1>2. Reserved(<<0, NoObj>>) \in SlotType
  BY <1>1 DEF Reserved, SlotType
<1>3. slots \in Seq(SlotType) /\ slots # <<>>
  BY <1>2 DEF Init
<1>4. PICK f \in Files : inputs = <<f>>
  BY DEF Init
<1>5. inputs \in Seq(Files) /\ Turn \in 1..MaxImporters
  BY <1>4, ImporterAssumption DEF Turn
<1>6. /\ DOMAIN map = {} /\ map \in [DOMAIN map -> Slots]
      /\ DOMAIN substitutions = {} /\ substitutions \in [DOMAIN substitutions -> SlotType]
      /\ pending \in Seq(Objects) /\ kids \in Seq(CallType) /\ pending = <<>>
  BY DEF Init
<1>7. TypeOK
  BY <1>3, <1>5, <1>6, ImporterAssumption DEF TypeOK, Init, Idle
<1>8. Sound(slots, map, pending, drawn)
  BY <1>6 DEF Sound, Init
<1>. QED
  BY <1>7, <1>8 DEF IInv, DrawnByACall, Init

\* What the importer copies from.
LEMMA SourceIsAFile ==
    ASSUME IInv
    PROVE  /\ Turn \in 1..MaxImporters /\ Turn \in 0..MaxImporters
           /\ \A r \in Objects :
                 /\ Source[r] \in Node
                 /\ Source[r].refs \in SUBSET Objects /\ Source[r].inherited \in SUBSET Objects
                 /\ Source[r].parent \in Objects \cup {NoObj}
                 /\ <<Turn, r>> \in Origins
<1>1. inputs \in Seq(Files) /\ Turn \in 1..MaxImporters /\ Turn = Len(inputs)
  BY DEF IInv, TypeOK, Turn
<1>2. Turn \in Nat \ {0} /\ Turn \in 0..MaxImporters
  BY <1>1, ImporterAssumption
<1>3. Source \in [Objects -> Node]
  BY <1>1, <1>2, ImporterAssumption DEF Source
<1>. QED
  BY <1>1, <1>2, <1>3 DEF Node, Origins

\* The types of what `reference` makes.
LEMMA GrowingIsTyped ==
    ASSUME IInv, NEW S \in SUBSET (Objects \ DOMAIN map), NEW order, Lists(order, S)
    PROVE  /\ Grown(order) \in Seq(SlotType) /\ Grown(order) # <<>>
           /\ DOMAIN Numbered(order) \subseteq Objects
           /\ Numbered(order) \in [DOMAIN Numbered(order) -> 1..Len(Grown(order))]
           /\ Queued(order) \in Seq(Objects)
           /\ \A x \in DOMAIN map \cup S : Numbered(order)[x] \in Nat
           /\ \A refs \in SUBSET (DOMAIN map \cup S) : Renumbered(refs, order) \in SUBSET Nat
<1>1. Growth(order, S)
  BY Growing
<1>2. Sound(Grown(order), Numbered(order), Queued(order), drawn)
  BY GrowingIsSound
<1>3. Grown(order) # <<>> /\ Len(Grown(order)) \in Nat
  BY <1>1 DEF Growth
<1>4. DOMAIN map \subseteq Objects
  BY DEF IInv, TypeOK
<1>5. DOMAIN Numbered(order) = DOMAIN map \cup S
  BY <1>1 DEF Growth
<1>6. \A x \in DOMAIN Numbered(order) : Numbered(order)[x] \in 1..Len(Grown(order))
  BY <1>2, <1>3 DEF Sound
<1>7. Numbered(order) \in [DOMAIN Numbered(order) -> 1..Len(Grown(order))]
  BY <1>6 DEF Numbered
<1>8. \A x \in DOMAIN map \cup S : Numbered(order)[x] \in Nat
  BY <1>3, <1>5, <1>6
<1>9. \A refs \in SUBSET (DOMAIN map \cup S) : Renumbered(refs, order) \in SUBSET Nat
  BY <1>8 DEF Renumbered
<1>. QED
  BY <1>1, <1>3, <1>4, <1>5, <1>7, <1>8, <1>9 DEF Growth

\* A call whose only effect on the copy is a growth keeps the invariant.
LEMMA GrowthInv ==
    ASSUME IInv, NEW S \in SUBSET (Objects \ DOMAIN map), NEW order, Lists(order, S),
           slots' = Grown(order), map' = Numbered(order), pending' = Queued(order),
           DOMAIN substitutions' \subseteq Objects,
           substitutions' \in [DOMAIN substitutions' -> SlotType],
           call' \in CallType \cup {Idle}, calls' \in 0..MaxCalls,
           Ready, UNCHANGED <<inputs, drawn, kids, outcome>>
    PROVE  IInv'
<1>1. Sound(slots', map', pending', drawn')
  BY GrowingIsSound
<1>2. /\ slots' \in Seq(SlotType) /\ slots' # <<>>
      /\ DOMAIN map' \subseteq Objects /\ map' \in [DOMAIN map' -> 1..Len(slots')]
      /\ pending' \in Seq(Objects)
  BY GrowingIsTyped
<1>3. TypeOK'
  BY <1>2 DEF IInv, TypeOK, Slots, Turn
<1>. QED
  BY <1>1, <1>3 DEF IInv, DrawnByACall, Ready

\* What the calls from outside leave of the budget.
LEMMA CallsLeft ==
    ASSUME IInv, Ready
    PROVE  calls - 1 \in 0..MaxCalls
BY ImporterAssumption DEF IInv, TypeOK, Ready

LEMMA SubstitutionsTyped ==
    ASSUME IInv, NEW r \in Objects, NEW body \in SlotType,
           NEW subs, subs = [x \in DOMAIN substitutions \cup {r} |->
                                IF x = r THEN body ELSE substitutions[x]]
    PROVE  DOMAIN subs \subseteq Objects /\ subs \in [DOMAIN subs -> SlotType]
BY DEF IInv, TypeOK

LEMMA ReferenceInv ==
    ASSUME IInv, NEW r \in Objects, Reference(r)
    PROVE  IInv'
<1>1. Unseen({r}) \in SUBSET (Objects \ DOMAIN map) /\ Unseen({r}) \in SUBSET Objects
  BY DEF Unseen
<1>2. PICK order \in Orders(Unseen({r})) :
         slots' = Grown(order) /\ map' = Numbered(order) /\ pending' = Queued(order)
  BY DEF Reference
<1>3. Lists(order, Unseen({r}))
  BY <1>1, OrdersList
<1>4. /\ calls' \in 0..MaxCalls
      /\ UNCHANGED <<inputs, substitutions, drawn, call, kids, outcome>>
      /\ DOMAIN substitutions' \subseteq Objects
      /\ substitutions' \in [DOMAIN substitutions' -> SlotType]
      /\ call' \in CallType \cup {Idle}
  BY CallsLeft DEF Reference, IInv, TypeOK
<1>. QED
  BY <1>1, <1>2, <1>3, <1>4, GrowthInv DEF Reference

LEMMA DocumentInv ==
    ASSUME IInv, Document
    PROVE  IInv'
<1>1. Unseen({Root}) \in SUBSET (Objects \ DOMAIN map) /\ Unseen({Root}) \in SUBSET Objects
  BY ImporterAssumption DEF Unseen
<1>2. PICK order \in Orders(Unseen({Root})) :
         slots' = Grown(order) /\ map' = Numbered(order) /\ pending' = Queued(order)
  BY DEF Document
<1>3. Lists(order, Unseen({Root}))
  BY <1>1, OrdersList
<1>4. call' \in CallType \cup {Idle}
  BY DEF Document, Finishing, CallType
<1>5. /\ calls' \in 0..MaxCalls
      /\ UNCHANGED <<inputs, substitutions, drawn, kids, outcome>>
      /\ DOMAIN substitutions' \subseteq Objects
      /\ substitutions' \in [DOMAIN substitutions' -> SlotType]
  BY CallsLeft DEF Document, IInv, TypeOK
<1>. QED
  BY <1>1, <1>2, <1>3, <1>4, <1>5, GrowthInv DEF Document

LEMMA SubstituteInv ==
    ASSUME IInv, NEW r \in Objects, Substitute(r)
    PROVE  IInv'
<1> DEFINE S == Unseen(Source[r].refs)
<1>1. S \in SUBSET (Objects \ DOMAIN map) /\ S \in SUBSET Objects
  BY SourceIsAFile DEF Unseen
<1>2. PICK order \in Orders(S) :
         /\ slots' = Grown(order) /\ map' = Numbered(order) /\ pending' = Queued(order)
         /\ substitutions' = [x \in DOMAIN substitutions \cup {r} |->
                IF x = r THEN Filled(<<Turn, r>>, Renumbered(Source[r].refs, order), 0, "substitute")
                ELSE substitutions[x]]
  BY DEF Substitute
<1>3. Lists(order, S)
  BY <1>1, <1>2, OrdersList
<1>4. Source[r].refs \in SUBSET (DOMAIN map \cup S)
  BY DEF Unseen
<1>5. Renumbered(Source[r].refs, order) \in SUBSET Nat
  BY <1>1, <1>3, <1>4, GrowingIsTyped
<1> DEFINE body == Filled(<<Turn, r>>, Renumbered(Source[r].refs, order), 0, "substitute")
<1>6. body \in SlotType
  BY <1>5, SourceIsAFile DEF Filled, SlotType
<1>7. DOMAIN substitutions' \subseteq Objects /\ substitutions' \in [DOMAIN substitutions' -> SlotType]
  <2> HIDE DEF body
  <2>1. substitutions' = [x \in DOMAIN substitutions \cup {r} |->
                            IF x = r THEN body ELSE substitutions[x]]
    BY <1>2 DEF body
  <2>. QED
    BY <1>6, <2>1, SubstitutionsTyped
<1>8. /\ calls' \in 0..MaxCalls
      /\ UNCHANGED <<inputs, drawn, call, kids, outcome>>
      /\ call' \in CallType \cup {Idle}
  BY CallsLeft DEF Substitute, IInv, TypeOK
<1> HIDE DEF S
<1>. QED
  BY <1>1, <1>2, <1>3, <1>7, <1>8, GrowthInv DEF Substitute

LEMMA PageInv ==
    ASSUME IInv, NEW p \in Objects, Page(p)
    PROVE  IInv'
<1> DEFINE refs == Source[p].refs \cup Source[p].inherited
           S == Unseen(refs)
           unmet == Source[p].type = "page" /\ p \notin DOMAIN map \cup refs
<1>1. /\ refs \in SUBSET Objects
      /\ S \in SUBSET (Objects \ DOMAIN map) /\ S \in SUBSET Objects
      /\ refs \in SUBSET (DOMAIN map \cup S) /\ S \subseteq refs
  BY SourceIsAFile DEF Unseen
<1>2. PICK order \in Orders(S) :
        LET body == Filled(<<Turn, p>>, Renumbered(refs, order), PagesRef, "page")
            all  == IF unmet THEN Append(order, p) ELSE order
            slot == Len(slots) + Len(order) + 1
        IN  /\ map' = Numbered(all) /\ pending' = Queued(all)
            /\ slots' = IF unmet THEN Grown(all) ELSE Append(Grown(all), body)
            /\ substitutions' = IF ~unmet THEN substitutions
                                ELSE [x \in DOMAIN substitutions \cup {p} |->
                                         IF x = p THEN body ELSE substitutions[x]]
            /\ call' = [slot |-> slot, page |-> p,
                        first |-> Source[p].type = "page" /\ p \notin DOMAIN map]
  BY DEF Page
<1>3. Lists(order, S)
  BY <1>1, <1>2, OrdersList
<1> DEFINE body == Filled(<<Turn, p>>, Renumbered(refs, order), PagesRef, "page")
<1>4. body \in SlotType
  <2>1. Renumbered(refs, order) \in SUBSET Nat
    BY <1>1, <1>3, GrowingIsTyped
  <2>. QED
    BY <2>1, SourceIsAFile DEF Filled, SlotType, PagesRef
<1>5. call' \in CallType \cup {Idle}
  <2>1. Len(slots) \in Nat /\ Len(order) \in Nat
    BY <1>3 DEF IInv, TypeOK, Lists
  <2>. QED
    BY <1>2, <2>1 DEF CallType
<1>6. /\ calls' \in 0..MaxCalls
      /\ UNCHANGED <<inputs, drawn, kids, outcome>>
      /\ DOMAIN substitutions \subseteq Objects
      /\ substitutions \in [DOMAIN substitutions -> SlotType]
  BY CallsLeft DEF Page, IInv, TypeOK
<1>7. Ready
  BY DEF Page
<1>8. CASE unmet
  <2> DEFINE all == Append(order, p)
             more == S \cup {p}
  <2>1. /\ slots' = Grown(all) /\ map' = Numbered(all) /\ pending' = Queued(all)
        /\ substitutions' = [x \in DOMAIN substitutions \cup {p} |->
                                IF x = p THEN body ELSE substitutions[x]]
    BY <1>2, <1>8
  <2>2. more \in SUBSET (Objects \ DOMAIN map) /\ p \notin S
    BY <1>1, <1>8
  <2>3. Lists(all, more)
    <3> HIDE DEF S
    <3>. QED
      BY <1>1, <1>3, <2>2, ListsAppend
  <2>4. /\ DOMAIN substitutions' \subseteq Objects
        /\ substitutions' \in [DOMAIN substitutions' -> SlotType]
    <3> HIDE DEF body
    <3>. QED
      BY <1>4, <2>1, SubstitutionsTyped
  <2> HIDE DEF all, more
  <2>. QED
    BY <1>5, <1>6, <1>7, <2>1, <2>2, <2>3, <2>4, GrowthInv
<1>9. CASE ~unmet
  <2>1. /\ slots' = Append(Grown(order), body) /\ map' = Numbered(order)
        /\ pending' = Queued(order) /\ substitutions' = substitutions
    BY <1>2, <1>9
  <2> HIDE DEF body, unmet, S, refs
  <2>2. /\ Grown(order) \in Seq(SlotType) /\ Grown(order) # <<>>
        /\ DOMAIN Numbered(order) \subseteq Objects
        /\ Numbered(order) \in [DOMAIN Numbered(order) -> 1..Len(Grown(order))]
        /\ Queued(order) \in Seq(Objects)
        /\ Sound(Grown(order), Numbered(order), Queued(order), drawn)
    BY <1>1, <1>3, GrowingIsTyped, GrowingIsSound
  <2>3. Sound(slots', map', pending', drawn')
    BY <1>4, <1>6, <2>1, <2>2, PushingIsSound
  <2>4. /\ slots' \in Seq(SlotType) /\ slots' # <<>>
        /\ Len(slots') = Len(Grown(order)) + 1 /\ Len(Grown(order)) \in Nat
    BY <1>4, <2>1, <2>2
  <2>5. map' \in [DOMAIN map' -> 1..Len(slots')]
    BY <2>1, <2>2, <2>4
  <2>6. TypeOK'
    BY <1>5, <1>6, <2>1, <2>2, <2>4, <2>5 DEF IInv, TypeOK, Slots, Turn
  <2>. QED
    BY <1>6, <1>7, <2>3, <2>6 DEF IInv, DrawnByACall, Ready
<1>. QED
  BY <1>8, <1>9

LEMMA FillSubstituteInv ==
    ASSUME IInv, FillSubstitute
    PROVE  IInv'
<1> DEFINE n == map[Top]
           body == substitutions[Top]
<1>1. /\ Popped \in Seq(Objects) /\ Sound(slots, map, Popped, drawn)
      /\ \A i \in 1..Len(Popped) : Popped[i] # Top
      /\ Top \in DOMAIN map /\ n \in 2..Len(slots) /\ Top # drawn
  BY Popping DEF FillSubstitute, Draining
<1>2. /\ slots \in Seq(SlotType) /\ slots # <<>> /\ Len(slots) \in Nat /\ n \in 1..Len(slots)
      /\ body \in SlotType
  BY <1>1 DEF IInv, TypeOK, FillSubstitute
<1>3. slots' = [slots EXCEPT ![n] = body] /\ pending' = Popped /\ UNCHANGED <<map, drawn>>
  BY DEF FillSubstitute, Fill
<1>4. \A x, y \in DOMAIN map : map[x] = map[y] => x = y
  BY <1>1 DEF Sound
<1>5. \A i \in 1..Len(Popped) : map[Popped[i]] # n
  BY <1>1, <1>4 DEF Sound
<1>6. drawn # NoObj => map[drawn] # n
  BY <1>1, <1>4 DEF Sound
<1> HIDE DEF n, body
<1>7. Sound(slots', map', pending', drawn')
  BY <1>1, <1>2, <1>3, <1>5, <1>6, FillingIsSound
<1>8. slots' \in Seq(SlotType) /\ slots' # <<>> /\ Len(slots') = Len(slots)
  BY <1>2, <1>3
<1>9. TypeOK'
  <2>1. /\ DOMAIN substitutions' \subseteq Objects
        /\ substitutions' \in [DOMAIN substitutions' -> SlotType]
    BY DEF FillSubstitute, IInv, TypeOK
  <2>. QED
    BY <1>1, <1>3, <1>8, <2>1 DEF IInv, TypeOK, FillSubstitute, Slots, Turn
<1>. QED
  BY <1>7, <1>9 DEF IInv, DrawnByACall, FillSubstitute

LEMMA DrawInv ==
    ASSUME IInv, Draw
    PROVE  IInv'
<1>1. /\ Popped \in Seq(Objects) /\ Sound(slots, map, Popped, drawn)
      /\ \A i \in 1..Len(Popped) : Popped[i] # Top
      /\ Top \in Objects /\ Top \in DOMAIN map /\ ~slots[map[Top]].full
  BY Popping DEF Draw, Draining
<1>2. Sound(slots', map', pending', drawn')
  BY <1>1 DEF Sound, Draw
<1>3. TypeOK'
  BY <1>1 DEF IInv, TypeOK, Draw, Slots, Turn
<1>. QED
  BY <1>2, <1>3 DEF IInv, DrawnByACall, Draw, Draining

LEMMA CopyInv ==
    ASSUME IInv, Copy
    PROVE  IInv'
<1> DEFINE node == Source[drawn]
           refs == node.refs \cup ({node.parent} \ {NoObj})
           S == Unseen(refs)
<1>0. drawn \in Objects /\ drawn # NoObj
  BY DEF Copy, IInv, TypeOK
<1>1. /\ refs \in SUBSET Objects /\ node.refs \in SUBSET Objects
      /\ node.parent \in Objects \cup {NoObj}
      /\ S \in SUBSET (Objects \ DOMAIN map) /\ S \in SUBSET Objects
      /\ refs \in SUBSET (DOMAIN map \cup S)
  BY <1>0, SourceIsAFile DEF Unseen
<1> DEFINE body(order) ==
        Filled(<<Turn, drawn>>, Renumbered(node.refs, order),
               IF node.parent = NoObj THEN 0 ELSE Numbered(order)[node.parent], "copy")
<1>2. PICK order \in Orders(S) :
         /\ slots' = [Grown(order) EXCEPT ![map[drawn]] = body(order)]
         /\ map' = Numbered(order) /\ pending' = Queued(order)
  BY DEF Copy, Fill
<1>3. Lists(order, S)
  BY <1>1, <1>2, OrdersList
<1>4. body(order) \in SlotType
  <2>1. /\ Renumbered(node.refs, order) \in SUBSET Nat
        /\ \A x \in DOMAIN map \cup S : Numbered(order)[x] \in Nat
    BY <1>1, <1>3, GrowingIsTyped
  <2>2. node.parent # NoObj => Numbered(order)[node.parent] \in Nat
    BY <1>1, <2>1
  <2>3. <<Turn, drawn>> \in Origins
    BY <1>0, SourceIsAFile
  <2>. QED
    BY <2>1, <2>2, <2>3 DEF Filled, SlotType
<1> DEFINE g == Grown(order)
           m == Numbered(order)
           q == Queued(order)
           b == body(order)
           n == map[drawn]
<1>5. slots' = [g EXCEPT ![n] = b] /\ map' = m /\ pending' = q
  BY <1>2
<1> HIDE DEF b, body, S, refs, node
<1>6. /\ g \in Seq(SlotType) /\ g # <<>>
      /\ DOMAIN m \subseteq Objects /\ m \in [DOMAIN m -> 1..Len(g)]
      /\ q \in Seq(Objects)
      /\ Sound(g, m, q, drawn)
  BY <1>1, <1>3, GrowingIsTyped, GrowingIsSound
<1>7. Growth(order, S)
  BY <1>1, <1>3, Growing
<1>8. m[drawn] = n /\ drawn \in DOMAIN m /\ n \in 1..Len(g)
  BY <1>0, <1>6, <1>7 DEF Growth, IInv, Sound
<1> HIDE DEF g, m, q, n
<1>9. Sound(g, m, q, NoObj)
  <2>1. \A i \in 1..Len(q) : q[i] \in DOMAIN m /\ q[i] \in Objects
    BY <1>6 DEF Sound
  <2>. QED
    BY <1>6, <2>1, ImporterAssumption DEF Sound
<1>10. \A i \in 1..Len(q) : m[q[i]] # n
  BY <1>6, <1>8 DEF Sound
<1>11. Sound(slots', map', pending', drawn')
  <2>1. Sound([g EXCEPT ![n] = b], m, q, NoObj)
    BY <1>6, <1>8, <1>9, <1>10, FillingIsSound
  <2>. QED
    BY <1>5, <2>1 DEF Copy
<1>12. slots' \in Seq(SlotType) /\ slots' # <<>> /\ Len(slots') = Len(g)
  BY <1>4, <1>5, <1>6, <1>8 DEF b
<1>13. TypeOK'
  BY <1>5, <1>6, <1>12 DEF IInv, TypeOK, Copy, Slots, Turn
<1>. QED
  BY <1>11, <1>13 DEF IInv, DrawnByACall, Copy

LEMMA GiveUpInv ==
    ASSUME IInv, GiveUp
    PROVE  IInv'
<1>1. Sound(slots', map', pending', drawn')
  <2>1. \A i \in 1..Len(pending) : pending[i] \in Objects
    BY DEF IInv, TypeOK
  <2>. QED
    BY <2>1, ImporterAssumption DEF GiveUp, copyVars, IInv, Sound
<1>2. TypeOK'
  BY DEF GiveUp, copyVars, IInv, TypeOK, Slots, Turn
<1>. QED
  BY <1>1, <1>2 DEF IInv, DrawnByACall, GiveUp

LEMMA ReturnInv ==
    ASSUME IInv, Return
    PROVE  IInv'
<1>1. call \in CallType /\ kids \in Seq(CallType)
  BY DEF Return, IInv, TypeOK
<1>2. kids' \in Seq(CallType) /\ call' \in CallType \cup {Idle}
  BY <1>1 DEF Return
<1>3. TypeOK'
  BY <1>2 DEF Return, copyVars, IInv, TypeOK, Slots, Turn
<1>4. Sound(slots', map', pending', drawn')
  BY DEF Return, copyVars, IInv
<1>. QED
  BY <1>3, <1>4 DEF IInv, DrawnByACall, Return

LEMMA NextSourceInv ==
    ASSUME IInv, NextSource
    PROVE  IInv'
<1>1. PICK f \in Files : inputs' = Append(inputs, f)
  BY DEF NextSource
<1>2. inputs' \in Seq(Files) /\ Len(inputs') \in 1..MaxImporters
  BY <1>1, ImporterAssumption DEF NextSource, IInv, TypeOK, Turn
<1>3. /\ DOMAIN map' = {} /\ map' \in [DOMAIN map' -> 1..Len(slots')]
      /\ DOMAIN substitutions' = {} /\ substitutions' \in [DOMAIN substitutions' -> SlotType]
      /\ pending' \in Seq(Objects)
  BY DEF NextSource
<1>4. TypeOK'
  BY <1>2, <1>3 DEF IInv, TypeOK, NextSource, Slots, Turn
<1>5. drawn' = NoObj
  BY DEF IInv, DrawnByACall, NextSource
<1>6. Sound(slots', map', pending', drawn')
  BY <1>3, <1>5 DEF Sound, NextSource
<1>. QED
  BY <1>4, <1>5, <1>6 DEF IInv, DrawnByACall

LEMMA FinishInv ==
    ASSUME IInv, Finish
    PROVE  IInv'
<1> DEFINE refs == {kids[i].slot : i \in DOMAIN kids}
           body == Filled(slots[PagesRef].from, refs, 0, "tree")
<1>1. /\ slots \in Seq(SlotType) /\ Len(slots) \in Nat \ {0} /\ PagesRef \in 1..Len(slots)
      /\ kids \in Seq(CallType) /\ slots # <<>>
  BY DEF IInv, TypeOK, PagesRef
<1>2. body \in SlotType
  <2>1. refs \in SUBSET Nat
    <3>1. DOMAIN kids = 1..Len(kids) /\ \A i \in 1..Len(kids) : kids[i] \in CallType
      BY <1>1
    <3>. QED
      BY <3>1 DEF CallType
  <2>2. slots[PagesRef] \in SlotType
    BY <1>1
  <2>. QED
    BY <2>1, <2>2 DEF Filled, SlotType
<1>3. slots' = [slots EXCEPT ![PagesRef] = body] /\ UNCHANGED <<map, pending, drawn>>
  BY DEF Finish
<1> HIDE DEF body, refs
<1>4. Sound(slots', map', pending', drawn')
  <2>1. \A x \in DOMAIN map : map[x] # PagesRef
    BY DEF IInv, Sound, PagesRef
  <2>2. \A i \in 1..Len(pending) : map[pending[i]] # PagesRef
    BY <2>1 DEF IInv, Sound
  <2>3. drawn # NoObj => map[drawn] # PagesRef
    BY <2>1 DEF IInv, Sound
  <2>4. Sound(slots, map, pending, drawn)
    BY DEF IInv
  <2>5. Sound([slots EXCEPT ![PagesRef] = body], map, pending, drawn)
    BY <1>1, <2>2, <2>3, <2>4, FillingIsSound
  <2>. QED
    BY <1>3, <2>5
<1>5. slots' \in Seq(SlotType) /\ slots' # <<>> /\ Len(slots') = Len(slots)
  BY <1>1, <1>2, <1>3
<1>6. outcome' \in {"open", "written", "refused"}
  BY DEF Finish
<1>7. TypeOK'
  BY <1>3, <1>5, <1>6 DEF Finish, IInv, TypeOK, Slots, Turn
<1>. QED
  BY <1>4, <1>7 DEF IInv, DrawnByACall, Finish

LEMMA NextInv == IInv /\ [Next]_vars => IInv'
<1> SUFFICES ASSUME IInv, [Next]_vars
             PROVE  IInv'
  OBVIOUS
<1>1. CASE \E r \in Objects : Reference(r) \/ Substitute(r) \/ Page(r)
  BY <1>1, ReferenceInv, SubstituteInv, PageInv
<1>2. CASE Document
  BY <1>2, DocumentInv
<1>3. CASE Drain
  BY <1>3, FillSubstituteInv, DrawInv, CopyInv, GiveUpInv, ReturnInv DEF Drain, CopyFails
<1>4. CASE DropCall
  BY <1>4, GiveUpInv DEF DropCall
<1>5. CASE NextSource
  BY <1>5, NextSourceInv
<1>6. CASE Finish
  BY <1>6, FinishInv
<1>7. CASE UNCHANGED vars
  BY <1>7 DEF vars, IInv, TypeOK, Sound, DrawnByACall, Slots, Turn
<1>. QED
  BY <1>1, <1>2, <1>3, <1>4, <1>5, <1>6, <1>7 DEF Next

\* `fill` never finds a slot full, whatever the sources look like, however often
\* one of their objects is met and wherever calls are dropped or fail.
THEOREM NothingIsCopiedTwice == Spec => []NeverFilledTwice
<1>1. Init => IInv
  BY InitInv
<1>2. IInv /\ [Next]_vars => IInv'
  BY NextInv
<1>3. IInv => NeverFilledTwice
  <2> SUFFICES ASSUME IInv PROVE NeverFilledTwice
    OBVIOUS
  <2>1. DOMAIN pending = 1..Len(pending)
    BY DEF IInv, TypeOK
  <2>. QED
    BY <2>1 DEF IInv, Sound, NeverFilledTwice
<1>. QED
  BY <1>1, <1>2, <1>3, PTL DEF Spec

-----------------------------------------------------------------------------
\* A slot comes from a source so far, and every slot behind the page tree's from
\* an object of it; what the map gives an object was made for it, and so was
\* what replaces it.
OriginsInv ==
    /\ \A n \in 1..Len(slots) : slots[n].from[1] \in 0..Turn
    /\ \A n \in 2..Len(slots) : slots[n].from[1] # 0 /\ slots[n].from[2] \in Objects
    /\ \A x \in DOMAIN map : slots[map[x]].from = <<Turn, x>>
    /\ \A x \in DOMAIN substitutions :
          /\ substitutions[x].from = <<Turn, x>> /\ substitutions[x].full
          /\ substitutions[x].type \in {"substitute", "page"}

\* Where the objects of the slots not yet filled are.
Held ==
    lost \cup {<<Turn, pending[i]>> : i \in 1..Len(pending)}
         \cup {<<Turn, x>> : x \in {drawn} \ {NoObj}}

\* A slot not yet filled is held, and in this turn's map; a file that is written
\* has none, and no call is under way on one that is finished.
HolesInv ==
    /\ \A n \in 2..Len(slots) : ~slots[n].full =>
          /\ slots[n].from \in Held
          /\ slots[n].from[1] = Turn =>
                slots[n].from[2] \in DOMAIN map /\ map[slots[n].from[2]] = n
    /\ outcome = "written" => \A n \in 1..Len(slots) : slots[n].full
    /\ outcome # "open" => call = Idle

\* In slots sl over sources ins, body b leads to the copies of what the object it is made from leads to.
Leads(b, sl, ins) ==
    /\ b.refs \subseteq 2..Len(sl) /\ b.parent \in 0..Len(sl)
    /\ b.type \in {"copy", "substitute"} =>
          LET node == ins[b.from[1]][b.from[2]]
          IN  /\ {sl[m].from : m \in b.refs} = {b.from[1]} \X node.refs
              /\ b.parent # 0 => sl[b.parent].from = <<b.from[1], node.parent>>

ShapeInv ==
    /\ \A n \in 1..Len(slots) : slots[n].full => Leads(slots[n], slots, inputs)
    /\ \A n \in 1..Len(slots) : ~slots[n].full => slots[n].refs = {}
    /\ \A x \in DOMAIN substitutions : Leads(substitutions[x], slots, inputs)
    /\ slots[PagesRef].full => slots[PagesRef].type = "tree"

\* What the copies lead to, page tree aside.
Referenced ==
    (UNION {slots[n].refs : n \in 2..Len(slots)})
    \cup (UNION {substitutions[x].refs : x \in DOMAIN substitutions})

\* Nothing is referred to under two numbers, and what this turn's objects are
\* referred to as is what the map says.
SharingInv ==
    /\ \A n, m \in Referenced : slots[n].from = slots[m].from => n = m
    /\ \A n \in Referenced : slots[n].from[1] = Turn =>
          slots[n].from[2] \in DOMAIN map /\ map[slots[n].from[2]] = n

\* A page object under the caller's node.
PageBody(b) == b.full /\ b.type = "page" /\ b.parent = PagesRef

\* The pages returned have slots of their own, filled as pages; the page a call
\* makes has one, or waits for its substituted body.
PagesInv ==
    /\ \A i \in 1..Len(kids) :
          /\ kids[i].slot \in 2..Len(slots) /\ PageBody(slots[kids[i].slot])
          /\ slots[kids[i].slot].from[2] = kids[i].page
    /\ \A i, j \in 1..Len(kids) : kids[i].slot = kids[j].slot => i = j
    /\ call \notin {Idle, Finishing} =>
          /\ call.slot \in 2..Len(slots)
          /\ \A i \in 1..Len(kids) : kids[i].slot # call.slot
          /\ slots[call.slot].from[2] = call.page
          /\ \/ PageBody(slots[call.slot])
             \/ \E i \in 1..Len(pending) :
                   /\ pending[i] \in DOMAIN substitutions /\ map[pending[i]] = call.slot
                   /\ PageBody(substitutions[pending[i]])

Traced == OriginsInv /\ HolesInv /\ ShapeInv /\ SharingInv /\ PagesInv

-----------------------------------------------------------------------------
\* What a step does to slots and map: it adds objects to the map, each with its
\* slot reserved and itself queued, and puts body b into slot n, 0 being none.
Effect(n, b) ==
    /\ UNCHANGED inputs
    /\ Len(slots) <= Len(slots')
    /\ \A k \in 1..Len(slots) : k # n => slots'[k] = slots[k]
    /\ \A k \in (Len(slots) + 1)..Len(slots') : k # n =>
          \E x \in DOMAIN map' \ DOMAIN map :
             /\ map'[x] = k /\ slots'[k] = Reserved(<<Turn, x>>)
             /\ \E i \in 1..Len(pending') : pending'[i] = x
    /\ DOMAIN map \subseteq DOMAIN map' /\ \A x \in DOMAIN map : map'[x] = map[x]
    /\ \A x \in DOMAIN map' \ DOMAIN map :
          map'[x] \in (Len(slots) + 1)..Len(slots') /\ map'[x] # n
    /\ n \in 0..Len(slots') /\ n # PagesRef
    /\ n # 0 =>
          /\ slots'[n] = b /\ b.full
          /\ n \in 1..Len(slots) => b.from = slots[n].from
          /\ n \in 2..Len(slots) => ~slots[n].full
          /\ n \notin 1..Len(slots) => b.from \in {Turn} \X Objects

\* Lengths of the slots.
LEMMA Sizes ==
    ASSUME IInv
    PROVE  /\ Len(slots) \in Nat \ {0} /\ Turn \in Nat \ {0} /\ Turn = Len(inputs)
           /\ Len(pending) \in Nat /\ Len(kids) \in Nat /\ DOMAIN kids = 1..Len(kids)
           /\ slots \in Seq(SlotType) /\ \A n \in 1..Len(slots) : slots[n] \in SlotType
           /\ \A x \in DOMAIN map : x \in Objects /\ map[x] \in 2..Len(slots)
           /\ \A i \in 1..Len(pending) : pending[i] \in Objects /\ pending[i] \in DOMAIN map
           /\ \A i \in 1..Len(kids) : kids[i] \in CallType
           /\ NoObj \notin Objects
<1>1. /\ slots \in Seq(SlotType) /\ slots # <<>> /\ kids \in Seq(CallType)
      /\ pending \in Seq(Objects) /\ inputs \in Seq(Files) /\ Turn = Len(inputs)
      /\ Turn \in 1..MaxImporters /\ DOMAIN map \subseteq Objects
  BY DEF IInv, TypeOK, Turn
<1>2. Len(slots) \in Nat \ {0} /\ Turn \in Nat \ {0}
  BY <1>1, ImporterAssumption
<1>3. \A x \in DOMAIN map : map[x] \in 2..Len(slots)
  BY DEF IInv, Sound
<1>4. \A i \in 1..Len(pending) : pending[i] \in DOMAIN map
  BY DEF IInv, Sound
<1>. QED
  BY <1>1, <1>2, <1>3, <1>4, ImporterAssumption

\* The origins of the slots there were stay, and those of the new ones are right.
LEMMA EffectOrigins ==
    ASSUME IInv, IInv', OriginsInv, NEW n, NEW b, Effect(n, b)
    PROVE  /\ \A k \in 1..Len(slots) : k \in 1..Len(slots') /\ slots'[k].from = slots[k].from
           /\ Turn' = Turn
           /\ \A k \in (Len(slots) + 1)..Len(slots') : slots'[k].from \in {Turn} \X Objects
           /\ \A k \in 1..Len(slots') : slots'[k].from[1] \in 0..Turn'
           /\ \A k \in 2..Len(slots') : slots'[k].from[1] # 0 /\ slots'[k].from[2] \in Objects
           /\ \A x \in DOMAIN map' : slots'[map'[x]].from = <<Turn', x>>
<1>1. /\ Len(slots) \in Nat \ {0} /\ Len(slots') \in Nat \ {0} /\ Len(slots) <= Len(slots')
      /\ Turn' = Turn /\ Turn \in Nat \ {0}
  BY Sizes DEF Effect, Turn
<1>2. ASSUME NEW k \in 1..Len(slots)
      PROVE  k \in 1..Len(slots') /\ slots'[k].from = slots[k].from
  <2>1. k \in 1..Len(slots')
    BY <1>1
  <2>2. CASE k = n
    <3>1. n # 0
      BY <1>1, <2>2
    <3>. QED
      BY <2>1, <2>2, <3>1 DEF Effect
  <2>3. CASE k # n
    BY <2>1, <2>3 DEF Effect
  <2>. QED
    BY <2>2, <2>3
<1>3. ASSUME NEW k \in (Len(slots) + 1)..Len(slots')
      PROVE  slots'[k].from \in {Turn} \X Objects
  <2>1. CASE k = n
    <3>1. n # 0 /\ n \notin 1..Len(slots)
      BY <1>1, <2>1
    <3>. QED
      BY <2>1, <3>1 DEF Effect
  <2>2. CASE k # n
    <3>1. PICK x \in DOMAIN map' \ DOMAIN map : slots'[k] = Reserved(<<Turn, x>>)
      BY <2>2 DEF Effect
    <3>2. x \in Objects
      BY DEF IInv, TypeOK
    <3>. QED
      BY <3>1, <3>2 DEF Reserved
  <2>. QED
    BY <2>1, <2>2
<1>4. \A k \in 1..Len(slots') : k \in 1..Len(slots) \/ k \in (Len(slots) + 1)..Len(slots')
  BY <1>1
<1>5. ASSUME NEW k \in 1..Len(slots')
      PROVE  slots'[k].from[1] \in 0..Turn'
  <2>1. CASE k \in 1..Len(slots)
    BY <1>1, <1>2, <2>1 DEF OriginsInv
  <2>2. CASE k \in (Len(slots) + 1)..Len(slots')
    <3>1. slots'[k].from[1] = Turn
      BY <1>3, <2>2
    <3>. QED
      BY <1>1, <3>1
  <2>. QED
    BY <1>4, <2>1, <2>2
<1>6. ASSUME NEW k \in 2..Len(slots')
      PROVE  slots'[k].from[1] # 0 /\ slots'[k].from[2] \in Objects
  <2>1. CASE k \in 1..Len(slots)
    <3>1. k \in 2..Len(slots)
      BY <1>1, <2>1
    <3>. QED
      BY <1>2, <3>1, <2>1 DEF OriginsInv
  <2>2. CASE k \in (Len(slots) + 1)..Len(slots')
    <3>1. slots'[k].from[1] = Turn /\ slots'[k].from[2] \in Objects
      BY <1>3, <2>2
    <3>. QED
      BY <1>1, <3>1
  <2>. QED
    BY <1>1, <1>4, <2>1, <2>2
<1>7. ASSUME NEW x \in DOMAIN map'
      PROVE  slots'[map'[x]].from = <<Turn', x>>
  <2>1. CASE x \in DOMAIN map
    <3>1. map'[x] = map[x] /\ map[x] \in 1..Len(slots)
      BY <2>1, Sizes DEF Effect
    <3>. QED
      BY <1>1, <1>2, <2>1, <3>1 DEF OriginsInv
  <2>2. CASE x \notin DOMAIN map
    <3>1. map'[x] \in (Len(slots) + 1)..Len(slots') /\ map'[x] # n
      BY <2>2 DEF Effect
    <3>2. PICK y \in DOMAIN map' \ DOMAIN map :
             map'[y] = map'[x] /\ slots'[map'[x]] = Reserved(<<Turn, y>>)
      BY <3>1 DEF Effect
    <3>3. y = x
      BY <3>2 DEF IInv, Sound
    <3>. QED
      BY <1>1, <3>2, <3>3 DEF Reserved
  <2>. QED
    BY <2>1, <2>2
<1>. QED
  BY <1>1, <1>2, <1>3, <1>5, <1>6, <1>7

\* A body goes on leading to where it led.
LEMMA LeadsOn ==
    ASSUME NEW b, NEW sl, NEW sl2, NEW ins, Leads(b, sl, ins),
           Len(sl) \in Nat, Len(sl2) \in Nat, Len(sl) <= Len(sl2),
           \A k \in 1..Len(sl) : sl2[k].from = sl[k].from
    PROVE  Leads(b, sl2, ins)
<1>1. /\ b.refs \subseteq 2..Len(sl) /\ b.parent \in 0..Len(sl)
  BY DEF Leads
<1>2. \A m \in b.refs : sl2[m].from = sl[m].from
  BY <1>1
<1>3. b.parent # 0 => sl2[b.parent].from = sl[b.parent].from
  BY <1>1
<1>4. b.refs \subseteq 2..Len(sl2) /\ b.parent \in 0..Len(sl2)
  BY <1>1
<1>5. {sl2[m].from : m \in b.refs} = {sl[m].from : m \in b.refs}
  BY <1>2
<1>. QED
  BY <1>3, <1>4, <1>5 DEF Leads

\* The slots keep the shape of what they are copied from.
LEMMA EffectShape ==
    ASSUME IInv, IInv', OriginsInv, ShapeInv, NEW n, NEW b, Effect(n, b),
           n # 0 => Leads(b, slots', inputs'),
           \A x \in DOMAIN substitutions' :
              \/ x \in DOMAIN substitutions /\ substitutions'[x] = substitutions[x]
              \/ Leads(substitutions'[x], slots', inputs')
    PROVE  ShapeInv'
<1>1. /\ Len(slots) \in Nat \ {0} /\ Len(slots') \in Nat \ {0} /\ Len(slots) <= Len(slots')
      /\ inputs' = inputs
  BY Sizes DEF Effect
<1>2. \A k \in 1..Len(slots) : slots'[k].from = slots[k].from
  BY EffectOrigins
<1>3. ASSUME NEW k \in 1..Len(slots')
      PROVE  /\ slots'[k].full => Leads(slots'[k], slots', inputs')
             /\ ~slots'[k].full => slots'[k].refs = {}
  <2>1. CASE k = n
    <3>1. n # 0 /\ slots'[k] = b /\ b.full
      BY <1>1, <2>1 DEF Effect
    <3>. QED
      BY <2>1, <3>1
  <2>2. CASE k # n /\ k \in 1..Len(slots)
    <3>1. slots'[k] = slots[k]
      BY <2>2 DEF Effect
    <3>2. CASE slots[k].full
      <4>1. Leads(slots[k], slots, inputs)
        BY <2>2, <3>2 DEF ShapeInv
      <4> DEFINE c == slots[k]
      <4>2. Leads(c, slots, inputs)
        BY <4>1
      <4>. HIDE DEF c
      <4>3. Leads(c, slots', inputs)
        BY <1>1, <1>2, <4>2, LeadsOn
      <4>. QED
        BY <1>1, <3>1, <3>2, <4>3 DEF c
    <3>3. CASE ~slots[k].full
      BY <2>2, <3>1, <3>3 DEF ShapeInv
    <3>. QED
      BY <3>2, <3>3
  <2>3. CASE k # n /\ k \notin 1..Len(slots)
    <3>1. k \in (Len(slots) + 1)..Len(slots')
      BY <1>1, <2>3
    <3>2. PICK x : slots'[k] = Reserved(<<Turn, x>>)
      BY <2>3, <3>1 DEF Effect
    <3>. QED
      BY <3>2 DEF Reserved
  <2>. QED
    BY <2>1, <2>2, <2>3
<1>4. ASSUME NEW x \in DOMAIN substitutions'
      PROVE  Leads(substitutions'[x], slots', inputs')
  <2>1. CASE x \in DOMAIN substitutions /\ substitutions'[x] = substitutions[x]
    <3> DEFINE c == substitutions[x]
    <3>1. Leads(c, slots, inputs)
      BY <2>1 DEF ShapeInv
    <3>. HIDE DEF c
    <3>2. Leads(c, slots', inputs)
      BY <1>1, <1>2, <3>1, LeadsOn
    <3>. QED
      BY <1>1, <2>1, <3>2 DEF c
  <2>. QED
    BY <2>1
<1>5. slots'[PagesRef].full => slots'[PagesRef].type = "tree"
  <2>1. slots'[PagesRef] = slots[PagesRef]
    BY <1>1 DEF Effect, PagesRef
  <2>. QED
    BY <2>1 DEF ShapeInv
<1>. QED
  BY <1>3, <1>4, <1>5 DEF ShapeInv

\* What is referred to is a slot.
LEMMA ReferencedAreSlots ==
    ASSUME IInv, ShapeInv, NEW k \in Referenced
    PROVE  k \in 1..Len(slots)
<1>1. CASE \E j \in 2..Len(slots) : k \in slots[j].refs
  <2>1. PICK j \in 2..Len(slots) : k \in slots[j].refs
    BY <1>1
  <2>2. j \in 1..Len(slots) /\ slots[j].refs # {}
    BY <2>1, Sizes
  <2>3. slots[j].full
    BY <2>2 DEF ShapeInv
  <2>4. slots[j].refs \subseteq 2..Len(slots)
    BY <2>2, <2>3 DEF ShapeInv, Leads
  <2>. QED
    BY <2>1, <2>4, Sizes
<1>2. CASE \E x \in DOMAIN substitutions : k \in substitutions[x].refs
  <2>1. PICK x \in DOMAIN substitutions : k \in substitutions[x].refs
    BY <1>2
  <2>2. substitutions[x].refs \subseteq 2..Len(slots)
    BY <2>1 DEF ShapeInv, Leads
  <2>. QED
    BY <2>1, <2>2, Sizes
<1>. QED
  BY <1>1, <1>2 DEF Referenced

\* Nothing is referred to under two numbers.
LEMMA EffectSharing ==
    ASSUME IInv, IInv', OriginsInv, SharingInv, ShapeInv, NEW n, NEW b, Effect(n, b),
           Referenced' \subseteq Referenced \cup {map'[x] : x \in DOMAIN map'}
    PROVE  SharingInv'
<1>1. /\ \A k \in 1..Len(slots) : slots'[k].from = slots[k].from
      /\ \A x \in DOMAIN map' : slots'[map'[x]].from = <<Turn', x>>
      /\ Turn' = Turn
  BY EffectOrigins
<1>2. DOMAIN map \subseteq DOMAIN map' /\ \A x \in DOMAIN map : map'[x] = map[x]
  BY DEF Effect
<1>3. ASSUME NEW k \in Referenced PROVE k \in 1..Len(slots)
  BY ReferencedAreSlots
<1>4. ASSUME NEW k \in Referenced'
      PROVE  /\ slots'[k].from[1] = Turn' =>
                   slots'[k].from[2] \in DOMAIN map' /\ map'[slots'[k].from[2]] = k
             /\ k \notin Referenced => slots'[k].from[1] = Turn'
  <2>1. CASE k \in Referenced
    <3>1. slots'[k].from = slots[k].from
      BY <1>1, <1>3, <2>1
    <3>. QED
      BY <1>1, <1>2, <2>1, <3>1 DEF SharingInv
  <2>2. CASE k \notin Referenced
    <3>1. PICK x \in DOMAIN map' : k = map'[x]
      BY <2>2
    <3>. QED
      BY <1>1, <3>1
  <2>. QED
    BY <2>1, <2>2
<1>5. ASSUME NEW k \in Referenced', NEW j \in Referenced', slots'[k].from = slots'[j].from
      PROVE  k = j
  <2>1. CASE slots'[k].from[1] = Turn'
    BY <1>4, <1>5, <2>1
  <2>2. CASE slots'[k].from[1] # Turn'
    <3>1. k \in Referenced /\ j \in Referenced
      BY <1>4, <1>5, <2>2
    <3>2. slots[k].from = slots[j].from
      BY <1>1, <1>3, <1>5, <3>1
    <3>. QED
      BY <3>1, <3>2 DEF SharingInv
  <2>. QED
    BY <2>1, <2>2
<1>. QED
  BY <1>4, <1>5 DEF SharingInv

\* The slots not yet filled are held.
LEMMA EffectHoles ==
    ASSUME IInv, IInv', OriginsInv, HolesInv, NEW n, NEW b, Effect(n, b),
           \A f \in Held : f \in Held' \/ (n \in 2..Len(slots) /\ f = slots[n].from),
           n \in 2..Len(slots) => slots[n].from[1] = Turn,
           outcome = "open", outcome' = "open"
    PROVE  HolesInv'
<1>1. /\ Len(slots) \in Nat \ {0} /\ Len(slots') \in Nat \ {0} /\ Len(slots) <= Len(slots')
      /\ Turn' = Turn
  BY Sizes DEF Effect, Turn
<1>2. DOMAIN map \subseteq DOMAIN map' /\ \A x \in DOMAIN map : map'[x] = map[x]
  BY DEF Effect
<1>3. ASSUME NEW k \in 2..Len(slots'), ~slots'[k].full
      PROVE  /\ slots'[k].from \in Held'
             /\ slots'[k].from[1] = Turn' =>
                   slots'[k].from[2] \in DOMAIN map' /\ map'[slots'[k].from[2]] = k
  <2>1. k # n
    BY <1>1, <1>3 DEF Effect
  <2>2. CASE k \in 1..Len(slots)
    <3>1. slots'[k] = slots[k] /\ k \in 2..Len(slots)
      BY <1>1, <2>1, <2>2 DEF Effect
    <3>2. /\ slots[k].from \in Held
          /\ slots[k].from[1] = Turn =>
                slots[k].from[2] \in DOMAIN map /\ map[slots[k].from[2]] = k
      BY <1>3, <3>1 DEF HolesInv
    <3>3. ASSUME n \in 2..Len(slots), slots[k].from = slots[n].from PROVE FALSE
      <4>1. slots[n].from[1] = Turn /\ ~slots[n].full
        BY <1>1, <3>3 DEF Effect
      <4>2. map[slots[n].from[2]] = n
        BY <3>3, <4>1 DEF HolesInv
      <4>. QED
        BY <2>1, <3>2, <3>3, <4>1, <4>2
    <3>4. slots'[k].from \in Held'
      BY <3>1, <3>2, <3>3
    <3>. QED
      BY <1>1, <1>2, <3>1, <3>2, <3>4
  <2>3. CASE k \notin 1..Len(slots)
    <3>1. k \in (Len(slots) + 1)..Len(slots')
      BY <1>1, <2>3
    <3>2. PICK x \in DOMAIN map' \ DOMAIN map :
             /\ map'[x] = k /\ slots'[k] = Reserved(<<Turn, x>>)
             /\ \E i \in 1..Len(pending') : pending'[i] = x
      BY <2>1, <3>1 DEF Effect
    <3>3. slots'[k].from = <<Turn', x>>
      BY <1>1, <3>2 DEF Reserved
    <3>4. slots'[k].from \in Held'
      BY <3>2, <3>3 DEF Held
    <3>. QED
      BY <3>2, <3>3, <3>4
  <2>. QED
    BY <2>2, <2>3
<1>. QED
  BY <1>3 DEF HolesInv

\* What the step may put in place of object x.
Replaces(x) ==
    \/ x \in DOMAIN substitutions /\ substitutions'[x] = substitutions[x]
    \/ /\ substitutions'[x].from = <<Turn, x>> /\ substitutions'[x].full
       /\ substitutions'[x].type \in {"substitute", "page"}
       /\ Leads(substitutions'[x], slots', inputs')
       /\ substitutions'[x].refs \subseteq {map'[y] : y \in DOMAIN map'}

LEMMA EffectReferenced ==
    ASSUME IInv, IInv', NEW n, NEW b, Effect(n, b),
           n \in 2..Len(slots') => b.refs \subseteq Referenced \cup {map'[y] : y \in DOMAIN map'},
           \A x \in DOMAIN substitutions' : Replaces(x)
    PROVE  Referenced' \subseteq Referenced \cup {map'[y] : y \in DOMAIN map'}
<1> DEFINE all == Referenced \cup {map'[y] : y \in DOMAIN map'}
<1>1. /\ Len(slots) \in Nat \ {0} /\ Len(slots') \in Nat \ {0} /\ Len(slots) <= Len(slots')
  BY Sizes DEF Effect
<1>2. ASSUME NEW k \in 2..Len(slots') PROVE slots'[k].refs \subseteq all
  <2>1. CASE k = n
    <3>1. n # 0
      BY <1>1, <2>1
    <3>. QED
      BY <2>1, <3>1 DEF Effect
  <2>2. CASE k # n /\ k \in 1..Len(slots)
    <3>1. slots'[k] = slots[k] /\ k \in 2..Len(slots)
      BY <1>1, <2>2 DEF Effect
    <3>. QED
      BY <3>1 DEF Referenced
  <2>3. CASE k # n /\ k \notin 1..Len(slots)
    <3>1. k \in (Len(slots) + 1)..Len(slots')
      BY <1>1, <2>3
    <3>2. PICK x : slots'[k] = Reserved(<<Turn, x>>)
      BY <2>3, <3>1 DEF Effect
    <3>. QED
      BY <3>2 DEF Reserved
  <2>. QED
    BY <2>1, <2>2, <2>3
<1>3. ASSUME NEW x \in DOMAIN substitutions' PROVE substitutions'[x].refs \subseteq all
  BY DEF Replaces, Referenced
<1>. QED
  BY <1>2, <1>3 DEF Referenced

\* The pages returned so far are left alone.
LEMMA KidsStay ==
    ASSUME IInv, IInv', PagesInv, NEW n, NEW b, Effect(n, b), UNCHANGED kids
    PROVE  /\ \A i \in 1..Len(kids') :
                 /\ kids'[i].slot \in 2..Len(slots') /\ PageBody(slots'[kids'[i].slot])
                 /\ slots'[kids'[i].slot].from[2] = kids'[i].page
           /\ \A i, j \in 1..Len(kids') : kids'[i].slot = kids'[j].slot => i = j
<1>1. /\ Len(slots) \in Nat \ {0} /\ Len(slots') \in Nat \ {0} /\ Len(slots) <= Len(slots')
  BY Sizes DEF Effect
<1>2. ASSUME NEW i \in 1..Len(kids)
      PROVE  kids[i].slot \in 2..Len(slots') /\ slots'[kids[i].slot] = slots[kids[i].slot]
  <2> DEFINE k == kids[i].slot
  <2>1. k \in 2..Len(slots) /\ slots[k].full
    BY DEF PagesInv, PageBody
  <2>. HIDE DEF k
  <2>2. k \in 1..Len(slots) /\ k \in 2..Len(slots')
    BY <1>1, <2>1
  <2>3. k # n
    <3>1. SUFFICES ASSUME k = n PROVE FALSE
      OBVIOUS
    <3>2. n # 0
      BY <1>1, <2>1, <3>1
    <3>. QED
      BY <2>1, <3>1, <3>2 DEF Effect
  <2>4. slots'[k] = slots[k]
    BY <2>2, <2>3 DEF Effect
  <2>. QED
    BY <2>2, <2>4 DEF k
<1>. QED
  BY <1>2 DEF PagesInv

\* The page of the call under way waits on, or gets its body.
LEMMA CallGoesOn ==
    ASSUME IInv, IInv', OriginsInv, PagesInv, NEW n, NEW b, Effect(n, b),
           UNCHANGED <<kids, call>>,
           \A i \in 1..Len(pending) : pending[i] \in DOMAIN substitutions =>
              \/ \E j \in 1..Len(pending') :
                    /\ pending'[j] = pending[i] /\ pending[i] \in DOMAIN substitutions'
                    /\ substitutions'[pending[i]] = substitutions[pending[i]]
              \/ n = map[pending[i]] /\ b = substitutions[pending[i]]
    PROVE  PagesInv'
<1>1. /\ Len(slots) \in Nat \ {0} /\ Len(slots') \in Nat \ {0} /\ Len(slots) <= Len(slots')
  BY Sizes DEF Effect
<1>2. ASSUME call' \notin {Idle, Finishing}
      PROVE  /\ call'.slot \in 2..Len(slots')
             /\ \A i \in 1..Len(kids') : kids'[i].slot # call'.slot
             /\ slots'[call'.slot].from[2] = call'.page
             /\ \/ PageBody(slots'[call'.slot])
                \/ \E i \in 1..Len(pending') :
                      /\ pending'[i] \in DOMAIN substitutions' /\ map'[pending'[i]] = call'.slot
                      /\ PageBody(substitutions'[pending'[i]])
  <2>1. /\ call.slot \in 2..Len(slots)
        /\ \A i \in 1..Len(kids) : kids[i].slot # call.slot
        /\ slots[call.slot].from[2] = call.page
        /\ \/ PageBody(slots[call.slot])
           \/ \E i \in 1..Len(pending) :
                 /\ pending[i] \in DOMAIN substitutions /\ map[pending[i]] = call.slot
                 /\ PageBody(substitutions[pending[i]])
    BY <1>2 DEF PagesInv
  <2>2. /\ call.slot \in 1..Len(slots) /\ call.slot \in 2..Len(slots')
        /\ slots'[call.slot].from = slots[call.slot].from
    BY <1>1, <2>1, EffectOrigins
  <2>3. CASE PageBody(slots[call.slot])
    <3>1. call.slot # n
      <4>1. SUFFICES ASSUME call.slot = n PROVE FALSE
        OBVIOUS
      <4>2. n # 0
        BY <1>1, <2>1, <4>1
      <4>. QED
        BY <2>1, <2>3, <4>1, <4>2 DEF Effect, PageBody
    <3>2. slots'[call.slot] = slots[call.slot]
      BY <2>2, <3>1 DEF Effect
    <3>. QED
      BY <2>1, <2>2, <2>3, <3>2
  <2>4. ASSUME NEW i \in 1..Len(pending),
               pending[i] \in DOMAIN substitutions, map[pending[i]] = call.slot,
               PageBody(substitutions[pending[i]])
        PROVE  \/ PageBody(slots'[call'.slot])
               \/ \E j \in 1..Len(pending') :
                     /\ pending'[j] \in DOMAIN substitutions' /\ map'[pending'[j]] = call'.slot
                     /\ PageBody(substitutions'[pending'[j]])
    <3>1. CASE \E j \in 1..Len(pending') :
                  /\ pending'[j] = pending[i] /\ pending[i] \in DOMAIN substitutions'
                  /\ substitutions'[pending[i]] = substitutions[pending[i]]
      <4>1. PICK j \in 1..Len(pending') :
                  /\ pending'[j] = pending[i] /\ pending[i] \in DOMAIN substitutions'
                  /\ substitutions'[pending[i]] = substitutions[pending[i]]
        BY <3>1
      <4>2. map'[pending[i]] = map[pending[i]]
        BY Sizes DEF Effect
      <4>. QED
        BY <2>4, <4>1, <4>2
    <3>2. CASE n = map[pending[i]] /\ b = substitutions[pending[i]]
      <4>1. n # 0
        BY <1>1, <2>1, <2>4, <3>2
      <4>. QED
        BY <2>4, <3>2, <4>1 DEF Effect
    <3>. QED
      BY <2>4, <3>1, <3>2
  <2>. QED
    BY <2>1, <2>2, <2>3, <2>4
<1>. QED
  BY <1>2, KidsStay DEF PagesInv

\* A step of an open writer that has such an effect keeps the whole invariant.
LEMMA TracedStep ==
    ASSUME IInv, IInv', Traced, NEW n, NEW b, Effect(n, b),
           n # 0 => Leads(b, slots', inputs'),
           n \in 2..Len(slots') => b.refs \subseteq Referenced \cup {map'[y] : y \in DOMAIN map'},
           n \in 2..Len(slots) => slots[n].from[1] = Turn,
           \A x \in DOMAIN substitutions' : Replaces(x),
           \A f \in Held : f \in Held' \/ (n \in 2..Len(slots) /\ f = slots[n].from),
           outcome = "open", outcome' = "open", PagesInv'
    PROVE  Traced'
<1>1. OriginsInv'
  <2>1. Turn' = Turn
    BY EffectOrigins DEF Traced
  <2>2. ASSUME NEW x \in DOMAIN substitutions'
        PROVE  /\ substitutions'[x].from = <<Turn', x>> /\ substitutions'[x].full
               /\ substitutions'[x].type \in {"substitute", "page"}
    BY <2>1 DEF Replaces, Traced, OriginsInv
  <2>. QED
    BY <2>2, EffectOrigins DEF Traced, OriginsInv
<1>2. ShapeInv'
  <2>1. \A x \in DOMAIN substitutions' :
           \/ x \in DOMAIN substitutions /\ substitutions'[x] = substitutions[x]
           \/ Leads(substitutions'[x], slots', inputs')
    BY DEF Replaces
  <2>. QED
    BY <2>1, EffectShape DEF Traced
<1>3. SharingInv'
  BY EffectReferenced, EffectSharing DEF Traced
<1>4. HolesInv'
  BY EffectHoles DEF Traced
<1>. QED
  BY <1>1, <1>2, <1>3, <1>4 DEF Traced

-----------------------------------------------------------------------------
\* Slots g become the writer's, with body b in slot n, if any; it is pushed when
\* n is behind them.
Puts(n, b, g) ==
    /\ n # PagesRef
    /\ \/ n \in 0..Len(slots) /\ Len(slots') = Len(g)
       \/ n = Len(g) + 1 /\ Len(slots') = Len(g) + 1
    /\ \A k \in 1..Len(g) : k # n => slots'[k] = g[k]
    /\ n # 0 =>
          /\ slots'[n] = b /\ b.full
          /\ n \in 1..Len(slots) => b.from = slots[n].from
          /\ n \in 2..Len(slots) => ~slots[n].full
          /\ n \notin 1..Len(slots) => b.from \in {Turn} \X Objects

\* The effect of a growth that puts a body into a slot.
LEMMA GrowthEffect ==
    ASSUME IInv, NEW S \in SUBSET (Objects \ DOMAIN map), NEW order, Lists(order, S),
           map' = Numbered(order), pending' = Queued(order), UNCHANGED inputs,
           NEW n, NEW b, Puts(n, b, Grown(order))
    PROVE  /\ Effect(n, b)
           /\ DOMAIN map' = DOMAIN map \cup S
           /\ \A i \in 1..Len(pending) : i \in 1..Len(pending') /\ pending'[i] = pending[i]
<1>0. /\ n # PagesRef
      /\ \/ n \in 0..Len(slots) /\ Len(slots') = Len(Grown(order))
         \/ n = Len(Grown(order)) + 1 /\ Len(slots') = Len(Grown(order)) + 1
      /\ \A k \in 1..Len(Grown(order)) : k # n => slots'[k] = Grown(order)[k]
      /\ n # 0 =>
          /\ slots'[n] = b /\ b.full
          /\ n \in 1..Len(slots) => b.from = slots[n].from
          /\ n \in 2..Len(slots) => ~slots[n].full
          /\ n \notin 1..Len(slots) => b.from \in {Turn} \X Objects
  BY DEF Puts
<1> DEFINE L == Len(slots)
           K == Len(order)
           g == Grown(order)
<1>1. Growth(order, S)
  BY Growing
<1>2. /\ L \in Nat \ {0} /\ K \in Nat /\ Len(g) = L + K
      /\ \A k \in 1..L : g[k] = slots[k]
      /\ \A i \in 1..K : g[L + i] = Reserved(<<Turn, order[i]>>)
      /\ DOMAIN map' = DOMAIN map \cup S
      /\ \A x \in DOMAIN map : map'[x] = map[x]
      /\ \A i \in 1..K : map'[order[i]] = L + i
      /\ Len(pending) \in Nat /\ Len(pending') = Len(pending) + K
      /\ \A i \in 1..Len(pending) : pending'[i] = pending[i]
      /\ \A i \in 1..K : pending'[Len(pending) + i] = order[i]
  BY <1>1 DEF Growth
<1>3. /\ \A x \in S : \E i \in 1..K : order[i] = x
      /\ \A i \in 1..K : order[i] \in S /\ order[i] \notin DOMAIN map
  BY DEF Lists
<1>. HIDE DEF g, L, K
<1>4. /\ L <= Len(slots') /\ Len(g) <= Len(slots') /\ Len(slots') \in Nat
      /\ n \in 0..L \/ n = L + K + 1
      /\ n \in 0..Len(slots')
      /\ \A k \in 1..Len(slots') : k # n => k \in 1..(L + K)
  BY <1>0, <1>2 DEF g, L
<1>5. \A k \in 1..(L + K) : k # n => slots'[k] = g[k]
  BY <1>0, <1>2 DEF g
<1>6. \A k \in 1..L : k # n => slots'[k] = slots[k]
  BY <1>2, <1>5
<1>7. ASSUME NEW k \in (L + 1)..Len(slots'), k # n
      PROVE  \E x \in DOMAIN map' \ DOMAIN map :
                /\ map'[x] = k /\ slots'[k] = Reserved(<<Turn, x>>)
                /\ \E i \in 1..Len(pending') : pending'[i] = x
  <2> DEFINE i == k - L
  <2>1. k \in 1..(L + K)
    BY <1>2, <1>4, <1>7
  <2>2. i \in 1..K /\ L + i = k
    BY <1>2, <1>4, <1>7, <2>1
  <2>. HIDE DEF i
  <2>3. order[i] \in DOMAIN map' \ DOMAIN map /\ map'[order[i]] = k
    BY <1>2, <1>3, <2>2
  <2>4. slots'[k] = Reserved(<<Turn, order[i]>>)
    BY <1>2, <1>5, <1>7, <2>1, <2>2
  <2>5. Len(pending) + i \in 1..Len(pending') /\ pending'[Len(pending) + i] = order[i]
    <3>1. Len(pending) \in Nat /\ Len(pending') = Len(pending) + K /\ i \in 1..K /\ K \in Nat
      BY <1>2, <2>2
    <3>2. Len(pending) + i \in 1..Len(pending')
      BY <3>1
    <3>3. pending'[Len(pending) + i] = order[i]
      BY <1>2, <2>2
    <3>. QED
      BY <3>2, <3>3
  <2>. QED
    BY <2>3, <2>4, <2>5
<1>8. ASSUME NEW x \in DOMAIN map' \ DOMAIN map
      PROVE  map'[x] \in (L + 1)..Len(slots') /\ map'[x] # n
  <2>1. PICK i \in 1..K : order[i] = x
    BY <1>2, <1>3
  <2>2. map'[x] = L + i
    BY <1>2, <2>1
  <2>. QED
    BY <1>2, <1>4, <2>2
<1>9. Effect(n, b)
  BY <1>0, <1>2, <1>4, <1>6, <1>7, <1>8 DEF Effect, L
<1>10. \A i \in 1..Len(pending) : i \in 1..Len(pending') /\ pending'[i] = pending[i]
  BY <1>2
<1>. QED
  BY <1>2, <1>9, <1>10

\* What was held is held while the queue grows.
LEMMA HeldOn ==
    ASSUME UNCHANGED <<inputs, drawn, lost>>,
           \A i \in 1..Len(pending) : i \in 1..Len(pending') /\ pending'[i] = pending[i]
    PROVE  Held \subseteq Held'
<1>1. Turn' = Turn
  BY DEF Turn
<1>. QED
  BY <1>1 DEF Held

\* A call that is over, or makes no page, waits for none.
LEMMA NoPageWanted ==
    ASSUME IInv, IInv', PagesInv, NEW n, NEW b, Effect(n, b), UNCHANGED kids,
           call' \in {Idle, Finishing}
    PROVE  PagesInv'
BY KidsStay DEF PagesInv

\* What the map gives leads to copies of this source's objects.
LEMMA MapLeads ==
    ASSUME IInv, IInv', OriginsInv, NEW n, NEW b, Effect(n, b), NEW R \in SUBSET DOMAIN map'
    PROVE  /\ {map'[x] : x \in R} \subseteq 2..Len(slots')
           /\ {map'[x] : x \in R} \subseteq {map'[x] : x \in DOMAIN map'}
           /\ {slots'[k].from : k \in {map'[x] : x \in R}} = {Turn} \X R
<1>1. \A x \in DOMAIN map' : map'[x] \in 2..Len(slots') /\ slots'[map'[x]].from = <<Turn, x>>
  <2>1. Turn' = Turn /\ \A x \in DOMAIN map' : slots'[map'[x]].from = <<Turn', x>>
    BY EffectOrigins
  <2>2. \A x \in DOMAIN map' : map'[x] \in 2..Len(slots')
    BY DEF IInv, Sound
  <2>. QED
    BY <2>1, <2>2
<1>2. {slots'[k].from : k \in {map'[x] : x \in R}} = {<<Turn, x>> : x \in R}
  <2>1. ASSUME NEW x \in R PROVE slots'[map'[x]].from = <<Turn, x>>
    BY <1>1
  <2>. QED
    BY <2>1
<1>3. {<<Turn, x>> : x \in R} = {Turn} \X R
  OBVIOUS
<1>4. {map'[x] : x \in R} \subseteq 2..Len(slots')
  BY <1>1
<1>. QED
  BY <1>2, <1>3, <1>4

\* So does the body made of an object of it, and that of a page.
LEMMA BodyLeads ==
    ASSUME IInv, IInv', OriginsInv, NEW n, NEW b, Effect(n, b), NEW R \in SUBSET DOMAIN map',
           NEW c, c.refs = {map'[x] : x \in R}, NEW r,
           \/ c.type = "page" /\ c.parent = PagesRef
           \/ /\ c.from = <<Turn, r>> /\ R = Source[r].refs
              /\ \/ c.parent = 0
                 \/ Source[r].parent \in DOMAIN map' /\ c.parent = map'[Source[r].parent]
    PROVE  Leads(c, slots', inputs') /\ c.refs \subseteq {map'[x] : x \in DOMAIN map'}
<1>1. /\ {map'[x] : x \in R} \subseteq 2..Len(slots')
      /\ {map'[x] : x \in R} \subseteq {map'[x] : x \in DOMAIN map'}
      /\ {slots'[k].from : k \in {map'[x] : x \in R}} = {Turn} \X R
  BY MapLeads
<1>2. Len(slots') \in Nat \ {0} /\ inputs' = inputs
  BY Sizes DEF Effect
<1>3. c.refs \subseteq 2..Len(slots') /\ c.refs \subseteq {map'[x] : x \in DOMAIN map'}
  BY <1>1
<1>4. \A x \in DOMAIN map' : map'[x] \in 2..Len(slots') /\ slots'[map'[x]].from = <<Turn, x>>
  <2>1. Turn' = Turn /\ \A x \in DOMAIN map' : slots'[map'[x]].from = <<Turn', x>>
    BY EffectOrigins
  <2>2. \A x \in DOMAIN map' : map'[x] \in 2..Len(slots')
    BY DEF IInv, Sound
  <2>. QED
    BY <2>1, <2>2
<1>5. CASE c.type = "page" /\ c.parent = PagesRef
  <2>1. c.parent \in 0..Len(slots')
    BY <1>2, <1>5 DEF PagesRef
  <2>. QED
    BY <1>3, <1>5, <2>1 DEF Leads
<1>6. CASE /\ c.from = <<Turn, r>> /\ R = Source[r].refs
           /\ \/ c.parent = 0
              \/ Source[r].parent \in DOMAIN map' /\ c.parent = map'[Source[r].parent]
  <2>1. c.from[1] = Turn /\ inputs'[c.from[1]][c.from[2]] = Source[r]
    BY <1>2, <1>6 DEF Source
  <2>2. c.parent \in 0..Len(slots')
    BY <1>2, <1>4, <1>6
  <2>3. c.parent # 0 => slots'[c.parent].from = <<Turn, Source[r].parent>>
    BY <1>4, <1>6
  <2>4. {slots'[k].from : k \in c.refs} = {c.from[1]} \X Source[r].refs
    BY <1>1, <1>6, <2>1
  <2>. QED
    BY <1>3, <2>1, <2>2, <2>3, <2>4 DEF Leads
<1>. QED
  BY <1>5, <1>6

\* A call from outside that only grows the map, and may replace an object.
LEMMA GrowthTraced ==
    ASSUME IInv, IInv', Traced, NEW S \in SUBSET (Objects \ DOMAIN map),
           NEW order, Lists(order, S),
           slots' = Grown(order), map' = Numbered(order), pending' = Queued(order),
           UNCHANGED <<inputs, drawn, lost, kids, outcome>>, outcome = "open",
           \A x \in DOMAIN substitutions' : Replaces(x),
           call' \in {Idle, Finishing} \/ PagesInv'
    PROVE  Traced'
<1>1. /\ Effect(0, NoObj)
      /\ \A i \in 1..Len(pending) : i \in 1..Len(pending') /\ pending'[i] = pending[i]
  <2>1. Puts(0, NoObj, Grown(order))
    BY Sizes DEF PagesRef, Puts
  <2>. QED
    BY <2>1, GrowthEffect
<1>2. PagesInv'
  BY <1>1, NoPageWanted DEF Traced
<1>3. Held \subseteq Held'
  BY <1>1, HeldOn
<1>4. 0 \notin 2..Len(slots) /\ 0 \notin 2..Len(slots')
  BY Sizes
<1>. QED
  BY <1>1, <1>2, <1>3, <1>4, TracedStep

LEMMA ReferenceTraced ==
    ASSUME IInv, Traced, NEW r \in Objects, Reference(r)
    PROVE  Traced'
<1>1. Unseen({r}) \in SUBSET (Objects \ DOMAIN map) /\ Unseen({r}) \in SUBSET Objects
  BY DEF Unseen
<1>2. PICK order \in Orders(Unseen({r})) :
         slots' = Grown(order) /\ map' = Numbered(order) /\ pending' = Queued(order)
  BY DEF Reference
<1>3. Lists(order, Unseen({r})) /\ IInv'
  BY <1>1, OrdersList, ReferenceInv
<1>4. /\ UNCHANGED <<inputs, drawn, lost, kids, outcome>> /\ outcome = "open"
      /\ call' \in {Idle, Finishing}
      /\ \A x \in DOMAIN substitutions' : Replaces(x)
  BY DEF Reference, Ready, Replaces
<1>. QED
  BY <1>1, <1>2, <1>3, <1>4, GrowthTraced

LEMMA DocumentTraced ==
    ASSUME IInv, Traced, Document
    PROVE  Traced'
<1>1. Unseen({Root}) \in SUBSET (Objects \ DOMAIN map) /\ Unseen({Root}) \in SUBSET Objects
  BY ImporterAssumption DEF Unseen
<1>2. PICK order \in Orders(Unseen({Root})) :
         slots' = Grown(order) /\ map' = Numbered(order) /\ pending' = Queued(order)
  BY DEF Document
<1>3. Lists(order, Unseen({Root})) /\ IInv'
  BY <1>1, OrdersList, DocumentInv
<1>4. /\ UNCHANGED <<inputs, drawn, lost, kids, outcome>> /\ outcome = "open"
      /\ call' \in {Idle, Finishing}
      /\ \A x \in DOMAIN substitutions' : Replaces(x)
  BY DEF Document, Ready, Replaces
<1>. QED
  BY <1>1, <1>2, <1>3, <1>4, GrowthTraced

LEMMA SubstituteTraced ==
    ASSUME IInv, Traced, NEW r \in Objects, Substitute(r)
    PROVE  Traced'
<1> DEFINE S == Unseen(Source[r].refs)
           body(order) == Filled(<<Turn, r>>, Renumbered(Source[r].refs, order), 0, "substitute")
<1>1. S \in SUBSET (Objects \ DOMAIN map) /\ S \in SUBSET Objects
  BY SourceIsAFile DEF Unseen
<1>2. PICK order \in Orders(S) :
         /\ slots' = Grown(order) /\ map' = Numbered(order) /\ pending' = Queued(order)
         /\ substitutions' = [x \in DOMAIN substitutions \cup {r} |->
                IF x = r THEN body(order) ELSE substitutions[x]]
  BY DEF Substitute
<1>3. Lists(order, S) /\ IInv'
  BY <1>1, <1>2, OrdersList, SubstituteInv
<1>4. /\ UNCHANGED <<inputs, drawn, lost, kids, outcome>> /\ outcome = "open"
      /\ call' \in {Idle, Finishing}
  BY DEF Substitute, Ready
<1> DEFINE c == body(order)
<1>5. /\ c.refs = {map'[x] : x \in Source[r].refs} /\ c.from = <<Turn, r>> /\ c.parent = 0
      /\ c.full /\ c.type = "substitute"
  BY <1>2 DEF Filled, Renumbered
<1>6. substitutions' = [x \in DOMAIN substitutions \cup {r} |->
                           IF x = r THEN c ELSE substitutions[x]]
  BY <1>2
<1>7. Source[r].refs \in SUBSET (DOMAIN map \cup S)
  BY SourceIsAFile DEF Unseen
<1>. HIDE DEF c, body, S
<1>8. Effect(0, NoObj) /\ DOMAIN map' = DOMAIN map \cup S
  <2>1. Puts(0, NoObj, Grown(order))
    BY <1>2, Sizes DEF PagesRef, Puts
  <2>. QED
    BY <1>1, <1>2, <1>3, <1>4, <2>1, GrowthEffect
<1>9. Leads(c, slots', inputs') /\ c.refs \subseteq {map'[x] : x \in DOMAIN map'}
  BY <1>3, <1>5, <1>7, <1>8, BodyLeads DEF Traced
<1>10. ASSUME NEW x \in DOMAIN substitutions' PROVE Replaces(x)
  <2>1. CASE x = r
    BY <1>5, <1>6, <1>9, <2>1 DEF Replaces
  <2>2. CASE x # r
    BY <1>6, <2>2 DEF Replaces
  <2>. QED
    BY <2>1, <2>2
<1>. QED
  BY <1>1, <1>2, <1>3, <1>4, <1>10, GrowthTraced

\* The page gets a slot of its own behind the others: reserved and waiting for the
\* substituted body when it is unmet, filled at once otherwise.
LEMMA PageTraced ==
    ASSUME IInv, Traced, NEW p \in Objects, Page(p)
    PROVE  Traced'
<1> DEFINE refs == Source[p].refs \cup Source[p].inherited
           S == Unseen(refs)
           unmet == Source[p].type = "page" /\ p \notin DOMAIN map \cup refs
           body(order) == Filled(<<Turn, p>>, Renumbered(refs, order), PagesRef, "page")
<1>1. /\ refs \in SUBSET Objects
      /\ S \in SUBSET (Objects \ DOMAIN map) /\ S \in SUBSET Objects
      /\ refs \in SUBSET (DOMAIN map \cup S) /\ S \subseteq refs
  BY SourceIsAFile DEF Unseen
<1>2. PICK order \in Orders(S) :
        LET all  == IF unmet THEN Append(order, p) ELSE order
            slot == Len(slots) + Len(order) + 1
        IN  /\ map' = Numbered(all) /\ pending' = Queued(all)
            /\ slots' = IF unmet THEN Grown(all) ELSE Append(Grown(all), body(order))
            /\ substitutions' = IF ~unmet THEN substitutions
                                ELSE [x \in DOMAIN substitutions \cup {p} |->
                                         IF x = p THEN body(order) ELSE substitutions[x]]
            /\ call' = [slot |-> slot, page |-> p,
                        first |-> Source[p].type = "page" /\ p \notin DOMAIN map]
  BY DEF Page
<1>3. Lists(order, S) /\ IInv'
  BY <1>1, <1>2, OrdersList, PageInv
<1>4. /\ UNCHANGED <<inputs, drawn, lost, kids, outcome>> /\ outcome = "open"
  BY DEF Page, Ready
<1>5. /\ Growth(order, S) /\ Len(slots) \in Nat \ {0} /\ Len(order) \in Nat /\ Turn \in Nat \ {0}
      /\ Len(Grown(order)) = Len(slots) + Len(order)
      /\ DOMAIN Numbered(order) = DOMAIN map \cup S
  <2>1. Growth(order, S)
    BY <1>1, <1>3, Growing
  <2>. QED
    BY <2>1, Sizes DEF Growth
<1> DEFINE c == body(order)
           s == Len(slots) + Len(order) + 1
<1>6. /\ c.from = <<Turn, p>> /\ c.full /\ c.type = "page" /\ c.parent = PagesRef
      /\ c.refs = {Numbered(order)[x] : x \in refs} /\ PageBody(c)
  BY DEF Filled, Renumbered, PageBody
<1>7. call'.slot = s /\ call'.page = p
  BY <1>2
<1>8. ASSUME NEW n, NEW b, Effect(n, b), slots'[s].from = <<Turn, p>>, s \in 2..Len(slots'),
             PageBody(slots'[s]) \/ \E i \in 1..Len(pending') :
                  /\ pending'[i] \in DOMAIN substitutions' /\ map'[pending'[i]] = s
                  /\ PageBody(substitutions'[pending'[i]])
      PROVE  PagesInv'
  <2>1. \A i \in 1..Len(kids) : kids[i].slot \in 2..Len(slots)
    BY DEF Traced, PagesInv
  <2>2. \A i \in 1..Len(kids') : kids'[i].slot # s
    BY <1>4, <1>5, <2>1
  <2>3. slots'[s].from[2] = p
    BY <1>8
  <2>4. /\ \A i \in 1..Len(kids') :
              /\ kids'[i].slot \in 2..Len(slots') /\ PageBody(slots'[kids'[i].slot])
              /\ slots'[kids'[i].slot].from[2] = kids'[i].page
        /\ \A i, j \in 1..Len(kids') : kids'[i].slot = kids'[j].slot => i = j
    BY <1>3, <1>4, <1>8, KidsStay DEF Traced
  <2>5. /\ call'.slot \in 2..Len(slots')
        /\ \A i \in 1..Len(kids') : kids'[i].slot # call'.slot
        /\ slots'[call'.slot].from[2] = call'.page
        /\ \/ PageBody(slots'[call'.slot])
           \/ \E i \in 1..Len(pending') :
                 /\ pending'[i] \in DOMAIN substitutions' /\ map'[pending'[i]] = call'.slot
                 /\ PageBody(substitutions'[pending'[i]])
    BY <1>7, <1>8, <2>2, <2>3
  <2>. HIDE DEF s
  <2>. QED
    BY <2>4, <2>5 DEF PagesInv
<1>9. CASE unmet
  <2> DEFINE all == Append(order, p)
             more == S \cup {p}
  <2>1. /\ slots' = Grown(all) /\ map' = Numbered(all) /\ pending' = Queued(all)
        /\ substitutions' = [x \in DOMAIN substitutions \cup {p} |->
                                IF x = p THEN c ELSE substitutions[x]]
    BY <1>2, <1>9
  <2>2. more \in SUBSET (Objects \ DOMAIN map) /\ p \notin S /\ p \notin refs
    BY <1>1, <1>9
  <2>3. /\ Lists(all, more) /\ Len(all) = Len(order) + 1 /\ all[Len(order) + 1] = p
        /\ \A i \in 1..Len(order) : all[i] = order[i]
    <3> HIDE DEF S
    <3>1. Lists(all, more)
      BY <1>1, <1>3, <2>2, ListsAppend
    <3>. QED
      BY <1>3, <3>1 DEF Lists
  <2>. HIDE DEF all, more
  <2>4. Growth(all, more)
    BY <2>2, <2>3, Growing
  <2>5. Effect(0, NoObj) /\ DOMAIN map' = DOMAIN map \cup more
    <3>1. Puts(0, NoObj, Grown(all))
      BY <1>5, <2>1 DEF PagesRef, Puts
    <3>. QED
      BY <1>4, <2>1, <2>2, <2>3, <3>1, GrowthEffect
  <2>6. ASSUME NEW x \in refs PROVE map'[x] = Numbered(order)[x]
    <3>1. CASE x \in DOMAIN map
      BY <1>5, <2>1, <2>4, <3>1 DEF Growth
    <3>2. CASE x \in S
      <4>1. PICK i \in 1..Len(order) : order[i] = x
        BY <1>3, <3>2 DEF Lists
      <4>2. i \in 1..Len(all) /\ all[i] = x
        BY <1>5, <2>3, <4>1
      <4>3. Numbered(order)[x] = Len(slots) + i /\ Numbered(all)[x] = Len(slots) + i
        BY <1>5, <2>4, <4>1, <4>2 DEF Growth
      <4>. QED
        BY <2>1, <4>3
    <3>. QED
      BY <1>1, <3>1, <3>2
  <2>7. refs \in SUBSET DOMAIN map' /\ c.refs = {map'[x] : x \in refs}
    <3>1. {Numbered(order)[x] : x \in refs} = {map'[x] : x \in refs}
      BY <2>6
    <3>2. refs \in SUBSET DOMAIN map'
      BY <1>1, <2>5 DEF more
    <3>. QED
      BY <1>6, <3>1, <3>2
  <2>. HIDE DEF c, body, S, refs, unmet
  <2>8. Leads(c, slots', inputs') /\ c.refs \subseteq {map'[x] : x \in DOMAIN map'}
    <3>1. IInv' /\ OriginsInv /\ c.type = "page" /\ c.parent = PagesRef /\ Effect(0, NoObj)
      BY <1>3, <1>6, <2>5 DEF Traced
    <3>. QED
      BY <2>7, <3>1, BodyLeads
  <2>9. ASSUME NEW x \in DOMAIN substitutions' PROVE Replaces(x)
    <3>1. CASE x = p
      BY <1>6, <2>1, <2>8, <3>1 DEF Replaces
    <3>2. CASE x # p
      BY <2>1, <3>2 DEF Replaces
    <3>. QED
      BY <3>1, <3>2
  <2>10. /\ Len(order) + 1 \in 1..Len(all) /\ s = Len(slots) + (Len(order) + 1)
         /\ s \in 2..Len(slots')
    <3>1. Len(slots') = Len(slots) + Len(all)
      BY <2>1, <2>4 DEF Growth
    <3>. QED
      BY <1>5, <2>3, <3>1
  <2>11. /\ map'[p] = s
         /\ pending'[Len(pending) + (Len(order) + 1)] = p
         /\ Len(pending) + (Len(order) + 1) \in 1..Len(pending')
    <3>1. map'[p] = s
      BY <2>1, <2>3, <2>4, <2>10 DEF Growth
    <3>2. pending'[Len(pending) + (Len(order) + 1)] = p
      BY <2>1, <2>3, <2>4, <2>10 DEF Growth
    <3>3. Len(pending) \in Nat /\ Len(pending') = Len(pending) + Len(all)
      BY <2>1, <2>4 DEF Growth
    <3>4. Len(pending) + (Len(order) + 1) \in 1..Len(pending')
      BY <1>5, <2>3, <3>3
    <3>. QED
      BY <3>1, <3>2, <3>4
  <2>12. slots'[s].from = <<Turn, p>>
    <3>1. slots'[s] = Reserved(<<Turn, p>>)
      BY <2>1, <2>3, <2>4, <2>10 DEF Growth
    <3>. QED
      BY <3>1 DEF Reserved
  <2>13. \E i \in 1..Len(pending') :
            /\ pending'[i] \in DOMAIN substitutions' /\ map'[pending'[i]] = s
            /\ PageBody(substitutions'[pending'[i]])
    <3>1. p \in DOMAIN substitutions' /\ PageBody(substitutions'[p])
      BY <1>6, <2>1
    <3>. QED
      BY <2>11, <3>1
  <2>14. PagesInv'
    BY <1>8, <2>5, <2>10, <2>12, <2>13
  <2>. QED
    BY <1>3, <1>4, <2>1, <2>2, <2>3, <2>9, <2>14, GrowthTraced
<1>10. CASE ~unmet
  <2>1. /\ slots' = Append(Grown(order), c) /\ map' = Numbered(order)
        /\ pending' = Queued(order) /\ substitutions' = substitutions
    BY <1>2, <1>10
  <2>2. refs \in SUBSET DOMAIN map' /\ c.refs = {map'[x] : x \in refs}
    BY <1>1, <1>5, <1>6, <2>1
  <2>. HIDE DEF c, body, S, refs, unmet
  <2>3. /\ Len(slots') = Len(Grown(order)) + 1 /\ slots'[s] = c
        /\ \A k \in 1..Len(Grown(order)) : slots'[k] = Grown(order)[k]
        /\ s = Len(Grown(order)) + 1
    <3>1. Grown(order) \in Seq(SlotType) /\ s = Len(Grown(order)) + 1
      BY <1>5 DEF Growth
    <3>. QED
      BY <2>1, <3>1
  <2>4. /\ Effect(s, c) /\ DOMAIN map' = DOMAIN map \cup S
        /\ \A i \in 1..Len(pending) : i \in 1..Len(pending') /\ pending'[i] = pending[i]
    <3>1. s # PagesRef /\ s \notin 1..Len(slots) /\ s \notin 2..Len(slots)
      BY <1>5, <2>3 DEF PagesRef
    <3>2. c.from \in {Turn} \X Objects
      BY <1>6
    <3>3. \A k \in 1..Len(Grown(order)) : k # s => slots'[k] = Grown(order)[k]
      BY <2>3
    <3>4. Puts(s, c, Grown(order))
      BY <1>6, <2>3, <3>1, <3>2, <3>3 DEF Puts
    <3>5. UNCHANGED inputs /\ map' = Numbered(order) /\ pending' = Queued(order)
      BY <1>4, <2>1
    <3>. HIDE DEF s
    <3>. QED
      BY <1>1, <1>3, <3>4, <3>5, GrowthEffect
  <2>5. Leads(c, slots', inputs') /\ c.refs \subseteq {map'[x] : x \in DOMAIN map'}
    BY <1>3, <1>6, <2>2, <2>4, BodyLeads DEF Traced
  <2>6. s \in 2..Len(slots') /\ slots'[s].from = <<Turn, p>> /\ PageBody(slots'[s])
    BY <1>5, <1>6, <2>3
  <2>7. PagesInv'
    BY <1>8, <2>4, <2>6
  <2>8. Held \subseteq Held'
    BY <1>4, <2>4, HeldOn
  <2>9. \A x \in DOMAIN substitutions' : Replaces(x)
    BY <2>1 DEF Replaces
  <2>10. s \notin 2..Len(slots)
    BY <1>5
  <2>. HIDE DEF s
  <2>. QED
    BY <1>3, <1>4, <2>4, <2>5, <2>7, <2>8, <2>9, <2>10, TracedStep
<1>. QED
  BY <1>9, <1>10

\* A call is under way on an open writer only.
LEMMA CallsAreOpen ==
    ASSUME IInv, Traced, call # Idle \/ drawn # NoObj
    PROVE  outcome = "open"
BY DEF IInv, DrawnByACall, Traced, HolesInv

LEMMA FillSubstituteTraced ==
    ASSUME IInv, Traced, FillSubstitute
    PROVE  Traced'
<1> DEFINE n == map[Top]
           b == substitutions[Top]
<1>1. /\ \A i \in 1..Len(Popped) : Popped[i] = pending[i] /\ Popped[i] # Top
      /\ Len(Popped) = Len(pending) - 1 /\ Len(pending) \in Nat \ {0}
      /\ Top \in Objects /\ Top \in DOMAIN map /\ n \in 2..Len(slots) /\ ~slots[n].full
  BY Popping DEF FillSubstitute, Draining
<1>2. /\ Top \in DOMAIN substitutions /\ pending' = Popped
      /\ slots' = [slots EXCEPT ![n] = b]
      /\ substitutions' = [x \in DOMAIN substitutions \ {Top} |-> substitutions[x]]
      /\ UNCHANGED <<inputs, map, drawn, call, kids, outcome, lost>>
      /\ call # Idle
  BY DEF FillSubstitute, Fill, Draining
<1>3. IInv' /\ outcome = "open"
  BY <1>2, FillSubstituteInv, CallsAreOpen
<1>4. /\ slots[n].from = <<Turn, Top>> /\ b.from = <<Turn, Top>> /\ b.full
      /\ Leads(b, slots, inputs) /\ b.refs \subseteq Referenced
  BY <1>1, <1>2 DEF Traced, OriginsInv, ShapeInv, Referenced
<1>5. Top = pending[Len(pending)]
  BY DEF Top
<1>. HIDE DEF n, b
<1>6. /\ slots \in Seq(SlotType) /\ Len(slots) \in Nat \ {0} /\ Turn' = Turn
  BY <1>2, Sizes DEF Turn
<1>7. /\ Len(slots') = Len(slots) /\ slots'[n] = b /\ n \in 1..Len(slots)
      /\ \A k \in 1..Len(slots) : k # n => slots'[k] = slots[k]
  BY <1>1, <1>2, <1>6
<1>8. Effect(n, b)
  <2>1. n \in 0..Len(slots') /\ n # PagesRef /\ n \in 1..Len(slots)
    BY <1>1, <1>6, <1>7 DEF PagesRef
  <2>2. \A k \in (Len(slots) + 1)..Len(slots') : FALSE
    BY <1>6, <1>7
  <2>3. Len(slots) <= Len(slots')
    BY <1>6, <1>7
  <2>. QED
    BY <1>1, <1>2, <1>4, <1>7, <2>1, <2>2, <2>3 DEF Effect
<1>9. \A k \in 1..Len(slots) : slots'[k].from = slots[k].from
  BY <1>4, <1>7
<1>10. Leads(b, slots', inputs')
  <2>1. Leads(b, slots', inputs)
    BY <1>4, <1>6, <1>7, <1>9, LeadsOn
  <2>. QED
    BY <1>2, <2>1
<1>11. \A x \in DOMAIN substitutions' : Replaces(x)
  BY <1>2 DEF Replaces
<1>12. ASSUME NEW i \in 1..Len(pending)
       PROVE  pending[i] = Top \/ (i \in 1..Len(pending') /\ pending'[i] = pending[i])
  <2>1. i = Len(pending) \/ i \in 1..Len(Popped)
    BY <1>1
  <2>. QED
    BY <1>1, <1>2, <1>5, <2>1
<1>13. ASSUME NEW f \in Held PROVE f \in Held' \/ f = slots[n].from
  BY <1>2, <1>4, <1>6, <1>12, <1>13 DEF Held
<1>14. PagesInv'
  <2>1. ASSUME NEW i \in 1..Len(pending), pending[i] \in DOMAIN substitutions
        PROVE  \/ \E j \in 1..Len(pending') :
                     /\ pending'[j] = pending[i] /\ pending[i] \in DOMAIN substitutions'
                     /\ substitutions'[pending[i]] = substitutions[pending[i]]
               \/ n = map[pending[i]] /\ b = substitutions[pending[i]]
    <3>1. CASE pending[i] = Top
      BY <3>1 DEF n, b
    <3>2. CASE pending[i] # Top
      BY <1>2, <1>12, <2>1, <3>2
    <3>. QED
      BY <3>1, <3>2
  <2>. QED
    BY <1>2, <1>3, <1>8, <2>1, CallGoesOn DEF Traced
<1>15. slots[n].from[1] = Turn
  BY <1>4
<1>. QED
  BY <1>1, <1>2, <1>3, <1>4, <1>8, <1>10, <1>11, <1>13, <1>14, <1>15, TracedStep

\* A step that leaves the slots, the map and what replaces objects alone.
LEMMA NothingCopied ==
    ASSUME IInv, UNCHANGED <<slots, map, inputs, substitutions>>
    PROVE  /\ Effect(0, NoObj) /\ \A x \in DOMAIN substitutions' : Replaces(x)
           /\ 0 \notin 2..Len(slots) /\ 0 \notin 2..Len(slots')
<1>1. Len(slots) \in Nat \ {0}
  BY Sizes
<1>2. \A k \in (Len(slots) + 1)..Len(slots') : FALSE
  BY <1>1
<1>3. 0 \in 0..Len(slots') /\ 0 # PagesRef /\ Len(slots) <= Len(slots')
  BY <1>1 DEF PagesRef
<1>4. Effect(0, NoObj)
  BY <1>2, <1>3 DEF Effect
<1>. QED
  BY <1>1, <1>4 DEF Replaces

LEMMA DrawTraced ==
    ASSUME IInv, Traced, Draw
    PROVE  Traced'
<1>1. /\ \A i \in 1..Len(Popped) : Popped[i] = pending[i]
      /\ Len(Popped) = Len(pending) - 1 /\ Len(pending) \in Nat \ {0}
      /\ Top \in Objects
  BY Popping DEF Draw, Draining
<1>2. /\ Top \notin DOMAIN substitutions /\ pending' = Popped
      /\ UNCHANGED <<slots, inputs, map, substitutions, call, kids, outcome, lost>>
      /\ call # Idle /\ drawn = NoObj /\ drawn' = Top
      /\ Top = pending[Len(pending)]
  BY DEF Draw, Draining, Top
<1>3. IInv' /\ outcome = "open" /\ Turn' = Turn
  BY <1>2, DrawInv, CallsAreOpen DEF Turn
<1>4. /\ Effect(0, NoObj) /\ \A x \in DOMAIN substitutions' : Replaces(x)
      /\ 0 \notin 2..Len(slots) /\ 0 \notin 2..Len(slots')
  BY <1>2, NothingCopied
<1>5. ASSUME NEW i \in 1..Len(pending)
      PROVE  pending[i] = Top \/ (i \in 1..Len(pending') /\ pending'[i] = pending[i])
  <2>1. i = Len(pending) \/ i \in 1..Len(Popped)
    BY <1>1
  <2>. QED
    BY <1>1, <1>2, <2>1
<1>6. Top \in {drawn'} \ {NoObj}
  BY <1>1, <1>2, ImporterAssumption
<1>7. ASSUME NEW f \in Held PROVE f \in Held'
  BY <1>2, <1>3, <1>5, <1>6, <1>7 DEF Held
<1>8. PagesInv'
  <2>1. \A i \in 1..Len(pending) : pending[i] \in DOMAIN substitutions =>
           \E j \in 1..Len(pending') :
              /\ pending'[j] = pending[i] /\ pending[i] \in DOMAIN substitutions'
              /\ substitutions'[pending[i]] = substitutions[pending[i]]
    BY <1>2, <1>5
  <2>. QED
    BY <1>2, <1>3, <1>4, <2>1, CallGoesOn DEF Traced
<1>. QED
  BY <1>2, <1>3, <1>4, <1>7, <1>8, TracedStep

LEMMA GiveUpTraced ==
    ASSUME IInv, Traced, GiveUp, drawn # NoObj
    PROVE  Traced'
<1>1. /\ UNCHANGED <<slots, map, pending, substitutions, inputs, kids, outcome>>
      /\ lost' = lost \cup {<<Turn, drawn>>} /\ call' = Idle
  BY DEF GiveUp, copyVars
<1>2. IInv' /\ outcome = "open" /\ Turn' = Turn
  BY <1>1, GiveUpInv, CallsAreOpen DEF Turn
<1>3. /\ Effect(0, NoObj) /\ \A x \in DOMAIN substitutions' : Replaces(x)
      /\ 0 \notin 2..Len(slots) /\ 0 \notin 2..Len(slots')
  BY <1>1, NothingCopied
<1>4. ASSUME NEW f \in Held PROVE f \in Held'
  BY <1>1, <1>2, <1>4 DEF Held
<1>5. PagesInv'
  BY <1>1, <1>2, <1>3, NoPageWanted DEF Traced
<1>. QED
  BY <1>1, <1>2, <1>3, <1>4, <1>5, TracedStep

LEMMA ReturnTraced ==
    ASSUME IInv, Traced, Return
    PROVE  Traced'
<1>1. /\ UNCHANGED <<slots, map, pending, substitutions, inputs, drawn, outcome, lost>>
      /\ call' = Idle /\ call # Idle /\ pending = <<>>
      /\ kids' = IF call = Finishing THEN kids ELSE Append(kids, call)
  BY DEF Return, copyVars
<1>2. IInv' /\ outcome = "open" /\ Turn' = Turn
  BY <1>1, ReturnInv, CallsAreOpen DEF Turn
<1>3. /\ Effect(0, NoObj) /\ \A x \in DOMAIN substitutions' : Replaces(x)
      /\ 0 \notin 2..Len(slots) /\ 0 \notin 2..Len(slots')
  BY <1>1, NothingCopied
<1>4. ASSUME NEW f \in Held PROVE f \in Held'
  BY <1>1, <1>2, <1>4 DEF Held
<1>5. PagesInv'
  <2>1. CASE call = Finishing
    BY <1>1, <1>2, <1>3, <2>1, NoPageWanted DEF Traced
  <2>2. CASE call # Finishing
    <3>1. /\ call.slot \in 2..Len(slots) /\ slots[call.slot].from[2] = call.page
          /\ \A i \in 1..Len(kids) : kids[i].slot # call.slot
          /\ PageBody(slots[call.slot])
      <4>1. \A i \in 1..Len(pending) : FALSE
        BY <1>1
      <4>. QED
        BY <1>1, <2>2, <4>1 DEF Traced, PagesInv
    <3>2. /\ Len(kids') = Len(kids) + 1 /\ Len(kids) \in Nat /\ kids'[Len(kids) + 1] = call
          /\ \A i \in 1..Len(kids) : kids'[i] = kids[i]
      BY <1>1, <2>2 DEF IInv, TypeOK
    <3>3. \A i \in 1..Len(kids') : i \in 1..Len(kids) \/ i = Len(kids) + 1
      BY <3>2
    <3>4. \A i \in 1..Len(kids') :
             /\ kids'[i].slot \in 2..Len(slots') /\ PageBody(slots'[kids'[i].slot])
             /\ slots'[kids'[i].slot].from[2] = kids'[i].page
      BY <1>1, <3>1, <3>2, <3>3 DEF Traced, PagesInv
    <3>5. \A i, j \in 1..Len(kids') : kids'[i].slot = kids'[j].slot => i = j
      BY <3>1, <3>2, <3>3 DEF Traced, PagesInv
    <3>. QED
      BY <1>1, <3>4, <3>5 DEF PagesInv
  <2>. QED
    BY <2>1, <2>2
<1>. QED
  BY <1>1, <1>2, <1>3, <1>4, <1>5, TracedStep

LEMMA CopyTraced ==
    ASSUME IInv, Traced, Copy
    PROVE  Traced'
<1> DEFINE node == Source[drawn]
           refs == node.refs \cup ({node.parent} \ {NoObj})
           S == Unseen(refs)
           body(order) ==
               Filled(<<Turn, drawn>>, Renumbered(node.refs, order),
                      IF node.parent = NoObj THEN 0 ELSE Numbered(order)[node.parent], "copy")
           n == map[drawn]
<1>1. drawn \in Objects /\ drawn # NoObj
  BY DEF Copy, IInv, TypeOK
<1>2. /\ refs \in SUBSET Objects /\ node.refs \subseteq refs
      /\ node.parent = NoObj \/ node.parent \in refs
      /\ S \in SUBSET (Objects \ DOMAIN map) /\ S \in SUBSET Objects
      /\ refs \in SUBSET (DOMAIN map \cup S)
  BY <1>1, SourceIsAFile DEF Unseen
<1>3. PICK order \in Orders(S) :
         /\ slots' = [Grown(order) EXCEPT ![n] = body(order)]
         /\ map' = Numbered(order) /\ pending' = Queued(order)
  BY DEF Copy, Fill
<1>4. Lists(order, S) /\ IInv' /\ outcome = "open"
  BY <1>1, <1>2, <1>3, OrdersList, CopyInv, CallsAreOpen
<1>5. UNCHANGED <<inputs, substitutions, call, kids, outcome, lost>> /\ drawn' = NoObj
  BY DEF Copy
<1>6. /\ n \in 2..Len(slots) /\ ~slots[n].full /\ slots[n].from = <<Turn, drawn>>
      /\ Len(slots) \in Nat \ {0}
  BY <1>1, Sizes DEF IInv, Sound, Traced, OriginsInv
<1>7. /\ Grown(order) \in Seq(SlotType) /\ Len(order) \in Nat
      /\ Len(Grown(order)) = Len(slots) + Len(order)
  BY <1>2, <1>4, Growing DEF Growth
<1> DEFINE c == body(order)
<1>8. /\ c.from = <<Turn, drawn>> /\ c.full /\ c.type = "copy"
      /\ c.refs = {map'[x] : x \in node.refs}
      /\ c.parent = IF node.parent = NoObj THEN 0 ELSE map'[node.parent]
  BY <1>3 DEF Filled, Renumbered
<1>. HIDE DEF c, body, S, n
<1>9. slots' = [Grown(order) EXCEPT ![n] = c]
  BY <1>3 DEF c
<1>10. Puts(n, c, Grown(order))
  <2>1. n \in 1..Len(slots) /\ n \in 1..Len(Grown(order)) /\ n \in 0..Len(slots) /\ n # PagesRef
    BY <1>6, <1>7 DEF PagesRef
  <2>2. /\ Len(slots') = Len(Grown(order)) /\ slots'[n] = c
        /\ \A k \in 1..Len(Grown(order)) : k # n => slots'[k] = Grown(order)[k]
    BY <1>7, <1>9, <2>1
  <2>. QED
    BY <1>6, <1>8, <2>1, <2>2 DEF Puts
<1>11. /\ Effect(n, c) /\ DOMAIN map' = DOMAIN map \cup S
       /\ \A i \in 1..Len(pending) : i \in 1..Len(pending') /\ pending'[i] = pending[i]
  BY <1>2, <1>3, <1>4, <1>5, <1>10, GrowthEffect
<1>12. Leads(c, slots', inputs') /\ c.refs \subseteq {map'[x] : x \in DOMAIN map'}
  <2>1. node.refs \in SUBSET DOMAIN map'
    BY <1>2, <1>11
  <2>2. c.parent = 0 \/ (Source[drawn].parent \in DOMAIN map' /\ c.parent = map'[Source[drawn].parent])
    BY <1>2, <1>8, <1>11
  <2>. QED
    BY <1>4, <1>8, <1>11, <2>1, <2>2, BodyLeads DEF Traced
<1>13. ASSUME NEW f \in Held PROVE f \in Held' \/ f = slots[n].from
  <2>1. Turn' = Turn
    BY <1>5 DEF Turn
  <2>. QED
    BY <1>5, <1>6, <1>11, <1>13, <2>1 DEF Held
<1>14. PagesInv'
  <2>1. \A i \in 1..Len(pending) : pending[i] \in DOMAIN substitutions =>
           \E j \in 1..Len(pending') :
              /\ pending'[j] = pending[i] /\ pending[i] \in DOMAIN substitutions'
              /\ substitutions'[pending[i]] = substitutions[pending[i]]
    BY <1>5, <1>11
  <2>. QED
    BY <1>4, <1>5, <1>11, <2>1, CallGoesOn DEF Traced
<1>15. \A x \in DOMAIN substitutions' : Replaces(x)
  BY <1>5 DEF Replaces
<1>16. slots[n].from[1] = Turn
  BY <1>6
<1>. QED
  BY <1>4, <1>5, <1>6, <1>11, <1>12, <1>13, <1>14, <1>15, <1>16, TracedStep

\* What the dropped importer held is lost; of the new one there is nothing yet.
LEMMA NextSourceTraced ==
    ASSUME IInv, Traced, NextSource
    PROVE  Traced'
<1>1. /\ UNCHANGED <<slots, drawn, call, kids, outcome>> /\ call = Idle
      /\ outcome = "open" /\ lost' = lost \cup Forgotten
      /\ DOMAIN map' = {} /\ pending' = <<>> /\ DOMAIN substitutions' = {}
  BY DEF NextSource
<1>2. PICK f \in Files : inputs' = Append(inputs, f)
  BY DEF NextSource
<1>3. /\ Turn \in Nat \ {0} /\ Turn' = Turn + 1 /\ \A t \in 1..Turn : inputs'[t] = inputs[t]
  <2>1. inputs \in Seq(Files)
    BY DEF IInv, TypeOK
  <2>. QED
    BY <1>2, <2>1, Sizes DEF Turn
<1>4. Len(slots) \in Nat \ {0}
  BY Sizes
<1>5. \A n \in 1..Len(slots) : slots[n].from[1] \in 0..Turn /\ slots[n].from[1] # Turn'
  <2>1. \A n \in 1..Len(slots) : slots[n].from[1] \in 0..Turn
    BY DEF Traced, OriginsInv
  <2>2. \A t \in 0..Turn : t # Turn'
    BY <1>3
  <2>. QED
    BY <2>1, <2>2
<1>6. OriginsInv'
  <2>1. \A n \in 1..Len(slots) : slots[n].from[1] \in 0..Turn'
    BY <1>3, <1>5
  <2>. QED
    BY <1>1, <2>1 DEF Traced, OriginsInv
<1>7. ASSUME NEW h \in Held PROVE h \in Held'
  <2>1. drawn = NoObj
    BY <1>1 DEF IInv, DrawnByACall
  <2>2. DOMAIN pending = 1..Len(pending)
    BY DEF IInv, TypeOK
  <2>. QED
    BY <1>1, <1>7, <2>1, <2>2 DEF Held, Forgotten
<1>8. HolesInv'
  <2>1. ASSUME NEW n \in 2..Len(slots), ~slots[n].full
        PROVE  slots[n].from \in Held' /\ slots[n].from[1] # Turn'
    <3>1. n \in 1..Len(slots)
      BY <1>4
    <3>2. slots[n].from \in Held
      BY <2>1 DEF Traced, HolesInv
    <3>. QED
      BY <1>5, <1>7, <3>1, <3>2
  <2>. QED
    BY <1>1, <2>1 DEF HolesInv
<1>9. ShapeInv'
  <2>1. ASSUME NEW n \in 1..Len(slots), slots[n].full
        PROVE  Leads(slots[n], slots', inputs')
    <3>1. Leads(slots[n], slots, inputs)
      BY <2>1 DEF Traced, ShapeInv
    <3>2. CASE n = PagesRef
      <4>1. slots[n].type = "tree"
        BY <2>1, <3>2 DEF Traced, ShapeInv
      <4>. QED
        BY <1>1, <3>1, <4>1 DEF Leads
    <3>3. CASE n # PagesRef
      <4>1. n \in 2..Len(slots)
        BY <1>4, <3>3 DEF PagesRef
      <4>2. slots[n].from[1] \in 1..Turn
        BY <1>3, <1>5, <4>1 DEF Traced, OriginsInv
      <4>3. inputs'[slots[n].from[1]] = inputs[slots[n].from[1]]
        BY <1>3, <4>2
      <4> DEFINE c == slots[n]
      <4>4. inputs'[c.from[1]] = inputs[c.from[1]] /\ Leads(c, slots, inputs)
        BY <3>1, <4>3
      <4>. HIDE DEF c
      <4>5. Leads(c, slots, inputs')
        BY <4>4 DEF Leads
      <4>. QED
        BY <1>1, <4>5 DEF c
    <3>. QED
      BY <3>2, <3>3
  <2>. QED
    BY <1>1, <2>1 DEF Traced, ShapeInv
<1>10. SharingInv'
  <2>1. Referenced' \subseteq Referenced
    BY <1>1 DEF Referenced
  <2>2. ASSUME NEW k \in Referenced PROVE k \in 1..Len(slots)
    BY <2>2, ReferencedAreSlots DEF Traced
  <2>. QED
    BY <1>1, <1>5, <2>1, <2>2 DEF Traced, SharingInv
<1>11. PagesInv'
  BY <1>1 DEF Traced, PagesInv
<1>. QED
  BY <1>6, <1>8, <1>9, <1>10, <1>11 DEF Traced

LEMMA FinishTraced ==
    ASSUME IInv, Traced, Finish
    PROVE  Traced'
<1> DEFINE body == Filled(slots[PagesRef].from, {kids[i].slot : i \in DOMAIN kids}, 0, "tree")
<1>1. /\ slots \in Seq(SlotType) /\ Len(slots) \in Nat \ {0} /\ PagesRef \in 1..Len(slots)
      /\ DOMAIN kids = 1..Len(kids) /\ DOMAIN pending = 1..Len(pending) /\ PagesRef = 1
  BY Sizes DEF PagesRef, IInv, TypeOK
<1>2. /\ slots' = [slots EXCEPT ![PagesRef] = body]
      /\ UNCHANGED <<inputs, map, pending, substitutions, drawn, call, kids>>
      /\ call = Idle /\ outcome' # "open" /\ lost \subseteq lost'
      /\ outcome' = "written" => \A n \in Slots \ {PagesRef} : slots[n].full
  BY DEF Finish
<1>3. /\ body.from = slots[PagesRef].from /\ body.full /\ body.parent = 0 /\ body.type = "tree"
      /\ body.refs = {kids[i].slot : i \in 1..Len(kids)}
  BY <1>1 DEF Filled
<1>. HIDE DEF body
<1>4. /\ Len(slots') = Len(slots) /\ slots'[PagesRef] = body /\ Turn' = Turn
      /\ \A n \in 1..Len(slots) : n # PagesRef => slots'[n] = slots[n]
  BY <1>1, <1>2 DEF Turn
<1>5. \A n \in 1..Len(slots) : slots'[n].from = slots[n].from
  BY <1>3, <1>4
<1>6. \A n \in 2..Len(slots) : n \in 1..Len(slots) /\ n # PagesRef /\ slots'[n] = slots[n]
  <2>1. \A n \in 2..Len(slots) : n \in 1..Len(slots) /\ n # PagesRef
    BY <1>1
  <2>. QED
    BY <1>4, <2>1
<1>7. \A x \in DOMAIN map : map[x] \in 1..Len(slots)
  <2>1. \A x \in DOMAIN map : map[x] \in 2..Len(slots)
    BY Sizes
  <2>. QED
    BY <1>6, <2>1
<1>8. OriginsInv'
  BY <1>2, <1>4, <1>5, <1>6, <1>7 DEF Traced, OriginsInv
<1>9. HolesInv'
  <2>1. Held \subseteq Held'
    BY <1>2, <1>4 DEF Held
  <2>2. ASSUME outcome' = "written", NEW n \in 1..Len(slots) PROVE slots'[n].full
    BY <1>2, <1>3, <1>4, <2>2 DEF Slots
  <2>3. \A n \in 2..Len(slots') : ~slots'[n].full =>
          /\ slots'[n].from \in Held'
          /\ slots'[n].from[1] = Turn' =>
                slots'[n].from[2] \in DOMAIN map' /\ map'[slots'[n].from[2]] = n
    BY <1>2, <1>4, <1>6, <2>1 DEF Traced, HolesInv
  <2>. QED
    BY <1>2, <1>4, <2>2, <2>3 DEF HolesInv
<1>10. ShapeInv'
  <2>1. ASSUME NEW b, Leads(b, slots, inputs) PROVE Leads(b, slots', inputs')
    <3>1. Len(slots) \in Nat /\ Len(slots') \in Nat /\ Len(slots) <= Len(slots')
      BY <1>1, <1>4
    <3>2. Leads(b, slots', inputs)
      BY <1>5, <2>1, <3>1, LeadsOn
    <3>. QED
      BY <1>2, <3>2
  <2>2. Leads(body, slots', inputs')
    <3>1. body.refs \subseteq 2..Len(slots')
      BY <1>3, <1>4 DEF Traced, PagesInv
    <3>2. body.parent \in 0..Len(slots')
      BY <1>1, <1>3, <1>4
    <3>. QED
      BY <1>3, <3>1, <3>2 DEF Leads
  <2>3. ASSUME NEW n \in 1..Len(slots)
        PROVE  /\ slots'[n].full => Leads(slots'[n], slots', inputs')
               /\ ~slots'[n].full => slots'[n].refs = {}
    <3>1. CASE n = PagesRef
      BY <1>3, <1>4, <2>2, <3>1
    <3>2. CASE n # PagesRef
      BY <1>4, <2>1, <3>2 DEF Traced, ShapeInv
    <3>. QED
      BY <3>1, <3>2
  <2>4. \A x \in DOMAIN substitutions' : Leads(substitutions'[x], slots', inputs')
    BY <1>2, <2>1 DEF Traced, ShapeInv
  <2>. QED
    BY <1>3, <1>4, <2>3, <2>4 DEF ShapeInv
<1>11. SharingInv'
  <2>1. \A n \in 2..Len(slots) : slots'[n].refs = slots[n].refs
    BY <1>6
  <2>2. Referenced' = Referenced
    BY <1>2, <1>4, <2>1 DEF Referenced
  <2>3. \A k \in Referenced : k \in 1..Len(slots)
    BY ReferencedAreSlots DEF Traced
  <2>. QED
    BY <1>2, <1>4, <1>5, <2>2, <2>3 DEF Traced, SharingInv
<1>12. PagesInv'
  BY <1>2, <1>4, <1>6 DEF Traced, PagesInv
<1>. QED
  BY <1>8, <1>9, <1>10, <1>11, <1>12 DEF Traced

LEMMA InitTraced == Init => Traced
<1> SUFFICES ASSUME Init PROVE Traced
  OBVIOUS
<1>1. /\ slots = <<Reserved(<<0, NoObj>>)>> /\ Len(slots) = 1 /\ slots[1] = Reserved(<<0, NoObj>>)
      /\ 2..Len(slots) = {} /\ 1..Len(slots) = {1} /\ slots[PagesRef] = slots[1]
      /\ Turn = 1
  BY DEF Init, Turn, PagesRef
<1>2. /\ DOMAIN map = {} /\ DOMAIN substitutions = {} /\ call = Idle /\ outcome = "open"
      /\ Len(kids) = 0 /\ 1..Len(kids) = {}
  BY DEF Init
<1>3. slots[1].from[1] = 0 /\ ~slots[1].full /\ slots[1].refs = {}
  BY <1>1 DEF Reserved
<1>4. OriginsInv
  BY <1>1, <1>2, <1>3 DEF OriginsInv
<1>5. HolesInv
  BY <1>1, <1>2 DEF HolesInv
<1>6. ShapeInv
  BY <1>1, <1>2, <1>3 DEF ShapeInv
<1>7. SharingInv
  <2>1. Referenced = {}
    BY <1>1, <1>2 DEF Referenced
  <2>. QED
    BY <2>1 DEF SharingInv
<1>8. PagesInv
  BY <1>2 DEF PagesInv
<1>. QED
  BY <1>4, <1>5, <1>6, <1>7, <1>8 DEF Traced

LEMMA NextTraced == IInv /\ Traced /\ [Next]_vars => Traced'
<1> SUFFICES ASSUME IInv, Traced, [Next]_vars
             PROVE  Traced'
  OBVIOUS
<1>1. CASE \E r \in Objects : Reference(r) \/ Substitute(r) \/ Page(r)
  BY <1>1, ReferenceTraced, SubstituteTraced, PageTraced
<1>2. CASE Document
  BY <1>2, DocumentTraced
<1>3. CASE Drain
  BY <1>3, FillSubstituteTraced, DrawTraced, CopyTraced, GiveUpTraced, ReturnTraced
     DEF Drain, CopyFails
<1>4. CASE DropCall
  BY <1>4, GiveUpTraced DEF DropCall
<1>5. CASE NextSource
  BY <1>5, NextSourceTraced
<1>6. CASE Finish
  BY <1>6, FinishTraced
<1>7. CASE UNCHANGED vars
  <2>1. UNCHANGED <<Turn, Held, Referenced>>
    BY <1>7 DEF vars, Turn, Held, Referenced
  <2>. QED
    BY <1>7, <2>1 DEF vars, Traced, OriginsInv, HolesInv, ShapeInv, SharingInv, PagesInv
<1>. QED
  BY <1>1, <1>2, <1>3, <1>4, <1>5, <1>6, <1>7 DEF Next

\* Both invariants hold of every run.
LEMMA TracedAlways == Spec => [](IInv /\ Traced)
<1>1. Init => IInv /\ Traced
  BY InitInv, InitTraced
<1>2. IInv /\ Traced /\ [Next]_vars => IInv' /\ Traced'
  BY NextInv, NextTraced
<1>. QED
  BY <1>1, <1>2, PTL DEF Spec

\* A slot left reserved is one the drain still comes to, one whose object a failed
\* or dropped call had popped, or one of a dropped importer's queue; a file that
\* is written has none, and its references lead to its objects.
THEOREM NoHoleIsUnexplained == Spec => []HolesAccountedFor
<1>1. IInv /\ Traced => HolesAccountedFor
  <2> SUFFICES ASSUME IInv, Traced PROVE HolesAccountedFor
    OBVIOUS
  <2>1. /\ Len(slots) \in Nat \ {0} /\ Slots = 1..Len(slots) /\ PagesRef = 1
        /\ DOMAIN pending = 1..Len(pending)
    BY Sizes DEF Slots, PagesRef, IInv, TypeOK
  <2>2. ASSUME NEW n \in Slots \ {PagesRef}, ~slots[n].full
        PROVE  \/ slots[n].from \in lost \/ slots[n].from = <<Turn, drawn>>
               \/ slots[n].from \in Forgotten
    <3>1. n \in 2..Len(slots)
      BY <2>1
    <3>2. slots[n].from \in Held
      BY <2>2, <3>1 DEF Traced, HolesInv
    <3>. QED
      BY <2>1, <3>2 DEF Held, Forgotten
  <2>3. ASSUME outcome = "written", NEW n \in Slots
        PROVE  slots[n].full /\ slots[n].refs \subseteq Slots
    <3>1. slots[n].full
      BY <2>1, <2>3 DEF Traced, HolesInv
    <3>2. slots[n].refs \subseteq 2..Len(slots)
      BY <2>1, <3>1 DEF Traced, ShapeInv, Leads
    <3>. QED
      BY <2>1, <3>1, <3>2
  <2>. QED
    BY <2>2, <2>3 DEF HolesAccountedFor
<1>. QED
  BY <1>1, TracedAlways, PTL

\* However the sources are linked, the copy is linked the same way, and no object
\* is referred to under two numbers.
THEOREM TheCopyHasTheShape == Spec => []CopyHasTheShape
<1>1. IInv /\ Traced => CopyHasTheShape
  <2> SUFFICES ASSUME IInv, Traced PROVE CopyHasTheShape
    OBVIOUS
  <2>1. Len(slots) \in Nat \ {0} /\ Slots = 1..Len(slots) /\ PagesRef = 1
    BY Sizes DEF Slots, PagesRef
  <2>2. ASSUME NEW n \in Slots, slots[n].full, slots[n].type \in {"copy", "substitute"}
        PROVE  /\ MadeFrom(n) = {slots[n].from[1]} \X inputs[slots[n].from[1]][slots[n].from[2]].refs
               /\ slots[n].parent # 0
                  => slots[slots[n].parent].from =
                        <<slots[n].from[1], inputs[slots[n].from[1]][slots[n].from[2]].parent>>
    <3>1. Leads(slots[n], slots, inputs)
      BY <2>1, <2>2 DEF Traced, ShapeInv
    <3>. QED
      BY <2>2, <3>1 DEF Leads, MadeFrom
  <2>3. UNION {slots[k].refs : k \in Slots \ {PagesRef}} \subseteq Referenced
    <3>1. Slots \ {PagesRef} = 2..Len(slots)
      BY <2>1
    <3>. QED
      BY <3>1 DEF Referenced
  <2>. QED
    BY <2>2, <2>3 DEF CopyHasTheShape, Traced, SharingInv
<1>. QED
  BY <1>1, TracedAlways, PTL

\* Whatever was copied before, a page is returned once, filled, and under the
\* caller's node.
THEOREM EveryCallGetsItsPage == Spec => []PagesAreTheirOwn
<1>1. IInv /\ Traced => PagesAreTheirOwn
  <2> SUFFICES ASSUME IInv, Traced PROVE PagesAreTheirOwn
    OBVIOUS
  <2>1. DOMAIN kids = 1..Len(kids)
    BY Sizes
  <2>. QED
    BY <2>1 DEF PagesAreTheirOwn, Traced, PagesInv, PageBody
<1>. QED
  BY <1>1, TracedAlways, PTL
=============================================================================
