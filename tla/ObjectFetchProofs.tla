------------------------- MODULE ObjectFetchProofs --------------------------
(***************************************************************************)
(* ObjectFetch proved for any files, tasks, requests and failed reads: no  *)
(* call path loads an object twice; nothing read before there was a key is *)
(* seen after it; and in a plain file the caches and the answers are what  *)
(* uncached fetches would give, whichever fetches race or fail.            *)
(*                                                                         *)
(* Uncached is the limit of a recursive function: it is shown to exist, by *)
(* induction over sets of numbers, and to be a fixed point, by induction   *)
(* over the rank of an object.                                             *)
(***************************************************************************)
EXTENDS ObjectFetch, WellFoundedInduction, FiniteSetTheorems, SequenceTheorems, TLAPS

-----------------------------------------------------------------------------
\* The last element of a sequence, and what is before it.
LEMMA FrontAndLast ==
    ASSUME NEW S, NEW s \in Seq(S), s # <<>>
    PROVE  /\ Len(s) \in Nat \ {0} /\ s[Len(s)] \in S
           /\ Front(s) \in Seq(S) /\ Len(Front(s)) = Len(s) - 1
           /\ \A i \in 1..(Len(s) - 1) : Front(s)[i] = s[i]
<1>1. Len(s) \in Nat \ {0} /\ \A i \in 1..Len(s) : s[i] \in S
  OBVIOUS
<1> DEFINE n == Len(s) - 1
<1>2. n \in Int /\ \A i \in 1..n : s[i] \in S
  BY <1>1
<1>3. /\ SubSeq(s, 1, n) \in Seq(S)
      /\ Len(SubSeq(s, 1, n)) = IF 1 <= n THEN n - 1 + 1 ELSE 0
      /\ \A i \in 1..(n - 1 + 1) : SubSeq(s, 1, n)[i] = s[1 + i - 1]
  <2>. HIDE DEF n
  <2>. QED
    BY <1>2, SubSeqProperties
<1>4. n \in Nat /\ n = Len(s) - 1
  BY <1>1
<1>5. Front(s) = SubSeq(s, 1, n)
  BY DEF Front
<1>. HIDE DEF n
<1>6. Len(SubSeq(s, 1, n)) = n /\ \A i \in 1..n : SubSeq(s, 1, n)[i] = s[i]
  BY <1>3, <1>4
<1>. QED
  BY <1>1, <1>3, <1>4, <1>5, <1>6

\* A count looks at the calls up to its position only.
LEMMA CountOfPrefix ==
    ASSUME NEW m, NEW s, NEW r, NEW i \in Nat, \A j \in 1..i : s[j] = r[j]
    PROVE  Count(m, s, i) = Count(m, r, i)
<1>1. {j \in 1..i : Loading(m, s[j])} = {j \in 1..i : Loading(m, r[j])}
  OBVIOUS
<1>. QED
  BY <1>1 DEF Count

LEMMA CountIsNat ==
    ASSUME NEW m, NEW s, NEW i \in Nat
    PROVE  /\ IsFiniteSet({j \in 1..i : Loading(m, s[j])}) /\ Count(m, s, i) \in Nat
           /\ Count(m, s, 0) = 0
<1>1. IsFiniteSet(1..i)
  BY FS_Interval
<1>2. IsFiniteSet({j \in 1..i : Loading(m, s[j])})
  BY <1>1, FS_Subset
<1>3. {j \in 1..0 : Loading(m, s[j])} = {}
  OBVIOUS
<1>. QED
  BY <1>2, <1>3, FS_CardinalityType, FS_EmptySet DEF Count

\* And grows by the calls that load.
LEMMA CountOfNext ==
    ASSUME NEW m, NEW s, NEW i \in Nat
    PROVE  /\ Loading(m, s[i + 1]) => Count(m, s, i + 1) = Count(m, s, i) + 1
           /\ ~Loading(m, s[i + 1]) => Count(m, s, i + 1) = Count(m, s, i)
<1> DEFINE C(k) == {j \in 1..k : Loading(m, s[j])}
<1>1. CASE Loading(m, s[i + 1])
  <2>1. C(i + 1) = C(i) \cup {i + 1} /\ i + 1 \notin C(i)
    BY <1>1
  <2>2. IsFiniteSet(C(i))
    BY CountIsNat
  <2>. QED
    BY <1>1, <2>1, <2>2, FS_AddElement DEF Count
<1>2. CASE ~Loading(m, s[i + 1])
  <2>1. C(i + 1) = C(i)
    BY <1>2
  <2>. QED
    BY <1>2, <2>1 DEF Count
<1>. QED
  BY <1>1, <1>2

\* A call that loads has a position on the chain, and two of them have two.
LEMMA PositionsRise ==
    ASSUME NEW m, NEW s, NEW i \in Nat \ {0}, NEW j \in Nat, i < j, Loading(m, s[j])
    PROVE  Count(m, s, i) < Count(m, s, j)
<1> DEFINE C(k) == {x \in 1..k : Loading(m, s[x])}
<1>1. C(i) \subseteq C(j) /\ j \in C(j) /\ j \notin C(i)
  OBVIOUS
<1>2. IsFiniteSet(C(j))
  BY CountIsNat
<1>3. C(i) # C(j)
  BY <1>1
<1>. QED
  <2>1. C(i) \in SUBSET C(j) /\ IsFiniteSet(C(i))
    BY <1>1, CountIsNat
  <2>. HIDE DEF C
  <2>2. /\ Cardinality(C(i)) <= Cardinality(C(j))
        /\ Cardinality(C(i)) # Cardinality(C(j))
    BY <1>2, <1>3, <2>1, FS_Subset
  <2>3. Cardinality(C(i)) \in Nat /\ Cardinality(C(j)) \in Nat
    BY <1>2, <2>1, FS_CardinalityType
  <2>. QED
    BY <2>2, <2>3 DEF Count, C

LEMMA PositionOnChain ==
    ASSUME NEW m, NEW s, NEW n \in Nat, NEW i \in 1..n, Loading(m, s[i])
    PROVE  Count(m, s, i) \in 1..Count(m, s, n)
<1> DEFINE C(k) == {x \in 1..k : Loading(m, s[x])}
<1>1. C(i) \in SUBSET C(n) /\ i \in C(i) /\ i \in Nat
  OBVIOUS
<1>2. IsFiniteSet(C(n)) /\ IsFiniteSet(C(i))
  BY <1>1, CountIsNat
<1>. HIDE DEF C
<1>3. Cardinality(C(i)) <= Cardinality(C(n)) /\ Cardinality(C(i)) # 0
  BY <1>1, <1>2, FS_Subset, FS_EmptySet
<1>4. Cardinality(C(i)) \in Nat /\ Cardinality(C(n)) \in Nat
  BY <1>2, FS_CardinalityType
<1>. QED
  BY <1>3, <1>4 DEF Count, C

-----------------------------------------------------------------------------
\* The call at the top ends: its number is the last of the chain if it loads.
LEMMA PathOfFront ==
    ASSUME NEW m, NEW s \in Seq(Frames), s # <<>>, NEW c \in Seq(Nums), IsPath(m, s, c)
    PROVE  /\ ~Loading(m, s[Len(s)]) => IsPath(m, Front(s), c)
           /\ Loading(m, s[Len(s)]) =>
                 /\ c # <<>> /\ IsPath(m, Front(s), Front(c))
                 /\ c[Len(c)] = s[Len(s)].num
<1> DEFINE n == Len(s) - 1
           r == Front(s)
<1>1. /\ n \in Nat /\ Len(s) = n + 1 /\ Len(r) = n /\ Len(c) \in Nat
      /\ \A i \in 1..n : r[i] = s[i]
  BY FrontAndLast
<1>2. /\ Len(c) = Count(m, s, n + 1)
      /\ \A i \in 1..(n + 1) : Loading(m, s[i]) => c[Count(m, s, i)] = s[i].num
      /\ \A i, j \in 1..Len(c) : c[i] = c[j] => i = j
  BY <1>1 DEF IsPath
<1>. HIDE DEF n, r
<1>3. \A i \in 1..n : Count(m, r, i) = Count(m, s, i)
  <2> SUFFICES ASSUME NEW i \in 1..n PROVE Count(m, r, i) = Count(m, s, i)
    OBVIOUS
  <2>1. i \in Nat /\ \A j \in 1..i : r[j] = s[j]
    BY <1>1
  <2>. QED
    BY <2>1, CountOfPrefix
<1>4. Count(m, r, n) = Count(m, s, n) /\ Count(m, s, n) \in Nat
  BY <1>1, CountOfPrefix, CountIsNat
<1>5. CASE ~Loading(m, s[n + 1])
  <2>1. Len(c) = Count(m, r, n)
    BY <1>1, <1>2, <1>4, <1>5, CountOfNext
  <2>. QED
    BY <1>1, <1>2, <1>3, <1>5, <2>1 DEF IsPath, r
<1>6. CASE Loading(m, s[n + 1])
  <2> DEFINE d == Front(c)
  <2>1. Len(c) = Count(m, r, n) + 1
    BY <1>1, <1>2, <1>4, <1>6, CountOfNext
  <2>2. c # <<>>
    BY <1>4, <2>1
  <2>3. Len(d) = Count(m, r, n) /\ \A k \in 1..Count(m, r, n) : d[k] = c[k]
    <3>1. Len(d) = Len(c) - 1 /\ \A k \in 1..(Len(c) - 1) : d[k] = c[k]
      BY <2>2, FrontAndLast
    <3>2. Len(c) - 1 = Count(m, r, n)
      BY <1>4, <2>1
    <3>. QED
      BY <3>1, <3>2
  <2>4. c[Len(c)] = s[n + 1].num
    BY <1>1, <1>2, <1>6
  <2>. HIDE DEF d
  <2>5. \A i \in 1..n : Loading(m, r[i]) => d[Count(m, r, i)] = r[i].num
    <3> SUFFICES ASSUME NEW i \in 1..n, Loading(m, r[i])
                 PROVE  d[Count(m, r, i)] = r[i].num
      OBVIOUS
    <3>1. Count(m, r, i) \in 1..Count(m, r, n)
      BY <1>1, PositionOnChain
    <3>2. c[Count(m, s, i)] = s[i].num
      BY <1>1, <1>2
    <3>. QED
      BY <1>1, <1>3, <2>3, <3>1, <3>2
  <2>6. \A i, j \in 1..Len(d) : d[i] = d[j] => i = j
    BY <1>2, <1>4, <2>1, <2>3
  <2>. QED
    BY <1>1, <1>6, <2>2, <2>3, <2>4, <2>5, <2>6 DEF IsPath, r, d
<1>. QED
  BY <1>1, <1>5, <1>6

\* A call comes on top: one that loads puts its number on the chain, if it is
\* not there.
LEMMA PathOfAppend ==
    ASSUME NEW m, NEW s \in Seq(Frames), NEW c \in Seq(Nums), IsPath(m, s, c),
           NEW f \in Frames
    PROVE  /\ ~Loading(m, f) => IsPath(m, Append(s, f), c)
           /\ Loading(m, f) /\ (\A k \in 1..Len(c) : c[k] # f.num) =>
                 IsPath(m, Append(s, f), Append(c, f.num))
<1> DEFINE n == Len(s)
           r == Append(s, f)
<1>1. /\ n \in Nat /\ Len(r) = n + 1 /\ r[n + 1] = f /\ Len(c) \in Nat
      /\ \A i \in 1..n : r[i] = s[i]
  OBVIOUS
<1>2. /\ Len(c) = Count(m, s, n)
      /\ \A i \in 1..n : Loading(m, s[i]) => c[Count(m, s, i)] = s[i].num
      /\ \A i, j \in 1..Len(c) : c[i] = c[j] => i = j
  BY DEF IsPath
<1>. HIDE DEF n, r
<1>3. \A i \in 1..n : Count(m, r, i) = Count(m, s, i)
  <2> SUFFICES ASSUME NEW i \in 1..n PROVE Count(m, r, i) = Count(m, s, i)
    OBVIOUS
  <2>1. i \in Nat /\ \A j \in 1..i : r[j] = s[j]
    BY <1>1
  <2>. QED
    BY <2>1, CountOfPrefix
<1>4. Count(m, r, n) = Count(m, s, n)
  BY <1>1, CountOfPrefix
<1>5. CASE ~Loading(m, f)
  <2>1. Len(c) = Count(m, r, n + 1)
    BY <1>1, <1>2, <1>4, <1>5, CountOfNext
  <2>2. \A i \in 1..(n + 1) : Loading(m, r[i]) => i \in 1..n
    BY <1>1, <1>5
  <2>. QED
    BY <1>1, <1>2, <1>3, <1>5, <2>1, <2>2 DEF IsPath, r
<1>6. CASE Loading(m, f) /\ (\A k \in 1..Len(c) : c[k] # f.num)
  <2> DEFINE d == Append(c, f.num)
  <2>1. /\ Len(d) = Len(c) + 1 /\ d[Len(c) + 1] = f.num
        /\ \A k \in 1..Len(c) : d[k] = c[k]
    OBVIOUS
  <2>. HIDE DEF d
  <2>2. Count(m, r, n + 1) = Len(c) + 1
    BY <1>1, <1>2, <1>4, <1>6, CountOfNext
  <2>3. \A i \in 1..(n + 1) : Loading(m, r[i]) => d[Count(m, r, i)] = r[i].num
    <3> SUFFICES ASSUME NEW i \in 1..(n + 1), Loading(m, r[i])
                 PROVE  d[Count(m, r, i)] = r[i].num
      OBVIOUS
    <3>1. CASE i = n + 1
      BY <1>1, <2>1, <2>2, <3>1
    <3>2. CASE i \in 1..n
      <4>1. Count(m, s, i) \in 1..Count(m, s, n)
        BY <1>1, <3>2, PositionOnChain
      <4>2. c[Count(m, s, i)] = s[i].num
        BY <1>1, <1>2, <3>2
      <4>. QED
        BY <1>1, <1>2, <1>3, <2>1, <3>2, <4>1, <4>2
    <3>. QED
      BY <1>1, <3>1, <3>2
  <2>4. \A i, j \in 1..Len(d) : d[i] = d[j] => i = j
    BY <1>1, <1>2, <1>6, <2>1
  <2>. QED
    BY <1>1, <1>6, <2>1, <2>2, <2>3, <2>4 DEF IsPath, r, d
<1>. QED
  BY <1>5, <1>6

-----------------------------------------------------------------------------
\* The four ways a call goes on: it returns, or its frame is replaced and may
\* call another; a load enters the chain, and leaves it.
Task(stack, chain, ret) == [stack |-> stack, chain |-> chain, ret |-> ret]

LEMMA TopFits ==
    ASSUME NEW ph, NEW m, NEW k, Fits(ph, m, k), k.stack # <<>>
    PROVE  LET f == k.stack[Len(k.stack)]
           IN  /\ f \in Frames /\ HasObject(ph, f)
               /\ k.stack \in Seq(Frames) /\ k.chain \in Seq(Nums) /\ k.ret \in Values
               /\ Front(k.stack) \in Seq(Frames) /\ IsPath(m, k.stack, k.chain)
               /\ \A i \in 1..Len(Front(k.stack)) : HasObject(ph, Front(k.stack)[i])
<1>1. k.stack \in Seq(Frames) /\ k.chain \in Seq(Nums) /\ k.ret \in Values
  BY DEF Fits
<1>2. /\ Len(k.stack) \in Nat \ {0} /\ k.stack[Len(k.stack)] \in Frames
      /\ Front(k.stack) \in Seq(Frames) /\ Len(Front(k.stack)) = Len(k.stack) - 1
      /\ \A i \in 1..(Len(k.stack) - 1) : Front(k.stack)[i] = k.stack[i]
  BY <1>1, FrontAndLast
<1>. QED
  BY <1>1, <1>2 DEF Fits

LEMMA ReturningFits ==
    ASSUME NEW ph, NEW m, NEW k, Fits(ph, m, k), k.stack # <<>>, NEW v \in Values
    PROVE  /\ ~Loading(m, k.stack[Len(k.stack)]) =>
                 Fits(ph, m, Task(Front(k.stack), k.chain, v))
           /\ Loading(m, k.stack[Len(k.stack)]) =>
                 Fits(ph, m, Task(Front(k.stack), Front(k.chain), v))
<1>1. /\ k.stack \in Seq(Frames) /\ k.chain \in Seq(Nums) /\ Front(k.stack) \in Seq(Frames)
      /\ IsPath(m, k.stack, k.chain)
      /\ \A i \in 1..Len(Front(k.stack)) : HasObject(ph, Front(k.stack)[i])
  BY TopFits
<1>2. CASE ~Loading(m, k.stack[Len(k.stack)])
  BY <1>1, <1>2, PathOfFront DEF Fits, Task
<1>3. CASE Loading(m, k.stack[Len(k.stack)])
  <2>1. k.chain # <<>> /\ IsPath(m, Front(k.stack), Front(k.chain))
    BY <1>1, <1>3, PathOfFront
  <2>2. Front(k.chain) \in Seq(Nums)
    BY <1>1, <2>1, FrontAndLast
  <2>. QED
    BY <1>1, <1>3, <2>1, <2>2 DEF Fits, Task
<1>. QED
  BY <1>2, <1>3

\* A frame on top of what fits.
LEMMA PushingFits ==
    ASSUME NEW ph, NEW m, NEW s \in Seq(Frames), NEW c \in Seq(Nums), NEW v \in Values,
           Fits(ph, m, Task(s, c, v)), NEW f \in Frames, HasObject(ph, f)
    PROVE  /\ ~Loading(m, f) => Fits(ph, m, Task(Append(s, f), c, v))
           /\ Loading(m, f) /\ (\A i \in 1..Len(c) : c[i] # f.num) =>
                 Fits(ph, m, Task(Append(s, f), Append(c, f.num), v))
<1>1. IsPath(m, s, c) /\ \A i \in 1..Len(s) : HasObject(ph, s[i])
  BY DEF Fits, Task
<1>2. /\ Append(s, f) \in Seq(Frames)
      /\ \A i \in 1..Len(Append(s, f)) : HasObject(ph, Append(s, f)[i])
  BY <1>1
<1>3. f.num \in Nums
  BY DEF Frames
<1>4. Append(c, f.num) \in Seq(Nums)
  BY <1>3
<1>. QED
  BY <1>1, <1>2, <1>4, PathOfAppend DEF Fits, Task

\* What a call may go on to call.
Calls == {<<>>} \cup {<<g>> : g \in {h \in Frames : h.at = "begin"}}

LEMMA CallingFits ==
    ASSUME NEW ph, NEW m, NEW s \in Seq(Frames), NEW c \in Seq(Nums), NEW v \in Values,
           Fits(ph, m, Task(s, c, v)), NEW calls \in Calls
    PROVE  Fits(ph, m, Task(s \o calls, c, v))
<1>1. CASE calls = <<>>
  <2>1. s \o calls = s
    BY <1>1
  <2>. QED
    BY <2>1
<1>2. ASSUME NEW g \in Frames, g.at = "begin", calls = <<g>>
      PROVE  Fits(ph, m, Task(s \o calls, c, v))
  <2>1. s \o calls = Append(s, g)
    BY <1>2
  <2>2. ~Loading(m, g) /\ HasObject(ph, g)
    BY <1>2 DEF Loading, HasObject
  <2>. QED
    BY <2>1, <2>2, PushingFits
<1>. QED
  BY <1>1, <1>2 DEF Calls

\* A call that goes on, and loads if it did before.
LEMMA GoingFits ==
    ASSUME NEW ph, NEW m, NEW k, Fits(ph, m, k), k.stack # <<>>,
           NEW f \in Frames, HasObject(ph, f), NEW calls \in Calls,
           Loading(m, f) <=> Loading(m, k.stack[Len(k.stack)]),
           Loading(m, f) => f.num = k.stack[Len(k.stack)].num
    PROVE  Fits(ph, m, Task(Front(k.stack) \o <<f>> \o calls, k.chain, k.ret))
<1> DEFINE r == Front(k.stack)
<1>1. /\ k.stack \in Seq(Frames) /\ k.chain \in Seq(Nums) /\ r \in Seq(Frames)
      /\ k.ret \in Values /\ IsPath(m, k.stack, k.chain)
  BY TopFits
<1>2. r \o <<f>> = Append(r, f) /\ Append(r, f) \in Seq(Frames)
  BY <1>1
<1>3. Fits(ph, m, Task(Append(r, f), k.chain, k.ret))
  <2>1. CASE ~Loading(m, f)
    BY <1>1, <2>1, ReturningFits, PushingFits
  <2>2. CASE Loading(m, f)
    <3> DEFINE d == Front(k.chain)
    <3>1. /\ k.chain # <<>> /\ k.chain[Len(k.chain)] = f.num
          /\ Fits(ph, m, Task(r, d, k.ret))
      BY <1>1, <2>2, PathOfFront, ReturningFits
    <3>2. /\ d \in Seq(Nums) /\ Len(d) = Len(k.chain) - 1 /\ Len(k.chain) \in Nat \ {0}
          /\ \A i \in 1..(Len(k.chain) - 1) : d[i] = k.chain[i]
      BY <1>1, <3>1, FrontAndLast
    <3>. HIDE DEF d
    <3>3. \A i \in 1..Len(d) : d[i] # f.num
      <4>1. \A i, j \in 1..Len(k.chain) : k.chain[i] = k.chain[j] => i = j
        BY <1>1 DEF IsPath
      <4>2. \A i \in 1..Len(d) : i \in 1..Len(k.chain) /\ i # Len(k.chain) /\ d[i] = k.chain[i]
        BY <3>2
      <4>3. Len(k.chain) \in 1..Len(k.chain)
        BY <3>2
      <4>. QED
        BY <3>1, <4>1, <4>2, <4>3
    <3>4. Append(d, f.num) = k.chain
      <4>1. f.num \in Nums
        BY DEF Frames
      <4>2. /\ Append(d, f.num) \in Seq(Nums) /\ Len(Append(d, f.num)) = Len(k.chain)
            /\ \A i \in 1..Len(k.chain) : Append(d, f.num)[i] = k.chain[i]
        BY <3>1, <3>2, <4>1
      <4>. QED
        BY <1>1, <4>2, SeqEqual
    <3>5. Fits(ph, m, Task(Append(r, f), Append(d, f.num), k.ret))
      BY <1>1, <2>2, <3>1, <3>2, <3>3, PushingFits
    <3>. QED
      BY <3>4, <3>5
  <2>. QED
    BY <2>1, <2>2
<1>. QED
  BY <1>1, <1>2, <1>3, CallingFits

\* A call that begins to load.
LEMMA EnteringFits ==
    ASSUME NEW ph, NEW m, NEW k, Fits(ph, m, k), k.stack # <<>>,
           NEW f \in Frames, HasObject(ph, f), NEW calls \in Calls,
           Loading(m, f), ~Loading(m, k.stack[Len(k.stack)]),
           \A i \in 1..Len(k.chain) : k.chain[i] # f.num
    PROVE  Fits(ph, m, Task(Front(k.stack) \o <<f>> \o calls, Append(k.chain, f.num), k.ret))
<1> DEFINE r == Front(k.stack)
<1>1. /\ k.chain \in Seq(Nums) /\ r \in Seq(Frames) /\ k.ret \in Values /\ f.num \in Nums
  BY TopFits DEF Frames
<1>2. /\ r \o <<f>> = Append(r, f) /\ Append(r, f) \in Seq(Frames)
      /\ Append(k.chain, f.num) \in Seq(Nums)
  BY <1>1
<1>3. Fits(ph, m, Task(Append(r, f), Append(k.chain, f.num), k.ret))
  BY <1>1, ReturningFits, PushingFits
<1>. QED
  BY <1>1, <1>2, <1>3, CallingFits

-----------------------------------------------------------------------------
\* What the caches hold, ph being the phase.
Cached(ph, cache) ==
    /\ DOMAIN cache \subseteq Nums
    /\ \A n \in DOMAIN cache :
          /\ cache[n] \in Values /\ cache[n].kind \in Kinds
          /\ ph \in {"clearing", "open"} => cache[n].text = "plain"
Decoded(cache) == DOMAIN cache \subseteq Nums /\ \A n \in DOMAIN cache : cache[n] \in Values

\* The invariant, without the tasks.
DocumentOK ==
    /\ file \in Files /\ mode \in Modes /\ phase \in {"opening", "clearing", "open", "failed"}
    /\ key \in BOOLEAN /\ opened \in Nat
    /\ phase \in {"clearing", "open"} /\ Encrypted => key
    /\ Cached(phase, objects) /\ Decoded(objstms)
    /\ faults \in 0..MaxFaults /\ requests \in 0..MaxRequests
TasksFit ==
    /\ task \in [Tasks -> [stack : Seq(Frames), chain : Seq(Nums), ret : Values]]
    /\ phase = "opening" => \A t \in Tasks \ {Opener} : Idle(t)
    /\ \A t \in Tasks : Fits(phase, mode, task[t])

LEMMA IInvParts == IInv <=> DocumentOK /\ TasksFit
<1>1. IInv => DocumentOK
  BY DEF IInv, TypeOK, OpenedAlone, DocumentOK, Cached, Decoded
<1>2. IInv => TasksFit
  BY DEF IInv, TypeOK, OpenedAlone, TasksFit
<1>3. DocumentOK /\ TasksFit => IInv
  BY DEF IInv, TypeOK, OpenedAlone, DocumentOK, TasksFit, Cached, Decoded
<1>. QED
  BY <1>1, <1>2, <1>3

\* The task of a step becomes one that fits.
LEMMA TaskStep ==
    ASSUME IInv, NEW t \in Tasks, ~Idle(t), NEW k, Fits(phase, mode, k),
           task' = [task EXCEPT ![t] = k], UNCHANGED docVars
    PROVE  TasksFit'
<1>1. TasksFit
  BY IInvParts
<1>2. k \in [stack : Seq(Frames), chain : Seq(Nums), ret : Values]
  BY DEF Fits
<1>3. mode' = mode /\ phase' = phase
  BY DEF docVars
<1>4. task' \in [Tasks -> [stack : Seq(Frames), chain : Seq(Nums), ret : Values]]
  BY <1>1, <1>2 DEF TasksFit
<1>5. \A u \in Tasks : task'[u] = IF u = t THEN k ELSE task[u]
  BY <1>1 DEF TasksFit
<1>6. phase' = "opening" => \A u \in Tasks \ {Opener} : Idle(u)'
  BY <1>1, <1>3, <1>5 DEF TasksFit, Idle
<1>7. \A u \in Tasks : Fits(phase', mode', task'[u])
  BY <1>1, <1>3, <1>5 DEF TasksFit
<1>. QED
  BY <1>4, <1>6, <1>7 DEF TasksFit

IsTask(k) == k = Task(k.stack, k.chain, k.ret)

LEMMA TopOfTask ==
    ASSUME IInv, NEW t \in Tasks, ~Idle(t)
    PROVE  /\ Top(t) \in Frames /\ HasObject(phase, Top(t)) /\ Ret(t) \in Values
           /\ Fits(phase, mode, task[t]) /\ task[t].stack # <<>>
           /\ task[t].chain \in Seq(Nums) /\ Top(t).num \in Nums
           /\ IsTask(task[t])
           /\ task \in [Tasks -> [stack : Seq(Frames), chain : Seq(Nums), ret : Values]]
<1>1. TasksFit
  BY IInvParts
<1>2. Fits(phase, mode, task[t]) /\ task[t].stack # <<>>
  BY <1>1 DEF TasksFit, Idle
<1>3. /\ Top(t) \in Frames /\ HasObject(phase, Top(t)) /\ task[t].chain \in Seq(Nums)
      /\ Ret(t) \in Values
  BY <1>2, TopFits DEF Top, Ret
<1>4. IsTask(task[t])
  BY <1>1 DEF TasksFit, IsTask, Task
<1>. QED
  BY <1>1, <1>2, <1>3, <1>4 DEF TasksFit, Frames

\* What the updates of a task in the actions come to.
WithStack(k, stack) == [k EXCEPT !.stack = stack]
WithRet(k, ret) == [k EXCEPT !.ret = ret]
WithChain(k, chain) == [k EXCEPT !.chain = chain]

LEMMA UpdatedTask ==
    ASSUME NEW a, NEW b, NEW c, NEW x
    PROVE  /\ WithStack(Task(a, b, c), x) = Task(x, b, c)
           /\ WithRet(Task(a, b, c), x) = Task(a, b, x)
           /\ WithChain(Task(a, b, c), x) = Task(a, x, c)
           /\ Task(a, b, c).chain = b
BY DEF Task, WithStack, WithRet, WithChain

LEMMA GoingIs ==
    ASSUME NEW t \in Tasks, NEW f, NEW calls, IsTask(task[t])
    PROVE  Goes(t, f, calls) = Task(Below(t) \o <<f>> \o calls, task[t].chain, task[t].ret)
<1>1. Goes(t, f, calls) = WithStack(task[t], Below(t) \o <<f>> \o calls)
  BY Zenon DEF Goes, WithStack
<1>. QED
  BY <1>1, UpdatedTask DEF IsTask

LEMMA EnteringIs ==
    ASSUME NEW t \in Tasks, NEW f, NEW calls, IsTask(task[t]), NEW n
    PROVE  [Goes(t, f, calls) EXCEPT !.chain = Append(@, n)] =
           Task(Below(t) \o <<f>> \o calls, Append(task[t].chain, n), task[t].ret)
<1> DEFINE g == Goes(t, f, calls)
<1>1. [g EXCEPT !.chain = Append(@, n)] = WithChain(g, Append(g.chain, n))
  BY Zenon DEF WithChain
<1>2. WithChain(g, Append(g.chain, n)) =
      Task(Below(t) \o <<f>> \o calls, Append(task[t].chain, n), task[t].ret)
  BY GoingIs, UpdatedTask
<1>. QED
  BY <1>1, <1>2, Zenon

LEMMA ReturningIs ==
    ASSUME NEW t \in Tasks, IsTask(task[t]), NEW v, Returning(t, v)
    PROVE  task' = [task EXCEPT ![t] = Task(Below(t), task[t].chain, v)]
<1> DEFINE k == WithRet(WithStack(task[t], Below(t)), v)
<1>1. [task EXCEPT ![t].stack = Below(t), ![t].ret = v] = [task EXCEPT ![t] = k]
  BY DEF WithRet, WithStack
<1>2. k = Task(Below(t), task[t].chain, v)
  BY UpdatedTask DEF IsTask
<1>. QED
  BY <1>1, <1>2, Zenon DEF Returning

LEMMA LeavingIs ==
    ASSUME NEW t \in Tasks, IsTask(task[t]), NEW v, Leaving(t, v)
    PROVE  task' = [task EXCEPT ![t] = Task(Below(t), Front(task[t].chain), v)]
<1> DEFINE d == Front(task[t].chain)
           k == WithChain(WithRet(WithStack(task[t], Below(t)), v), d)
<1>1. [task EXCEPT ![t].stack = Below(t), ![t].ret = v, ![t].chain = Front(@)] =
      [task EXCEPT ![t] = k]
  BY DEF WithRet, WithStack, WithChain
<1>2. k = Task(Below(t), d, v)
  BY UpdatedTask DEF IsTask
<1>. QED
  BY <1>1, <1>2, Zenon DEF Leaving

LEMMA GoingStep ==
    ASSUME IInv, NEW t \in Tasks, ~Idle(t), UNCHANGED docVars,
           NEW f \in Frames, HasObject(phase, f), NEW calls \in Calls,
           Loading(mode, f) <=> Loading(mode, Top(t)),
           Loading(mode, f) => f.num = Top(t).num, Going(t, f, calls)
    PROVE  TasksFit'
<1>1. Fits(phase, mode, task[t]) /\ task[t].stack # <<>>
  BY TopOfTask
<1>2. Fits(phase, mode, Task(Below(t) \o <<f>> \o calls, task[t].chain, task[t].ret))
  BY <1>1, GoingFits DEF Top, Below
<1>3. Goes(t, f, calls) = Task(Below(t) \o <<f>> \o calls, task[t].chain, task[t].ret)
  BY TopOfTask, GoingIs
<1>. QED
  BY <1>2, <1>3, TaskStep DEF Going

LEMMA ReturningStep ==
    ASSUME IInv, NEW t \in Tasks, ~Idle(t), UNCHANGED docVars, NEW v \in Values,
           ~Loading(mode, Top(t)), Returning(t, v)
    PROVE  TasksFit'
<1>1. Fits(phase, mode, task[t]) /\ task[t].stack # <<>>
  BY TopOfTask
<1>2. Fits(phase, mode, Task(Below(t), task[t].chain, v))
  BY <1>1, ReturningFits DEF Top, Below
<1>3. task' = [task EXCEPT ![t] = Task(Below(t), task[t].chain, v)]
  BY TopOfTask, ReturningIs
<1>. QED
  BY <1>2, <1>3, TaskStep

LEMMA LeavingStep ==
    ASSUME IInv, NEW t \in Tasks, ~Idle(t), UNCHANGED docVars, NEW v \in Values,
           Loading(mode, Top(t)), Leaving(t, v)
    PROVE  TasksFit'
<1>1. Fits(phase, mode, task[t]) /\ task[t].stack # <<>>
  BY TopOfTask
<1>2. Fits(phase, mode, Task(Below(t), Front(task[t].chain), v))
  BY <1>1, ReturningFits DEF Top, Below
<1>3. task' = [task EXCEPT ![t] = Task(Below(t), Front(task[t].chain), v)]
  BY TopOfTask, LeavingIs
<1>. QED
  BY <1>2, <1>3, TaskStep

LEMMA EnteringStep ==
    ASSUME IInv, NEW t \in Tasks, ~Idle(t), UNCHANGED docVars,
           NEW f \in Frames, HasObject(phase, f), NEW calls \in Calls,
           Loading(mode, f), ~Loading(mode, Top(t)), ~Guarded(t, f.num),
           task' = [task EXCEPT ![t] = [Goes(t, f, calls) EXCEPT !.chain = Append(@, f.num)]]
    PROVE  TasksFit'
<1>1. Fits(phase, mode, task[t]) /\ task[t].stack # <<>> /\ task[t].chain \in Seq(Nums)
  BY TopOfTask
<1>2. \A i \in 1..Len(task[t].chain) : task[t].chain[i] # f.num
  BY <1>1 DEF Guarded, ToSet
<1>3. Fits(phase, mode,
           Task(Below(t) \o <<f>> \o calls, Append(task[t].chain, f.num), task[t].ret))
  BY <1>1, <1>2, EnteringFits DEF Top, Below
<1>4. [Goes(t, f, calls) EXCEPT !.chain = Append(@, f.num)] =
      Task(Below(t) \o <<f>> \o calls, Append(task[t].chain, f.num), task[t].ret)
  BY TopOfTask, EnteringIs, Zenon
<1>. QED
  BY <1>3, <1>4, TaskStep

-----------------------------------------------------------------------------
\* What the caches are given, and what the rest of the document keeps.
LEMMA WithOne ==
    ASSUME NEW ph, NEW cache, NEW n \in Nums, NEW v \in Values
    PROVE  /\ Decoded(cache) => Decoded(With(cache, n, v))
           /\ Cached(ph, cache) /\ v.kind \in Kinds
                 /\ (ph \in {"clearing", "open"} => v.text = "plain")
              => Cached(ph, With(cache, n, v))
<1> DEFINE w == With(cache, n, v)
<1>1. /\ DOMAIN w = DOMAIN cache \cup {n} /\ w[n] = v
      /\ \A x \in DOMAIN cache \ {n} : w[x] = cache[x]
  BY DEF With
<1>. HIDE DEF w
<1>2. Decoded(cache) => Decoded(w)
  BY <1>1 DEF Decoded
<1>3. ASSUME Cached(ph, cache), v.kind \in Kinds, ph \in {"clearing", "open"} => v.text = "plain"
      PROVE  Cached(ph, w)
  BY <1>1, <1>3 DEF Cached
<1>. QED
  BY <1>2, <1>3 DEF w

LEMMA DocumentStep ==
    ASSUME IInv, UNCHANGED docVars, Cached(phase, objects'), Decoded(objstms'),
           faults' \in 0..MaxFaults, requests' \in 0..MaxRequests
    PROVE  DocumentOK'
BY IInvParts DEF DocumentOK, docVars, Encrypted

LEMMA SameDocument ==
    ASSUME IInv, UNCHANGED <<docVars, objects, objstms, requests, faults>>
    PROVE  DocumentOK'
<1>1. Cached(phase, objects') /\ Decoded(objstms')
  BY IInvParts DEF DocumentOK
<1>2. faults' \in 0..MaxFaults /\ requests' \in 0..MaxRequests
  BY IInvParts DEF DocumentOK
<1>. QED
  BY <1>1, <1>2, DocumentStep

-----------------------------------------------------------------------------
\* Types of what the actions make.
LEMMA EntryFacts ==
    ASSUME IInv, NEW n \in Nums
    PROVE  /\ E(n).at \in {"free", "file", "stream"}
           /\ E(n).kind \in Kinds /\ E(n).length \in Refs /\ E(n).n \in Refs /\ E(n).to \in Refs
           /\ E(n).at = "stream" => E(n).container \in Nums
           /\ E(n).kind = "ref" => E(n).to # 0
<1>1. file \in Files
  BY IInvParts DEF DocumentOK
<1>2. E(n) \in Entry
  BY <1>1, ObjectFetchAssumption DEF E
<1>. QED
  BY <1>2 DEF Entry, Refs

LEMMA ValueFits ==
    ASSUME NEW kind \in Kinds \cup {"circular", "missing", "null", "built"},
           NEW length \in {"none", "declared", "recovered"}, NEW text \in {"plain", "cipher"},
           NEW to \in Refs, kind = "ref" => to # 0
    PROVE  /\ Value(kind, length, text, to) \in Values
           /\ Value(kind, length, text, to).kind = kind /\ Value(kind, length, text, to).text = text
BY DEF Value, Values

LEMMA ValueFields ==
    ASSUME NEW v \in Values
    PROVE  /\ v.kind \in Kinds \cup {"circular", "missing", "null", "built"}
           /\ v.length \in {"none", "declared", "recovered"} /\ v.text \in {"plain", "cipher"}
           /\ v.to \in Refs /\ (v.kind = "ref" => v.to \in Nums)
BY DEF Values, Refs

LEMMA FailuresFit == {Circular, Missing, Null, Built} \subseteq Values
<1>1. 0 \in Refs
  BY DEF Refs
<1>. QED
  BY <1>1, ValueFits DEF Circular, Missing, Null, Built, Failure

\* The length of a parse is the last thing known of the object.
LEMMA ParsedFits ==
    ASSUME IInv, NEW n \in Nums, NEW length \in {"none", "declared", "recovered"}
    PROVE  /\ Parsed(n, length) \in Values /\ Parsed(n, length).kind \in Kinds
           /\ phase \in {"clearing", "open"} => Parsed(n, length).text = "plain"
<1>1. Text \in {"plain", "cipher"} /\ (phase \in {"clearing", "open"} => Text = "plain")
  BY IInvParts DEF Text, DocumentOK
<1>2. /\ E(n).kind \in Kinds /\ E(n).to \in Refs /\ (E(n).kind = "ref" => E(n).to # 0)
  BY EntryFacts
<1>. QED
  BY <1>1, <1>2, ValueFits DEF Parsed

Ats == {"begin", "read", "length", "again", "parsed", "container", "object", "n",
        "decode", "store", "got"}

LEMMA FrameFacts ==
    ASSUME NEW f \in Frames
    PROVE  /\ f.fn \in {"fetch", "container", "resolve"} /\ f.num \in Nums /\ f.at \in Ats
           /\ f.depth \in Nat /\ f.val \in Values
BY DEF Frames, Ats

LEMMA BeginningCalls ==
    ASSUME NEW fn \in {"fetch", "container", "resolve"}, NEW n \in Nums
    PROVE  /\ Frame(fn, n, "begin") \in Frames /\ Frame(fn, n, "begin").at = "begin"
           /\ <<Frame(fn, n, "begin")>> \in Calls /\ <<>> \in Calls
<1>1. Null \in Values
  BY FailuresFit
<1>2. Frame(fn, n, "begin") \in Frames /\ Frame(fn, n, "begin").at = "begin"
  BY <1>1 DEF Frame, Frames
<1>. QED
  BY <1>2 DEF Calls

\* A frame that goes on.
At(f, at) == [f EXCEPT !.at = at]
AtWith(f, at, v) == [f EXCEPT !.at = at, !.val = v]

LEMMA FrameAt ==
    ASSUME NEW f \in Frames, NEW at \in Ats
    PROVE  /\ At(f, at) \in Frames /\ At(f, at).at = at /\ At(f, at).fn = f.fn
           /\ At(f, at).num = f.num /\ At(f, at).val = f.val
<1>1. At(f, at) \in Frames
  BY DEF At, Frames, Ats
<1>2. /\ At(f, at).at = at /\ At(f, at).fn = f.fn
      /\ At(f, at).num = f.num /\ At(f, at).val = f.val
  BY DEF At, Frames, Ats
<1>. QED
  BY <1>1, <1>2

LEMMA FrameAtWith ==
    ASSUME NEW f \in Frames, NEW at \in Ats, NEW v \in Values
    PROVE  /\ AtWith(f, at, v) \in Frames /\ AtWith(f, at, v).at = at
           /\ AtWith(f, at, v).fn = f.fn /\ AtWith(f, at, v).num = f.num
           /\ AtWith(f, at, v).val = v
<1>1. AtWith(f, at, v) \in Frames
  BY DEF AtWith, Frames, Ats
<1>2. /\ AtWith(f, at, v).at = at /\ AtWith(f, at, v).fn = f.fn
      /\ AtWith(f, at, v).num = f.num /\ AtWith(f, at, v).val = v
  BY DEF AtWith, Frames, Ats
<1>. QED
  BY <1>1, <1>2

LEMMA RunningFacts ==
    ASSUME NEW t, NEW fn, NEW at, Running(t, fn, at)
    PROVE  ~Idle(t) /\ Top(t).fn = fn /\ Top(t).at = at
BY DEF Running, Idle

LEMMA BothParts ==
    ASSUME DocumentOK', TasksFit'
    PROVE  IInv'
BY DEF IInv, TypeOK, OpenedAlone, DocumentOK, TasksFit, Cached, Decoded

-----------------------------------------------------------------------------
\* The steps of a fetch.
LEMMA HitKeeps ==
    ASSUME IInv, NEW t \in Tasks, Hit(t)
    PROVE  IInv'
<1>1. ~Idle(t) /\ Top(t).fn = "fetch" /\ Top(t).at = "begin"
  BY RunningFacts DEF Hit
<1>2. objects[Top(t).num] \in Values
  BY IInvParts DEF Hit, DocumentOK, Cached
<1>3. TasksFit'
  BY <1>1, <1>2, ReturningStep DEF Hit, Loading
<1>4. DocumentOK'
  BY SameDocument DEF Hit
<1>. QED
  BY <1>3, <1>4, BothParts

LEMMA RefuseKeeps ==
    ASSUME IInv, NEW t \in Tasks, Refuse(t)
    PROVE  IInv'
<1>1. ~Idle(t) /\ Top(t).fn = "fetch" /\ Top(t).at = "begin"
  BY RunningFacts DEF Refuse
<1>2. PICK v \in {Circular, Missing} : Returning(t, v)
  BY DEF Refuse
<1>3. TasksFit'
  BY <1>1, <1>2, ReturningStep, FailuresFit DEF Refuse, Loading
<1>4. DocumentOK'
  BY SameDocument DEF Refuse
<1>. QED
  BY <1>3, <1>4, BothParts

LEMMA LoadKeeps ==
    ASSUME IInv, NEW t \in Tasks, Load(t)
    PROVE  IInv'
<1> DEFINE f == Top(t)
           n == f.num
<1>1. ~Idle(t) /\ f.fn = "fetch" /\ f.at = "begin"
  BY RunningFacts DEF Load
<1>2. f \in Frames /\ n \in Nums
  BY <1>1, TopOfTask
<1>3. UNCHANGED docVars /\ ~Guarded(t, n) /\ E(n).at # "free"
  BY DEF Load
<1>4. CASE E(n).at = "file"
  <2> DEFINE g == At(f, "read")
  <2>1. g \in Frames /\ g.at = "read" /\ g.fn = "fetch" /\ g.num = n
    BY <1>1, <1>2, FrameAt DEF Ats
  <2>2. task' = [task EXCEPT ![t] = [Goes(t, g, <<>>) EXCEPT !.chain = Append(@, n)]]
    BY <1>4, Zenon DEF Load, At
  <2>. HIDE DEF g
  <2>3. <<>> \in Calls /\ HasObject(phase, g) /\ Loading(mode, g) /\ ~Loading(mode, f)
    BY <1>1, <2>1 DEF Calls, HasObject, Loading
  <2>. QED
    BY <1>1, <1>3, <2>1, <2>2, <2>3, EnteringStep, BothParts, SameDocument DEF Load
<1>5. CASE E(n).at # "file"
  <2> DEFINE g == At(f, "container")
             calls == <<Frame("container", E(n).container, "begin")>>
  <2>1. g \in Frames /\ g.at = "container" /\ g.fn = "fetch" /\ g.num = n
    BY <1>1, <1>2, FrameAt DEF Ats
  <2>2. task' = [task EXCEPT ![t] = [Goes(t, g, calls) EXCEPT !.chain = Append(@, n)]]
    BY <1>5, Zenon DEF Load, At
  <2>3. calls \in Calls
    BY <1>2, <1>3, <1>5, EntryFacts, BeginningCalls
  <2>. HIDE DEF g, calls
  <2>4. HasObject(phase, g) /\ Loading(mode, g) /\ ~Loading(mode, f)
    BY <1>1, <2>1 DEF HasObject, Loading
  <2>. QED
    BY <1>1, <1>3, <2>1, <2>2, <2>3, <2>4, EnteringStep, BothParts, SameDocument DEF Load
<1>. QED
  BY <1>4, <1>5

\* A call goes on in its own function, about the number it was.
LEMMA GoingKeeps ==
    ASSUME IInv, NEW t \in Tasks, ~Idle(t),
           NEW f \in Frames, HasObject(phase, f), NEW calls \in Calls,
           f.fn = Top(t).fn, f.num = Top(t).num \/ ~Loading(mode, Top(t)),
           f.at = "begin" <=> Top(t).at = "begin",
           Going(t, f, calls), UNCHANGED <<docVars, objects, objstms, requests, faults>>
    PROVE  IInv'
<1>1. Loading(mode, f) <=> Loading(mode, Top(t))
  BY DEF Loading
<1>. QED
  BY <1>1, GoingStep, BothParts, SameDocument

LEMMA ParseKeeps ==
    ASSUME IInv, NEW t \in Tasks, Parse(t)
    PROVE  IInv'
<1> DEFINE f == Top(t)
<1>1. ~Idle(t) /\ f.fn \in {"fetch", "container"} /\ f.at = "read"
  BY RunningFacts DEF Parse
<1>2. f \in Frames /\ f.num \in Nums
  BY <1>1, TopOfTask
<1>3. UNCHANGED <<docVars, objects, objstms, requests, faults>>
  BY DEF Parse
<1>4. CASE E(f.num).length = 0
  <2> DEFINE v == Parsed(f.num, "none")
             g == AtWith(f, "parsed", v)
  <2>1. v \in Values /\ v.kind \in Kinds /\ (phase \in {"clearing", "open"} => v.text = "plain")
    BY <1>2, ParsedFits
  <2>2. Going(t, g, <<>>)
    BY <1>4, Zenon DEF Parse, AtWith
  <2>. HIDE DEF v
  <2>3. g \in Frames /\ g.at = "parsed" /\ g.fn = f.fn /\ g.num = f.num /\ g.val = v
    BY <1>2, <2>1, FrameAtWith DEF Ats
  <2>. HIDE DEF g
  <2>4. <<>> \in Calls /\ HasObject(phase, g)
    BY <2>1, <2>3 DEF Calls, HasObject
  <2>. QED
    BY <1>1, <1>3, <2>2, <2>3, <2>4, GoingKeeps
<1>5. CASE E(f.num).length # 0
  <2> DEFINE g == At(f, "length")
             calls == <<Frame("fetch", E(f.num).length, "begin")>>
  <2>1. g \in Frames /\ g.at = "length" /\ g.fn = f.fn /\ g.num = f.num
    BY <1>2, FrameAt DEF Ats
  <2>2. Going(t, g, calls)
    BY <1>5, Zenon DEF Parse, At
  <2>3. E(f.num).length \in Nums
    BY <1>2, <1>5, EntryFacts DEF Refs
  <2>4. calls \in Calls
    BY <2>3, BeginningCalls
  <2>. HIDE DEF g, calls
  <2>5. HasObject(phase, g)
    BY <2>1 DEF HasObject
  <2>. QED
    BY <1>1, <1>3, <2>1, <2>2, <2>4, <2>5, GoingKeeps
<1>. QED
  BY <1>4, <1>5

LEMMA GotLengthKeeps ==
    ASSUME IInv, NEW t \in Tasks, GotLength(t)
    PROVE  IInv'
<1> DEFINE f == Top(t)
           v == Parsed(f.num, Measured(Ret(t)))
           at == IF Ret(t).kind = "int" THEN "again" ELSE "parsed"
           g == AtWith(f, at, v)
<1>1. ~Idle(t) /\ f.fn \in {"fetch", "container"} /\ f.at = "length"
  BY RunningFacts DEF GotLength
<1>2. f \in Frames /\ f.num \in Nums
  BY <1>1, TopOfTask
<1>3. UNCHANGED <<docVars, objects, objstms, requests, faults>>
  BY DEF GotLength
<1>4. v \in Values /\ v.kind \in Kinds /\ (phase \in {"clearing", "open"} => v.text = "plain")
  <2>1. Measured(Ret(t)) \in {"none", "declared", "recovered"}
    BY DEF Measured
  <2>. QED
    BY <1>2, <2>1, ParsedFits
<1>5. at \in {"again", "parsed"} /\ at \in Ats
  BY DEF Ats
<1>6. Going(t, g, <<>>)
  BY Zenon DEF GotLength, AtWith
<1>. HIDE DEF at, v
<1>7. g \in Frames /\ g.at = at /\ g.fn = f.fn /\ g.num = f.num /\ g.val = v
  BY <1>2, <1>4, <1>5, FrameAtWith
<1>. HIDE DEF g
<1>8. <<>> \in Calls /\ HasObject(phase, g) /\ at # "begin"
  BY <1>4, <1>5, <1>7 DEF Calls, HasObject
<1>. QED
  BY <1>1, <1>3, <1>6, <1>7, <1>8, GoingKeeps

LEMMA ParseAgainKeeps ==
    ASSUME IInv, NEW t \in Tasks, ParseAgain(t)
    PROVE  IInv'
<1> DEFINE f == Top(t)
           g == At(f, "parsed")
<1>1. ~Idle(t) /\ f.fn \in {"fetch", "container"} /\ f.at = "again"
  BY RunningFacts DEF ParseAgain
<1>2. f \in Frames /\ HasObject(phase, f)
  BY <1>1, TopOfTask
<1>3. UNCHANGED <<docVars, objects, objstms, requests, faults>>
  BY DEF ParseAgain
<1>4. g \in Frames /\ g.at = "parsed" /\ g.fn = f.fn /\ g.num = f.num /\ g.val = f.val
  BY <1>2, FrameAt DEF Ats
<1>5. Going(t, g, <<>>)
  BY Zenon DEF ParseAgain, At
<1>. HIDE DEF g
<1>6. <<>> \in Calls /\ HasObject(phase, g)
  BY <1>1, <1>2, <1>4 DEF Calls, HasObject
<1>. QED
  BY <1>1, <1>3, <1>4, <1>5, <1>6, GoingKeeps

LEMMA ReadFailsKeeps ==
    ASSUME IInv, NEW t \in Tasks, ReadFails(t)
    PROVE  IInv'
<1>1. ~Idle(t) /\ Top(t).fn \in {"fetch", "container"} /\ Top(t).at \in {"read", "again"}
  BY RunningFacts DEF ReadFails
<1>2. TasksFit'
  BY <1>1, LeavingStep, FailuresFit DEF ReadFails, Loading
<1>3. faults' \in 0..MaxFaults /\ requests' \in 0..MaxRequests
  BY IInvParts, ObjectFetchAssumption DEF ReadFails, DocumentOK
<1>4. Cached(phase, objects') /\ Decoded(objstms')
  BY IInvParts DEF ReadFails, DocumentOK
<1>5. DocumentOK'
  BY <1>3, <1>4, DocumentStep DEF ReadFails
<1>. QED
  BY <1>2, <1>5, BothParts

LEMMA CacheKeeps ==
    ASSUME IInv, NEW t \in Tasks, Cache(t)
    PROVE  IInv'
<1> DEFINE n == Top(t).num
           v == Top(t).val
<1>1. ~Idle(t) /\ Top(t).fn = "fetch" /\ Top(t).at = "parsed"
  BY RunningFacts DEF Cache
<1>2. Top(t) \in Frames /\ HasObject(phase, Top(t)) /\ n \in Nums
  BY <1>1, TopOfTask
<1>3. v \in Values /\ v.kind \in Kinds /\ (phase \in {"clearing", "open"} => v.text = "plain")
  BY <1>1, <1>2, FrameFacts DEF HasObject
<1>4. TasksFit'
  BY <1>1, <1>3, LeavingStep DEF Cache, Loading
<1>5. Cached(phase, objects) /\ objects' = With(objects, n, v)
  BY IInvParts DEF Cache, DocumentOK
<1>. HIDE DEF n, v
<1>6. Cached(phase, objects')
  BY <1>2, <1>3, <1>5, WithOne
<1>7. Decoded(objstms') /\ faults' \in 0..MaxFaults /\ requests' \in 0..MaxRequests
  BY IInvParts DEF Cache, DocumentOK
<1>8. DocumentOK'
  BY <1>6, <1>7, DocumentStep DEF Cache
<1>. QED
  BY <1>4, <1>8, BothParts

LEMMA GotContainerKeeps ==
    ASSUME IInv, NEW t \in Tasks, GotContainer(t)
    PROVE  IInv'
<1> DEFINE n == Top(t).num
           v == Value(E(n).kind, Ret(t).length, "plain", E(n).to)
<1>1. ~Idle(t) /\ Top(t).fn = "fetch" /\ Top(t).at = "container"
  BY RunningFacts DEF GotContainer
<1>2. Loading(mode, Top(t)) /\ n \in Nums /\ Ret(t) \in Values
  BY <1>1, TopOfTask DEF Loading
<1>3. v \in Values /\ v.kind \in Kinds /\ v.text = "plain"
  <2>1. Ret(t).length \in {"none", "declared", "recovered"}
    BY <1>2, ValueFields
  <2>. QED
    BY <1>2, <2>1, EntryFacts, ValueFits
<1>4. /\ Decoded(objstms') /\ Cached(phase, objects)
      /\ faults' \in 0..MaxFaults /\ requests' \in 0..MaxRequests
  BY IInvParts DEF GotContainer, DocumentOK
<1>5. UNCHANGED docVars
  BY DEF GotContainer
<1>6. \/ Leaving(t, Ret(t)) /\ objects' = objects
      \/ Leaving(t, v) /\ objects' = With(objects, n, v)
  BY DEF GotContainer
<1>. HIDE DEF n, v
<1>7. Cached(phase, objects')
  BY <1>2, <1>3, <1>4, <1>6, WithOne
<1>8. TasksFit'
  BY <1>1, <1>2, <1>3, <1>5, <1>6, LeavingStep
<1>9. DocumentOK'
  BY <1>4, <1>5, <1>7, DocumentStep
<1>. QED
  BY <1>8, <1>9, BothParts

-----------------------------------------------------------------------------
\* The steps of a container.
LEMMA ContainerKeeps ==
    ASSUME IInv, NEW t \in Tasks, Container(t)
    PROVE  IInv'
<1> DEFINE f == Top(t)
           c == f.num
           g == At(f, "read")
<1>1. ~Idle(t) /\ f.fn = "container" /\ f.at = "begin" /\ mode = "async"
  BY RunningFacts DEF Container
<1>2. f \in Frames /\ c \in Nums /\ ~Loading(mode, f)
  BY <1>1, TopOfTask DEF Loading
<1>3. UNCHANGED <<docVars, objects, objstms, requests, faults>>
  BY DEF Container
<1>4. \/ \E v \in Values : Returning(t, v)
      \/ /\ ~Guarded(t, c)
         /\ task' = [task EXCEPT ![t] = [Goes(t, g, <<>>) EXCEPT !.chain = Append(@, c)]]
  <2>1. CASE Guarded(t, c)
    BY <2>1, FailuresFit DEF Container
  <2>2. CASE ~Guarded(t, c) /\ c \in DOMAIN objstms
    BY <2>2, IInvParts DEF Container, DocumentOK, Decoded
  <2>3. CASE ~Guarded(t, c) /\ c \notin DOMAIN objstms /\ E(c).at # "file"
    BY <2>3, FailuresFit DEF Container
  <2>4. CASE ~Guarded(t, c) /\ c \notin DOMAIN objstms /\ E(c).at = "file"
    BY <2>4, Zenon DEF Container, At
  <2>. QED
    BY <2>1, <2>2, <2>3, <2>4
<1>5. CASE \E v \in Values : Returning(t, v)
  BY <1>1, <1>2, <1>3, <1>5, ReturningStep, BothParts, SameDocument
<1>6. CASE /\ ~Guarded(t, c)
           /\ task' = [task EXCEPT ![t] = [Goes(t, g, <<>>) EXCEPT !.chain = Append(@, c)]]
  <2>1. g \in Frames /\ g.at = "read" /\ g.fn = "container" /\ g.num = c
    BY <1>1, <1>2, FrameAt DEF Ats
  <2>2. task' = [task EXCEPT ![t] = [Goes(t, g, <<>>) EXCEPT !.chain = Append(@, c)]]
    BY <1>6
  <2>. HIDE DEF g
  <2>3. <<>> \in Calls /\ HasObject(phase, g) /\ Loading(mode, g)
    BY <1>1, <2>1 DEF Calls, HasObject, Loading
  <2>. QED
    BY <1>1, <1>2, <1>3, <1>6, <2>1, <2>2, <2>3, EnteringStep, BothParts, SameDocument
<1>. QED
  BY <1>4, <1>5, <1>6

LEMMA HandleKeeps ==
    ASSUME IInv, NEW t \in Tasks, Handle(t)
    PROVE  IInv'
<1> DEFINE f == Top(t)
           g == At(f, "object")
           calls == <<Frame("fetch", f.num, "begin")>>
<1>1. ~Idle(t) /\ f.fn = "container" /\ f.at = "begin" /\ mode = "sync"
  BY RunningFacts DEF Handle
<1>2. f \in Frames /\ f.num \in Nums /\ ~Loading(mode, f)
  BY <1>1, TopOfTask DEF Loading
<1>3. UNCHANGED <<docVars, objects, objstms, requests, faults>>
  BY DEF Handle
<1>4. CASE f.num \in DOMAIN objstms
  <2>1. objstms[f.num] \in Values /\ Returning(t, objstms[f.num])
    BY <1>4, IInvParts DEF Handle, DocumentOK, Decoded
  <2>. QED
    BY <1>1, <1>2, <1>3, <2>1, ReturningStep, BothParts, SameDocument
<1>5. CASE f.num \notin DOMAIN objstms
  <2>1. Going(t, g, calls)
    BY <1>5, Zenon DEF Handle, At
  <2>2. g \in Frames /\ g.at = "object" /\ g.fn = "container" /\ g.num = f.num
    BY <1>1, <1>2, FrameAt DEF Ats
  <2>3. calls \in Calls
    BY <1>2, BeginningCalls
  <2>. HIDE DEF g, calls
  <2>4. HasObject(phase, g) /\ ~Loading(mode, g)
    BY <1>1, <2>2 DEF HasObject, Loading
  <2>. QED
    BY <1>1, <1>2, <1>3, <2>1, <2>2, <2>3, <2>4, GoingStep, BothParts, SameDocument
<1>. QED
  BY <1>4, <1>5

LEMMA ContainerGoes ==
    ASSUME IInv, NEW t \in Tasks, ~Idle(t), Top(t).fn = "container", Top(t).at # "begin",
           NEW at \in Ats \ {"begin"}, NEW calls \in Calls, Going(t, At(Top(t), at), calls),
           UNCHANGED <<docVars, objects, objstms, requests, faults>>
    PROVE  IInv'
<1> DEFINE g == At(Top(t), at)
<1>1. g \in Frames /\ g.at = at /\ g.fn = "container" /\ g.num = Top(t).num
  BY TopOfTask, FrameAt
<1>. HIDE DEF g
<1>2. HasObject(phase, g)
  BY <1>1 DEF HasObject
<1>3. Going(t, g, calls)
  BY DEF g
<1>. QED
  BY <1>1, <1>2, <1>3, GoingKeeps

LEMMA ContainerGone ==
    ASSUME IInv, NEW t \in Tasks, ~Idle(t), Top(t).fn = "container", Top(t).at # "begin",
           NEW v \in Values, Gone(t, v), UNCHANGED docVars
    PROVE  TasksFit'
<1>1. CASE mode = "async"
  BY <1>1, LeavingStep DEF Gone, Loading
<1>2. CASE mode # "async"
  BY <1>2, ReturningStep DEF Gone, Loading
<1>. QED
  BY <1>1, <1>2

LEMMA GotObjectKeeps ==
    ASSUME IInv, NEW t \in Tasks, GotObject(t)
    PROVE  IInv'
<1> DEFINE f == Top(t)
           g == AtWith(f, "parsed", Ret(t))
<1>1. ~Idle(t) /\ f.fn = "container" /\ f.at = "object"
  BY RunningFacts DEF GotObject
<1>2. f \in Frames /\ Ret(t) \in Values
  BY <1>1, TopOfTask
<1>3. UNCHANGED <<docVars, objects, objstms, requests, faults>>
  BY DEF GotObject
<1>4. CASE IsError(Ret(t))
  <2>1. Returning(t, Ret(t)) /\ ~Loading(mode, f)
    BY <1>1, <1>4 DEF GotObject, Loading
  <2>. QED
    BY <1>1, <1>2, <1>3, <2>1, ReturningStep, BothParts, SameDocument
<1>5. CASE ~IsError(Ret(t))
  <2>1. Going(t, g, <<>>)
    BY <1>5, Zenon DEF GotObject, AtWith
  <2>2. g \in Frames /\ g.at = "parsed" /\ g.fn = "container" /\ g.num = f.num
    <3>1. "parsed" \in Ats
      BY DEF Ats
    <3>. HIDE DEF f
    <3>. QED
      BY <1>1, <1>2, <3>1, FrameAtWith
  <2>. HIDE DEF g
  <2>3. <<>> \in Calls /\ HasObject(phase, g)
    BY <2>2 DEF Calls, HasObject
  <2>. QED
    BY <1>1, <1>3, <2>1, <2>2, <2>3, GoingKeeps
<1>. QED
  BY <1>4, <1>5

LEMMA EntriesKeeps ==
    ASSUME IInv, NEW t \in Tasks, Entries(t)
    PROVE  IInv'
<1> DEFINE f == Top(t)
           calls == <<Frame("resolve", E(f.num).n, "begin")>>
<1>1. ~Idle(t) /\ f.fn = "container" /\ f.at = "parsed"
  BY RunningFacts DEF Entries
<1>2. f.num \in Nums
  BY <1>1, TopOfTask
<1>3. UNCHANGED <<docVars, objects, objstms, requests, faults>>
  BY DEF Entries
<1>4. \/ Gone(t, Missing)
      \/ Going(t, At(f, "decode"), <<>>)
      \/ E(f.num).n # 0 /\ Going(t, At(f, "n"), calls)
  BY Zenon DEF Entries, At
<1>5. CASE Gone(t, Missing)
  BY <1>1, <1>3, <1>5, ContainerGone, FailuresFit, BothParts, SameDocument
<1>6. CASE Going(t, At(f, "decode"), <<>>)
  <2>1. <<>> \in Calls /\ "decode" \in Ats \ {"begin"}
    BY DEF Calls, Ats
  <2>. QED
    BY <1>1, <1>3, <1>6, <2>1, ContainerGoes
<1>7. CASE E(f.num).n # 0 /\ Going(t, At(f, "n"), calls)
  <2>1. E(f.num).n \in Nums
    BY <1>2, <1>7, EntryFacts DEF Refs
  <2>2. calls \in Calls /\ "n" \in Ats \ {"begin"}
    BY <2>1, BeginningCalls DEF Ats
  <2>. HIDE DEF calls
  <2>. QED
    BY <1>1, <1>3, <1>7, <2>2, ContainerGoes
<1>. QED
  BY <1>4, <1>5, <1>6, <1>7

LEMMA GotNKeeps ==
    ASSUME IInv, NEW t \in Tasks, GotN(t)
    PROVE  IInv'
<1>1. ~Idle(t) /\ Top(t).fn = "container" /\ Top(t).at = "n"
  BY RunningFacts DEF GotN
<1>2. UNCHANGED <<docVars, objects, objstms, requests, faults>>
  BY DEF GotN
<1>3. \/ \E v \in {Circular, Missing} : Gone(t, v)
      \/ Going(t, At(Top(t), "decode"), <<>>)
  BY Zenon DEF GotN, At
<1>4. CASE \E v \in {Circular, Missing} : Gone(t, v)
  <2>1. PICK v \in Values : Gone(t, v)
    BY <1>4, FailuresFit
  <2>. QED
    BY <1>1, <1>2, <2>1, ContainerGone, BothParts, SameDocument
<1>5. CASE Going(t, At(Top(t), "decode"), <<>>)
  <2>1. <<>> \in Calls /\ "decode" \in Ats \ {"begin"}
    BY DEF Calls, Ats
  <2>. QED
    BY <1>1, <1>2, <1>5, <2>1, ContainerGoes
<1>. QED
  BY <1>3, <1>4, <1>5

LEMMA PrefetchKeeps ==
    ASSUME IInv, NEW t \in Tasks, Prefetch(t)
    PROVE  IInv'
<1> DEFINE f == Top(t)
           calls == IF mode = "async" /\ E(f.num).length # 0
                    THEN <<Frame("fetch", E(f.num).length, "begin")>> ELSE <<>>
<1>1. ~Idle(t) /\ f.fn = "container" /\ f.at = "decode"
  BY RunningFacts DEF Prefetch
<1>2. f.num \in Nums
  BY <1>1, TopOfTask
<1>3. UNCHANGED <<docVars, objects, objstms, requests, faults>>
  BY DEF Prefetch
<1>4. Going(t, At(f, "store"), calls)
  BY Zenon DEF Prefetch, At
<1>5. calls \in Calls
  <2>1. E(f.num).length # 0 => E(f.num).length \in Nums
    BY <1>2, EntryFacts DEF Refs
  <2>2. <<>> \in Calls
    BY DEF Calls
  <2>. QED
    BY <2>1, <2>2, BeginningCalls
<1>6. "store" \in Ats \ {"begin"}
  BY DEF Ats
<1>. HIDE DEF calls
<1>. QED
  BY <1>1, <1>3, <1>4, <1>5, <1>6, ContainerGoes

LEMMA StoreKeeps ==
    ASSUME IInv, NEW t \in Tasks, Store(t)
    PROVE  IInv'
<1> DEFINE c == Top(t).num
           built == [Built EXCEPT !.length = Top(t).val.length]
           kept == IF mode = "async" /\ c \in DOMAIN objstms THEN objstms[c] ELSE built
<1>1. ~Idle(t) /\ Top(t).fn = "container" /\ Top(t).at = "store"
  BY RunningFacts DEF Store
<1>2. Top(t) \in Frames /\ c \in Nums
  BY <1>1, TopOfTask
<1>3. /\ Cached(phase, objects') /\ Decoded(objstms)
      /\ faults' \in 0..MaxFaults /\ requests' \in 0..MaxRequests
  BY IInvParts DEF Store, DocumentOK
<1>4. UNCHANGED docVars
  BY DEF Store
<1>5. built \in Values
  <2>1. Top(t).val.length \in {"none", "declared", "recovered"}
    BY <1>2, FrameFacts, ValueFields
  <2>2. built = Value("built", Top(t).val.length, "plain", 0)
    BY DEF Built, Failure, Value
  <2>3. 0 \in Refs
    BY DEF Refs
  <2>. QED
    BY <2>1, <2>2, <2>3, ValueFits
<1>6. kept \in Values
  BY <1>3, <1>5 DEF Decoded
<1>7. \/ Gone(t, Missing) /\ objstms' = objstms
      \/ Gone(t, kept) /\ objstms' = With(objstms, c, kept)
  BY Zenon DEF Store
<1>. HIDE DEF c, built, kept
<1>8. Decoded(objstms')
  BY <1>2, <1>3, <1>6, <1>7, WithOne
<1>9. TasksFit'
  BY <1>1, <1>4, <1>6, <1>7, ContainerGone, FailuresFit
<1>10. DocumentOK'
  BY <1>3, <1>4, <1>8, DocumentStep
<1>. QED
  BY <1>9, <1>10, BothParts

-----------------------------------------------------------------------------
\* The steps of the resolve loop.
LEMMA ResolveKeeps ==
    ASSUME IInv, NEW t \in Tasks, Resolve(t)
    PROVE  IInv'
<1> DEFINE f == Top(t)
           g == At(f, "got")
           calls == <<Frame("fetch", f.num, "begin")>>
<1>1. ~Idle(t) /\ f.fn = "resolve" /\ f.at = "begin"
  BY RunningFacts DEF Resolve
<1>2. f \in Frames /\ f.num \in Nums
  BY <1>1, TopOfTask
<1>3. UNCHANGED <<docVars, objects, objstms, requests, faults>>
  BY DEF Resolve
<1>4. Going(t, g, calls)
  BY Zenon DEF Resolve, At
<1>5. g \in Frames /\ g.at = "got" /\ g.fn = "resolve"
  BY <1>1, <1>2, FrameAt DEF Ats
<1>6. calls \in Calls
  BY <1>2, BeginningCalls
<1>. HIDE DEF g, calls
<1>7. HasObject(phase, g) /\ ~Loading(mode, g) /\ ~Loading(mode, f)
  BY <1>1, <1>5 DEF HasObject, Loading
<1>. QED
  BY <1>1, <1>3, <1>4, <1>5, <1>6, <1>7, GoingStep, BothParts, SameDocument

\* The frame of the next iteration.
Again(f, n, depth) == [f EXCEPT !.at = "begin", !.num = n, !.depth = depth]

LEMMA FrameAgain ==
    ASSUME NEW f \in Frames, NEW n \in Nums, NEW depth \in Nat
    PROVE  /\ Again(f, n, depth) \in Frames
           /\ Again(f, n, depth).at = "begin" /\ Again(f, n, depth).fn = f.fn
<1>1. Again(f, n, depth) \in Frames
  BY DEF Again, Frames
<1>2. Again(f, n, depth).at = "begin" /\ Again(f, n, depth).fn = f.fn
  BY DEF Again, Frames
<1>. QED
  BY <1>1, <1>2

LEMMA ResolvedKeeps ==
    ASSUME IInv, NEW t \in Tasks, Resolved(t)
    PROVE  IInv'
<1> DEFINE f == Top(t)
           depth == Iterated(f.depth)
           g == Again(f, Ret(t).to, depth)
<1>1. ~Idle(t) /\ f.fn = "resolve" /\ f.at = "got"
  BY RunningFacts DEF Resolved
<1>2. f \in Frames /\ Ret(t) \in Values /\ ~Loading(mode, f)
  BY <1>1, TopOfTask DEF Loading
<1>3. UNCHANGED <<docVars, objects, objstms, requests, faults>>
  BY DEF Resolved
<1>4. \/ \E v \in {Circular, Null, Ret(t)} : Returning(t, v)
      \/ Ret(t).kind = "ref" /\ Going(t, g, <<>>)
  BY Zenon DEF Resolved, Again
<1>5. CASE \E v \in {Circular, Null, Ret(t)} : Returning(t, v)
  <2>1. PICK v \in Values : Returning(t, v)
    BY <1>2, <1>5, FailuresFit
  <2>. QED
    BY <1>1, <1>2, <1>3, <2>1, ReturningStep, BothParts, SameDocument
<1>6. CASE Ret(t).kind = "ref" /\ Going(t, g, <<>>)
  <2>1. Ret(t).to \in Nums
    BY <1>2, <1>6, ValueFields
  <2>2. depth \in Nat
    BY <1>2, FrameFacts DEF Iterated
  <2>. HIDE DEF depth
  <2>3. g \in Frames /\ g.at = "begin" /\ g.fn = "resolve"
    BY <1>1, <1>2, <2>1, <2>2, FrameAgain
  <2>. HIDE DEF g
  <2>4. HasObject(phase, g) /\ ~Loading(mode, g) /\ <<>> \in Calls
    BY <2>3 DEF HasObject, Loading, Calls
  <2>. QED
    BY <1>1, <1>2, <1>3, <1>6, <2>3, <2>4, GoingStep, BothParts, SameDocument
<1>. QED
  BY <1>4, <1>5, <1>6

-----------------------------------------------------------------------------
\* Requests, and opening.
LEMMA NobodyOpens ==
    ASSUME IInv, phase = "opening", Idle(Opener)
    PROVE  \A t \in Tasks : Idle(t)
BY DEF IInv, OpenedAlone

\* A task with no call has none that could be wrong in another phase.
LEMMA IdleFits ==
    ASSUME NEW ph, NEW q, NEW m, NEW k, Fits(ph, m, k), k.stack = <<>>
    PROVE  Fits(q, m, k)
BY DEF Fits

LEMMA StartStep ==
    ASSUME IInv, NEW t \in Tasks, Idle(t), NEW fn \in {"fetch", "resolve"}, NEW n \in Nums,
           Start(t, fn, n), mode' = mode, phase' = phase, phase = "opening" => t = Opener
    PROVE  TasksFit'
<1> DEFINE g == Frame(fn, n, "begin")
           k == Task(<<g>>, task[t].chain, task[t].ret)
<1>1. TasksFit
  BY IInvParts
<1>2. /\ task[t] \in [stack : Seq(Frames), chain : Seq(Nums), ret : Values]
      /\ Fits(phase, mode, task[t]) /\ task[t].stack = <<>>
  BY <1>1 DEF TasksFit, Idle
<1>3. task[t] = Task(<<>>, task[t].chain, task[t].ret)
  BY <1>2 DEF Task
<1>4. g \in Frames /\ g.at = "begin"
  BY BeginningCalls
<1>. HIDE DEF g
<1>5. ~Loading(mode, g) /\ HasObject(phase, g) /\ Append(<<>>, g) = <<g>>
  BY <1>4 DEF Loading, HasObject
<1>6. Fits(phase, mode, k)
  <2>1. task[t].chain \in Seq(Nums) /\ task[t].ret \in Values /\ <<>> \in Seq(Frames)
    BY <1>2
  <2>2. Fits(phase, mode, Task(<<>>, task[t].chain, task[t].ret))
    BY <1>2, <1>3
  <2>. QED
    BY <1>4, <1>5, <2>1, <2>2, PushingFits
<1>7. task' = [task EXCEPT ![t] = k]
  <2>1. task' = [task EXCEPT ![t] = WithStack(task[t], <<g>>)]
    BY DEF Start, WithStack, g
  <2>2. WithStack(task[t], <<g>>) = k
    BY <1>3, UpdatedTask
  <2>. QED
    BY <2>1, <2>2, Zenon
<1>8. k \in [stack : Seq(Frames), chain : Seq(Nums), ret : Values]
  BY <1>6 DEF Fits
<1>. HIDE DEF k
<1>9. task' \in [Tasks -> [stack : Seq(Frames), chain : Seq(Nums), ret : Values]]
  BY <1>1, <1>7, <1>8 DEF TasksFit
<1>10. \A u \in Tasks : task'[u] = IF u = t THEN k ELSE task[u]
  BY <1>1, <1>7 DEF TasksFit
<1>11. phase' = "opening" => \A u \in Tasks \ {Opener} : Idle(u)'
  BY <1>1, <1>10 DEF TasksFit, Idle
<1>12. \A u \in Tasks : Fits(phase', mode', task'[u])
  BY <1>1, <1>6, <1>10 DEF TasksFit
<1>. QED
  BY <1>9, <1>11, <1>12 DEF TasksFit

LEMMA RequestKeeps ==
    ASSUME IInv, NEW t \in Tasks, NEW fn \in {"fetch", "resolve"}, NEW n \in Nums,
           Request(t, fn, n)
    PROVE  IInv'
<1>1. TasksFit'
  BY StartStep DEF Request, Idle, docVars
<1>2. Cached(phase, objects') /\ Decoded(objstms') /\ faults' \in 0..MaxFaults
  BY IInvParts DEF Request, DocumentOK
<1>3. requests' \in 0..MaxRequests
  BY IInvParts, ObjectFetchAssumption DEF Request, DocumentOK
<1>4. DocumentOK'
  BY <1>2, <1>3, DocumentStep DEF Request
<1>. QED
  BY <1>1, <1>4, BothParts

LEMMA OpenNextKeeps ==
    ASSUME IInv, OpenNext
    PROVE  IInv'
<1>1. PICK fn \in {"fetch", "resolve"} : Start(Opener, fn, file.encrypt[opened + 1])
  BY DEF OpenNext
<1>2. file \in Files /\ opened \in Nat
  BY IInvParts DEF DocumentOK
<1>3. file.encrypt \in Seq(Nums)
  BY <1>2, ObjectFetchAssumption
<1>4. file.encrypt[opened + 1] \in Nums
  BY <1>2, <1>3 DEF OpenNext
<1>5. TasksFit'
  BY <1>1, <1>4, StartStep, ObjectFetchAssumption DEF OpenNext
<1>6. DocumentOK'
  BY <1>2, IInvParts DEF OpenNext, DocumentOK, Encrypted
<1>. QED
  BY <1>5, <1>6, BothParts

\* The phase changes only when no task has a call.
LEMMA PhaseStep ==
    ASSUME IInv, \A t \in Tasks : Idle(t), UNCHANGED <<mode, task>>
    PROVE  TasksFit'
<1>1. TasksFit
  BY IInvParts
<1>2. \A t \in Tasks : Fits(phase', mode', task'[t])
  BY <1>1, IdleFits DEF TasksFit, Idle
<1>3. \A t \in Tasks : Idle(t)'
  BY DEF Idle
<1>. QED
  BY <1>1, <1>2, <1>3 DEF TasksFit

LEMMA OpenFailsKeeps ==
    ASSUME IInv, OpenFails
    PROVE  IInv'
<1>1. TasksFit'
  BY NobodyOpens, PhaseStep DEF OpenFails
<1>2. DocumentOK'
  BY IInvParts DEF OpenFails, DocumentOK, Encrypted, Cached, Decoded
<1>. QED
  BY <1>1, <1>2, BothParts

LEMMA SetKeyKeeps ==
    ASSUME IInv, SetKey
    PROVE  IInv'
<1>1. TasksFit'
  BY NobodyOpens, PhaseStep DEF SetKey, Ready
<1>2. Cached(phase', objects')
  BY DEF SetKey, Cached
<1>3. DocumentOK'
  BY <1>2, IInvParts DEF SetKey, DocumentOK, Encrypted, Decoded
<1>. QED
  BY <1>1, <1>3, BothParts

LEMMA ClearContainersKeeps ==
    ASSUME IInv, ClearContainers
    PROVE  IInv'
<1>1. TasksFit
  BY IInvParts
<1>2. \A k : Fits(phase, mode, k) => Fits(phase', mode', k)
  BY DEF ClearContainers, Fits, HasObject
<1>3. TasksFit'
  BY <1>1, <1>2 DEF TasksFit, ClearContainers
<1>4. Cached(phase', objects') /\ Decoded(objstms')
  BY IInvParts DEF ClearContainers, DocumentOK, Cached, Decoded
<1>5. DocumentOK'
  BY <1>4, IInvParts DEF ClearContainers, DocumentOK, Encrypted
<1>. QED
  BY <1>3, <1>5, BothParts

LEMMA StepKeeps ==
    ASSUME IInv, NEW t \in Tasks, Step(t)
    PROVE  IInv'
<1>1. CASE Hit(t) \/ Refuse(t) \/ Load(t) \/ Cache(t) \/ GotContainer(t)
  BY <1>1, HitKeeps, RefuseKeeps, LoadKeeps, CacheKeeps, GotContainerKeeps
<1>2. CASE Parse(t) \/ GotLength(t) \/ ParseAgain(t) \/ ReadFails(t)
  BY <1>2, ParseKeeps, GotLengthKeeps, ParseAgainKeeps, ReadFailsKeeps
<1>3. CASE Container(t) \/ Handle(t) \/ GotObject(t) \/ Entries(t) \/ GotN(t)
  BY <1>3, ContainerKeeps, HandleKeeps, GotObjectKeeps, EntriesKeeps, GotNKeeps
<1>4. CASE Prefetch(t) \/ Store(t) \/ Resolve(t) \/ Resolved(t)
  BY <1>4, PrefetchKeeps, StoreKeeps, ResolveKeeps, ResolvedKeeps
<1>. QED
  BY <1>1, <1>2, <1>3, <1>4 DEF Step

LEMMA InitInv == Init => IInv
<1> SUFFICES ASSUME Init PROVE IInv
  OBVIOUS
<1>1. Null \in Values
  BY FailuresFit
<1>2. /\ Waiting \in [stack : Seq(Frames), chain : Seq(Nums), ret : Values]
      /\ Waiting.stack = <<>> /\ Waiting.chain = <<>>
  BY <1>1 DEF Waiting
<1>3. Fits(phase, mode, Waiting)
  <2>1. IsPath(mode, <<>>, <<>>)
    <3>1. Count(mode, <<>>, 0) = 0
      BY CountIsNat
    <3>. QED
      BY <3>1 DEF IsPath
  <2>. QED
    BY <1>2, <2>1 DEF Fits
<1>4. \A t \in Tasks : task[t] = Waiting
  BY DEF Init
<1>5. TasksFit
  BY <1>2, <1>3, <1>4 DEF TasksFit, Init, Idle
<1>6. DocumentOK
  <2>1. Cached(phase, objects) /\ Decoded(objstms)
    BY DEF Init, Cached, Decoded
  <2>2. faults \in 0..MaxFaults /\ requests \in 0..MaxRequests
    BY ObjectFetchAssumption DEF Init
  <2>3. /\ phase \in {"opening", "clearing", "open", "failed"}
        /\ phase \in {"clearing", "open"} => ~Encrypted
    BY DEF Init
  <2>. QED
    BY <2>1, <2>2, <2>3 DEF Init, DocumentOK
<1>. QED
  BY <1>5, <1>6, IInvParts

LEMMA NextInv == IInv /\ [Next]_vars => IInv'
<1> SUFFICES ASSUME IInv, [Next]_vars PROVE IInv'
  OBVIOUS
<1>1. CASE Open
  BY <1>1, OpenNextKeeps, OpenFailsKeeps, SetKeyKeeps, ClearContainersKeeps DEF Open
<1>2. ASSUME NEW t \in Tasks, Step(t)
      PROVE  IInv'
  BY <1>2, StepKeeps
<1>3. ASSUME NEW t \in Tasks, NEW n \in Nums,
             Request(t, "fetch", n) \/ Request(t, "resolve", n)
      PROVE  IInv'
  BY <1>3, RequestKeeps
<1>4. CASE UNCHANGED vars
  BY <1>4 DEF vars, docVars, IInv, TypeOK, OpenedAlone, Idle, Encrypted
<1>. QED
  BY <1>1, <1>2, <1>3, <1>4 DEF Next

\* The chain of every task lists, in order and once each, the objects and the
\* containers the calls on its stack are loading, whichever cycles the file has.
THEOREM ChainsAreTheirCalls == Spec => []IInv
<1>. QED
  BY InitInv, NextInv, PTL DEF Spec

LEMMA OnceOnTheStack == IInv => NoReentry
<1> SUFFICES ASSUME IInv, NEW t \in Tasks,
                    NEW i \in DOMAIN task[t].stack, NEW j \in DOMAIN task[t].stack,
                    Loading(mode, task[t].stack[i]), Loading(mode, task[t].stack[j]),
                    task[t].stack[i].num = task[t].stack[j].num
             PROVE  i = j
  BY DEF IInv, NoReentry
<1> DEFINE s == task[t].stack
           c == task[t].chain
<1>1. Fits(phase, mode, task[t])
  BY DEF IInv
<1>2. s \in Seq(Frames) /\ c \in Seq(Nums) /\ IsPath(mode, s, c)
  BY <1>1 DEF Fits
<1>3. Len(s) \in Nat /\ i \in 1..Len(s) /\ j \in 1..Len(s)
  BY <1>2
<1>4. Loading(mode, s[i]) /\ Loading(mode, s[j]) /\ s[i].num = s[j].num
  OBVIOUS
<1>. HIDE DEF s, c
<1>5. Count(mode, s, i) \in 1..Len(c) /\ Count(mode, s, j) \in 1..Len(c)
  BY <1>2, <1>3, <1>4, PositionOnChain DEF IsPath
<1>6. Count(mode, s, i) = Count(mode, s, j)
  BY <1>2, <1>3, <1>4, <1>5 DEF IsPath
<1>7. i \in Nat \ {0} /\ j \in Nat \ {0}
  BY <1>3
<1>8. ~(i < j) /\ ~(j < i)
  BY <1>4, <1>5, <1>6, <1>7, PositionsRise
<1>. QED
  BY <1>7, <1>8

\* No call path loads what it is loading already, so a file that refers to itself
\* is refused and not followed, however its lengths and containers are entangled.
THEOREM NothingIsLoadedTwice == Spec => []NoReentry
<1>. QED
  BY ChainsAreTheirCalls, OnceOnTheStack, PTL

\* No cached object of an open document was read before there was a key.
THEOREM NoCiphertextIsLeft == Spec => []NoCiphertextLeft
<1>1. IInv => NoCiphertextLeft
  BY DEF IInv, OpenedAlone, NoCiphertextLeft
<1>. QED
  BY <1>1, ChainsAreTheirCalls, PTL

-----------------------------------------------------------------------------
(* What a fetch gives with no cache: the function Uncached is defined by     *)
(* exists, and gives what the fetches it makes itself lead to.               *)
LEMMA NatInductionOnSets ==
    ASSUME NEW T, 0 \in T, \A n \in Nat : n \in T => n + 1 \in T
    PROVE  Nat \subseteq T
<1> DEFINE C == Nat \ T
<1>1. SUFFICES ASSUME C # {} PROVE FALSE
  OBVIOUS
<1>2. C \subseteq Nat
  OBVIOUS
<1> HIDE DEF C
<1>3. PICK x \in C : \A y \in C : ~(<<y, x>> \in OpToRel(<, Nat))
  BY <1>1, <1>2, NatLessThanWellFounded, WFMin, Zenon
<1>4. \A y \in C : ~(y < x)
  BY <1>2, <1>3 DEF OpToRel
<1>5. x \in Nat /\ x # 0
  BY <1>3 DEF C
<1>6. x - 1 \in Nat /\ x - 1 < x /\ (x - 1) + 1 = x
  BY <1>5
<1>7. x - 1 \in T
  BY <1>4, <1>6 DEF C
<1>8. x \in T
  BY <1>6, <1>7
<1>. QED
  BY <1>3, <1>8 DEF C

NothingYet == [n \in Nums |-> Missing]
IsGot(f, u) == u = [k \in Nat |-> IF k = 0 THEN NothingYet ELSE Made(f, u[k - 1])]
Part(f, n, u) ==
    /\ u = [k \in 0..n |-> u[k]]
    /\ u[0] = NothingYet
    /\ \A k \in 1..n : u[k] = Made(f, u[k - 1])

\* Uncached is the value of the recursive function at one more than there are objects.
LEMMA UncachedIs ==
    ASSUME NEW f
    PROVE  Uncached(f) = (CHOOSE u : IsGot(f, u))[Cardinality(Nums) + 1]
BY Zenon DEF Uncached, IsGot, NothingYet

\* Its first values exist, to any length,
LEMMA PartsExist ==
    ASSUME NEW f
    PROVE  \A n \in Nat : \E u : Part(f, n, u)
<1> DEFINE S == {n \in Nat : \E u : Part(f, n, u)}
<1>1. 0 \in S
  <2> DEFINE u == [k \in 0..0 |-> NothingYet]
  <2>1. u[0] = NothingYet /\ u = [k \in 0..0 |-> u[k]]
    OBVIOUS
  <2>. HIDE DEF u
  <2>2. Part(f, 0, u)
    BY <2>1 DEF Part
  <2>. QED
    BY <2>2
<1>2. ASSUME NEW n \in Nat, n \in S PROVE n + 1 \in S
  <2>1. PICK u : Part(f, n, u)
    BY <1>2
  <2> DEFINE v == [k \in 0..(n + 1) |-> IF k = n + 1 THEN Made(f, u[n]) ELSE u[k]]
  <2>2. v = [k \in 0..(n + 1) |-> v[k]]
    OBVIOUS
  <2>3. v[n + 1] = Made(f, u[n]) /\ \A k \in 0..n : v[k] = u[k]
    <3>1. \A k \in 0..n : k \in 0..(n + 1) /\ k # n + 1
      OBVIOUS
    <3>. QED
      BY <3>1
  <2>. HIDE DEF v
  <2>4. v[0] = NothingYet
    BY <2>1, <2>3 DEF Part
  <2>5. ASSUME NEW k \in 1..(n + 1) PROVE v[k] = Made(f, v[k - 1])
    <3>1. CASE k = n + 1
      <4>1. k - 1 = n /\ n \in 0..n
        BY <3>1
      <4>. QED
        BY <2>3, <3>1, <4>1
    <3>2. CASE k # n + 1
      <4>1. k \in 1..n /\ k \in 0..n /\ k - 1 \in 0..n
        BY <3>2
      <4>2. u[k] = Made(f, u[k - 1])
        BY <2>1, <4>1 DEF Part
      <4>. QED
        BY <2>3, <4>1, <4>2
    <3>. QED
      BY <3>1, <3>2
  <2>6. Part(f, n + 1, v)
    BY <2>2, <2>4, <2>5 DEF Part
  <2>. QED
    BY <2>6
<1>3. Nat \subseteq S
  <2>. HIDE DEF S
  <2>. QED
    BY <1>1, <1>2, NatInductionOnSets
<1>. QED
  BY <1>3

\* are the same however far they are taken,
LEMMA PartsAgree ==
    ASSUME NEW f, NEW n \in Nat, NEW m \in Nat, NEW u, NEW v,
           Part(f, n, u), Part(f, m, v), NEW i \in 0..n, i \in 0..m
    PROVE  u[i] = v[i]
<1> DEFINE S == {k \in Nat : k \in 0..n /\ k \in 0..m => u[k] = v[k]}
<1>1. 0 \in S
  BY DEF Part
<1>2. ASSUME NEW k \in Nat, k \in S PROVE k + 1 \in S
  <2>1. (k + 1) - 1 = k
    OBVIOUS
  <2>2. SUFFICES ASSUME k + 1 \in 0..n, k + 1 \in 0..m PROVE u[k + 1] = v[k + 1]
    OBVIOUS
  <2>3. k \in 0..n /\ k \in 0..m /\ k + 1 \in 1..n /\ k + 1 \in 1..m
    BY <2>2
  <2>4. u[k] = v[k]
    BY <1>2, <2>3
  <2>5. u[k + 1] = Made(f, u[k]) /\ v[k + 1] = Made(f, v[k])
    BY <2>1, <2>3 DEF Part
  <2>. QED
    BY <2>4, <2>5
<1>3. Nat \subseteq S
  <2>. HIDE DEF S
  <2>. QED
    BY <1>1, <1>2, NatInductionOnSets
<1>. QED
  BY <1>3

\* and so it exists.
LEMMA GotExists == ASSUME NEW f PROVE \E u : IsGot(f, u)
<1> DEFINE p(n) == CHOOSE u : Part(f, n, u)
           g == [n \in Nat |-> p(n)[n]]
           d(n) == IF n = 0 THEN NothingYet ELSE Made(f, g[n - 1])
<1>1. ASSUME NEW n \in Nat PROVE Part(f, n, p(n))
  BY PartsExist
<1>2. ASSUME NEW n \in Nat PROVE g[n] = d(n)
  <2>. HIDE DEF p
  <2>1. CASE n = 0
    BY <1>1, <2>1 DEF Part
  <2>2. CASE n # 0
    <3>1. n - 1 \in Nat /\ n \in 1..n /\ n - 1 \in 0..n /\ n - 1 \in 0..(n - 1)
      BY <2>2
    <3>2. p(n)[n] = Made(f, p(n)[n - 1])
      BY <1>1, <3>1 DEF Part
    <3>3. Part(f, n, p(n)) /\ Part(f, n - 1, p(n - 1))
      BY <1>1, <3>1
    <3>4. p(n)[n - 1] = p(n - 1)[n - 1]
      BY <3>1, <3>3, PartsAgree
    <3>. QED
      BY <2>2, <3>1, <3>2, <3>4
  <2>. QED
    BY <2>1, <2>2
<1>3. g = [n \in Nat |-> g[n]]
  OBVIOUS
<1>. HIDE DEF g
<1>4. g = [n \in Nat |-> d(n)]
  <2>. HIDE DEF d
  <2>. QED
    BY <1>2, <1>3
<1>. QED
  BY <1>4 DEF IsGot

-----------------------------------------------------------------------------
\* A file as writers make them: a rank of its objects, and what they say.
IsRank(f, rank) ==
    /\ rank \in [Nums -> 0..Cardinality(Nums)]
    /\ \A n \in Nums : \A m \in Needs(f, n) : rank[m] < rank[n]
Rank(f) == CHOOSE rank : IsRank(f, rank)

\* What an entry holds.
LEMMA EntryOf ==
    ASSUME NEW f \in Files, NEW n \in Nums
    PROVE  LET e == f.entries[n]
           IN  /\ e.at \in {"free", "file", "stream"} /\ e.kind \in Kinds
               /\ e.length \in Refs /\ e.n \in Refs /\ e.to \in Refs /\ e.container \in Refs
               /\ e.at = "stream" => e.container \in Nums
               /\ e.kind = "ref" => e.to \in Nums
<1>1. f.entries[n] \in Entry
  BY ObjectFetchAssumption
<1>. QED
  BY <1>1 DEF Entry, Refs

\* A plain file has a rank, and no reference to a reference.
LEMMA RankOf ==
    ASSUME NEW f \in PlainFiles
    PROVE  /\ f \in Files /\ IsRank(f, Rank(f))
           /\ \A n \in Nums : LET e == f.entries[n]
                              IN  /\ e.kind = "ref" => f.entries[e.to].kind # "ref"
                                  /\ e.at = "stream" => e.kind # "stream"
<1>1. \E rank : IsRank(f, rank)
  BY Zenon DEF PlainFiles, IsRank
<1>2. IsRank(f, Rank(f))
  BY <1>1, Zenon DEF Rank
<1>. QED
  BY <1>2, Zenon DEF PlainFiles

\* What a fetch of n needs comes before n.
LEMMA NeedsFall ==
    ASSUME NEW f \in PlainFiles, NEW n \in Nums
    PROVE  LET e == f.entries[n]
               r == Rank(f)
           IN  /\ r[n] \in Nat /\ r[n] <= Cardinality(Nums)
               /\ e.at = "stream" => e.container \in Nums /\ r[e.container] < r[n]
               /\ e.kind = "ref" => e.to \in Nums /\ r[e.to] < r[n]
               /\ e.at # "stream" /\ e.length # 0 => e.length \in Nums /\ r[e.length] < r[n]
               /\ e.at # "stream" /\ e.n # 0 => e.n \in Nums /\ r[e.n] < r[n]
<1> DEFINE e == f.entries[n]
           r == Rank(f)
<1>1. f \in Files /\ r \in [Nums -> 0..Cardinality(Nums)]
      /\ \A m \in Needs(f, n) : r[m] < r[n]
  BY RankOf DEF IsRank
<1>2. Cardinality(Nums) \in Nat
  BY ObjectFetchAssumption, FS_CardinalityType
<1>3. /\ e.at = "stream" => e.container \in Nums
      /\ e.kind = "ref" => e.to \in Nums
      /\ e.length # 0 => e.length \in Nums
      /\ e.n # 0 => e.n \in Nums
  BY <1>1, EntryOf DEF Refs
<1>4. r[n] \in Nat /\ r[n] <= Cardinality(Nums)
  BY <1>1, <1>2
<1>. HIDE DEF r
<1>5. \A m \in Nums : m # 0
  BY ObjectFetchAssumption
<1>6. Needs(f, n) = (IF e.at = "stream" THEN {e.container, e.to} ELSE {e.length, e.n, e.to}) \ {0}
  BY DEF Needs
<1>. HIDE DEF e
<1>7. e.at = "stream" => e.container \in Needs(f, n)
  BY <1>3, <1>5, <1>6
<1>8. e.kind = "ref" => e.to \in Needs(f, n)
  BY <1>3, <1>5, <1>6
<1>9. e.at # "stream" => (e.length # 0 => e.length \in Needs(f, n)) /\ (e.n # 0 => e.n \in Needs(f, n))
  BY <1>6
<1>. QED
  BY <1>1, <1>3, <1>4, <1>7, <1>8, <1>9 DEF e, r

\* The answers made from two tables that agree below n agree at n.
Refers(f, below) ==
    \A m \in Nums : below[m].kind = "ref" => f.entries[m].kind = "ref" /\ below[m].to = f.entries[m].to

Chased(below, m) == IF below[m].kind = "ref" THEN below[below[m].to] ELSE below[m]
DecodesBy(f, below, c) ==
    /\ f.entries[c].at = "file" /\ f.entries[c].kind = "stream"
    /\ f.entries[c].n # 0 => Chased(below, f.entries[c].n).kind = "int"
LengthBy(f, below, n) ==
    IF f.entries[n].length = 0 THEN "none"
    ELSE IF below[f.entries[n].length].kind = "int" THEN "declared" ELSE "recovered"
MadeOf(f, below, n) ==
    LET e == f.entries[n]
    IN  IF e.at = "file" THEN Value(e.kind, LengthBy(f, below, n), "plain", e.to)
        ELSE IF e.at = "stream" /\ DecodesBy(f, below, e.container)
        THEN Value(e.kind, below[e.container].length, "plain", e.to)
        ELSE Missing

\* What Made gives for one object.
LEMMA MadeIs ==
    ASSUME NEW f, NEW below
    PROVE  Made(f, below) = [n \in Nums |-> MadeOf(f, below, n)]
BY Zenon DEF Made, MadeOf, LengthBy, DecodesBy, Chased

-----------------------------------------------------------------------------
\* What is made of an object that is a reference leads where the entry says.
LEMMA MadeRefers ==
    ASSUME NEW f, NEW below
    PROVE  Refers(f, NothingYet) /\ Refers(f, Made(f, below))
<1>1. Refers(f, NothingYet)
  BY DEF Refers, NothingYet, Missing, Failure, Value
<1>2. ASSUME NEW n \in Nums, MadeOf(f, below, n).kind = "ref"
      PROVE  f.entries[n].kind = "ref" /\ MadeOf(f, below, n).to = f.entries[n].to
  <2>1. \/ MadeOf(f, below, n) = Missing
        \/ \E l : MadeOf(f, below, n) = Value(f.entries[n].kind, l, "plain", f.entries[n].to)
    BY Zenon DEF MadeOf
  <2>. QED
    BY <1>2, <2>1 DEF Missing, Failure, Value
<1>3. Refers(f, Made(f, below))
  BY <1>2, MadeIs DEF Refers
<1>. QED
  BY <1>1, <1>3

\* Two tables that agree on what n needs make the same of n.
LEMMA MadeAgree ==
    ASSUME NEW f \in PlainFiles, NEW n \in Nums, NEW a, NEW b, Refers(f, a),
           \A m \in Nums : Rank(f)[m] < Rank(f)[n] => a[m] = b[m]
    PROVE  MadeOf(f, a, n) = MadeOf(f, b, n)
<1> DEFINE e == f.entries[n]
           r == Rank(f)
           c == e.container
           d == f.entries[c]
<1>1. /\ e.at = "stream" => c \in Nums /\ r[c] < r[n]
      /\ e.at # "stream" /\ e.length # 0 => e.length \in Nums /\ r[e.length] < r[n]
  BY NeedsFall
<1>2. CASE e.at = "file"
  <2>1. e.length # 0 => a[e.length] = b[e.length]
    BY <1>1, <1>2
  <2>2. LengthBy(f, a, n) = LengthBy(f, b, n)
    BY <2>1 DEF LengthBy
  <2>. QED
    BY <1>2, <2>2, Zenon DEF MadeOf
<1>3. CASE e.at = "stream"
  <2>1. c \in Nums /\ r[c] < r[n] /\ r[c] \in Nat /\ r[n] \in Nat
    BY <1>1, <1>3, NeedsFall
  <2>2. a[c] = b[c]
    BY <2>1
  <2>3. CASE d.at = "file" /\ d.n # 0
    <3> DEFINE m == d.n
    <3>1. m \in Nums /\ r[m] < r[c]
      BY <2>1, <2>3, NeedsFall
    <3>2. r[m] \in Nat
      BY <3>1, NeedsFall
    <3>3. r[m] < r[n] /\ a[m] = b[m]
      BY <2>1, <3>1, <3>2
    <3>4. CASE a[m].kind # "ref"
      <4>1. Chased(a, m) = Chased(b, m)
        BY <3>3, <3>4 DEF Chased
      <4>. QED
        BY <1>3, <2>2, <4>1, Zenon DEF MadeOf, DecodesBy
    <3>5. CASE a[m].kind = "ref"
      <4>1. f.entries[m].kind = "ref" /\ a[m].to = f.entries[m].to
        BY <3>1, <3>5 DEF Refers
      <4>2. a[m].to \in Nums /\ r[a[m].to] < r[m]
        BY <3>1, <4>1, NeedsFall
      <4>3. r[a[m].to] \in Nat
        BY <4>2, NeedsFall
      <4>4. r[a[m].to] < r[n]
        <5>1. \A x, y, z \in Nat : x < y /\ y < z => x < z
          OBVIOUS
        <5>. HIDE DEF r, m
        <5>. QED
          BY <2>1, <3>2, <3>3, <4>2, <4>3, <5>1
      <4>5. Chased(a, m) = Chased(b, m)
        BY <3>3, <4>2, <4>4 DEF Chased
      <4>. QED
        BY <1>3, <2>2, <4>5, Zenon DEF MadeOf, DecodesBy
    <3>. QED
      BY <3>4, <3>5
  <2>4. CASE ~(d.at = "file" /\ d.n # 0)
    <3>1. DecodesBy(f, a, c) <=> DecodesBy(f, b, c)
      BY <2>4 DEF DecodesBy
    <3>. QED
      BY <1>3, <2>2, <3>1, Zenon DEF MadeOf
  <2>. QED
    BY <2>3, <2>4
<1>4. CASE e.at # "file" /\ e.at # "stream"
  BY <1>4, Zenon DEF MadeOf
<1>. QED
  BY <1>2, <1>3, <1>4

\* The answers of a plain file, and what they are made of: each other.
Id(f, n) == Answers[f][n]

\* The answers are a fixed point of Made.
LEMMA AnswersAreMade ==
    ASSUME NEW f \in PlainFiles
    PROVE  /\ Refers(f, Answers[f])
           /\ \A n \in Nums : Id(f, n) = MadeOf(f, Answers[f], n)
<1> DEFINE u == CHOOSE g : IsGot(f, g)
           size == Cardinality(Nums)
           r == Rank(f)
<1>1. IsGot(f, u)
  BY GotExists, Zenon
<1>2. Answers[f] = u[size + 1]
  BY UncachedIs DEF Answers
<1>. HIDE DEF u
<1>3. size \in Nat
  BY ObjectFetchAssumption, FS_CardinalityType
<1>. HIDE DEF size
<1>4. u[0] = NothingYet /\ \A k \in Nat : u[k + 1] = Made(f, u[k])
  <2>1. \A k \in Nat : u[k] = IF k = 0 THEN NothingYet ELSE Made(f, u[k - 1])
    BY <1>1 DEF IsGot
  <2>2. \A k \in Nat : k + 1 \in Nat /\ k + 1 # 0 /\ (k + 1) - 1 = k
    OBVIOUS
  <2>. QED
    BY <2>1, <2>2
<1>5. \A k \in Nat : Refers(f, u[k])
  <2> SUFFICES ASSUME NEW k \in Nat PROVE Refers(f, u[k])
    OBVIOUS
  <2>1. CASE k = 0
    BY <1>4, <2>1, MadeRefers
  <2>2. CASE k # 0
    <3>1. k - 1 \in Nat /\ (k - 1) + 1 = k
      BY <2>2
    <3>2. u[k] = Made(f, u[k - 1])
      BY <1>4, <3>1
    <3>. QED
      BY <3>2, MadeRefers
  <2>. QED
    BY <2>1, <2>2
<1> DEFINE T == {k \in Nat : \A n \in Nums : r[n] < k => u[k + 1][n] = u[k][n]}
<1>6. \A n \in Nums : r[n] \in Nat /\ r[n] <= size
  BY NeedsFall DEF size
<1>. HIDE DEF r
<1>7. 0 \in T
  BY <1>6
<1>8. ASSUME NEW k \in Nat, k \in T PROVE k + 1 \in T
  <2>1. SUFFICES ASSUME NEW n \in Nums, r[n] < k + 1
                 PROVE  u[(k + 1) + 1][n] = u[k + 1][n]
    OBVIOUS
  <2>2. u[(k + 1) + 1] = Made(f, u[k + 1]) /\ u[k + 1] = Made(f, u[k])
    BY <1>4
  <2>3. \A m \in Nums : r[m] < r[n] => u[k + 1][m] = u[k][m]
    BY <1>6, <1>8, <2>1
  <2>4. MadeOf(f, u[k + 1], n) = MadeOf(f, u[k], n)
    BY <1>5, <2>3, MadeAgree DEF r
  <2>. QED
    BY <2>2, <2>4, MadeIs
<1>9. Nat \subseteq T
  <2>. HIDE DEF T
  <2>. QED
    BY <1>7, <1>8, NatInductionOnSets
<1>10. size + 1 \in T /\ \A n \in Nums : r[n] < size + 1
  BY <1>3, <1>6, <1>9
<1>11. \A n \in Nums : u[(size + 1) + 1][n] = u[size + 1][n]
  BY <1>10
<1>12. u[(size + 1) + 1] = Made(f, u[size + 1])
  BY <1>3, <1>4
<1>13. \A n \in Nums : u[size + 1][n] = MadeOf(f, u[size + 1], n)
  BY <1>11, <1>12, MadeIs
<1>14. Refers(f, u[size + 1])
  BY <1>3, <1>5
<1>. QED
  BY <1>2, <1>13, <1>14 DEF Id

-----------------------------------------------------------------------------
(* What is known, in a plain file, of the caches, the calls and the answers: *)
(* predicates of a world, the variables they look at.                        *)
World == [file |-> file, mode |-> mode, phase |-> phase, faults |-> faults]

Hurt(w) == w.faults < MaxFaults
Ent(w, n) == w.file.entries[n]
Told(w, n) == Id(w.file, n)

\* A value that tells what the ideal one does, and what a fetch is answered.
LengthFits(w, l, ideal) == l = ideal \/ (Hurt(w) /\ l = "recovered" /\ ideal = "declared")
Tells(w, v, n) ==
    /\ v.kind \in Kinds /\ v.kind = Told(w, n).kind /\ v.to = Told(w, n).to
    /\ LengthFits(w, v.length, Told(w, n).length)
Fetched(w, v, n) ==
    \/ Tells(w, v, n) /\ (w.phase = "open" => v.text = "plain")
    \/ v = Missing /\ (Told(w, n) = Missing \/ Hurt(w))

\* What decoding a container comes to, and resolving a reference.
Decodes(w, c) == DecodesBy(w.file, Answers[w.file], c)
BuiltWith(l) == [Built EXCEPT !.length = l]
Unpacked(w, v, c) ==
    \/ /\ Decodes(w, c) /\ v = BuiltWith(v.length)
       /\ LengthFits(w, v.length, Told(w, c).length)
    \/ v = Missing /\ (~Decodes(w, c) \/ Hurt(w))
ToInt(w, m) == Chased(Answers[w.file], m).kind = "int"
Ends(w, g) == IF g.depth = 0 THEN ToInt(w, g.num) ELSE Told(w, g.num).kind = "int"
Numbers(w, v, int) ==
    v # Circular /\ (v.kind = "int" => int) /\ (int => v.kind = "int" \/ Hurt(w))

\* What the call g returns, what f calls for, and what f has heard by then.
Result(w, g, v) ==
    /\ g.fn = "fetch" => Fetched(w, v, g.num)
    /\ g.fn = "container" => Unpacked(w, v, g.num)
    /\ g.fn = "resolve" => Numbers(w, v, Ends(w, g))
Awaits(w, f, g) ==
    \/ f.at = "length" /\ g.fn = "fetch" /\ g.num = Ent(w, f.num).length
    \/ f.at = "container" /\ g.fn = "container" /\ g.num = Ent(w, f.num).container
    \/ f.at = "n" /\ g.fn = "resolve" /\ (Ends(w, g) <=> ToInt(w, Ent(w, f.num).n))
    \/ f.at \in {"object", "got"} /\ g.fn = "fetch" /\ g.num = f.num
    \/ f.at = "store"
Heard(w, f, v) ==
    /\ f.at = "length" => Fetched(w, v, Ent(w, f.num).length)
    /\ f.at = "container" => Unpacked(w, v, Ent(w, f.num).container)
    /\ f.at = "n" => Numbers(w, v, ToInt(w, Ent(w, f.num).n))
    /\ f.at \in {"object", "got"} => Fetched(w, v, f.num)

\* A call by itself.
LocalFetch(w, f) ==
    /\ f.at \in {"begin", "read", "length", "again", "parsed", "container"}
    /\ f.at \in {"read", "length", "again", "parsed"} => Ent(w, f.num).at = "file"
    /\ f.at = "container" => Ent(w, f.num).at = "stream"
LocalContainer(w, f) ==
    /\ f.at \in Ats \ {"container", "got"}
    /\ w.mode = "async" /\ f.at # "begin" => Ent(w, f.num).at = "file"
    /\ f.at \in {"read", "length", "again"} => w.mode = "async"
    /\ f.at \in {"n", "decode", "store"} =>
          Ent(w, f.num).at = "file" /\ Ent(w, f.num).kind = "stream"
    /\ f.at = "n" => Ent(w, f.num).n # 0
    /\ f.at \in {"decode", "store"} => Decodes(w, f.num)
LocalResolve(w, f) ==
    /\ f.at \in {"begin", "got"} /\ f.depth \in {0, 1}
    /\ f.depth = 1 => Ent(w, f.num).kind # "ref"
Local(w, f) ==
    /\ f.fn = "fetch" => LocalFetch(w, f)
    /\ f.fn = "container" => LocalContainer(w, f)
    /\ f.fn = "resolve" => LocalResolve(w, f)
    /\ f.at = "length" => Ent(w, f.num).length # 0
    /\ f.at \in {"again", "parsed", "n", "decode", "store"} => Tells(w, f.val, f.num)

\* The calls of a stack: each waits for the next, about what comes before it.
Before(w, f, n) ==
    /\ Rank(w.file)[n] <= Rank(w.file)[f.num]
    /\ Loading(w.mode, f) => Rank(w.file)[n] < Rank(w.file)[f.num]
Standing(w, s) ==
    /\ \A i \in 1..Len(s) : Local(w, s[i])
    /\ \A i \in 1..(Len(s) - 1) : Awaits(w, s[i], s[i + 1])
    /\ \A j \in 1..Len(s) : \A i \in 1..(j - 1) : Before(w, s[i], s[j].num)

Lasts == [fn : {"none", "fetch", "resolve", "opening"}, num : Refs, ret : Values]
Requested(w, s, l) ==
    l.fn = "fetch" => IF s = <<>> THEN Fetched(w, l.ret, l.num)
                      ELSE s[1].fn = "fetch" /\ s[1].num = l.num
Sound(w, s, v, l) ==
    /\ Standing(w, s) /\ Requested(w, s, l)
    /\ s # <<>> => Heard(w, s[Len(s)], v)

-----------------------------------------------------------------------------
\* The stack of calls without the last one.
LEMMA StandingFront ==
    ASSUME NEW w, NEW s \in Seq(Frames), s # <<>>, Standing(w, s)
    PROVE  /\ Standing(w, Front(s)) /\ Local(w, s[Len(s)])
           /\ \A i \in 1..Len(Front(s)) : Before(w, Front(s)[i], s[Len(s)].num)
           /\ Front(s) # <<>> => Awaits(w, Front(s)[Len(Front(s))], s[Len(s)])
<1> DEFINE r == Front(s)
           n == Len(s) - 1
<1>1. /\ n \in Nat /\ Len(s) = n + 1 /\ r \in Seq(Frames) /\ Len(r) = n
      /\ \A i \in 1..n : r[i] = s[i]
  BY FrontAndLast
<1>2. /\ \A i \in 1..(n + 1) : Local(w, s[i])
      /\ \A i \in 1..n : Awaits(w, s[i], s[i + 1])
      /\ \A j \in 1..(n + 1) : \A i \in 1..(j - 1) : Before(w, s[i], s[j].num)
  <2>1. (n + 1) - 1 = n
    BY <1>1
  <2>. QED
    BY <1>1, <2>1 DEF Standing
<1>. HIDE DEF r, n
<1>3. \A i \in 1..n : i \in 1..(n + 1)
  BY <1>1
<1>4. \A i \in 1..n : Local(w, r[i])
  BY <1>1, <1>2, <1>3
<1>5. \A i \in 1..(n - 1) : Awaits(w, r[i], r[i + 1])
  <2>1. \A i \in 1..(n - 1) : i \in 1..n /\ i + 1 \in 1..n
    BY <1>1
  <2>. QED
    BY <1>1, <1>2, <2>1
<1>6. \A j \in 1..n : \A i \in 1..(j - 1) : Before(w, r[i], r[j].num)
  <2>1. \A j \in 1..n : \A i \in 1..(j - 1) : i \in 1..n
    BY <1>1
  <2>. QED
    BY <1>1, <1>2, <1>3, <2>1
<1>7. Standing(w, r)
  BY <1>1, <1>4, <1>5, <1>6 DEF Standing
<1>8. \A i \in 1..n : Before(w, r[i], s[n + 1].num)
  <2>1. (n + 1) - 1 = n /\ n + 1 \in 1..(n + 1)
    BY <1>1
  <2>. QED
    BY <1>1, <1>2, <2>1
<1>9. r # <<>> => Awaits(w, r[n], s[n + 1])
  <2>1. r # <<>> => n \in 1..n
    BY <1>1
  <2>. QED
    BY <1>1, <1>2, <2>1
<1>10. Local(w, s[n + 1])
  BY <1>1, <1>2
<1>. QED
  BY <1>1, <1>7, <1>8, <1>9, <1>10 DEF r

\* And with one more.
LEMMA StandingAppend ==
    ASSUME NEW w, NEW s \in Seq(Frames), Standing(w, s), NEW f \in Frames, Local(w, f),
           s # <<>> => Awaits(w, s[Len(s)], f),
           \A i \in 1..Len(s) : Before(w, s[i], f.num)
    PROVE  Standing(w, Append(s, f))
<1> DEFINE r == Append(s, f)
           n == Len(s)
<1>1. /\ n \in Nat /\ Len(r) = n + 1 /\ r[n + 1] = f
      /\ \A i \in 1..n : r[i] = s[i]
  OBVIOUS
<1>2. /\ \A i \in 1..n : Local(w, s[i])
      /\ \A i \in 1..(n - 1) : Awaits(w, s[i], s[i + 1])
      /\ \A j \in 1..n : \A i \in 1..(j - 1) : Before(w, s[i], s[j].num)
  BY DEF Standing
<1>3. n # 0 => s # <<>>
  OBVIOUS
<1>4. /\ n # 0 => Awaits(w, s[n], f)
      /\ \A i \in 1..n : Before(w, s[i], f.num)
  BY <1>3
<1>. HIDE DEF r, n
<1>5. \A i \in 1..(n + 1) : Local(w, r[i])
  <2>1. \A i \in 1..(n + 1) : i = n + 1 \/ i \in 1..n
    BY <1>1
  <2>. QED
    BY <1>1, <1>2, <2>1
<1>6. ASSUME NEW i \in 1..n PROVE Awaits(w, r[i], r[i + 1])
  <2>1. CASE i = n
    BY <1>1, <1>4, <2>1
  <2>2. CASE i # n
    <3>1. i \in 1..(n - 1) /\ i + 1 \in 1..n
      BY <1>1, <2>2
    <3>. QED
      BY <1>1, <1>2, <3>1
  <2>. QED
    BY <2>1, <2>2
<1>7. ASSUME NEW j \in 1..(n + 1), NEW i \in 1..(j - 1) PROVE Before(w, r[i], r[j].num)
  <2>1. i \in 1..n
    BY <1>1
  <2>2. CASE j = n + 1
    BY <1>1, <1>4, <2>1, <2>2
  <2>3. CASE j # n + 1
    <3>1. j \in 1..n
      BY <1>1, <2>3
    <3>. QED
      BY <1>1, <1>2, <2>1, <3>1
  <2>. QED
    BY <2>2, <2>3
<1>8. (n + 1) - 1 = n
  BY <1>1
<1>9. Standing(w, r)
  BY <1>1, <1>5, <1>6, <1>7, <1>8 DEF Standing
<1>. QED
  BY <1>9 DEF r

\* What a call returns is what the one that waits for it is to hear.
LEMMA ReturnHeard ==
    ASSUME NEW w, NEW f, NEW g, Awaits(w, f, g), NEW v, Result(w, g, v)
    PROVE  Heard(w, f, v)
<1>1. CASE f.at = "length" /\ g.fn = "fetch" /\ g.num = Ent(w, f.num).length
  BY <1>1 DEF Heard, Result
<1>2. CASE f.at = "container" /\ g.fn = "container" /\ g.num = Ent(w, f.num).container
  BY <1>2 DEF Heard, Result
<1>3. CASE f.at = "n" /\ g.fn = "resolve" /\ (Ends(w, g) <=> ToInt(w, Ent(w, f.num).n))
  BY <1>3 DEF Heard, Result, Numbers
<1>4. CASE f.at \in {"object", "got"} /\ g.fn = "fetch" /\ g.num = f.num
  BY <1>4 DEF Heard, Result
<1>5. CASE f.at = "store"
  BY <1>5 DEF Heard
<1>. QED
  BY <1>1, <1>2, <1>3, <1>4, <1>5 DEF Awaits

\* The last request of a task, once v is returned from the stack s.
LastOf(s, l, v) == IF Len(s) > 1 THEN l ELSE [l EXCEPT !.ret = v]

\* Its type.
LEMMA LastTyped ==
    ASSUME NEW s, NEW l \in Lasts, NEW v \in Values
    PROVE  LastOf(s, l, v) \in Lasts
BY DEF LastOf, Lasts

\* A task whose last call returns what it should.
LEMMA PopSound ==
    ASSUME NEW w, NEW s \in Seq(Frames), s # <<>>, NEW ret, NEW l \in Lasts,
           Sound(w, s, ret, l), NEW v, Result(w, s[Len(s)], v)
    PROVE  Sound(w, Front(s), v, LastOf(s, l, v))
<1> DEFINE r == Front(s)
           k == LastOf(s, l, v)
<1>1. Standing(w, r) /\ (r # <<>> => Awaits(w, r[Len(r)], s[Len(s)]))
  BY StandingFront DEF Sound
<1>2. r # <<>> => Heard(w, r[Len(r)], v)
  <2> DEFINE g == s[Len(s)]
             f == r[Len(r)]
  <2>1. r # <<>> => Awaits(w, f, g)
    BY <1>1
  <2>2. Result(w, g, v)
    OBVIOUS
  <2>. HIDE DEF f, g, r
  <2>3. r # <<>> => Heard(w, f, v)
    BY <2>1, <2>2, ReturnHeard
  <2>. QED
    BY <2>3 DEF f
<1>3. /\ Len(s) \in Nat \ {0} /\ r \in Seq(Frames) /\ Len(r) = Len(s) - 1
      /\ \A i \in 1..(Len(s) - 1) : r[i] = s[i]
  BY FrontAndLast
<1>4. CASE Len(s) > 1
  <2>1. r # <<>> /\ r[1] = s[1] /\ k = l
    BY <1>3, <1>4 DEF LastOf
  <2>2. Requested(w, s, l)
    BY DEF Sound
  <2>. HIDE DEF r, k
  <2>3. Requested(w, r, k)
    BY <2>1, <2>2 DEF Requested
  <2>. QED
    BY <1>1, <1>2, <2>3 DEF Sound, r, k
<1>5. CASE ~(Len(s) > 1)
  <2>1. Len(s) = 1 /\ r = <<>>
    BY <1>3, <1>5
  <2>2. k.fn = l.fn /\ k.num = l.num /\ k.ret = v
    BY <1>5 DEF LastOf, Lasts
  <2>3. l.fn = "fetch" => s[1].fn = "fetch" /\ s[1].num = l.num
    BY DEF Sound, Requested
  <2>4. l.fn = "fetch" => Fetched(w, v, l.num)
    BY <2>1, <2>3 DEF Result
  <2>. HIDE DEF r, k
  <2>5. Requested(w, r, k)
    BY <2>1, <2>2, <2>4 DEF Requested
  <2>. QED
    BY <1>1, <1>2, <2>5 DEF Sound, r, k
<1>. QED
  BY <1>4, <1>5

-----------------------------------------------------------------------------
\* The call old goes on as f, and f calls what comes before it, or has heard.
Follows(w, old, f) ==
    /\ Local(w, f) /\ f.fn = old.fn
    /\ f.fn # "resolve" => f.num = old.num
    /\ f.fn = "resolve" => (Ends(w, f) <=> Ends(w, old))
    /\ Rank(w.file)[f.num] <= Rank(w.file)[old.num]
Calling(w, f, v, calls) ==
    \/ calls = <<>> /\ Heard(w, f, v)
    \/ \E g \in Frames : /\ calls = <<g>> /\ g.at = "begin"
                         /\ Local(w, g) /\ Awaits(w, f, g) /\ Before(w, f, g.num)

\* A rank is a natural number.
LEMMA RankIsNat ==
    ASSUME NEW f \in PlainFiles, NEW n \in Nums
    PROVE  Rank(f)[n] \in Nat
BY NeedsFall

\* What comes before what comes before p comes before p.
LEMMA BeforeFalls ==
    ASSUME NEW w, w.file \in PlainFiles, NEW p \in Frames, NEW n \in Nums, NEW m \in Nums,
           Before(w, p, n), Rank(w.file)[m] <= Rank(w.file)[n]
    PROVE  Before(w, p, m)
<1> DEFINE r == Rank(w.file)
           k == p.num
<1>1. r[n] \in Nat /\ r[m] \in Nat /\ r[k] \in Nat
  BY RankIsNat, FrameFacts
<1>2. r[n] <= r[k] /\ (Loading(w.mode, p) => r[n] < r[k]) /\ r[m] <= r[n]
  BY DEF Before
<1>. HIDE DEF r, k
<1>3. r[m] <= r[k] /\ (Loading(w.mode, p) => r[m] < r[k])
  BY <1>1, <1>2
<1>. QED
  BY <1>3 DEF Before, r, k

\* A call that goes on is still the one that is waited for.
LEMMA FollowsAwaited ==
    ASSUME NEW w, NEW p, NEW old \in Frames, NEW f \in Frames, Follows(w, old, f), Awaits(w, p, old)
    PROVE  Awaits(w, p, f)
<1>1. CASE old.fn = "resolve"
  BY <1>1 DEF Follows, Awaits
<1>2. CASE old.fn # "resolve"
  BY <1>2 DEF Follows, Awaits
<1>. QED
  BY <1>1, <1>2

\* A task whose last call goes on.
LEMMA GoSound ==
    ASSUME NEW w, w.file \in PlainFiles, NEW s \in Seq(Frames), s # <<>>,
           NEW v, NEW l, Sound(w, s, v, l),
           NEW f \in Frames, Follows(w, s[Len(s)], f), NEW calls, Calling(w, f, v, calls)
    PROVE  Sound(w, Front(s) \o <<f>> \o calls, v, l)
<1> DEFINE r == Front(s)
           old == s[Len(s)]
           q == Append(r, f)
<1>1. /\ Len(s) \in Nat \ {0} /\ old \in Frames
      /\ r \in Seq(Frames) /\ Len(r) = Len(s) - 1
      /\ \A i \in 1..(Len(s) - 1) : r[i] = s[i]
  BY FrontAndLast
<1>2. /\ Standing(w, r) /\ (r # <<>> => Awaits(w, r[Len(r)], old))
      /\ \A i \in 1..Len(r) : Before(w, r[i], old.num)
  BY StandingFront DEF Sound
<1>3. f.num \in Nums /\ old.num \in Nums
  BY <1>1, FrameFacts
<1>4. Follows(w, old, f)
  OBVIOUS
<1>5. l.fn = "fetch" => s[1].fn = "fetch" /\ s[1].num = l.num
  BY DEF Sound, Requested
<1>6. Len(s) = 1 => s[1] = old
  OBVIOUS
<1>. HIDE DEF r, old
<1>7. \A i \in 1..Len(r) : Before(w, r[i], f.num)
  <2> SUFFICES ASSUME NEW i \in 1..Len(r) PROVE Before(w, r[i], f.num)
    OBVIOUS
  <2>1. r[i] \in Frames /\ Before(w, r[i], old.num)
    BY <1>1, <1>2
  <2>2. Rank(w.file)[f.num] <= Rank(w.file)[old.num]
    BY <1>4 DEF Follows
  <2>. QED
    BY <1>3, <2>1, <2>2, BeforeFalls
<1>8. r # <<>> => Awaits(w, r[Len(r)], f)
  BY <1>1, <1>2, <1>4, FollowsAwaited
<1>9. Standing(w, q)
  BY <1>1, <1>2, <1>4, <1>7, <1>8, StandingAppend DEF Follows
<1>10. /\ q \in Seq(Frames) /\ q # <<>> /\ Len(q) = Len(r) + 1 /\ q[Len(q)] = f
       /\ \A i \in 1..Len(r) : q[i] = r[i]
       /\ r \o <<f>> = q
  BY <1>1
<1>. HIDE DEF q
<1>11. l.fn = "fetch" => q[1].fn = "fetch" /\ q[1].num = l.num
  <2>1. CASE Len(s) = 1
    <3>1. q[1] = f /\ f.fn = old.fn /\ (f.fn # "resolve" => f.num = old.num)
      BY <1>1, <1>4, <1>10, <2>1 DEF Follows
    <3>. QED
      BY <1>5, <1>6, <2>1, <3>1
  <2>2. CASE Len(s) # 1
    <3>1. q[1] = s[1]
      BY <1>1, <1>10, <2>2
    <3>. QED
      BY <1>5, <3>1
  <2>. QED
    BY <2>1, <2>2
<1>12. CASE calls = <<>> /\ Heard(w, f, v)
  <2>1. q \o calls = q
    BY <1>10, <1>12
  <2>2. Sound(w, q, v, l)
    BY <1>9, <1>10, <1>11, <1>12 DEF Sound, Requested
  <2>. QED
    BY <1>10, <2>1, <2>2 DEF r
<1>13. CASE \E g \in Frames : /\ calls = <<g>> /\ g.at = "begin"
                              /\ Local(w, g) /\ Awaits(w, f, g) /\ Before(w, f, g.num)
  <2>1. PICK g \in Frames : /\ calls = <<g>> /\ g.at = "begin"
                            /\ Local(w, g) /\ Awaits(w, f, g) /\ Before(w, f, g.num)
    BY <1>13
  <2> DEFINE z == Append(q, g)
  <2>2. /\ z \in Seq(Frames) /\ z # <<>> /\ z[Len(z)] = g /\ q \o calls = z /\ z[1] = q[1]
    BY <1>10, <2>1
  <2>3. \A i \in 1..Len(q) : Before(w, q[i], g.num)
    <3> SUFFICES ASSUME NEW i \in 1..Len(q) PROVE Before(w, q[i], g.num)
      OBVIOUS
    <3>1. g.num \in Nums /\ Rank(w.file)[g.num] <= Rank(w.file)[f.num]
      BY <2>1, FrameFacts DEF Before
    <3>2. CASE i = Len(q)
      BY <1>10, <2>1, <3>2
    <3>3. CASE i # Len(q)
      <4>1. i \in 1..Len(r)
        BY <1>1, <1>10, <3>3
      <4>2. q[i] \in Frames /\ Before(w, q[i], f.num)
        BY <1>1, <1>7, <1>10, <4>1
      <4>. QED
        BY <1>3, <3>1, <4>2, BeforeFalls
    <3>. QED
      BY <3>2, <3>3
  <2>4. Standing(w, z)
    BY <1>9, <1>10, <2>1, <2>3, StandingAppend
  <2>. HIDE DEF z
  <2>5. Heard(w, g, v)
    BY <2>1 DEF Heard
  <2>6. Sound(w, z, v, l)
    BY <1>11, <2>2, <2>4, <2>5 DEF Sound, Requested
  <2>. QED
    BY <1>10, <2>2, <2>6 DEF r
<1>. QED
  BY <1>12, <1>13 DEF Calling

\* A first call.
LEMMA StartSound ==
    ASSUME NEW w, NEW g \in Frames, g.at = "begin", Local(w, g), NEW v, NEW l,
           l.fn = "fetch" => g.fn = "fetch" /\ g.num = l.num
    PROVE  Sound(w, <<g>>, v, l)
<1>1. Standing(w, <<g>>)
  BY DEF Standing
<1>2. Heard(w, g, v)
  BY DEF Heard
<1>. QED
  BY <1>1, <1>2 DEF Sound, Requested

\* Nothing is to be known of a call that begins.
LEMMA BeginLocal ==
    ASSUME NEW w, NEW fn \in {"fetch", "container", "resolve"}, NEW n \in Nums
    PROVE  /\ Frame(fn, n, "begin") \in Frames /\ Frame(fn, n, "begin").at = "begin"
           /\ Frame(fn, n, "begin").fn = fn /\ Frame(fn, n, "begin").num = n
           /\ Frame(fn, n, "begin").depth = 0
           /\ Local(w, Frame(fn, n, "begin"))
<1>1. /\ Frame(fn, n, "begin") \in Frames /\ Frame(fn, n, "begin").at = "begin"
      /\ Frame(fn, n, "begin").fn = fn /\ Frame(fn, n, "begin").num = n
      /\ Frame(fn, n, "begin").depth = 0
  BY BeginningCalls DEF Frame
<1>2. Local(w, Frame(fn, n, "begin"))
  BY <1>1 DEF Local, LocalFetch, LocalContainer, LocalResolve, Ats
<1>. QED
  BY <1>1, <1>2

-----------------------------------------------------------------------------
\* What is known stays known when more reads have failed, and in a phase that
\* asks no more of it.
Later(w, x) ==
    /\ x.file = w.file /\ x.mode = w.mode
    /\ w.faults \in Nat /\ x.faults \in Nat /\ x.faults <= w.faults
    /\ x.phase = "open" => w.phase = "open"

\* Of the values and answers,
LEMMA LaterFetched ==
    ASSUME NEW w, NEW x, Later(w, x)
    PROVE  /\ Hurt(w) => Hurt(x)
           /\ \A a, b : LengthFits(w, a, b) => LengthFits(x, a, b)
           /\ \A n : Told(x, n) = Told(w, n) /\ Ent(x, n) = Ent(w, n)
           /\ \A c : Decodes(x, c) <=> Decodes(w, c)
           /\ \A m : ToInt(x, m) <=> ToInt(w, m)
           /\ \A g : Ends(x, g) <=> Ends(w, g)
           /\ \A v, n : Tells(w, v, n) => Tells(x, v, n)
           /\ \A v, n : Fetched(w, v, n) => Fetched(x, v, n)
           /\ \A v, n : Unpacked(w, v, n) => Unpacked(x, v, n)
           /\ \A v : \A int \in BOOLEAN : Numbers(w, v, int) => Numbers(x, v, int)
<1>1. /\ x.file = w.file /\ (x.phase = "open" => w.phase = "open")
      /\ w.faults \in Nat /\ x.faults \in Nat /\ x.faults <= w.faults
  BY DEF Later
<1>2. Hurt(w) => Hurt(x)
  BY <1>1, ObjectFetchAssumption DEF Hurt
<1>3. \A a, b : LengthFits(w, a, b) => LengthFits(x, a, b)
  BY <1>2 DEF LengthFits
<1>4. /\ \A n : Told(x, n) = Told(w, n) /\ Ent(x, n) = Ent(w, n)
      /\ \A c : Decodes(x, c) <=> Decodes(w, c)
      /\ \A m : ToInt(x, m) <=> ToInt(w, m)
  BY <1>1 DEF Told, Ent, Decodes, ToInt
<1>5. \A g : Ends(x, g) <=> Ends(w, g)
  BY <1>4 DEF Ends
<1>6. \A v, n : Tells(w, v, n) => Tells(x, v, n)
  BY <1>3, <1>4 DEF Tells
<1>7. \A v, n : Fetched(w, v, n) => Fetched(x, v, n)
  BY <1>1, <1>2, <1>4, <1>6 DEF Fetched
<1>8. \A v, n : Unpacked(w, v, n) => Unpacked(x, v, n)
  BY <1>2, <1>3, <1>4 DEF Unpacked
<1>9. \A v : \A int \in BOOLEAN : Numbers(w, v, int) => Numbers(x, v, int)
  BY <1>2 DEF Numbers
<1>. QED
  BY <1>2, <1>3, <1>4, <1>5, <1>6, <1>7, <1>8, <1>9

\* of the calls,
LEMMA LaterCalls ==
    ASSUME NEW w, NEW x, Later(w, x)
    PROVE  /\ \A f : Local(w, f) => Local(x, f)
           /\ \A f, g : Awaits(w, f, g) => Awaits(x, f, g)
           /\ \A f, v : Heard(w, f, v) => Heard(x, f, v)
           /\ \A f, n : Before(w, f, n) => Before(x, f, n)
<1>1. x.mode = w.mode /\ x.file = w.file
  BY DEF Later
<1>2. \A f : LocalFetch(w, f) => LocalFetch(x, f)
  BY LaterFetched DEF LocalFetch
<1>3. \A f : LocalContainer(w, f) => LocalContainer(x, f)
  BY <1>1, LaterFetched DEF LocalContainer
<1>4. \A f : LocalResolve(w, f) => LocalResolve(x, f)
  BY LaterFetched DEF LocalResolve
<1>5. \A f : Local(w, f) => Local(x, f)
  BY <1>2, <1>3, <1>4, LaterFetched DEF Local
<1>6. \A f, g : Awaits(w, f, g) => Awaits(x, f, g)
  BY LaterFetched DEF Awaits
<1>7. ASSUME NEW f, NEW v, Heard(w, f, v) PROVE Heard(x, f, v)
  <2>1. f.at = "n" => Numbers(x, v, ToInt(x, Ent(x, f.num).n))
    <3>1. ToInt(w, Ent(w, f.num).n) \in BOOLEAN
      BY DEF ToInt
    <3>2. ToInt(x, Ent(x, f.num).n) = ToInt(w, Ent(w, f.num).n)
      BY <1>1 DEF ToInt, Ent
    <3>. QED
      BY <1>7, <3>1, <3>2, LaterFetched DEF Heard
  <2>2. /\ f.at = "length" => Fetched(x, v, Ent(x, f.num).length)
        /\ f.at = "container" => Unpacked(x, v, Ent(x, f.num).container)
        /\ f.at \in {"object", "got"} => Fetched(x, v, f.num)
    BY <1>7, LaterFetched DEF Heard
  <2>. QED
    BY <2>1, <2>2 DEF Heard
<1>8. \A f, n : Before(w, f, n) => Before(x, f, n)
  BY <1>1 DEF Before
<1>. QED
  BY <1>5, <1>6, <1>7, <1>8

\* and of a task.
LEMMA LaterSound ==
    ASSUME NEW w, NEW x, Later(w, x), NEW s, NEW v, NEW l, Sound(w, s, v, l)
    PROVE  Sound(x, s, v, l)
<1>1. Standing(x, s)
  BY LaterCalls DEF Sound, Standing
<1>2. Requested(x, s, l)
  BY LaterFetched DEF Sound, Requested
<1>3. s # <<>> => Heard(x, s[Len(s)], v)
  BY LaterCalls DEF Sound
<1>. QED
  BY <1>1, <1>2, <1>3 DEF Sound

-----------------------------------------------------------------------------
\* What the ideal answers are.
LEMMA IdealIs ==
    ASSUME NEW w, w.file \in PlainFiles, NEW n \in Nums
    PROVE  /\ Ent(w, n).at = "file" =>
                 Told(w, n) = Value(Ent(w, n).kind, LengthBy(w.file, Answers[w.file], n),
                                    "plain", Ent(w, n).to)
           /\ Ent(w, n).at = "stream" /\ Decodes(w, Ent(w, n).container) =>
                 Told(w, n) = Value(Ent(w, n).kind, Told(w, Ent(w, n).container).length,
                                    "plain", Ent(w, n).to)
           /\ Ent(w, n).at = "stream" /\ ~Decodes(w, Ent(w, n).container) => Told(w, n) = Missing
           /\ Ent(w, n).at = "free" => Told(w, n) = Missing
<1>1. Told(w, n) = MadeOf(w.file, Answers[w.file], n)
  BY AnswersAreMade DEF Told
<1>. QED
  BY <1>1, Zenon DEF MadeOf, Ent, Decodes, Told, Id

\* What an entry of a plain file holds.
LEMMA EntryIn ==
    ASSUME NEW w, w.file \in PlainFiles, NEW n \in Nums
    PROVE  /\ Ent(w, n).at \in {"free", "file", "stream"} /\ Ent(w, n).kind \in Kinds
           /\ Ent(w, n).to \in Refs
           /\ Ent(w, n).kind = "ref" => Ent(w, n).to \in Nums /\ Ent(w, Ent(w, n).to).kind # "ref"
           /\ Ent(w, n).at = "stream" => Ent(w, n).container \in Nums /\ Ent(w, n).kind # "stream"
           /\ Ent(w, n).length # 0 => Ent(w, n).length \in Nums
           /\ Ent(w, n).n # 0 => Ent(w, n).n \in Nums
<1>1. w.file \in Files
  BY RankOf
<1> DEFINE f == w.file
           e == f.entries[n]
<1>2. /\ e.at \in {"free", "file", "stream"} /\ e.kind \in Kinds
      /\ e.length \in Refs /\ e.n \in Refs /\ e.to \in Refs
      /\ e.at = "stream" => e.container \in Nums
      /\ e.kind = "ref" => e.to \in Nums
  BY <1>1, EntryOf
<1>3. /\ e.kind = "ref" => f.entries[e.to].kind # "ref"
      /\ e.at = "stream" => e.kind # "stream"
  BY RankOf
<1>. HIDE DEF f
<1>. QED
  BY <1>2, <1>3 DEF Ent, Refs, f

\* The fields of a value.
LEMMA ValueIs ==
    ASSUME NEW kind, NEW length, NEW text, NEW to
    PROVE  /\ Value(kind, length, text, to).kind = kind /\ Value(kind, length, text, to).to = to
           /\ Value(kind, length, text, to).length = length
           /\ Value(kind, length, text, to).text = text
BY DEF Value

\* The values that are no objects.
LEMMA FailuresAre ==
    /\ Missing.kind = "missing" /\ Circular.kind = "circular" /\ Null.kind = "null"
    /\ Missing # Circular /\ Null # Circular /\ Missing.length = "none"
    /\ \A l : BuiltWith(l).kind = "built" /\ BuiltWith(l).length = l /\ BuiltWith(l) # Missing
              /\ BuiltWith(l) # Circular
<1>1. /\ Missing.kind = "missing" /\ Circular.kind = "circular" /\ Null.kind = "null"
      /\ Missing.length = "none"
      /\ \A l : BuiltWith(l).kind = "built" /\ BuiltWith(l).length = l
  BY DEF Missing, Circular, Null, BuiltWith, Built, Failure, Value
<1>. QED
  BY <1>1

\* An ideal answer is Missing or the object of the entry.
LEMMA IdealFacts ==
    ASSUME NEW w, w.file \in PlainFiles, NEW n \in Nums
    PROVE  /\ \/ Told(w, n) = Missing
              \/ /\ Told(w, n).kind = Ent(w, n).kind /\ Told(w, n).kind \in Kinds
                 /\ Told(w, n).to = Ent(w, n).to
                 /\ \E l \in {"none", "declared", "recovered"} :
                       Told(w, n) = Value(Ent(w, n).kind, l, "plain", Ent(w, n).to)
           /\ Decodes(w, n) => Told(w, n).kind = "stream"
           /\ Told(w, n).kind = "stream" => Ent(w, n).at = "file" /\ Ent(w, n).kind = "stream"
<1> DEFINE L == {"none", "declared", "recovered"}
           made(l) == Value(Ent(w, n).kind, l, "plain", Ent(w, n).to)
<1>1. \A m : LengthBy(w.file, Answers[w.file], m) \in L
  BY DEF LengthBy
<1>2. Ent(w, n).at \in {"free", "file", "stream"} /\ Ent(w, n).kind \in Kinds
  BY EntryIn
<1>3. Told(w, n) = Missing \/ \E l \in L : Told(w, n) = made(l)
  <2>1. CASE Ent(w, n).at = "file"
    BY <1>1, <2>1, IdealIs
  <2>2. CASE Ent(w, n).at = "stream" /\ Decodes(w, Ent(w, n).container)
    <3> DEFINE c == Ent(w, n).container
    <3>1. c \in Nums
      BY <2>2, EntryIn
    <3>2. Ent(w, c).at = "file"
      BY <2>2 DEF Decodes, DecodesBy, Ent
    <3>3. Told(w, n) = made(Told(w, c).length)
      BY <2>2, IdealIs
    <3>. HIDE DEF c
    <3>4. Told(w, c) = Value(Ent(w, c).kind, LengthBy(w.file, Answers[w.file], c), "plain", Ent(w, c).to)
      BY <3>1, <3>2, IdealIs
    <3>5. Told(w, c).length \in L
      BY <1>1, <3>4, ValueIs
    <3>. QED
      BY <3>3, <3>5
  <2>3. CASE Ent(w, n).at = "stream" /\ ~Decodes(w, Ent(w, n).container)
    BY <2>3, IdealIs
  <2>4. CASE Ent(w, n).at = "free"
    BY <2>4, IdealIs
  <2>. QED
    BY <1>2, <2>1, <2>2, <2>3, <2>4
<1>4. ASSUME NEW l \in L, Told(w, n) = made(l)
      PROVE  /\ Told(w, n).kind = Ent(w, n).kind /\ Told(w, n).kind \in Kinds
             /\ Told(w, n).to = Ent(w, n).to
  BY <1>2, <1>4, ValueIs
<1>5. Decodes(w, n) => Told(w, n).kind = "stream"
  <2> SUFFICES ASSUME Decodes(w, n) PROVE Told(w, n).kind = "stream"
    OBVIOUS
  <2>1. Ent(w, n).at = "file" /\ Ent(w, n).kind = "stream"
    BY DEF Decodes, DecodesBy, Ent
  <2>. QED
    BY <2>1, IdealIs, ValueIs
<1>6. Told(w, n).kind = "stream" => Ent(w, n).at = "file" /\ Ent(w, n).kind = "stream"
  <2> SUFFICES ASSUME Told(w, n).kind = "stream"
               PROVE  Ent(w, n).at = "file" /\ Ent(w, n).kind = "stream"
    OBVIOUS
  <2>1. Told(w, n) # Missing
    BY FailuresAre
  <2>2. Ent(w, n).kind = "stream"
    BY <1>3, <1>4, <2>1
  <2>3. Ent(w, n).at # "free"
    BY <2>1, IdealIs
  <2>4. Ent(w, n).at # "stream"
    BY <2>2, EntryIn
  <2>. QED
    BY <1>2, <2>2, <2>3, <2>4
<1>. QED
  BY <1>3, <1>4, <1>5, <1>6

\* When resolving m ends at an integer.
LEMMA ToIntIs ==
    ASSUME NEW w, w.file \in PlainFiles, NEW m \in Nums
    PROVE  /\ Told(w, m).kind # "ref" => (ToInt(w, m) <=> Told(w, m).kind = "int")
           /\ Told(w, m).kind = "ref" =>
                 /\ Told(w, m).to \in Nums /\ Told(w, m).to = Ent(w, m).to
                 /\ Ent(w, m).kind = "ref"
                 /\ Ent(w, Told(w, m).to).kind # "ref"
                 /\ ToInt(w, m) <=> Told(w, Told(w, m).to).kind = "int"
<1>1. CASE Told(w, m).kind # "ref"
  BY <1>1 DEF ToInt, Chased, Told, Id
<1>2. CASE Told(w, m).kind = "ref"
  <2>1. Told(w, m) # Missing
    BY <1>2, FailuresAre
  <2>2. Ent(w, m).kind = "ref" /\ Told(w, m).to = Ent(w, m).to
    BY <1>2, <2>1, IdealFacts
  <2>3. Ent(w, m).to \in Nums /\ Ent(w, Ent(w, m).to).kind # "ref"
    BY <2>2, EntryIn
  <2>4. ToInt(w, m) <=> Told(w, Told(w, m).to).kind = "int"
    BY <1>2 DEF ToInt, Chased, Told, Id
  <2>. QED
    BY <1>2, <2>2, <2>3, <2>4
<1>. QED
  BY <1>1, <1>2

-----------------------------------------------------------------------------
\* The chain holds nothing but the numbers of calls that load.
LEMMA ChainIsOfCalls ==
    ASSUME NEW m, NEW s \in Seq(Frames), NEW c \in Seq(Nums), IsPath(m, s, c),
           NEW k \in 1..Len(c)
    PROVE  \E i \in 1..Len(s) : Loading(m, s[i]) /\ s[i].num = c[k]
<1> DEFINE T == {n \in Nat : n > Len(s) \/ Count(m, s, n) < k
                             \/ \E i \in 1..n : Loading(m, s[i]) /\ Count(m, s, i) = k}
<1>1. k \in Nat \ {0} /\ Len(s) \in Nat /\ Len(c) \in Nat
  OBVIOUS
<1>2. 0 \in T
  <2>1. 0 \in Nat
    OBVIOUS
  <2>2. Count(m, s, 0) = 0
    BY <2>1, CountIsNat
  <2>. QED
    BY <1>1, <2>2
<1>3. ASSUME NEW n \in Nat, n \in T PROVE n + 1 \in T
  <2>1. CASE n > Len(s)
    BY <1>1, <2>1
  <2>2. CASE \E i \in 1..n : Loading(m, s[i]) /\ Count(m, s, i) = k
    <3>1. PICK i \in 1..n : Loading(m, s[i]) /\ Count(m, s, i) = k
      BY <2>2
    <3>2. i \in 1..(n + 1)
      OBVIOUS
    <3>. QED
      BY <3>1, <3>2
  <2>3. CASE Count(m, s, n) < k
    <3>1. Count(m, s, n) \in Nat
      BY CountIsNat
    <3>2. CASE Loading(m, s[n + 1])
      <4>1. Count(m, s, n + 1) = Count(m, s, n) + 1
        BY <3>2, CountOfNext
      <4>2. n + 1 \in 1..(n + 1)
        OBVIOUS
      <4>3. CASE Count(m, s, n + 1) = k
        BY <3>2, <4>2, <4>3
      <4>4. CASE Count(m, s, n + 1) # k
        <5>1. Count(m, s, n + 1) < k
          BY <1>1, <2>3, <3>1, <4>1, <4>4
        <5>. QED
          BY <5>1
      <4>. QED
        BY <4>3, <4>4
    <3>3. CASE ~Loading(m, s[n + 1])
      <4>1. Count(m, s, n + 1) = Count(m, s, n)
        BY <3>3, CountOfNext
      <4>. QED
        BY <2>3, <4>1
    <3>. QED
      BY <3>2, <3>3
  <2>. QED
    BY <1>3, <2>1, <2>2, <2>3
<1>4. Nat \subseteq T
  <2>. HIDE DEF T
  <2>. QED
    BY <1>2, <1>3, NatInductionOnSets
<1>5. Len(s) \in T
  BY <1>1, <1>4
<1>6. Len(c) = Count(m, s, Len(s)) /\ k <= Len(c)
  BY <1>1 DEF IsPath
<1>7. PICK i \in 1..Len(s) : Loading(m, s[i]) /\ Count(m, s, i) = k
  BY <1>1, <1>5, <1>6
<1>. QED
  BY <1>7 DEF IsPath

-----------------------------------------------------------------------------
\* The invariant: in a plain file, once its containers can be read.
Readable == ~Encrypted \/ key \/ file.clearStreams
Stored(w, cache) == \A n \in DOMAIN cache : Tells(w, cache[n], n)
Unpackings(w, cache) ==
    \A c \in DOMAIN cache : Unpacked(w, cache[c], c) /\ cache[c] # Missing
Known ==
    /\ Stored(World, objects) /\ Unpackings(World, objstms)
    /\ \A t \in Tasks : Sound(World, task[t].stack, task[t].ret, last[t])
Course ==
    /\ last \in [Tasks -> Lasts]
    /\ \A t \in Tasks : last[t].fn = "fetch" => phase = "open" /\ last[t].num \in Nums
    /\ phase = "clearing" => \A t \in Tasks : Idle(t)
    /\ ~Readable => DOMAIN objstms = {}
PInv == IInv /\ Course /\ (Plain /\ Readable => Known)

\* The world is the variables it is made of.
LEMMA WorldIs ==
    /\ World.file = file /\ World.mode = mode /\ World.phase = phase /\ World.faults = faults
    /\ \A n : Ent(World, n) = E(n)
BY DEF World, Ent, E

\* It stays while they do.
LEMMA SameWorld ==
    ASSUME UNCHANGED docVars, faults' = faults
    PROVE  World' = World
BY DEF World, docVars

\* What is known of the call at the top.
LEMMA TopKnown ==
    ASSUME PInv, Plain, Readable, NEW t \in Tasks, ~Idle(t)
    PROVE  /\ World.file \in PlainFiles
           /\ Sound(World, task[t].stack, Ret(t), last[t])
           /\ Local(World, Top(t)) /\ Heard(World, Top(t), Ret(t))
<1>1. Sound(World, task[t].stack, Ret(t), last[t]) /\ IInv
  BY DEF PInv, Known, Ret
<1>2. task[t].stack \in Seq(Frames) /\ task[t].stack # <<>>
  BY <1>1, TopOfTask DEF Fits
<1>3. Local(World, Top(t)) /\ Heard(World, Top(t), Ret(t))
  BY <1>1, <1>2, StandingFront DEF Sound, Top
<1>4. World.file \in PlainFiles
  BY WorldIs DEF Plain
<1>. QED
  BY <1>1, <1>3, <1>4

\* A call that begins to load is about what nothing further up is loading.
LEMMA NotGuarded ==
    ASSUME PInv, Plain, Readable, NEW t \in Tasks, ~Idle(t), ~Loading(mode, Top(t))
    PROVE  ~Guarded(t, Top(t).num)
<1> DEFINE s == task[t].stack
           c == task[t].chain
           w == World
<1>1. SUFFICES ASSUME Guarded(t, Top(t).num) PROVE FALSE
  OBVIOUS
<1>2. /\ s \in Seq(Frames) /\ s # <<>> /\ c \in Seq(Nums) /\ IsPath(mode, s, c)
  <2>1. IInv
    BY DEF PInv
  <2>. QED
    BY <2>1, TopOfTask DEF Fits
<1>3. PICK k \in 1..Len(c) : c[k] = Top(t).num
  BY <1>1, <1>2 DEF Guarded, ToSet
<1>4. PICK i \in 1..Len(s) : Loading(mode, s[i]) /\ s[i].num = Top(t).num
  <2>. HIDE DEF s, c
  <2>. QED
    BY <1>2, <1>3, ChainIsOfCalls
<1>5. Standing(w, s) /\ Top(t) = s[Len(s)] /\ w.file \in PlainFiles
  BY TopKnown DEF Sound, Top
<1>6. w.mode = mode
  BY WorldIs
<1>7. Top(t).num \in Nums
  <2>1. IInv
    BY DEF PInv
  <2>. QED
    BY <2>1, TopOfTask
<1>. HIDE DEF s, c, w
<1>8. Len(s) \in Nat \ {0} /\ i # Len(s)
  BY <1>2, <1>4, <1>5
<1>9. Before(w, s[i], s[Len(s)].num)
  <2>1. Len(s) \in 1..Len(s) /\ i \in 1..(Len(s) - 1)
    BY <1>8
  <2>. QED
    BY <1>5, <2>1 DEF Standing
<1>10. Rank(w.file)[Top(t).num] < Rank(w.file)[Top(t).num]
  BY <1>4, <1>5, <1>6, <1>9 DEF Before
<1>11. Rank(w.file)[Top(t).num] \in Nat
  BY <1>5, <1>7, RankIsNat
<1>. QED
  BY <1>10, <1>11

-----------------------------------------------------------------------------
\* The steps of a task: the others only see that more reads may have failed.
LEMMA Onwards ==
    ASSUME IInv, UNCHANGED docVars, faults' \in Nat, faults' <= faults
    PROVE  Later(World, World')
<1>1. faults \in Nat
  BY ObjectFetchAssumption DEF IInv, TypeOK
<1>. QED
  BY <1>1 DEF Later, World, docVars

\* One task steps, and keeps what is known of it and of the caches.
LEMMA Stepped ==
    ASSUME PInv, IInv', NEW t \in Tasks, ~Idle(t), UNCHANGED docVars, faults' <= faults,
           NEW k, task' = [task EXCEPT ![t] = k],
           NEW l \in Lasts, last' = [last EXCEPT ![t] = l],
           l.fn = last[t].fn, l.num = last[t].num,
           ~Readable => objstms' = objstms,
           Plain /\ Readable => /\ Sound(World', k.stack, k.ret, l)
                                /\ Stored(World', objects') /\ Unpackings(World', objstms')
    PROVE  PInv'
<1>1. IInv /\ Course
  BY DEF PInv
<1>2. faults' \in Nat
  BY DEF IInv, TypeOK
<1>3. Later(World, World')
  BY <1>1, <1>2, Onwards
<1>4. /\ \A u \in Tasks : task'[u] = IF u = t THEN k ELSE task[u]
      /\ \A u \in Tasks : last'[u] = IF u = t THEN l ELSE last[u]
  BY <1>1 DEF IInv, TypeOK, Course
<1>5. (Readable' <=> Readable) /\ (Plain' <=> Plain) /\ phase' = phase
  BY DEF Readable, Encrypted, Plain, docVars
<1>6. phase # "clearing"
  BY <1>1 DEF Course
<1>7. Course'
  <2>1. last' \in [Tasks -> Lasts]
    BY <1>1 DEF Course
  <2>2. \A u \in Tasks : last'[u].fn = "fetch" => phase' = "open" /\ last'[u].num \in Nums
    BY <1>1, <1>4, <1>5 DEF Course
  <2>3. ~Readable' => DOMAIN objstms' = {}
    BY <1>1, <1>5 DEF Course
  <2>. QED
    BY <1>5, <1>6, <2>1, <2>2, <2>3 DEF Course
<1>8. ASSUME Plain', Readable' PROVE Known'
  <2>1. Plain /\ Readable
    BY <1>5, <1>8
  <2>2. Known
    BY <2>1 DEF PInv
  <2>3. ASSUME NEW u \in Tasks
        PROVE  Sound(World', task'[u].stack, task'[u].ret, last'[u])
    <3>1. CASE u = t
      BY <1>4, <2>1, <3>1
    <3>2. CASE u # t
      <4>1. Sound(World, task[u].stack, task[u].ret, last[u])
        BY <2>2 DEF Known
      <4>2. Sound(World', task[u].stack, task[u].ret, last[u])
        BY <1>3, <4>1, LaterSound
      <4>. QED
        BY <1>4, <3>2, <4>2
    <3>. QED
      BY <3>1, <3>2
  <2>. QED
    BY <2>1, <2>3 DEF Known
<1>. QED
  BY <1>7, <1>8 DEF PInv

\* A call returns what it should.
LEMMA ReturnStep ==
    ASSUME PInv, IInv', NEW t \in Tasks, ~Idle(t), UNCHANGED docVars, faults' <= faults,
           NEW v \in Values, Returning(t, v) \/ Leaving(t, v),
           ~Readable => objstms' = objstms,
           Plain /\ Readable => /\ Result(World', Top(t), v)
                                /\ Stored(World', objects') /\ Unpackings(World', objstms')
    PROVE  PInv'
<1> DEFINE l == LastOf(task[t].stack, last[t], v)
<1>1. IInv /\ Course
  BY DEF PInv
<1>2. /\ task[t].stack \in Seq(Frames) /\ task[t].stack # <<>> /\ IsTask(task[t])
      /\ last[t] \in Lasts /\ last \in [Tasks -> Lasts]
  BY <1>1, TopOfTask DEF Fits, Course
<1>3. PICK c : task' = [task EXCEPT ![t] = Task(Below(t), c, v)]
  BY <1>2, ReturningIs, LeavingIs
<1>4. l \in Lasts
  BY <1>2, LastTyped
<1>5. l.fn = last[t].fn /\ l.num = last[t].num
  BY <1>2 DEF LastOf, Lasts
<1>6. last' = [last EXCEPT ![t] = l]
  <2>1. last' = IF Len(task[t].stack) > 1 THEN last ELSE [last EXCEPT ![t].ret = v]
    BY DEF Returning, Leaving
  <2>2. CASE Len(task[t].stack) > 1
    BY <1>2, <2>1, <2>2 DEF LastOf
  <2>3. CASE ~(Len(task[t].stack) > 1)
    BY <2>1, <2>3 DEF LastOf
  <2>. QED
    BY <2>2, <2>3
<1>7. faults' \in Nat
  BY DEF IInv, TypeOK
<1>8. ASSUME Plain, Readable PROVE Sound(World', Below(t), v, l)
  <2>1. Sound(World, task[t].stack, Ret(t), last[t])
    BY <1>8, TopKnown
  <2>2. Sound(World', task[t].stack, Ret(t), last[t])
    BY <1>1, <1>7, <2>1, Onwards, LaterSound
  <2>3. Result(World', task[t].stack[Len(task[t].stack)], v)
    BY <1>8 DEF Top
  <2>. QED
    BY <1>2, <2>2, <2>3, PopSound DEF Below
<1>9. Task(Below(t), c, v).stack = Below(t) /\ Task(Below(t), c, v).ret = v
  BY DEF Task
<1>. HIDE DEF l
<1>10. Plain /\ Readable => Sound(World', Task(Below(t), c, v).stack, Task(Below(t), c, v).ret, l)
  BY <1>8, <1>9
<1>. QED
  BY <1>3, <1>4, <1>5, <1>6, <1>10, Stepped

\* A call goes on.
GoesOn(t, f, calls) ==
    \E c : task' = [task EXCEPT ![t] = Task(Below(t) \o <<f>> \o calls, c, task[t].ret)]

\* A call goes on, and may call.
LEMMA GoStep ==
    ASSUME PInv, IInv', NEW t \in Tasks, ~Idle(t),
           UNCHANGED <<docVars, objects, objstms, requests, faults>>, last' = last,
           NEW f \in Frames, NEW calls, GoesOn(t, f, calls),
           Plain /\ Readable => Follows(World, Top(t), f) /\ Calling(World, f, Ret(t), calls)
    PROVE  PInv'
<1>1. IInv /\ Course
  BY DEF PInv
<1>2. task[t].stack \in Seq(Frames) /\ task[t].stack # <<>> /\ last \in [Tasks -> Lasts]
  BY <1>1, TopOfTask DEF Fits, Course
<1> DEFINE q == Below(t) \o <<f>> \o calls
<1>3. PICK c : task' = [task EXCEPT ![t] = Task(q, c, task[t].ret)]
  BY DEF GoesOn
<1>4. last' = [last EXCEPT ![t] = last[t]] /\ last[t] \in Lasts
  BY <1>2
<1>5. World' = World
  BY SameWorld
<1>6. ASSUME Plain, Readable
      PROVE  /\ Sound(World', q, task[t].ret, last[t])
             /\ Stored(World', objects') /\ Unpackings(World', objstms')
  <2>1. Sound(World, task[t].stack, Ret(t), last[t]) /\ World.file \in PlainFiles
    BY <1>6, TopKnown
  <2>2. Follows(World, task[t].stack[Len(task[t].stack)], f) /\ Calling(World, f, Ret(t), calls)
    BY <1>6 DEF Top
  <2>3. Sound(World, q, Ret(t), last[t])
    BY <1>2, <2>1, <2>2, GoSound DEF Below
  <2>4. Stored(World, objects) /\ Unpackings(World, objstms)
    BY <1>6 DEF PInv, Known
  <2>. QED
    BY <1>5, <2>3, <2>4 DEF Ret
<1>7. Task(q, c, task[t].ret).stack = q /\ Task(q, c, task[t].ret).ret = task[t].ret
  BY DEF Task
<1>8. faults' <= faults
  <2>1. faults \in Int
    BY <1>1, ObjectFetchAssumption DEF IInv, TypeOK
  <2>. QED
    BY <2>1
<1>. HIDE DEF q
<1>9. Plain /\ Readable =>
         /\ Sound(World', Task(q, c, task[t].ret).stack, Task(q, c, task[t].ret).ret, last[t])
         /\ Stored(World', objects') /\ Unpackings(World', objstms')
  BY <1>6, <1>7
<1>. QED
  BY <1>3, <1>4, <1>8, <1>9, Stepped

\* The two forms of going on in the model.
LEMMA GoingOn ==
    ASSUME PInv, NEW t \in Tasks, ~Idle(t), NEW f, NEW calls, Going(t, f, calls)
    PROVE  GoesOn(t, f, calls)
<1>1. IsTask(task[t])
  BY TopOfTask DEF PInv
<1>. QED
  BY <1>1, GoingIs DEF Going, GoesOn

LEMMA EnteringOn ==
    ASSUME PInv, NEW t \in Tasks, ~Idle(t), NEW f, NEW calls, NEW n,
           task' = [task EXCEPT ![t] = [Goes(t, f, calls) EXCEPT !.chain = Append(@, n)]]
    PROVE  GoesOn(t, f, calls)
<1>1. IsTask(task[t])
  BY TopOfTask DEF PInv
<1>2. [Goes(t, f, calls) EXCEPT !.chain = Append(@, n)] =
      Task(Below(t) \o <<f>> \o calls, Append(task[t].chain, n), task[t].ret)
  BY <1>1, EnteringIs, Zenon
<1>. QED
  BY <1>2 DEF GoesOn

-----------------------------------------------------------------------------
\* What the actions keep, and how they go on.
LEMMA KeptCaches ==
    ASSUME PInv, UNCHANGED docVars, faults' = faults
    PROVE  /\ World' = World /\ faults' <= faults
           /\ Plain /\ Readable =>
                 /\ World.file \in PlainFiles
                 /\ objects' = objects => Stored(World', objects')
                 /\ objstms' = objstms => Unpackings(World', objstms')
<1>1. World' = World
  BY SameWorld
<1>2. faults \in Int
  BY ObjectFetchAssumption DEF PInv, IInv, TypeOK
<1>3. World.file = file
  BY WorldIs
<1>. QED
  BY <1>1, <1>2, <1>3 DEF PInv, Known, Plain

\* The call at the top, its entry and its value.
LEMMA TopTyped ==
    ASSUME PInv, NEW t \in Tasks, ~Idle(t)
    PROVE  /\ IInv /\ Top(t) \in Frames /\ Top(t).num \in Nums /\ Ret(t) \in Values
           /\ HasObject(phase, Top(t))
BY TopOfTask DEF PInv

\* Going on elsewhere keeps the depth.
LEMMA DepthAt ==
    ASSUME NEW f \in Frames, NEW at \in Ats, NEW v \in Values
    PROVE  At(f, at).depth = f.depth /\ AtWith(f, at, v).depth = f.depth
BY DEF At, AtWith, Frames

\* A call that goes on about its own number follows itself.
LEMMA MovesOn ==
    ASSUME NEW w, w.file \in PlainFiles, NEW old \in Frames, NEW f, Local(w, f),
           f.fn = old.fn, f.num = old.num, f.depth = old.depth
    PROVE  Follows(w, old, f)
<1>1. Rank(w.file)[old.num] \in Nat
  BY RankIsNat, FrameFacts
<1>2. Rank(w.file)[f.num] <= Rank(w.file)[old.num]
  BY <1>1
<1>. QED
  BY <1>2 DEF Follows, Ends

\* A call of what its caller needs.
LEMMA CallsOne ==
    ASSUME NEW w, w.file \in PlainFiles, NEW f, f.num \in Nums, NEW v,
           NEW fn \in {"fetch", "container", "resolve"}, NEW n \in Nums,
           Awaits(w, f, Frame(fn, n, "begin")),
           \/ Rank(w.file)[n] < Rank(w.file)[f.num]
           \/ n = f.num /\ ~Loading(w.mode, f)
    PROVE  Calling(w, f, v, <<Frame(fn, n, "begin")>>)
<1> DEFINE g == Frame(fn, n, "begin")
           r == Rank(w.file)
<1>1. g \in Frames /\ g.at = "begin" /\ g.num = n /\ Local(w, g)
  BY BeginLocal
<1>2. r[n] \in Nat /\ r[f.num] \in Nat
  BY RankIsNat
<1>3. Awaits(w, f, g)
  OBVIOUS
<1>. HIDE DEF g, r
<1>4. r[n] <= r[f.num] /\ (Loading(w.mode, f) => r[n] < r[f.num])
  BY <1>2 DEF r
<1>5. Before(w, f, g.num)
  BY <1>1, <1>4 DEF Before, r
<1>. QED
  BY <1>1, <1>3, <1>5 DEF Calling, g

\* What is needed falls in rank, as the model names the entries.
LEMMA NeedsFallHere ==
    ASSUME NEW w, w.file \in PlainFiles, NEW n \in Nums
    PROVE  LET r == Rank(w.file)
           IN  /\ Ent(w, n).at = "stream" => r[Ent(w, n).container] < r[n]
               /\ Ent(w, n).kind = "ref" => r[Ent(w, n).to] < r[n]
               /\ Ent(w, n).at # "stream" /\ Ent(w, n).length # 0 => r[Ent(w, n).length] < r[n]
               /\ Ent(w, n).at # "stream" /\ Ent(w, n).n # 0 => r[Ent(w, n).n] < r[n]
BY NeedsFall DEF Ent

-----------------------------------------------------------------------------
\* The steps of a fetch.
LEMMA HitKnown ==
    ASSUME PInv, NEW t \in Tasks, Hit(t)
    PROVE  PInv'
<1> DEFINE n == Top(t).num
           v == objects[n]
<1>1. ~Idle(t) /\ Top(t).fn = "fetch"
  BY RunningFacts DEF Hit
<1>2. /\ n \in DOMAIN objects /\ Returning(t, v)
      /\ UNCHANGED <<docVars, objects, objstms, requests, faults>>
  BY DEF Hit
<1>3. IInv /\ IInv'
  BY HitKeeps DEF PInv
<1>4. v \in Values /\ (phase = "open" => v.text = "plain")
  BY <1>2, <1>3, IInvParts DEF DocumentOK, Cached
<1>5. Plain /\ Readable => Result(World', Top(t), v)
  <2> SUFFICES ASSUME Plain, Readable PROVE Result(World', Top(t), v)
    OBVIOUS
  <2>1. Tells(World, v, n)
    BY <1>2 DEF PInv, Known, Stored
  <2>2. Fetched(World, v, n)
    BY <1>4, <2>1, WorldIs DEF Fetched
  <2>. QED
    BY <1>1, <1>2, <2>2, KeptCaches DEF Result
<1>. HIDE DEF v
<1>. QED
  BY <1>1, <1>2, <1>3, <1>4, <1>5, KeptCaches, ReturnStep

LEMMA RefuseKnown ==
    ASSUME PInv, NEW t \in Tasks, Refuse(t)
    PROVE  PInv'
<1> DEFINE n == Top(t).num
<1>1. ~Idle(t) /\ Top(t).fn = "fetch" /\ Top(t).at = "begin"
  BY RunningFacts DEF Refuse
<1>2. UNCHANGED <<docVars, objects, objstms, requests, faults>>
  BY DEF Refuse
<1>3. IInv /\ IInv'
  BY RefuseKeeps DEF PInv
<1>4. PICK v \in {Circular, Missing} :
         /\ Returning(t, v)
         /\ Guarded(t, n) \/ (v = Missing /\ E(n).at = "free")
  BY DEF Refuse
<1>5. Plain /\ Readable => Result(World', Top(t), v)
  <2> SUFFICES ASSUME Plain, Readable PROVE Result(World', Top(t), v)
    OBVIOUS
  <2>1. ~Guarded(t, n)
    BY <1>1, NotGuarded DEF Loading
  <2>2. v = Missing /\ Ent(World, n).at = "free"
    BY <1>4, <2>1, WorldIs
  <2>3. World.file \in PlainFiles /\ n \in Nums
    BY <1>1, TopKnown, TopTyped
  <2>4. Fetched(World, v, n)
    BY <2>2, <2>3, IdealIs DEF Fetched
  <2>. QED
    BY <1>1, <1>2, <2>4, KeptCaches DEF Result
<1>6. v \in Values
  BY <1>4, FailuresFit
<1>. QED
  BY <1>1, <1>2, <1>3, <1>4, <1>5, <1>6, KeptCaches, ReturnStep

LEMMA LoadKnown ==
    ASSUME PInv, NEW t \in Tasks, Load(t)
    PROVE  PInv'
<1> DEFINE f == Top(t)
           n == f.num
           w == World
<1>1. ~Idle(t) /\ f.fn = "fetch" /\ f.at = "begin"
  BY RunningFacts DEF Load
<1>2. f \in Frames /\ n \in Nums
  BY <1>1, TopTyped
<1>3. UNCHANGED <<docVars, objects, objstms, requests, faults>> /\ last' = last /\ E(n).at # "free"
  BY DEF Load
<1>4. IInv /\ IInv'
  BY LoadKeeps DEF PInv
<1>5. CASE E(n).at = "file"
  <2> DEFINE g == At(f, "read")
  <2>1. /\ g \in Frames /\ g.at = "read" /\ g.fn = "fetch" /\ g.num = n /\ g.depth = f.depth
    <3>1. Null \in Values
      BY FailuresFit
    <3>. QED
      BY <1>1, <1>2, <3>1, FrameAt, DepthAt DEF Ats
  <2>2. task' = [task EXCEPT ![t] = [Goes(t, g, <<>>) EXCEPT !.chain = Append(@, n)]]
    BY <1>5, Zenon DEF Load, At
  <2>. HIDE DEF g
  <2>3. GoesOn(t, g, <<>>)
    BY <1>1, <2>2, EnteringOn
  <2>4. Plain /\ Readable => Follows(w, f, g) /\ Calling(w, g, Ret(t), <<>>)
    <3> SUFFICES ASSUME Plain, Readable PROVE Follows(w, f, g) /\ Calling(w, g, Ret(t), <<>>)
      OBVIOUS
    <3>1. w.file \in PlainFiles
      BY <1>1, TopKnown
    <3>2. Local(w, g)
      BY <1>5, <2>1, WorldIs DEF Local, LocalFetch
    <3>3. Calling(w, g, Ret(t), <<>>)
      BY <2>1 DEF Calling, Heard
    <3>4. Follows(w, f, g)
      BY <1>1, <1>2, <2>1, <3>1, <3>2, MovesOn
    <3>. QED
      BY <3>3, <3>4
  <2>. QED
    BY <1>1, <1>3, <1>4, <2>1, <2>3, <2>4, GoStep
<1>6. CASE E(n).at # "file"
  <2> DEFINE g == At(f, "container")
             c == E(n).container
             calls == <<Frame("container", c, "begin")>>
  <2>1. /\ g \in Frames /\ g.at = "container" /\ g.fn = "fetch" /\ g.num = n
        /\ g.depth = f.depth
    <3>1. Null \in Values
      BY FailuresFit
    <3>. QED
      BY <1>1, <1>2, <3>1, FrameAt, DepthAt DEF Ats
  <2>2. task' = [task EXCEPT ![t] = [Goes(t, g, calls) EXCEPT !.chain = Append(@, n)]]
    BY <1>6, Zenon DEF Load, At
  <2>3. E(n).at = "stream" /\ c \in Nums /\ E(n) = Ent(w, n)
    BY <1>2, <1>3, <1>4, <1>6, EntryFacts, WorldIs
  <2>. HIDE DEF g, calls
  <2>4. GoesOn(t, g, calls)
    BY <1>1, <2>2, EnteringOn
  <2>5. Plain /\ Readable => Follows(w, f, g) /\ Calling(w, g, Ret(t), calls)
    <3> SUFFICES ASSUME Plain, Readable PROVE Follows(w, f, g) /\ Calling(w, g, Ret(t), calls)
      OBVIOUS
    <3>1. w.file \in PlainFiles
      BY <1>1, TopKnown
    <3>2. Local(w, g)
      BY <2>1, <2>3 DEF Local, LocalFetch
    <3>3. Follows(w, f, g)
      BY <1>1, <1>2, <2>1, <3>1, <3>2, MovesOn
    <3>4. Awaits(w, g, Frame("container", c, "begin"))
      BY <2>1, <2>3, BeginLocal DEF Awaits
    <3>5. Rank(w.file)[c] < Rank(w.file)[g.num]
      BY <1>2, <2>1, <2>3, <3>1, NeedsFallHere
    <3>6. Calling(w, g, Ret(t), calls)
      BY <1>2, <2>1, <2>3, <3>1, <3>4, <3>5, CallsOne DEF calls
    <3>. QED
      BY <3>3, <3>6
  <2>. QED
    BY <1>1, <1>3, <1>4, <2>1, <2>4, <2>5, GoStep
<1>. QED
  BY <1>5, <1>6

-----------------------------------------------------------------------------
\* A call goes on about the number it was.
SameCall(f, g) == g.fn = f.fn /\ g.num = f.num /\ g.depth = f.depth

\* Such a call follows, where what is known of it by itself holds.
LEMMA SameStep ==
    ASSUME PInv, IInv', NEW t \in Tasks, ~Idle(t),
           UNCHANGED <<docVars, objects, objstms, requests, faults>>, last' = last,
           NEW g \in Frames, SameCall(Top(t), g), NEW calls, Going(t, g, calls),
           Plain /\ Readable => Local(World, g) /\ Calling(World, g, Ret(t), calls)
    PROVE  PInv'
<1>1. GoesOn(t, g, calls)
  BY GoingOn
<1>2. Plain /\ Readable => Follows(World, Top(t), g)
  <2> SUFFICES ASSUME Plain, Readable PROVE Follows(World, Top(t), g)
    OBVIOUS
  <2>1. World.file \in PlainFiles /\ Top(t) \in Frames
    BY TopKnown, TopTyped
  <2>. QED
    BY <2>1, MovesOn DEF SameCall
<1>. QED
  BY <1>1, <1>2, GoStep

\* Its forms in the model.
LEMMA SameAt ==
    ASSUME NEW f \in Frames, NEW at \in Ats
    PROVE  /\ At(f, at) \in Frames /\ At(f, at).at = at /\ SameCall(f, At(f, at))
           /\ At(f, at).val = f.val
<1>1. Null \in Values
  BY FailuresFit
<1>. QED
  BY <1>1, FrameAt, DepthAt DEF SameCall

LEMMA SameAtWith ==
    ASSUME NEW f \in Frames, NEW at \in Ats, NEW v \in Values
    PROVE  /\ AtWith(f, at, v) \in Frames /\ AtWith(f, at, v).at = at
           /\ SameCall(f, AtWith(f, at, v)) /\ AtWith(f, at, v).val = v
BY FrameAtWith, DepthAt DEF SameCall

\* An object read from the file, its length known.
LEMMA ParsedTells ==
    ASSUME PInv, Plain, Readable, NEW n \in Nums, E(n).at = "file", NEW l,
           LengthFits(World, l, LengthBy(file, Answers[file], n))
    PROVE  Tells(World, Parsed(n, l), n)
<1> DEFINE w == World
<1>1. w.file = file /\ w.file \in PlainFiles /\ Ent(w, n) = E(n)
  BY WorldIs DEF Plain
<1>2. Told(w, n) = Value(E(n).kind, LengthBy(file, Answers[file], n), "plain", E(n).to)
  BY <1>1, IdealIs
<1>3. E(n).kind \in Kinds
  BY <1>1, EntryIn
<1>4. /\ Parsed(n, l).kind = E(n).kind /\ Parsed(n, l).to = E(n).to /\ Parsed(n, l).length = l
  BY ValueIs DEF Parsed
<1>5. /\ Told(w, n).kind = E(n).kind /\ Told(w, n).to = E(n).to
      /\ Told(w, n).length = LengthBy(file, Answers[file], n)
  BY <1>2, ValueIs
<1>. HIDE DEF w
<1>. QED
  BY <1>3, <1>4, <1>5 DEF Tells, w

\* Where a call that reads the file is.
LEMMA InFile ==
    ASSUME PInv, Plain, Readable, NEW t \in Tasks, ~Idle(t),
           Top(t).fn \in {"fetch", "container"}, Top(t).at \in {"read", "length", "again"}
    PROVE  E(Top(t).num).at = "file" /\ (Top(t).fn = "container" => mode = "async")
BY TopKnown, WorldIs DEF Local, LocalFetch, LocalContainer

\* It goes on with what it has parsed.
LEMMA HasParsed ==
    ASSUME NEW w, NEW f, NEW g, SameCall(f, g), g.at \in {"again", "parsed"},
           f.fn \in {"fetch", "container"}, f.fn = "container" => w.mode = "async",
           Ent(w, f.num).at = "file", Tells(w, g.val, g.num), NEW v
    PROVE  Local(w, g) /\ Calling(w, g, v, <<>>)
<1>1. Local(w, g)
  BY DEF Local, LocalFetch, LocalContainer, SameCall, Ats
<1>2. Heard(w, g, v)
  BY DEF Heard
<1>. QED
  BY <1>1, <1>2 DEF Calling

LEMMA ParseKnown ==
    ASSUME PInv, NEW t \in Tasks, Parse(t)
    PROVE  PInv'
<1> DEFINE f == Top(t)
           n == f.num
           w == World
<1>1. ~Idle(t) /\ f.fn \in {"fetch", "container"} /\ f.at = "read"
  BY RunningFacts DEF Parse
<1>2. f \in Frames /\ n \in Nums
  BY <1>1, TopTyped
<1>3. UNCHANGED <<docVars, objects, objstms, requests, faults>> /\ last' = last
  BY DEF Parse
<1>4. IInv /\ IInv'
  BY ParseKeeps DEF PInv
<1>5. w.mode = mode /\ Ent(w, n) = E(n) /\ w.file = file
  BY WorldIs
<1>6. CASE E(n).length = 0
  <2> DEFINE v == Parsed(n, "none")
             g == AtWith(f, "parsed", v)
  <2>1. v \in Values
    BY <1>2, <1>4, ParsedFits
  <2>2. Going(t, g, <<>>)
    BY <1>6, Zenon DEF Parse, AtWith
  <2>3. Plain /\ Readable => Tells(w, v, n) /\ E(n).at = "file" /\ (f.fn = "container" => mode = "async")
    <3> SUFFICES ASSUME Plain, Readable
                 PROVE  Tells(w, v, n) /\ E(n).at = "file" /\ (f.fn = "container" => mode = "async")
      OBVIOUS
    <3>1. E(n).at = "file" /\ (f.fn = "container" => mode = "async")
      BY <1>1, InFile
    <3>2. LengthBy(file, Answers[file], n) = "none"
      BY <1>6 DEF LengthBy, E
    <3>3. LengthFits(w, "none", LengthBy(file, Answers[file], n))
      BY <3>2 DEF LengthFits
    <3>. QED
      BY <1>2, <3>1, <3>3, ParsedTells
  <2>. HIDE DEF v
  <2>4. g \in Frames /\ g.at = "parsed" /\ SameCall(f, g) /\ g.val = v
    BY <1>2, <2>1, SameAtWith DEF Ats
  <2>. HIDE DEF g
  <2>5. Plain /\ Readable => Local(w, g) /\ Calling(w, g, Ret(t), <<>>)
    <3>1. g.num = n
      BY <2>4 DEF SameCall
    <3>. QED
      BY <1>1, <1>5, <2>3, <2>4, <3>1, HasParsed
  <2>. QED
    BY <1>1, <1>3, <1>4, <2>2, <2>4, <2>5, SameStep
<1>7. CASE E(n).length # 0
  <2> DEFINE g == At(f, "length")
             m == E(n).length
             calls == <<Frame("fetch", m, "begin")>>
  <2>1. g \in Frames /\ g.at = "length" /\ SameCall(f, g)
    BY <1>2, SameAt DEF Ats
  <2>2. Going(t, g, calls)
    BY <1>7, Zenon DEF Parse, At
  <2>3. m \in Nums
    BY <1>2, <1>4, <1>7, EntryFacts DEF Refs
  <2>. HIDE DEF g, calls
  <2>4. Plain /\ Readable => Local(w, g) /\ Calling(w, g, Ret(t), calls)
    <3> SUFFICES ASSUME Plain, Readable PROVE Local(w, g) /\ Calling(w, g, Ret(t), calls)
      OBVIOUS
    <3>1. E(n).at = "file" /\ (f.fn = "container" => mode = "async")
      BY <1>1, InFile
    <3>2. Local(w, g)
      BY <1>1, <1>5, <1>7, <2>1, <3>1 DEF Local, LocalFetch, LocalContainer, SameCall, Ats
    <3>3. w.file \in PlainFiles
      BY <1>1, TopKnown
    <3>4. Awaits(w, g, Frame("fetch", m, "begin"))
      BY <1>5, <2>1, <2>3, BeginLocal DEF Awaits, SameCall
    <3>5. Rank(w.file)[m] < Rank(w.file)[g.num]
      BY <1>2, <1>5, <1>7, <2>1, <3>1, <3>3, NeedsFallHere DEF SameCall
    <3>6. g.num \in Nums
      BY <1>2, <2>1 DEF SameCall
    <3>. QED
      BY <2>3, <3>2, <3>3, <3>4, <3>5, <3>6, CallsOne DEF calls
  <2>. QED
    BY <1>1, <1>3, <1>4, <2>1, <2>2, <2>4, SameStep
<1>. QED
  BY <1>6, <1>7

\* The length fetched is the ideal one, or its read has failed.
LEMMA MeasuredFits ==
    ASSUME NEW w, w.file \in PlainFiles, NEW n \in Nums, Ent(w, n).length # 0,
           NEW v, Fetched(w, v, Ent(w, n).length)
    PROVE  LengthFits(w, Measured(v), LengthBy(w.file, Answers[w.file], n))
<1> DEFINE m == Ent(w, n).length
           ideal == LengthBy(w.file, Answers[w.file], n)
<1>1. ideal = IF Told(w, m).kind = "int" THEN "declared" ELSE "recovered"
  BY DEF LengthBy, Told, Id, Ent
<1>. HIDE DEF ideal, m
<1>2. CASE Tells(w, v, m)
  BY <1>1, <1>2 DEF Tells, Measured, LengthFits, ideal
<1>3. CASE v = Missing /\ (Told(w, m) = Missing \/ Hurt(w))
  BY <1>1, <1>3, FailuresAre DEF Measured, LengthFits, ideal
<1>. QED
  BY <1>2, <1>3 DEF Fetched, m

LEMMA GotLengthKnown ==
    ASSUME PInv, NEW t \in Tasks, GotLength(t)
    PROVE  PInv'
<1> DEFINE f == Top(t)
           n == f.num
           w == World
           l == Measured(Ret(t))
           v == Parsed(n, l)
           at == IF Ret(t).kind = "int" THEN "again" ELSE "parsed"
           g == AtWith(f, at, v)
<1>1. ~Idle(t) /\ f.fn \in {"fetch", "container"} /\ f.at = "length"
  BY RunningFacts DEF GotLength
<1>2. f \in Frames /\ n \in Nums
  BY <1>1, TopTyped
<1>3. UNCHANGED <<docVars, objects, objstms, requests, faults>> /\ last' = last
  BY DEF GotLength
<1>4. IInv /\ IInv'
  BY GotLengthKeeps DEF PInv
<1>5. w.mode = mode /\ Ent(w, n) = E(n) /\ w.file = file
  BY WorldIs
<1>6. v \in Values
  <2>1. l \in {"none", "declared", "recovered"}
    BY DEF Measured
  <2>. HIDE DEF l
  <2>. QED
    BY <1>2, <1>4, <2>1, ParsedFits
<1>7. at \in {"again", "parsed"} /\ at \in Ats
  BY DEF Ats
<1>8. Going(t, g, <<>>)
  BY Zenon DEF GotLength, AtWith
<1>9. Plain /\ Readable => Tells(w, v, n) /\ E(n).at = "file" /\ (f.fn = "container" => mode = "async")
  <2> SUFFICES ASSUME Plain, Readable
               PROVE  Tells(w, v, n) /\ E(n).at = "file" /\ (f.fn = "container" => mode = "async")
    OBVIOUS
  <2>1. E(n).at = "file" /\ (f.fn = "container" => mode = "async")
    BY <1>1, InFile
  <2>2. w.file \in PlainFiles /\ Local(w, f) /\ Heard(w, f, Ret(t))
    BY <1>1, TopKnown
  <2>3. Ent(w, n).length # 0 /\ Fetched(w, Ret(t), Ent(w, n).length)
    BY <1>1, <2>2 DEF Local, Heard
  <2>4. LengthFits(w, l, LengthBy(file, Answers[file], n))
    BY <1>2, <1>5, <2>2, <2>3, MeasuredFits
  <2>. HIDE DEF l
  <2>. QED
    BY <1>2, <2>1, <2>4, ParsedTells
<1>. HIDE DEF at, v
<1>10. g \in Frames /\ g.at = at /\ SameCall(f, g) /\ g.val = v
  BY <1>2, <1>6, <1>7, SameAtWith
<1>. HIDE DEF g
<1>11. Plain /\ Readable => Local(w, g) /\ Calling(w, g, Ret(t), <<>>)
  <2>1. g.num = n
    BY <1>10 DEF SameCall
  <2>. QED
    BY <1>1, <1>5, <1>7, <1>9, <1>10, <2>1, HasParsed
<1>. QED
  BY <1>1, <1>3, <1>4, <1>8, <1>10, <1>11, SameStep

LEMMA ParseAgainKnown ==
    ASSUME PInv, NEW t \in Tasks, ParseAgain(t)
    PROVE  PInv'
<1> DEFINE f == Top(t)
           w == World
           g == At(f, "parsed")
<1>1. ~Idle(t) /\ f.fn \in {"fetch", "container"} /\ f.at = "again"
  BY RunningFacts DEF ParseAgain
<1>2. f \in Frames
  BY <1>1, TopTyped
<1>3. UNCHANGED <<docVars, objects, objstms, requests, faults>> /\ last' = last
  BY DEF ParseAgain
<1>4. IInv /\ IInv'
  BY ParseAgainKeeps DEF PInv
<1>5. g \in Frames /\ g.at = "parsed" /\ SameCall(f, g) /\ g.val = f.val
  BY <1>2, SameAt DEF Ats
<1>6. Going(t, g, <<>>)
  BY Zenon DEF ParseAgain, At
<1>. HIDE DEF g
<1>7. Plain /\ Readable => Local(w, g) /\ Calling(w, g, Ret(t), <<>>)
  <2> SUFFICES ASSUME Plain, Readable PROVE Local(w, g) /\ Calling(w, g, Ret(t), <<>>)
    OBVIOUS
  <2>1. E(f.num).at = "file" /\ (f.fn = "container" => mode = "async")
    BY <1>1, InFile
  <2>2. Tells(w, f.val, f.num)
    BY <1>1, TopKnown DEF Local
  <2>3. w.mode = mode /\ Ent(w, f.num) = E(f.num) /\ g.num = f.num
    BY <1>5, WorldIs DEF SameCall
  <2>. QED
    BY <1>1, <1>5, <2>1, <2>2, <2>3, HasParsed
<1>. QED
  BY <1>1, <1>3, <1>4, <1>5, <1>6, <1>7, SameStep

-----------------------------------------------------------------------------
LEMMA ReadFailsKnown ==
    ASSUME PInv, NEW t \in Tasks, ReadFails(t)
    PROVE  PInv'
<1> DEFINE f == Top(t)
           x == World'
<1>1. ~Idle(t) /\ f.fn \in {"fetch", "container"}
  BY RunningFacts DEF ReadFails
<1>2. /\ UNCHANGED docVars /\ objects' = objects /\ objstms' = objstms
      /\ faults' = faults - 1 /\ faults > 0 /\ Leaving(t, Missing)
  BY DEF ReadFails
<1>3. IInv /\ IInv' /\ faults \in 0..MaxFaults
  BY ReadFailsKeeps DEF PInv, IInv, TypeOK
<1>4. faults' \in Nat /\ faults' <= faults /\ faults' < MaxFaults
  BY <1>2, <1>3, ObjectFetchAssumption
<1>5. Later(World, World')
  BY <1>2, <1>3, <1>4, Onwards
<1>6. Hurt(World')
  BY <1>4 DEF Hurt, World
<1>7. Result(World', f, Missing)
  BY <1>1, <1>6 DEF Result, Fetched, Unpacked
<1>8. Plain /\ Readable => Stored(World', objects') /\ Unpackings(World', objstms')
  <2> SUFFICES ASSUME Plain, Readable
               PROVE  Stored(World', objects') /\ Unpackings(World', objstms')
    OBVIOUS
  <2>1. Stored(World, objects) /\ Unpackings(World, objstms)
    BY DEF PInv, Known
  <2>2. Stored(World', objects) /\ Unpackings(World', objstms)
    BY <1>5, <2>1, LaterFetched DEF Stored, Unpackings
  <2>. QED
    BY <1>2, <2>2
<1>. QED
  BY <1>1, <1>2, <1>3, <1>4, <1>7, <1>8, FailuresFit, ReturnStep

\* What a cache is given.
LEMMA StoredWith ==
    ASSUME NEW w, NEW cache, NEW n, NEW v
    PROVE  /\ Stored(w, cache) /\ Tells(w, v, n) => Stored(w, With(cache, n, v))
           /\ Unpackings(w, cache) /\ Unpacked(w, v, n) /\ v # Missing =>
                 Unpackings(w, With(cache, n, v))
<1>1. /\ DOMAIN With(cache, n, v) = DOMAIN cache \cup {n} /\ With(cache, n, v)[n] = v
      /\ \A y \in DOMAIN cache \ {n} : With(cache, n, v)[y] = cache[y]
  BY DEF With
<1>2. ASSUME Stored(w, cache), Tells(w, v, n) PROVE Stored(w, With(cache, n, v))
  BY <1>1, <1>2 DEF Stored
<1>3. ASSUME Unpackings(w, cache), Unpacked(w, v, n), v # Missing
      PROVE  Unpackings(w, With(cache, n, v))
  BY <1>1, <1>3 DEF Unpackings
<1>. QED
  BY <1>2, <1>3

LEMMA CacheKnown ==
    ASSUME PInv, NEW t \in Tasks, Cache(t)
    PROVE  PInv'
<1> DEFINE n == Top(t).num
           v == Top(t).val
<1>1. ~Idle(t) /\ Top(t).fn = "fetch" /\ Top(t).at = "parsed"
  BY RunningFacts DEF Cache
<1>2. Top(t) \in Frames /\ HasObject(phase, Top(t)) /\ n \in Nums
  BY <1>1, TopTyped
<1>3. v \in Values /\ (phase = "open" => v.text = "plain")
  BY <1>1, <1>2, FrameFacts DEF HasObject
<1>4. /\ UNCHANGED docVars /\ objstms' = objstms /\ faults' = faults
      /\ objects' = With(objects, n, v) /\ Leaving(t, v)
  BY DEF Cache
<1>5. IInv'
  BY CacheKeeps DEF PInv
<1>6. Plain /\ Readable => Tells(World, v, n) /\ Stored(World, objects)
  BY <1>1, TopKnown DEF Local, PInv, Known
<1>. HIDE DEF v
<1>7. Plain /\ Readable => Result(World', Top(t), v) /\ Stored(World', objects')
  <2> SUFFICES ASSUME Plain, Readable PROVE Result(World', Top(t), v) /\ Stored(World', objects')
    OBVIOUS
  <2>1. Tells(World, v, n) /\ Stored(World, objects)
    BY <1>6
  <2>2. Fetched(World, v, n)
    BY <1>3, <2>1, WorldIs DEF Fetched
  <2>3. Result(World, Top(t), v)
    BY <1>1, <2>2 DEF Result
  <2>4. Stored(World, With(objects, n, v))
    BY <2>1, StoredWith
  <2>. QED
    BY <1>4, <2>3, <2>4, KeptCaches
<1>. QED
  BY <1>1, <1>3, <1>4, <1>5, <1>7, KeptCaches, ReturnStep

LEMMA GotContainerKnown ==
    ASSUME PInv, NEW t \in Tasks, GotContainer(t)
    PROVE  PInv'
<1> DEFINE f == Top(t)
           n == f.num
           w == World
           v == Value(E(n).kind, Ret(t).length, "plain", E(n).to)
           c == E(n).container
<1>1. ~Idle(t) /\ f.fn = "fetch" /\ f.at = "container"
  BY RunningFacts DEF GotContainer
<1>2. n \in Nums /\ Ret(t) \in Values
  BY <1>1, TopTyped
<1>3. UNCHANGED docVars /\ objstms' = objstms /\ faults' = faults
  BY DEF GotContainer
<1>4. IInv /\ IInv'
  BY GotContainerKeeps DEF PInv
<1>5. \/ IsError(Ret(t)) /\ Leaving(t, Ret(t)) /\ objects' = objects
      \/ ~IsError(Ret(t)) /\ Leaving(t, v) /\ objects' = With(objects, n, v)
  BY DEF GotContainer
<1>6. v \in Values /\ v.kind = E(n).kind /\ v.to = E(n).to /\ v.length = Ret(t).length
      /\ v.text = "plain"
  <2>1. Ret(t).length \in {"none", "declared", "recovered"}
    BY <1>2, ValueFields
  <2>. QED
    BY <1>2, <1>4, <2>1, EntryFacts, ValueFits, ValueIs
<1>7. ASSUME Plain, Readable
      PROVE  /\ w.file \in PlainFiles /\ Ent(w, n) = E(n) /\ E(n).at = "stream"
             /\ Unpacked(w, Ret(t), c) /\ Stored(w, objects)
             /\ c \in Nums /\ E(n).kind \in Kinds
  <2>1. w.file \in PlainFiles /\ Local(w, f) /\ Heard(w, f, Ret(t)) /\ Ent(w, n) = E(n)
    BY <1>1, <1>7, TopKnown, WorldIs
  <2>2. E(n).at = "stream" /\ Unpacked(w, Ret(t), c)
    BY <1>1, <2>1 DEF Local, LocalFetch, Heard
  <2>. QED
    BY <1>2, <1>4, <1>7, <2>1, <2>2, EntryFacts DEF PInv, Known
<1>. HIDE DEF v, c
<1>8. CASE IsError(Ret(t)) /\ Leaving(t, Ret(t)) /\ objects' = objects
  <2>1. ASSUME Plain, Readable PROVE Result(w, f, Ret(t))
    <3>1. Ret(t) = Missing /\ (~Decodes(w, c) \/ Hurt(w))
      BY <1>7, <1>8, <2>1, FailuresAre DEF Unpacked, IsError
    <3>2. ~Decodes(w, c) => Told(w, n) = Missing
      BY <1>2, <1>7, <2>1, IdealIs DEF c
    <3>3. Fetched(w, Ret(t), n)
      BY <3>1, <3>2 DEF Fetched
    <3>. QED
      BY <1>1, <3>3 DEF Result
  <2>2. Plain /\ Readable => Result(World', f, Ret(t))
    BY <1>3, <2>1, KeptCaches
  <2>. QED
    BY <1>1, <1>2, <1>3, <1>4, <1>8, <2>2, KeptCaches, ReturnStep
<1>9. CASE ~IsError(Ret(t)) /\ Leaving(t, v) /\ objects' = With(objects, n, v)
  <2>1. ASSUME Plain, Readable PROVE Result(w, f, v) /\ Stored(w, With(objects, n, v))
    <3>1. Decodes(w, c) /\ LengthFits(w, Ret(t).length, Told(w, c).length)
      BY <1>7, <1>9, <2>1 DEF Unpacked, IsError
    <3>2. Told(w, n) = Value(E(n).kind, Told(w, c).length, "plain", E(n).to)
      BY <1>2, <1>7, <2>1, <3>1, IdealIs DEF c
    <3>3. /\ Told(w, n).kind = E(n).kind /\ Told(w, n).to = E(n).to
          /\ Told(w, n).length = Told(w, c).length
      BY <3>2, ValueIs
    <3>4. Tells(w, v, n)
      BY <1>6, <1>7, <2>1, <3>1, <3>3 DEF Tells
    <3>5. Fetched(w, v, n)
      BY <1>6, <3>4 DEF Fetched
    <3>6. Result(w, f, v)
      BY <1>1, <3>5 DEF Result
    <3>. QED
      BY <1>7, <2>1, <3>4, <3>6, StoredWith
  <2>2. Plain /\ Readable => Result(World', f, v) /\ Stored(World', objects')
    BY <1>3, <1>9, <2>1, KeptCaches
  <2>. QED
    BY <1>1, <1>3, <1>4, <1>6, <1>9, <2>2, KeptCaches, ReturnStep
<1>. QED
  BY <1>5, <1>8, <1>9

-----------------------------------------------------------------------------
\* The steps of a container.
LEMMA ContainerKnown ==
    ASSUME PInv, NEW t \in Tasks, Container(t)
    PROVE  PInv'
<1> DEFINE f == Top(t)
           c == f.num
           w == World
           g == At(f, "read")
<1>1. ~Idle(t) /\ f.fn = "container" /\ f.at = "begin" /\ mode = "async"
  BY RunningFacts DEF Container
<1>2. f \in Frames /\ c \in Nums
  BY <1>1, TopTyped
<1>3. UNCHANGED <<docVars, objects, objstms, requests, faults>>
  BY DEF Container
<1>4. IInv /\ IInv'
  BY ContainerKeeps DEF PInv
<1>5. ASSUME Plain, Readable
      PROVE  /\ ~Guarded(t, c) /\ w.file \in PlainFiles /\ Ent(w, c) = E(c)
             /\ Unpackings(w, objstms)
  <2>1. ~Guarded(t, c)
    BY <1>1, <1>5, NotGuarded DEF Loading
  <2>. QED
    BY <1>1, <1>5, <2>1, TopKnown, WorldIs DEF PInv, Known
<1>6. CASE Guarded(t, c)
  <2>1. Returning(t, Circular)
    BY <1>6 DEF Container
  <2>2. ~(Plain /\ Readable)
    BY <1>5, <1>6
  <2>. QED
    BY <1>1, <1>3, <1>4, <2>1, <2>2, FailuresFit, KeptCaches, ReturnStep
<1>7. CASE ~Guarded(t, c) /\ c \in DOMAIN objstms
  <2>1. Returning(t, objstms[c])
    BY <1>7 DEF Container
  <2>2. objstms[c] \in Values
    BY <1>4, <1>7, IInvParts DEF DocumentOK, Decoded
  <2>3. Plain /\ Readable => Result(w, f, objstms[c])
    BY <1>1, <1>5, <1>7 DEF Unpackings, Result
  <2>4. Plain /\ Readable => Result(World', f, objstms[c])
    BY <1>3, <2>3, KeptCaches
  <2>. QED
    BY <1>1, <1>3, <1>4, <2>1, <2>2, <2>4, KeptCaches, ReturnStep
<1>8. CASE ~Guarded(t, c) /\ c \notin DOMAIN objstms /\ E(c).at # "file"
  <2>1. Returning(t, Missing)
    BY <1>8 DEF Container
  <2>2. Plain /\ Readable => Result(w, f, Missing)
    <3>1. Plain /\ Readable => ~Decodes(w, c)
      BY <1>5, <1>8 DEF Decodes, DecodesBy, Ent
    <3>. QED
      BY <1>1, <3>1 DEF Result, Unpacked
  <2>3. Plain /\ Readable => Result(World', f, Missing)
    BY <1>3, <2>2, KeptCaches
  <2>. QED
    BY <1>1, <1>3, <1>4, <2>1, <2>3, FailuresFit, KeptCaches, ReturnStep
<1>9. CASE ~Guarded(t, c) /\ c \notin DOMAIN objstms /\ E(c).at = "file"
  <2>1. /\ task' = [task EXCEPT ![t] = [Goes(t, g, <<>>) EXCEPT !.chain = Append(@, c)]]
        /\ last' = last
    BY <1>9, Zenon DEF Container, At
  <2>2. g \in Frames /\ g.at = "read" /\ SameCall(f, g)
    BY <1>2, SameAt DEF Ats
  <2>. HIDE DEF g
  <2>3. GoesOn(t, g, <<>>)
    BY <1>1, <2>1, EnteringOn
  <2>4. Plain /\ Readable => Follows(w, f, g) /\ Calling(w, g, Ret(t), <<>>)
    <3> SUFFICES ASSUME Plain, Readable PROVE Follows(w, f, g) /\ Calling(w, g, Ret(t), <<>>)
      OBVIOUS
    <3>1. Local(w, g)
      BY <1>1, <1>5, <1>9, <2>2, WorldIs DEF Local, LocalContainer, SameCall, Ats
    <3>2. Calling(w, g, Ret(t), <<>>)
      BY <2>2 DEF Calling, Heard
    <3>. QED
      BY <1>2, <1>5, <2>2, <3>1, <3>2, MovesOn DEF SameCall
  <2>. QED
    BY <1>1, <1>3, <1>4, <2>1, <2>2, <2>3, <2>4, GoStep
<1>. QED
  BY <1>6, <1>7, <1>8, <1>9

LEMMA HandleKnown ==
    ASSUME PInv, NEW t \in Tasks, Handle(t)
    PROVE  PInv'
<1> DEFINE f == Top(t)
           c == f.num
           w == World
           g == At(f, "object")
           calls == <<Frame("fetch", c, "begin")>>
<1>1. ~Idle(t) /\ f.fn = "container" /\ f.at = "begin" /\ mode = "sync"
  BY RunningFacts DEF Handle
<1>2. f \in Frames /\ c \in Nums
  BY <1>1, TopTyped
<1>3. UNCHANGED <<docVars, objects, objstms, requests, faults>>
  BY DEF Handle
<1>4. IInv /\ IInv'
  BY HandleKeeps DEF PInv
<1>5. CASE c \in DOMAIN objstms
  <2>1. Returning(t, objstms[c])
    BY <1>5 DEF Handle
  <2>2. objstms[c] \in Values
    BY <1>4, <1>5, IInvParts DEF DocumentOK, Decoded
  <2>3. Plain /\ Readable => Result(w, f, objstms[c])
    BY <1>1, <1>5 DEF PInv, Known, Unpackings, Result
  <2>4. Plain /\ Readable => Result(World', f, objstms[c])
    BY <1>3, <2>3, KeptCaches
  <2>. QED
    BY <1>1, <1>3, <1>4, <2>1, <2>2, <2>4, KeptCaches, ReturnStep
<1>6. CASE c \notin DOMAIN objstms
  <2>1. Going(t, g, calls) /\ last' = last
    BY <1>6, Zenon DEF Handle, At
  <2>2. g \in Frames /\ g.at = "object" /\ SameCall(f, g)
    BY <1>2, SameAt DEF Ats
  <2>. HIDE DEF g, calls
  <2>3. Plain /\ Readable => Local(w, g) /\ Calling(w, g, Ret(t), calls)
    <3> SUFFICES ASSUME Plain, Readable PROVE Local(w, g) /\ Calling(w, g, Ret(t), calls)
      OBVIOUS
    <3>1. w.mode = "sync" /\ w.file \in PlainFiles
      BY <1>1, TopKnown, WorldIs
    <3>2. Local(w, g)
      BY <1>1, <2>2, <3>1 DEF Local, LocalContainer, SameCall, Ats
    <3>3. Awaits(w, g, Frame("fetch", c, "begin"))
      BY <1>2, <2>2, BeginLocal DEF Awaits, SameCall
    <3>4. ~Loading(w.mode, g) /\ g.num = c
      BY <1>1, <2>2, <3>1 DEF Loading, SameCall
    <3>. QED
      BY <1>2, <3>1, <3>2, <3>3, <3>4, CallsOne DEF calls
  <2>. QED
    BY <1>1, <1>3, <1>4, <2>1, <2>2, <2>3, SameStep
<1>. QED
  BY <1>5, <1>6

LEMMA GotObjectKnown ==
    ASSUME PInv, NEW t \in Tasks, GotObject(t)
    PROVE  PInv'
<1> DEFINE f == Top(t)
           c == f.num
           w == World
           g == AtWith(f, "parsed", Ret(t))
<1>1. ~Idle(t) /\ f.fn = "container" /\ f.at = "object" /\ mode = "sync"
  BY RunningFacts DEF GotObject
<1>2. f \in Frames /\ c \in Nums /\ Ret(t) \in Values
  BY <1>1, TopTyped
<1>3. UNCHANGED <<docVars, objects, objstms, requests, faults>>
  BY DEF GotObject
<1>4. IInv /\ IInv'
  BY GotObjectKeeps DEF PInv
<1>5. ASSUME Plain, Readable
      PROVE  w.file \in PlainFiles /\ Fetched(w, Ret(t), c) /\ w.mode = "sync"
  BY <1>1, <1>5, TopKnown, WorldIs DEF Heard
<1>6. CASE IsError(Ret(t))
  <2>1. Returning(t, Ret(t))
    BY <1>6 DEF GotObject
  <2>2. ASSUME Plain, Readable PROVE Result(w, f, Ret(t))
    <3>1. Ret(t) = Missing /\ (Told(w, c) = Missing \/ Hurt(w))
      BY <1>5, <1>6, <2>2, FailuresAre DEF Fetched, Tells, IsError, Kinds
    <3>2. Told(w, c) = Missing => ~Decodes(w, c)
      BY <1>2, <1>5, <2>2, IdealFacts, FailuresAre
    <3>. QED
      BY <1>1, <3>1, <3>2 DEF Result, Unpacked
  <2>3. Plain /\ Readable => Result(World', f, Ret(t))
    BY <1>3, <2>2, KeptCaches
  <2>. QED
    BY <1>1, <1>2, <1>3, <1>4, <2>1, <2>3, KeptCaches, ReturnStep
<1>7. CASE ~IsError(Ret(t))
  <2>1. Going(t, g, <<>>) /\ last' = last
    BY <1>7, Zenon DEF GotObject, AtWith
  <2>2. g \in Frames /\ g.at = "parsed" /\ SameCall(f, g) /\ g.val = Ret(t)
    <3>1. "parsed" \in Ats
      BY DEF Ats
    <3>. HIDE DEF f
    <3>. QED
      BY <1>2, <3>1, SameAtWith
  <2>. HIDE DEF g
  <2>3. Plain /\ Readable => Local(w, g) /\ Calling(w, g, Ret(t), <<>>)
    <3> SUFFICES ASSUME Plain, Readable PROVE Local(w, g) /\ Calling(w, g, Ret(t), <<>>)
      OBVIOUS
    <3>1. Tells(w, Ret(t), c) /\ w.mode = "sync"
      BY <1>5, <1>7 DEF Fetched, IsError
    <3>2. Local(w, g)
      BY <1>1, <2>2, <3>1 DEF Local, LocalContainer, SameCall, Ats
    <3>3. Calling(w, g, Ret(t), <<>>)
      BY <2>2 DEF Calling, Heard
    <3>. QED
      BY <3>2, <3>3
  <2>. QED
    BY <1>1, <1>3, <1>4, <2>1, <2>2, <2>3, SameStep
<1>. QED
  BY <1>6, <1>7

-----------------------------------------------------------------------------
\* In either document the build of a container returns.
LEMMA GoneEither ==
    ASSUME NEW t, NEW v, Gone(t, v)
    PROVE  Returning(t, v) \/ Leaving(t, v)
BY DEF Gone

\* A container that is a stream of the file goes on.
LEMMA ContainerOn ==
    ASSUME NEW w, w.file \in PlainFiles, NEW f, NEW g, f.fn = "container", SameCall(f, g),
           f.num \in Nums, g.at \in {"n", "decode", "store"}, g.val = f.val,
           Tells(w, f.val, f.num), f.val.kind = "stream",
           g.at = "n" => Ent(w, f.num).n # 0,
           g.at \in {"decode", "store"} => Decodes(w, f.num)
    PROVE  Local(w, g) /\ Ent(w, f.num).at = "file"
<1>1. Ent(w, f.num).at = "file" /\ Ent(w, f.num).kind = "stream"
  BY IdealFacts DEF Tells
<1>. QED
  BY <1>1 DEF Local, LocalContainer, SameCall, Ats

LEMMA EntriesKnown ==
    ASSUME PInv, NEW t \in Tasks, Entries(t)
    PROVE  PInv'
<1> DEFINE f == Top(t)
           c == f.num
           w == World
           calls == <<Frame("resolve", E(c).n, "begin")>>
<1>1. ~Idle(t) /\ f.fn = "container" /\ f.at = "parsed"
  BY RunningFacts DEF Entries
<1>2. f \in Frames /\ c \in Nums
  BY <1>1, TopTyped
<1>3. UNCHANGED <<docVars, objects, objstms, requests, faults>>
  BY DEF Entries
<1>4. IInv /\ IInv'
  BY EntriesKeeps DEF PInv
<1>5. ASSUME Plain, Readable
      PROVE  w.file \in PlainFiles /\ Ent(w, c) = E(c) /\ Tells(w, f.val, c)
  BY <1>1, <1>5, TopKnown, WorldIs DEF Local
<1>6. \/ f.val.kind # "stream" /\ Gone(t, Missing)
      \/ f.val.kind = "stream" /\ E(c).n = 0 /\ Going(t, At(f, "decode"), <<>>) /\ last' = last
      \/ f.val.kind = "stream" /\ E(c).n # 0 /\ Going(t, At(f, "n"), calls) /\ last' = last
  BY Zenon DEF Entries, At
<1>7. CASE f.val.kind # "stream" /\ Gone(t, Missing)
  <2>1. Plain /\ Readable => Result(w, f, Missing)
    <3> SUFFICES ASSUME Plain, Readable PROVE Result(w, f, Missing)
      OBVIOUS
    <3>1. ~Decodes(w, c)
      BY <1>2, <1>5, <1>7, IdealFacts DEF Tells
    <3>. QED
      BY <1>1, <3>1 DEF Result, Unpacked
  <2>2. Plain /\ Readable => Result(World', f, Missing)
    BY <1>3, <2>1, KeptCaches
  <2>. QED
    BY <1>1, <1>3, <1>4, <1>7, <2>2, GoneEither, FailuresFit, KeptCaches, ReturnStep
<1>8. CASE f.val.kind = "stream" /\ E(c).n = 0 /\ Going(t, At(f, "decode"), <<>>) /\ last' = last
  <2> DEFINE g == At(f, "decode")
  <2>1. g \in Frames /\ g.at = "decode" /\ SameCall(f, g) /\ g.val = f.val
    BY <1>2, SameAt DEF Ats
  <2>. HIDE DEF g
  <2>2. Plain /\ Readable => Local(w, g) /\ Calling(w, g, Ret(t), <<>>)
    <3> SUFFICES ASSUME Plain, Readable PROVE Local(w, g) /\ Calling(w, g, Ret(t), <<>>)
      OBVIOUS
    <3>1. Ent(w, c).at = "file" /\ Ent(w, c).kind = "stream"
      BY <1>2, <1>5, <1>8, IdealFacts DEF Tells
    <3>2. Decodes(w, c)
      BY <1>5, <1>8, <3>1 DEF Decodes, DecodesBy, Ent
    <3>3. Local(w, g)
      BY <1>1, <1>2, <1>5, <1>8, <2>1, <3>2, ContainerOn
    <3>4. Calling(w, g, Ret(t), <<>>)
      BY <2>1 DEF Calling, Heard
    <3>. QED
      BY <3>3, <3>4
  <2>3. Going(t, g, <<>>)
    BY <1>8 DEF g
  <2>. QED
    BY <1>1, <1>3, <1>4, <1>8, <2>1, <2>2, <2>3, SameStep
<1>9. CASE f.val.kind = "stream" /\ E(c).n # 0 /\ Going(t, At(f, "n"), calls) /\ last' = last
  <2> DEFINE g == At(f, "n")
             m == E(c).n
  <2>1. g \in Frames /\ g.at = "n" /\ SameCall(f, g) /\ g.val = f.val
    BY <1>2, SameAt DEF Ats
  <2>2. m \in Nums
    BY <1>2, <1>4, <1>9, EntryFacts DEF Refs
  <2>3. Going(t, g, calls)
    BY <1>9
  <2>. HIDE DEF g, calls
  <2>4. Plain /\ Readable => Local(w, g) /\ Calling(w, g, Ret(t), calls)
    <3> SUFFICES ASSUME Plain, Readable PROVE Local(w, g) /\ Calling(w, g, Ret(t), calls)
      OBVIOUS
    <3>1. Local(w, g) /\ Ent(w, c).at = "file"
      BY <1>1, <1>2, <1>5, <1>9, <2>1, ContainerOn
    <3>2. g.num = c /\ Ent(w, c).n = m
      BY <1>5, <2>1 DEF SameCall
    <3>3. Awaits(w, g, Frame("resolve", m, "begin"))
      <4>1. Ends(w, Frame("resolve", m, "begin")) <=> ToInt(w, m)
        BY <2>2, BeginLocal DEF Ends
      <4>. QED
        BY <2>1, <2>2, <3>2, <4>1, BeginLocal DEF Awaits
    <3>4. Rank(w.file)[m] < Rank(w.file)[g.num]
      BY <1>2, <1>5, <1>9, <3>1, <3>2, NeedsFallHere
    <3>5. Calling(w, g, Ret(t), calls)
      BY <1>2, <1>5, <2>2, <3>2, <3>3, <3>4, CallsOne DEF calls
    <3>. QED
      BY <3>1, <3>5
  <2>. QED
    BY <1>1, <1>3, <1>4, <1>9, <2>1, <2>3, <2>4, SameStep
<1>. QED
  BY <1>6, <1>7, <1>8, <1>9

LEMMA GotNKnown ==
    ASSUME PInv, NEW t \in Tasks, GotN(t)
    PROVE  PInv'
<1> DEFINE f == Top(t)
           c == f.num
           w == World
           v == Ret(t)
           int == ToInt(w, Ent(w, c).n)
           g == At(f, "decode")
<1>1. ~Idle(t) /\ f.fn = "container" /\ f.at = "n"
  BY RunningFacts DEF GotN
<1>2. f \in Frames /\ c \in Nums
  BY <1>1, TopTyped
<1>3. UNCHANGED <<docVars, objects, objstms, requests, faults>>
  BY DEF GotN
<1>4. IInv /\ IInv'
  BY GotNKeeps DEF PInv
<1>5. ASSUME Plain, Readable
      PROVE  /\ w.file \in PlainFiles /\ Tells(w, f.val, c) /\ Numbers(w, v, int)
             /\ Ent(w, c).at = "file" /\ Ent(w, c).kind = "stream" /\ Ent(w, c).n # 0
             /\ Decodes(w, c) <=> int
  <2>1. w.file \in PlainFiles /\ Local(w, f) /\ Heard(w, f, v)
    BY <1>1, <1>5, TopKnown
  <2>2. Tells(w, f.val, c) /\ Ent(w, c).at = "file" /\ Ent(w, c).kind = "stream" /\ Ent(w, c).n # 0
    BY <1>1, <2>1 DEF Local, LocalContainer
  <2>3. Numbers(w, v, int)
    BY <1>1, <2>1 DEF Heard
  <2>4. Decodes(w, c) <=> int
    BY <2>2 DEF Decodes, DecodesBy, ToInt, Ent
  <2>. QED
    BY <2>1, <2>2, <2>3, <2>4
<1>6. \/ v.kind = "int" /\ Going(t, g, <<>>) /\ last' = last
      \/ v = Circular /\ Gone(t, Circular)
      \/ v.kind # "int" /\ v # Circular /\ Gone(t, Missing)
  BY Zenon DEF GotN, At
<1>. HIDE DEF int
<1>7. CASE v.kind = "int" /\ Going(t, g, <<>>) /\ last' = last
  <2>1. g \in Frames /\ g.at = "decode" /\ SameCall(f, g) /\ g.val = f.val
    BY <1>2, SameAt DEF Ats
  <2>. HIDE DEF g
  <2>2. Plain /\ Readable => Local(w, g) /\ Calling(w, g, v, <<>>)
    <3> SUFFICES ASSUME Plain, Readable PROVE Local(w, g) /\ Calling(w, g, v, <<>>)
      OBVIOUS
    <3>1. Decodes(w, c)
      BY <1>5, <1>7 DEF Numbers
    <3>2. f.val.kind = "stream"
      BY <1>2, <1>5, <3>1, IdealFacts DEF Tells
    <3>3. Local(w, g)
      BY <1>1, <1>2, <1>5, <2>1, <3>1, <3>2, ContainerOn
    <3>4. Calling(w, g, v, <<>>)
      BY <2>1 DEF Calling, Heard
    <3>. QED
      BY <3>3, <3>4
  <2>3. Going(t, g, <<>>)
    BY <1>7
  <2>. QED
    BY <1>1, <1>3, <1>4, <1>7, <2>1, <2>2, <2>3, SameStep
<1>8. CASE v = Circular /\ Gone(t, Circular)
  <2>1. ~(Plain /\ Readable)
    BY <1>5, <1>8 DEF Numbers
  <2>. QED
    BY <1>1, <1>3, <1>4, <1>8, <2>1, GoneEither, FailuresFit, KeptCaches, ReturnStep
<1>9. CASE v.kind # "int" /\ v # Circular /\ Gone(t, Missing)
  <2>1. Plain /\ Readable => Result(w, f, Missing)
    <3> SUFFICES ASSUME Plain, Readable PROVE Result(w, f, Missing)
      OBVIOUS
    <3>1. ~Decodes(w, c) \/ Hurt(w)
      BY <1>5, <1>9 DEF Numbers
    <3>. QED
      BY <1>1, <3>1 DEF Result, Unpacked
  <2>2. Plain /\ Readable => Result(World', f, Missing)
    BY <1>3, <2>1, KeptCaches
  <2>. QED
    BY <1>1, <1>3, <1>4, <1>9, <2>2, GoneEither, FailuresFit, KeptCaches, ReturnStep
<1>. QED
  BY <1>6, <1>7, <1>8, <1>9

\* A container that decodes, and what it was parsed as.
LEMMA Decoding ==
    ASSUME PInv, Plain, Readable, NEW t \in Tasks, ~Idle(t), Top(t).fn = "container",
           Top(t).at \in {"decode", "store"}
    PROVE  LET w == World
               f == Top(t)
           IN  /\ w.file \in PlainFiles /\ Tells(w, f.val, f.num) /\ Decodes(w, f.num)
               /\ f.val.kind = "stream" /\ Ent(w, f.num).at = "file" /\ f.num \in Nums
<1> DEFINE w == World
           f == Top(t)
<1>1. w.file \in PlainFiles /\ Local(w, f) /\ f.num \in Nums
  BY TopKnown, TopTyped
<1>2. Tells(w, f.val, f.num) /\ Decodes(w, f.num) /\ Ent(w, f.num).at = "file"
  BY <1>1 DEF Local, LocalContainer
<1>3. f.val.kind = "stream"
  BY <1>1, <1>2, IdealFacts DEF Tells
<1>. QED
  BY <1>1, <1>2, <1>3

LEMMA PrefetchKnown ==
    ASSUME PInv, NEW t \in Tasks, Prefetch(t)
    PROVE  PInv'
<1> DEFINE f == Top(t)
           c == f.num
           w == World
           m == E(c).length
           g == At(f, "store")
           one == <<Frame("fetch", m, "begin")>>
           calls == IF mode = "async" /\ m # 0 THEN one ELSE <<>>
<1>1. ~Idle(t) /\ f.fn = "container" /\ f.at = "decode"
  BY RunningFacts DEF Prefetch
<1>2. f \in Frames /\ c \in Nums
  BY <1>1, TopTyped
<1>3. UNCHANGED <<docVars, objects, objstms, requests, faults>> /\ last' = last
  BY DEF Prefetch
<1>4. IInv /\ IInv'
  BY PrefetchKeeps DEF PInv
<1>5. Going(t, g, calls)
  BY Zenon DEF Prefetch, At
<1>6. m # 0 => m \in Nums
  BY <1>2, <1>4, EntryFacts DEF Refs
<1>7. g \in Frames /\ g.at = "store" /\ SameCall(f, g) /\ g.val = f.val
  BY <1>2, SameAt DEF Ats
<1>8. calls = <<>> \/ (m # 0 /\ calls = one)
  OBVIOUS
<1>. HIDE DEF g, one, calls
<1>9. Plain /\ Readable => Local(w, g) /\ Calling(w, g, Ret(t), calls)
  <2> SUFFICES ASSUME Plain, Readable PROVE Local(w, g) /\ Calling(w, g, Ret(t), calls)
    OBVIOUS
  <2>1. /\ w.file \in PlainFiles /\ Tells(w, f.val, c) /\ Decodes(w, c)
        /\ f.val.kind = "stream" /\ Ent(w, c).at = "file" /\ Ent(w, c) = E(c)
    BY <1>1, Decoding, WorldIs
  <2>2. Local(w, g)
    BY <1>1, <1>2, <1>7, <2>1, ContainerOn
  <2>3. CASE calls = <<>>
    BY <1>7, <2>2, <2>3 DEF Calling, Heard
  <2>4. CASE m # 0 /\ calls = one
    <3>1. Awaits(w, g, Frame("fetch", m, "begin"))
      BY <1>7 DEF Awaits
    <3>2. g.num = c /\ Rank(w.file)[m] < Rank(w.file)[g.num]
      BY <1>2, <1>7, <2>1, <2>4, NeedsFallHere DEF SameCall
    <3>3. Calling(w, g, Ret(t), one)
      BY <1>2, <1>6, <2>1, <2>4, <3>1, <3>2, CallsOne DEF one
    <3>. QED
      BY <2>2, <2>4, <3>3
  <2>. QED
    BY <1>8, <2>3, <2>4
<1>. QED
  BY <1>1, <1>3, <1>4, <1>5, <1>7, <1>9, SameStep

LEMMA StoreKnown ==
    ASSUME PInv, NEW t \in Tasks, Store(t)
    PROVE  PInv'
<1> DEFINE f == Top(t)
           c == f.num
           w == World
           built == BuiltWith(f.val.length)
           kept == IF mode = "async" /\ c \in DOMAIN objstms THEN objstms[c] ELSE built
<1>1. ~Idle(t) /\ f.fn = "container" /\ f.at = "store"
  BY RunningFacts DEF Store
<1>2. f \in Frames /\ c \in Nums
  BY <1>1, TopTyped
<1>3. UNCHANGED docVars /\ objects' = objects /\ faults' = faults
  BY DEF Store
<1>4. IInv /\ IInv'
  BY StoreKeeps DEF PInv
<1>5. \/ ~Readable /\ Gone(t, Missing) /\ objstms' = objstms
      \/ Readable /\ Gone(t, kept) /\ objstms' = With(objstms, c, kept)
  BY Zenon DEF Store, Readable, BuiltWith
<1>6. CASE ~Readable /\ Gone(t, Missing) /\ objstms' = objstms
  BY <1>1, <1>3, <1>4, <1>6, GoneEither, FailuresFit, KeptCaches, ReturnStep
<1>7. CASE Readable /\ Gone(t, kept) /\ objstms' = With(objstms, c, kept)
  <2>1. kept \in Values
    <3>1. f.val.length \in {"none", "declared", "recovered"}
      BY <1>2, FrameFacts, ValueFields
    <3>2. built = Value("built", f.val.length, "plain", 0)
      BY DEF BuiltWith, Built, Failure, Value
    <3>3. 0 \in Refs
      BY DEF Refs
    <3>4. Value("built", f.val.length, "plain", 0) \in Values
      BY <3>1, <3>3, ValueFits
    <3>5. built \in Values
      BY <3>2, <3>4
    <3>. QED
      BY <1>4, <3>5, IInvParts DEF DocumentOK, Decoded
  <2>2. Plain => Unpacked(w, kept, c) /\ kept # Missing /\ Unpackings(w, objstms)
    <3> SUFFICES ASSUME Plain PROVE Unpacked(w, kept, c) /\ kept # Missing /\ Unpackings(w, objstms)
      OBVIOUS
    <3>1. Tells(w, f.val, c) /\ Decodes(w, c)
      BY <1>1, <1>7, Decoding
    <3>2. built.length = f.val.length /\ built # Missing
      BY FailuresAre
    <3>3. Unpacked(w, built, c)
      BY <3>1, <3>2 DEF Unpacked, Tells
    <3>4. Unpackings(w, objstms)
      BY <1>7 DEF PInv, Known
    <3>. HIDE DEF built
    <3>. QED
      BY <3>2, <3>3, <3>4 DEF Unpackings
  <2>. HIDE DEF kept
  <2>3. Plain => Result(w, f, kept) /\ Unpackings(w, With(objstms, c, kept))
    BY <1>1, <2>2, StoredWith DEF Result
  <2>4. Plain => Result(World', f, kept) /\ Unpackings(World', objstms')
    BY <1>3, <1>7, <2>3, KeptCaches
  <2>. QED
    BY <1>1, <1>3, <1>4, <1>7, <2>1, <2>4, GoneEither, KeptCaches, ReturnStep
<1>. QED
  BY <1>5, <1>6, <1>7

-----------------------------------------------------------------------------
\* The steps of the resolve loop.
LEMMA ResolveKnown ==
    ASSUME PInv, NEW t \in Tasks, Resolve(t)
    PROVE  PInv'
<1> DEFINE f == Top(t)
           n == f.num
           w == World
           g == At(f, "got")
           calls == <<Frame("fetch", n, "begin")>>
<1>1. ~Idle(t) /\ f.fn = "resolve" /\ f.at = "begin"
  BY RunningFacts DEF Resolve
<1>2. f \in Frames /\ n \in Nums
  BY <1>1, TopTyped
<1>3. UNCHANGED <<docVars, objects, objstms, requests, faults>> /\ last' = last
  BY DEF Resolve
<1>4. IInv /\ IInv'
  BY ResolveKeeps DEF PInv
<1>5. Going(t, g, calls)
  BY Zenon DEF Resolve, At
<1>6. g \in Frames /\ g.at = "got" /\ SameCall(f, g)
  BY <1>2, SameAt DEF Ats
<1>. HIDE DEF g, calls
<1>7. Plain /\ Readable => Local(w, g) /\ Calling(w, g, Ret(t), calls)
  <2> SUFFICES ASSUME Plain, Readable PROVE Local(w, g) /\ Calling(w, g, Ret(t), calls)
    OBVIOUS
  <2>1. w.file \in PlainFiles /\ Local(w, f)
    BY <1>1, TopKnown
  <2>2. Local(w, g)
    BY <1>1, <1>6, <2>1 DEF Local, LocalResolve, SameCall
  <2>3. Awaits(w, g, Frame("fetch", n, "begin"))
    BY <1>2, <1>6, BeginLocal DEF Awaits, SameCall
  <2>4. ~Loading(w.mode, g) /\ g.num = n
    BY <1>1, <1>6 DEF Loading, SameCall
  <2>. QED
    BY <1>2, <2>1, <2>2, <2>3, <2>4, CallsOne DEF calls
<1>. QED
  BY <1>1, <1>3, <1>4, <1>5, <1>6, <1>7, SameStep

\* The fields of a call of the loop that goes round.
LEMMA AgainIs ==
    ASSUME NEW f \in Frames, NEW n \in Nums, NEW depth \in Nat
    PROVE  Again(f, n, depth).num = n /\ Again(f, n, depth).depth = depth
BY DEF Again, Frames

\* What a resolve is answered, and what it may make of it.
LEMMA ResolveEnds ==
    ASSUME NEW w, w.file \in PlainFiles, NEW f, f.num \in Nums, f.depth \in {0, 1},
           f.depth = 1 => Ent(w, f.num).kind # "ref", NEW v, Fetched(w, v, f.num)
    PROVE  /\ v # Circular
           /\ v = Missing => Numbers(w, Null, Ends(w, f))
           /\ ~IsError(v) /\ v.kind # "ref" => Numbers(w, v, Ends(w, f))
           /\ v.kind = "ref" =>
                 /\ f.depth = 0 /\ v.to \in Nums /\ Ent(w, v.to).kind # "ref"
                 /\ Rank(w.file)[v.to] < Rank(w.file)[f.num]
                 /\ Ends(w, f) <=> Told(w, v.to).kind = "int"
<1> DEFINE told == Told(w, f.num)
<1>1. v # Circular
  BY FailuresAre DEF Fetched, Tells, Kinds
<1>2. v = Missing => Numbers(w, Null, Ends(w, f))
  <2> SUFFICES ASSUME v = Missing PROVE Numbers(w, Null, Ends(w, f))
    OBVIOUS
  <2>1. told = Missing \/ Hurt(w)
    BY FailuresAre DEF Fetched, Tells, Kinds
  <2>2. told = Missing => ~Ends(w, f)
    BY ToIntIs, FailuresAre DEF Ends
  <2>. QED
    BY <2>1, <2>2, FailuresAre DEF Numbers
<1>3. ~IsError(v) => Tells(w, v, f.num)
  BY DEF Fetched, IsError
<1>4. ~IsError(v) /\ v.kind # "ref" => Numbers(w, v, Ends(w, f))
  <2> SUFFICES ASSUME ~IsError(v), v.kind # "ref" PROVE Numbers(w, v, Ends(w, f))
    OBVIOUS
  <2>1. v.kind = told.kind
    BY <1>3 DEF Tells
  <2>2. Ends(w, f) <=> told.kind = "int"
    BY <2>1, ToIntIs DEF Ends
  <2>. QED
    BY <1>1, <2>1, <2>2 DEF Numbers
<1>5. ASSUME v.kind = "ref"
      PROVE  /\ f.depth = 0 /\ v.to \in Nums /\ Ent(w, v.to).kind # "ref"
             /\ Rank(w.file)[v.to] < Rank(w.file)[f.num]
             /\ Ends(w, f) <=> Told(w, v.to).kind = "int"
  <2>1. ~IsError(v)
    BY <1>5, FailuresAre DEF IsError
  <2>2. told.kind = "ref" /\ v.to = told.to
    BY <1>3, <1>5, <2>1 DEF Tells
  <2>3. /\ told.to \in Nums /\ told.to = Ent(w, f.num).to /\ Ent(w, f.num).kind = "ref"
        /\ Ent(w, told.to).kind # "ref"
        /\ ToInt(w, f.num) <=> Told(w, told.to).kind = "int"
    BY <2>2, ToIntIs
  <2>4. f.depth = 0
    BY <2>3
  <2>5. Rank(w.file)[v.to] < Rank(w.file)[f.num]
    BY <2>2, <2>3, NeedsFallHere
  <2>. QED
    BY <2>2, <2>3, <2>4, <2>5 DEF Ends
<1>. QED
  BY <1>1, <1>2, <1>4, <1>5

LEMMA ResolvedKnown ==
    ASSUME PInv, NEW t \in Tasks, Resolved(t)
    PROVE  PInv'
<1> DEFINE f == Top(t)
           n == f.num
           w == World
           v == Ret(t)
           depth == Iterated(f.depth)
           g == Again(f, v.to, depth)
<1>1. ~Idle(t) /\ f.fn = "resolve" /\ f.at = "got"
  BY RunningFacts DEF Resolved
<1>2. f \in Frames /\ n \in Nums /\ v \in Values
  BY <1>1, TopTyped
<1>3. UNCHANGED <<docVars, objects, objstms, requests, faults>>
  BY DEF Resolved
<1>4. IInv /\ IInv'
  BY ResolvedKeeps DEF PInv
<1>5. ASSUME Plain, Readable
      PROVE  /\ w.file \in PlainFiles /\ f.depth \in {0, 1}
             /\ f.depth = 1 => Ent(w, n).kind # "ref"
             /\ Fetched(w, v, n)
  BY <1>1, <1>5, TopKnown DEF Local, LocalResolve, Heard
<1>6. \/ v = Circular /\ Returning(t, Circular)
      \/ v = Missing /\ Returning(t, Null)
      \/ ~IsError(v) /\ depth = MaxDepth /\ Returning(t, Circular)
      \/ ~IsError(v) /\ v.kind # "ref" /\ Returning(t, v)
      \/ v.kind = "ref" /\ Going(t, g, <<>>) /\ last' = last
  BY Zenon DEF Resolved, Again
<1>7. CASE v = Circular /\ Returning(t, Circular)
  <2>1. ~(Plain /\ Readable)
    BY <1>2, <1>5, <1>7, ResolveEnds
  <2>. QED
    BY <1>1, <1>3, <1>4, <1>7, <2>1, FailuresFit, KeptCaches, ReturnStep
<1>8. CASE v = Missing /\ Returning(t, Null)
  <2>1. Plain /\ Readable => Result(w, f, Null)
    BY <1>1, <1>2, <1>5, <1>8, ResolveEnds DEF Result
  <2>2. Plain /\ Readable => Result(World', f, Null)
    BY <1>3, <2>1, KeptCaches
  <2>. QED
    BY <1>1, <1>3, <1>4, <1>8, <2>2, FailuresFit, KeptCaches, ReturnStep
<1>9. CASE ~IsError(v) /\ depth = MaxDepth /\ Returning(t, Circular)
  <2>1. ~(Plain /\ Readable)
    BY <1>5, <1>9, ObjectFetchAssumption DEF Iterated
  <2>. QED
    BY <1>1, <1>3, <1>4, <1>9, <2>1, FailuresFit, KeptCaches, ReturnStep
<1>10. CASE ~IsError(v) /\ v.kind # "ref" /\ Returning(t, v)
  <2>1. Plain /\ Readable => Result(w, f, v)
    BY <1>1, <1>2, <1>5, <1>10, ResolveEnds DEF Result
  <2>2. Plain /\ Readable => Result(World', f, v)
    BY <1>3, <2>1, KeptCaches
  <2>. QED
    BY <1>1, <1>2, <1>3, <1>4, <1>10, <2>2, KeptCaches, ReturnStep
<1>11. CASE v.kind = "ref" /\ Going(t, g, <<>>) /\ last' = last
  <2>1. v.to \in Nums
    BY <1>2, <1>11, ValueFields
  <2>2. depth \in Nat /\ (f.depth = 0 => depth = 1)
    BY <1>2, FrameFacts DEF Iterated
  <2>. HIDE DEF depth
  <2>3. /\ g \in Frames /\ g.at = "begin" /\ g.fn = "resolve"
        /\ g.num = v.to /\ g.depth = depth
    BY <1>1, <1>2, <2>1, <2>2, FrameAgain, AgainIs
  <2>. HIDE DEF g
  <2>4. GoesOn(t, g, <<>>)
    BY <1>1, <1>11, GoingOn
  <2>5. Plain /\ Readable => Follows(w, f, g) /\ Calling(w, g, v, <<>>)
    <3> SUFFICES ASSUME Plain, Readable PROVE Follows(w, f, g) /\ Calling(w, g, v, <<>>)
      OBVIOUS
    <3>1. /\ f.depth = 0 /\ Ent(w, v.to).kind # "ref"
          /\ Rank(w.file)[v.to] < Rank(w.file)[n]
          /\ Ends(w, f) <=> Told(w, v.to).kind = "int"
      BY <1>2, <1>5, <1>11, ResolveEnds
    <3>2. Local(w, g)
      BY <2>2, <2>3, <3>1 DEF Local, LocalResolve
    <3>3. Ends(w, g) <=> Ends(w, f)
      BY <2>2, <2>3, <3>1 DEF Ends
    <3>4. Rank(w.file)[g.num] <= Rank(w.file)[n]
      <4>1. Rank(w.file)[v.to] \in Nat /\ Rank(w.file)[n] \in Nat
        BY <1>2, <1>5, <2>1, RankIsNat
      <4>. QED
        BY <2>3, <3>1, <4>1
    <3>5. Calling(w, g, v, <<>>)
      BY <2>3 DEF Calling, Heard
    <3>6. Follows(w, f, g)
      BY <1>1, <2>3, <3>2, <3>3, <3>4 DEF Follows
    <3>. QED
      BY <3>5, <3>6
  <2>. QED
    BY <1>1, <1>3, <1>4, <1>11, <2>3, <2>4, <2>5, GoStep
<1>. QED
  BY <1>6, <1>7, <1>8, <1>9, <1>10, <1>11

-----------------------------------------------------------------------------
\* Requests, and opening.
LEMMA StartKnown ==
    ASSUME PInv, IInv', NEW t \in Tasks, Idle(t), NEW fn \in {"fetch", "resolve"}, NEW n \in Nums,
           Start(t, fn, n), UNCHANGED <<file, mode, phase, key, objects, objstms, faults>>,
           phase # "clearing"
    PROVE  PInv'
<1> DEFINE g == Frame(fn, n, "begin")
           l == [fn |-> IF phase = "open" THEN fn ELSE "opening", num |-> n, ret |-> Null]
           k == WithStack(task[t], <<g>>)
<1>1. IInv /\ Course
  BY DEF PInv
<1>2. task' = [task EXCEPT ![t] = k] /\ last' = [last EXCEPT ![t] = l]
  BY Zenon DEF Start, WithStack
<1>3. l \in Lasts /\ (l.fn = "fetch" => phase = "open" /\ fn = "fetch") /\ l.num = n
  BY FailuresFit DEF Lasts, Refs
<1>4. k.stack = <<g>> /\ k.ret = task[t].ret
  BY <1>1 DEF WithStack, IInv, TypeOK
<1>5. \A w : g \in Frames /\ g.at = "begin" /\ g.fn = fn /\ g.num = n /\ Local(w, g)
  BY BeginLocal
<1>. HIDE DEF g, l, k
<1>6. /\ \A u \in Tasks : task'[u] = IF u = t THEN k ELSE task[u]
      /\ \A u \in Tasks : last'[u] = IF u = t THEN l ELSE last[u]
  BY <1>1, <1>2 DEF IInv, TypeOK, Course
<1>7. World' = World /\ (Readable' <=> Readable) /\ (Plain' <=> Plain)
  BY DEF World, Readable, Plain, Encrypted
<1>8. Course'
  <2>1. last' \in [Tasks -> Lasts]
    BY <1>1, <1>2, <1>3 DEF Course
  <2>2. \A u \in Tasks : last'[u].fn = "fetch" => phase' = "open" /\ last'[u].num \in Nums
    BY <1>1, <1>3, <1>6 DEF Course
  <2>3. ~Readable' => DOMAIN objstms' = {}
    BY <1>1, <1>7 DEF Course
  <2>4. phase' # "clearing"
    OBVIOUS
  <2>. QED
    BY <2>1, <2>2, <2>3, <2>4 DEF Course
<1>9. ASSUME Plain', Readable' PROVE Known'
  <2>1. Known
    BY <1>7, <1>9 DEF PInv
  <2>2. ASSUME NEW u \in Tasks
        PROVE  Sound(World, task'[u].stack, task'[u].ret, last'[u])
    <3>1. CASE u = t
      <4>1. Sound(World, <<g>>, task[t].ret, l)
        BY <1>3, <1>5, StartSound
      <4>. QED
        BY <1>4, <1>6, <3>1, <4>1
    <3>2. CASE u # t
      BY <1>6, <2>1, <3>2 DEF Known
    <3>. QED
      BY <3>1, <3>2
  <2>. QED
    BY <1>7, <2>1, <2>2 DEF Known
<1>. QED
  BY <1>8, <1>9 DEF PInv

LEMMA RequestKnown ==
    ASSUME PInv, NEW t \in Tasks, NEW fn \in {"fetch", "resolve"}, NEW n \in Nums,
           Request(t, fn, n)
    PROVE  PInv'
<1>1. IInv'
  BY RequestKeeps DEF PInv
<1>. QED
  BY <1>1, StartKnown DEF Request, Idle, docVars

LEMMA OpenNextKnown ==
    ASSUME PInv, OpenNext
    PROVE  PInv'
<1>1. PICK fn \in {"fetch", "resolve"} : Start(Opener, fn, file.encrypt[opened + 1])
  BY DEF OpenNext
<1>2. file \in Files /\ opened \in Nat
  BY DEF PInv, IInv, TypeOK
<1>3. file.encrypt \in Seq(Nums)
  BY <1>2, ObjectFetchAssumption
<1>4. file.encrypt[opened + 1] \in Nums
  BY <1>2, <1>3 DEF OpenNext
<1>5. IInv'
  BY OpenNextKeeps DEF PInv
<1>. QED
  BY <1>1, <1>4, <1>5, StartKnown, ObjectFetchAssumption DEF OpenNext

\* With no call and no answered request there is nothing to know of the tasks.
LEMMA RestingSound ==
    ASSUME NEW w, NEW v, NEW l, l.fn # "fetch"
    PROVE  Sound(w, <<>>, v, l)
BY DEF Sound, Standing, Requested

\* What is in the caches is about the file and the failures, whatever the phase.
LEMMA CachesOfFile ==
    ASSUME NEW w, NEW x, x.file = w.file, x.faults = w.faults, NEW cache
    PROVE  /\ Stored(w, cache) => Stored(x, cache)
           /\ Unpackings(w, cache) => Unpackings(x, cache)
<1>1. \A n : Told(x, n) = Told(w, n)
  BY DEF Told
<1>2. \A l, ideal : LengthFits(w, l, ideal) => LengthFits(x, l, ideal)
  BY DEF LengthFits, Hurt
<1>3. \A c : Decodes(x, c) <=> Decodes(w, c)
  BY DEF Decodes
<1>4. \A v, n : Tells(w, v, n) => Tells(x, v, n)
  BY <1>1, <1>2 DEF Tells
<1>5. \A v, c : Unpacked(w, v, c) => Unpacked(x, v, c)
  BY <1>1, <1>2, <1>3 DEF Unpacked, Hurt
<1>. QED
  BY <1>4, <1>5 DEF Stored, Unpackings

\* A change of the phase, with no call in flight.
LEMMA PhaseKnown ==
    ASSUME PInv, IInv', \A t \in Tasks : Idle(t),
           UNCHANGED <<file, mode, task, last, faults>>,
           \A t \in Tasks : last[t].fn # "fetch",
           Readable => Readable',
           objects' = <<>> \/ (objects' = objects /\ (Readable' => Readable)),
           objstms' = <<>> \/ objstms' = objstms
    PROVE  PInv'
<1>1. Course /\ (Plain' <=> Plain)
  BY DEF PInv, Plain
<1>2. DOMAIN objects' = {} \/ (objects' = objects /\ (Readable' => Readable))
  OBVIOUS
<1>3. DOMAIN objstms' = {} \/ objstms' = objstms
  OBVIOUS
<1>4. Course'
  <2>1. \A t \in Tasks : Idle(t)'
    BY DEF Idle
  <2>2. ~Readable' => DOMAIN objstms' = {}
    BY <1>1, <1>3 DEF Course
  <2>3. last' \in [Tasks -> Lasts] /\ \A t \in Tasks : last'[t].fn # "fetch"
    BY <1>1 DEF Course
  <2>. QED
    BY <2>1, <2>2, <2>3 DEF Course
<1>5. World'.file = World.file /\ World'.faults = World.faults
  BY DEF World
<1>6. ASSUME Plain', Readable' PROVE Known'
  <2>1. ASSUME NEW t \in Tasks
        PROVE  Sound(World', task'[t].stack, task'[t].ret, last'[t])
    BY RestingSound DEF Idle
  <2>2. Stored(World', objects')
    <3>1. CASE DOMAIN objects' = {}
      BY <3>1 DEF Stored
    <3>2. CASE objects' = objects /\ Readable
      <4>1. Stored(World, objects)
        BY <1>1, <1>6, <3>2 DEF PInv, Known
      <4>. QED
        BY <1>5, <3>2, <4>1, CachesOfFile
    <3>. QED
      BY <1>2, <1>6, <3>1, <3>2
  <2>3. Unpackings(World', objstms')
    <3>1. CASE DOMAIN objstms' = {}
      BY <3>1 DEF Unpackings
    <3>2. CASE objstms' = objstms /\ Readable
      <4>1. Unpackings(World, objstms)
        BY <1>1, <1>6, <3>2 DEF PInv, Known
      <4>. QED
        BY <1>5, <3>2, <4>1, CachesOfFile
    <3>. QED
      BY <1>1, <1>3, <3>1, <3>2 DEF Course
  <2>. QED
    BY <2>1, <2>2, <2>3 DEF Known
<1>. QED
  BY <1>4, <1>6 DEF PInv

LEMMA OpenFailsKnown ==
    ASSUME PInv, OpenFails
    PROVE  PInv'
<1>1. IInv /\ Course /\ IInv'
  BY OpenFailsKeeps DEF PInv
<1>2. \A t \in Tasks : Idle(t)
  BY <1>1 DEF OpenFails, IInv, OpenedAlone
<1>3. \A t \in Tasks : last[t].fn # "fetch"
  BY <1>1 DEF OpenFails, Course
<1>4. Readable' <=> Readable
  BY DEF OpenFails, Readable, Encrypted
<1>5. UNCHANGED <<file, mode, task, last, faults, objects, objstms>>
  BY DEF OpenFails
<1>. QED
  BY <1>1, <1>2, <1>3, <1>4, <1>5, PhaseKnown

LEMMA SetKeyKnown ==
    ASSUME PInv, SetKey
    PROVE  PInv'
<1>1. IInv /\ Course /\ IInv'
  BY SetKeyKeeps DEF PInv
<1>2. \A t \in Tasks : Idle(t)
  BY <1>1 DEF SetKey, Ready, IInv, OpenedAlone
<1>3. \A t \in Tasks : last[t].fn # "fetch"
  BY <1>1 DEF SetKey, Ready, Course
<1>4. Readable'
  BY DEF SetKey, Readable
<1>5. UNCHANGED <<file, mode, task, last, faults, objstms>> /\ objects' = <<>>
  BY DEF SetKey
<1>. QED
  BY <1>1, <1>2, <1>3, <1>4, <1>5, PhaseKnown

LEMMA ClearContainersKnown ==
    ASSUME PInv, ClearContainers
    PROVE  PInv'
<1>1. IInv /\ Course /\ IInv'
  BY ClearContainersKeeps DEF PInv
<1>2. \A t \in Tasks : Idle(t)
  BY <1>1 DEF ClearContainers, Course
<1>3. \A t \in Tasks : last[t].fn # "fetch"
  BY <1>1 DEF ClearContainers, Course
<1>4. Readable' <=> Readable
  BY DEF ClearContainers, Readable, Encrypted
<1>5. UNCHANGED <<file, mode, task, last, faults, objects>> /\ objstms' = <<>>
  BY DEF ClearContainers
<1>. QED
  BY <1>1, <1>2, <1>3, <1>4, <1>5, PhaseKnown

LEMMA StepKnown ==
    ASSUME PInv, NEW t \in Tasks, Step(t)
    PROVE  PInv'
<1>1. CASE Hit(t) \/ Refuse(t) \/ Load(t) \/ Cache(t) \/ GotContainer(t)
  BY <1>1, HitKnown, RefuseKnown, LoadKnown, CacheKnown, GotContainerKnown
<1>2. CASE Parse(t) \/ GotLength(t) \/ ParseAgain(t) \/ ReadFails(t)
  BY <1>2, ParseKnown, GotLengthKnown, ParseAgainKnown, ReadFailsKnown
<1>3. CASE Container(t) \/ Handle(t) \/ GotObject(t) \/ Entries(t) \/ GotN(t)
  BY <1>3, ContainerKnown, HandleKnown, GotObjectKnown, EntriesKnown, GotNKnown
<1>4. CASE Prefetch(t) \/ Store(t) \/ Resolve(t) \/ Resolved(t)
  BY <1>4, PrefetchKnown, StoreKnown, ResolveKnown, ResolvedKnown
<1>. QED
  BY <1>1, <1>2, <1>3, <1>4 DEF Step

\* The invariant holds at first, and every step preserves it.
LEMMA InitKnown == Init => PInv
<1> SUFFICES ASSUME Init PROVE PInv
  OBVIOUS
<1>1. IInv
  BY InitInv
<1>2. \A t \in Tasks : Idle(t) /\ task[t].stack = <<>> /\ last[t].fn # "fetch"
  BY DEF Init, Waiting, Idle
<1>3. DOMAIN objects = {} /\ DOMAIN objstms = {}
  BY DEF Init
<1>4. last \in [Tasks -> Lasts]
  BY FailuresFit DEF Init, Lasts, Refs
<1>5. Course
  BY <1>2, <1>3, <1>4 DEF Course
<1>6. Known
  BY <1>2, <1>3, RestingSound DEF Known, Stored, Unpackings
<1>. QED
  BY <1>1, <1>5, <1>6 DEF PInv

LEMMA NextKnown == PInv /\ [Next]_vars => PInv'
<1> SUFFICES ASSUME PInv, [Next]_vars PROVE PInv'
  OBVIOUS
<1>1. CASE Open
  BY <1>1, OpenNextKnown, OpenFailsKnown, SetKeyKnown, ClearContainersKnown DEF Open
<1>2. ASSUME NEW t \in Tasks, Step(t)
      PROVE  PInv'
  BY <1>2, StepKnown
<1>3. ASSUME NEW t \in Tasks, NEW n \in Nums,
             Request(t, "fetch", n) \/ Request(t, "resolve", n)
      PROVE  PInv'
  BY <1>3, RequestKnown
<1>4. CASE UNCHANGED vars
  <2>1. IInv'
    BY <1>4, NextInv DEF PInv
  <2>2. UNCHANGED <<file, mode, phase, key, objects, objstms, task, last, faults>>
    BY <1>4 DEF vars, docVars
  <2>3. World' = World /\ (Readable' <=> Readable) /\ (Plain' <=> Plain)
    BY <2>2 DEF World, Readable, Encrypted, Plain
  <2>4. Course => Course'
    BY <2>2, <2>3 DEF Course, Idle
  <2>5. Known => Known'
    BY <2>2, <2>3 DEF Known
  <2>. QED
    BY <2>1, <2>3, <2>4, <2>5 DEF PInv
<1>. QED
  BY <1>1, <1>2, <1>3, <1>4 DEF Next

\* In a plain file every call knows what it is about: whatever a cache, a call's
\* object or an answer holds is what the file's own objects make of it.
THEOREM CallsKnowTheirObjects == Spec => []PInv
<1>. QED
  BY InitKnown, NextKnown, PTL DEF Spec

-----------------------------------------------------------------------------
\* A plain value that tells what the ideal one does is it, but for its length.
LEMMA TellingIsSame ==
    ASSUME Plain, NEW n \in Nums, NEW v \in Values, Tells(World, v, n), v.text = "plain"
    PROVE  SameBut(v, Ideal(n))
<1> DEFINE i == Told(World, n)
<1>1. World.file \in PlainFiles /\ World.faults = faults
  BY WorldIs DEF Plain
<1>2. i = Ideal(n)
  BY WorldIs DEF Told, Id, Ideal
<1>3. v.kind = i.kind /\ v.to = i.to /\ LengthFits(World, v.length, i.length) /\ v.kind \in Kinds
  BY DEF Tells
<1>4. i # Missing
  BY <1>3, FailuresAre DEF Kinds
<1>5. PICK l : i = Value(Ent(World, n).kind, l, "plain", Ent(World, n).to)
  BY <1>1, <1>4, IdealFacts
<1>6. v = [kind |-> v.kind, length |-> v.length, text |-> v.text, to |-> v.to]
  BY DEF Values
<1>. HIDE DEF i
<1>7. i = [kind |-> i.kind, length |-> i.length, text |-> "plain", to |-> i.to]
  BY <1>5 DEF Value
<1>8. CASE v.length = i.length
  BY <1>2, <1>3, <1>6, <1>7, <1>8 DEF SameBut
<1>9. CASE faults < MaxFaults /\ v.length = "recovered" /\ i.length = "declared"
  <2>1. v = [i EXCEPT !.length = "recovered"]
    BY <1>3, <1>6, <1>7, <1>9
  <2>. QED
    BY <1>2, <1>9, <2>1 DEF SameBut
<1>. QED
  BY <1>1, <1>3, <1>8, <1>9 DEF LengthFits, Hurt

\* The invariant implies what the run checks of the cache,
LEMMA CachesTell == PInv => CacheIsTransparent
<1> SUFFICES ASSUME PInv, phase = "open", Plain, NEW n \in DOMAIN objects
             PROVE  SameBut(objects[n], Ideal(n))
  BY DEF CacheIsTransparent
<1>1. IInv
  BY DEF PInv
<1>2. Readable
  BY <1>1 DEF IInv, OpenedAlone, Readable
<1>3. n \in Nums /\ objects[n] \in Values /\ objects[n].text = "plain"
  BY <1>1 DEF IInv, TypeOK, OpenedAlone
<1>4. Tells(World, objects[n], n)
  BY <1>2 DEF PInv, Known, Stored
<1>. QED
  BY <1>3, <1>4, TellingIsSame

\* and of the answers.
LEMMA AnswersTell == PInv => AnswersAreOfTheFile
<1> SUFFICES ASSUME PInv, Plain, NEW t \in Tasks, last[t].fn = "fetch", task[t].stack = <<>>
             PROVE  \/ SameBut(last[t].ret, Ideal(last[t].num))
                    \/ faults < MaxFaults /\ last[t].ret = Missing
  BY DEF AnswersAreOfTheFile
<1> DEFINE n == last[t].num
           v == last[t].ret
<1>1. IInv /\ Course
  BY DEF PInv
<1>2. phase = "open" /\ n \in Nums /\ v \in Values
  BY <1>1 DEF Course, Lasts
<1>3. Readable
  BY <1>1, <1>2 DEF IInv, OpenedAlone, Readable
<1>4. Fetched(World, v, n)
  BY <1>3 DEF PInv, Known, Sound, Requested
<1>5. World.phase = phase /\ World.faults = faults /\ Told(World, n) = Ideal(n)
  BY WorldIs DEF Told, Id, Ideal
<1>. HIDE DEF n, v
<1>6. CASE Tells(World, v, n) /\ v.text = "plain"
  BY <1>2, <1>6, TellingIsSame DEF n, v
<1>7. CASE v = Missing /\ Told(World, n) = Missing
  BY <1>5, <1>7 DEF SameBut, n, v
<1>8. CASE v = Missing /\ faults < MaxFaults
  BY <1>8 DEF v
<1>. QED
  BY <1>2, <1>4, <1>5, <1>6, <1>7, <1>8 DEF Fetched, Hurt

\* In a plain file the cache of an open document holds what uncached fetches
\* would give, whichever fetches raced, failed or were made before the key.
THEOREM TheCacheIsTransparent == Spec => []CacheIsTransparent
<1>. QED
  BY CallsKnowTheirObjects, CachesTell, PTL

\* And a fetch is answered with that, or with a failed read of its own making:
\* never with an error because another task is loading the same object.
THEOREM AnswersComeFromTheFile == Spec => []AnswersAreOfTheFile
<1>. QED
  BY CallsKnowTheirObjects, AnswersTell, PTL
=============================================================================
