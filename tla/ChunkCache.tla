----------------------------- MODULE ChunkCache -----------------------------
(***************************************************************************)
(* `CachedBackend` (pdfboss-aio/src/cache.rs): a chunked LRU cache that    *)
(* any number of concurrent reads share.  The state mutex is held for one  *)
(* lookup, one batch decision or one insertion at a time, never across the *)
(* await of the inner read, so readers interleave between those steps, and *)
(* a caller may drop its read at that await.                               *)
(*                                                                         *)
(* LRU stamps are only ever compared, so the stamps and the clock are      *)
(* modelled by the order they put the resident chunks in.                  *)
(***************************************************************************)
EXTENDS ReadAt, SequencesExt

CONSTANTS
    ChunkSize,     \* `chunk_size`
    MaxBytes,      \* `max_bytes`
    MaxBatchBytes, \* `MAX_BATCH_BYTES` (8 MiB in the code)
    BudgetShare,   \* the part of the budget one run may fill: 1/4 in the code
    DenseFactor,   \* a miss this many batches away is dense: 4 in the code
    MaxReads       \* bound: reads made in one behaviour

ASSUME ChunkCacheAssumption ==
    /\ ChunkSize \in Nat \ {0}          \* `with_capacity` asserts it
    /\ MaxBytes \in Nat /\ MaxBatchBytes \in Nat
    /\ BudgetShare \in Nat \ {0} /\ DenseFactor \in Nat
    /\ FileLen \in Nat /\ SourceLen \in 0..FileLen
    /\ MaxReads \in Nat

VARIABLES
    chunks,        \* resident chunks: a function from indices to their bytes
    recency,       \* their indices, least recently used first
    bytes,         \* `bytes`: the total the evictions go by
    batch,         \* `batch_chunks`
    previousMiss,  \* `previous_miss`, or NoMiss
    reader,        \* reader[r]: where read r is, see Reading
    reads          \* reads left

cacheVars == <<chunks, recency, bytes, batch, previousMiss>>
vars == <<asked, answers, cacheVars, reader, reads>>

NoMiss == -1
ChunksTotal == (FileLen + ChunkSize - 1) \div ChunkSize
Indices == 0..(ChunksTotal - 1)
Chunk(i, until) == Bytes(i * ChunkSize, Min({(i + 1) * ChunkSize, until}))

\* What a read holds: the bytes copied so far, the step it is at, and for a
\* miss the run decided on, the bytes fetched and the next piece to insert.
Reading(at, got) == [at |-> at, got |-> got, first |-> 0, run |-> 0,
                     data |-> <<>>, next |-> 0]

TypeOK ==
    /\ DOMAIN chunks \subseteq Indices
    /\ IsInjective(recency) /\ ToSet(recency) = DOMAIN chunks
    /\ bytes \in Nat
    /\ batch \in Nat \ {0}
    /\ previousMiss \in Indices \cup {NoMiss}
    /\ \A r \in Readers : reader[r].at \in {"done", "lookup", "batch", "fetch", "insert"}
    /\ reads \in 0..MaxReads

Init ==
    /\ AskInit
    /\ chunks = <<>> /\ recency = <<>> /\ bytes = 0
    /\ batch = 1 /\ previousMiss = NoMiss
    /\ reader = [r \in Readers |-> Reading("done", <<>>)]
    /\ reads = MaxReads

-----------------------------------------------------------------------------
\* `read_at` wants this many bytes of request q.
Want(q) ==
    IF q.offset >= FileLen THEN 0
    ELSE Min({q.want, FileLen - q.offset})

\* The position, and the chunk, read r needs next.
Pos(r) == asked[r].offset + Len(reader[r].got)
Wanted(r) == Pos(r) \div ChunkSize

Begin(r) ==
    /\ reads > 0
    /\ reads' = reads - 1
    /\ Ask(r)
    /\ reader' = [reader EXCEPT ![r] = Reading("lookup", <<>>)]
    /\ UNCHANGED cacheVars

\* Mutant of Deliver: The loop goes on asking a source that ended early.
DeliverInsisting(r, chunk) ==
    LET within == Pos(r) % ChunkSize
        count  == Min({Want(asked[r]) - Len(reader[r].got), Len(chunk) - within})
        got    == reader[r].got \o SubSeq(chunk, within + 1, within + count)
    IN  IF Len(got) = Want(asked[r])
        THEN /\ reader' = [reader EXCEPT ![r] = Reading("done", <<>>)]
             /\ asked' = [asked EXCEPT ![r] = Idle]
             /\ answers' = [answers EXCEPT ![r] = got]
        ELSE /\ reader' = [reader EXCEPT ![r] = Reading("lookup", got)]
             /\ UNCHANGED askVars

\* The body of `read_at`'s loop once it has its chunk: copy what the chunk
\* has of the wanted bytes, or stop because it does not reach that far.
Deliver(r, chunk) ==
    LET within == Pos(r) % ChunkSize
        count  == Min({Want(asked[r]) - Len(reader[r].got), Len(chunk) - within})
        got    == reader[r].got \o SubSeq(chunk, within + 1, within + count)
        done   == within >= Len(chunk) \/ Len(got) = Want(asked[r])
    IN  IF done
        THEN /\ reader' = [reader EXCEPT ![r] = Reading("done", <<>>)]
             /\ asked' = [asked EXCEPT ![r] = Idle]
             /\ answers' = [answers EXCEPT ![r] = got]
        ELSE /\ reader' = [reader EXCEPT ![r] = Reading("lookup", got)]
             /\ UNCHANGED askVars

\* `read_at` with nothing to read: past the end, or an empty buffer.
ReadNothing(r) ==
    /\ reader[r].at = "lookup"
    /\ Want(asked[r]) = 0
    /\ reader' = [reader EXCEPT ![r] = Reading("done", <<>>)]
    /\ asked' = [asked EXCEPT ![r] = Idle]
    /\ answers' = [answers EXCEPT ![r] = <<>>]
    /\ UNCHANGED <<cacheVars, reads>>

\* The order of use with chunk i as the most recently used one.
Used(i) ==
    LET others == IF i \in ToSet(recency)
                  THEN RemoveAt(recency, CHOOSE k \in DOMAIN recency : recency[k] = i)
                  ELSE recency
    IN  Append(others, i)

\* `lookup`, a hit: the chunk becomes the most recently used one.
Hit(r) ==
    /\ reader[r].at = "lookup"
    /\ Want(asked[r]) > 0
    /\ Wanted(r) \in DOMAIN chunks
    /\ recency' = Used(Wanted(r))
    /\ Deliver(r, chunks[Wanted(r)])
    /\ UNCHANGED <<chunks, bytes, batch, previousMiss, reads>>

\* `lookup`, a miss: the lock is released before the batch is decided.
Miss(r) ==
    /\ reader[r].at = "lookup"
    /\ Want(asked[r]) > 0
    /\ Wanted(r) \notin DOMAIN chunks
    /\ reader' = [reader EXCEPT ![r].at = "batch"]
    /\ UNCHANGED <<asked, answers, cacheVars, reads>>

\* Mutant of MaxChunks: The run may fill the whole of `MAX_BATCH_BYTES`.
MaxChunksUnbudgeted == Max({1, MaxBatchBytes \div ChunkSize})

\* `batch_run`'s estimate after a miss at i: doubled when dense, else halved.
MaxChunks == Max({1, Min({MaxBatchBytes, MaxBytes \div BudgetShare}) \div ChunkSize})
Dense(i) ==
    /\ previousMiss # NoMiss
    /\ Max({i - previousMiss, previousMiss - i}) <= DenseFactor * batch
BatchAfter(i) ==
    IF Dense(i) THEN Min({batch * 2, MaxChunks}) ELSE Max({1, batch \div 2})

\* The uncached neighbourhood of i, down first and then up, at most n chunks.
RunFirst(i, n) ==
    Min({f \in 0..i : i - f < n /\ \A j \in f..(i - 1) : j \notin DOMAIN chunks})
RunLast(i, n) ==
    Max({l \in i..Max({i, ChunksTotal - 1}) :
            l - RunFirst(i, n) < n /\ \A j \in (i + 1)..l : j \notin DOMAIN chunks})

\* `batch_run`: decide what to fetch.
DecideRun(r) ==
    /\ reader[r].at = "batch"
    /\ LET i == Wanted(r)
           n == BatchAfter(i)
       IN  /\ batch' = n
           /\ previousMiss' = i
           /\ reader' = [reader EXCEPT ![r].at = "fetch",
                                       ![r].first = RunFirst(i, n),
                                       ![r].run = RunLast(i, n) - RunFirst(i, n) + 1]
    /\ UNCHANGED <<asked, answers, chunks, recency, bytes, reads>>

\* Where the inner reads of a miss stop: the run's end, or the file's.
RunEnd(r) == Min({FileLen, (reader[r].first + reader[r].run) * ChunkSize})
Filled(r) == reader[r].first * ChunkSize + Len(reader[r].data)

\* One inner read answers some of the bytes still missing.
FetchSome(r) ==
    /\ reader[r].at = "fetch"
    /\ \E until \in (Filled(r) + 1)..Min({RunEnd(r), SourceLen}) :
          reader' = [reader EXCEPT ![r].data = @ \o Bytes(Filled(r), until)]
    /\ UNCHANGED <<asked, answers, cacheVars, reads>>

\* The fetch loop ends: the run is complete, or the source has no more.
Fetched(r) ==
    /\ reader[r].at = "fetch"
    /\ Filled(r) >= Min({RunEnd(r), SourceLen})
    /\ reader' = [reader EXCEPT ![r].at = "insert"]
    /\ UNCHANGED <<asked, answers, cacheVars, reads>>

\* An inner read fails: the read does, and the cache learns nothing.
FetchFails(r) ==
    /\ reader[r].at = "fetch"
    /\ Fail(r)
    /\ reader' = [reader EXCEPT ![r] = Reading("done", <<>>)]
    /\ UNCHANGED <<cacheVars, reads>>

\* The caller drops the future at its only await.
Drop(r) ==
    /\ reader[r].at = "fetch"
    /\ Abandon(r)
    /\ reader' = [reader EXCEPT ![r] = Reading("done", <<>>)]
    /\ UNCHANGED <<cacheVars, reads>>

-----------------------------------------------------------------------------
\* The bytes the chunks S of a store take.
Size(store, S) == MapThenSumSet(LAMBDA j : Len(store[j]), S)

\* `insert`: the chunk becomes the most recently used; the coldest others go
\* until the counted bytes are within the budget or nothing else is left.
InsertCounting(i, data, added) ==
    LET warm  == Used(i)
        store == [j \in DOMAIN chunks \cup {i} |-> IF j = i THEN data ELSE chunks[j]]
        after(n) == bytes + added - Size(store, {warm[k] : k \in 1..n})
        gone  == Min({n \in 0..(Len(warm) - 1) : after(n) <= MaxBytes \/ n = Len(warm) - 1})
    IN  /\ recency' = SubSeq(warm, gone + 1, Len(warm))
        /\ chunks' = Restrict(store, ToSet(recency'))
        /\ bytes' = after(gone)
        /\ UNCHANGED <<batch, previousMiss>>

\* Mutant of Insert: The replaced chunk's bytes stay on the books.
InsertLeaky(i, data) == InsertCounting(i, data, Len(data))

\* What the chunk being replaced held no longer counts.
Insert(i, data) ==
    InsertCounting(i, data, Len(data) - (IF i \in DOMAIN chunks THEN Len(chunks[i]) ELSE 0))

\* What a miss fetched, cut into chunks.
Pieces(data) == (Len(data) + ChunkSize - 1) \div ChunkSize
Piece(data, k) == SubSeq(data, k * ChunkSize + 1, Min({(k + 1) * ChunkSize, Len(data)}))

\* One lock per piece: other readers interleave between two of them.
InsertPiece(r) ==
    /\ reader[r].at = "insert"
    /\ reader[r].next < Pieces(reader[r].data)
    /\ Insert(reader[r].first + reader[r].next, Piece(reader[r].data, reader[r].next))
    /\ reader' = [reader EXCEPT ![r].next = @ + 1]
    /\ UNCHANGED <<asked, answers, reads>>

\* The source produced nothing: the empty chunk is recorded.
InsertEmpty(r) ==
    /\ reader[r].at = "insert"
    /\ reader[r].data = <<>> /\ reader[r].next = 0
    /\ Insert(Wanted(r), <<>>)
    /\ reader' = [reader EXCEPT ![r].next = 1]
    /\ UNCHANGED <<asked, answers, reads>>

\* Mutant of Result: The wanted chunk is taken to be the first of the run.
ResultFirst(r) == Piece(reader[r].data, 0)

\* The copy set aside while inserting is what the read goes on with, not what
\* the cache now holds: it may have been evicted again.
Result(r) ==
    LET k == Wanted(r) - reader[r].first
    IN  IF k < Pieces(reader[r].data) THEN Piece(reader[r].data, k) ELSE <<>>

UseResult(r) ==
    /\ reader[r].at = "insert"
    /\ reader[r].next >= Max({1, Pieces(reader[r].data)})
    /\ Deliver(r, Result(r))
    /\ UNCHANGED <<cacheVars, reads>>

-----------------------------------------------------------------------------
\* What the runtime and the inner backend do for a read that was begun.
Step(r) ==
    \/ ReadNothing(r) \/ Hit(r) \/ Miss(r) \/ DecideRun(r)
    \/ FetchSome(r) \/ Fetched(r) \/ FetchFails(r)
    \/ InsertPiece(r) \/ InsertEmpty(r) \/ UseResult(r)

Next == \E r \in Readers : Begin(r) \/ Step(r) \/ Drop(r)

Spec == Init /\ [][Next]_vars

\* The executor polls a woken read again, and the inner backend answers.
Fairness == \A r \in Readers : WF_vars(Step(r))

FairSpec == Spec /\ Fairness

-----------------------------------------------------------------------------
\* The counter the evictions go by is the size of what is resident, however
\* the insertions of concurrent reads of one chunk overlap (cache.rs 189-214).
BytesAccounted == bytes = Size(chunks, DOMAIN chunks)

\* The residents fit the budget, or there is only one (cache.rs 199).
BudgetHeld ==
    \/ Size(chunks, DOMAIN chunks) <= MaxBytes
    \/ Cardinality(DOMAIN chunks) = 1

\* The books of the cache are right after every insertion, eviction, failure and
\* dropped read: every resident chunk is in the order of use once, the bytes
\* counted are theirs, and they are held to the budget (cache.rs 37-50, 189-214).
AccountingExact == TypeOK /\ BytesAccounted /\ BudgetHeld

\* Chunk x was used after chunk j was.
Warmer(x, j) == \E a, b \in DOMAIN recency : a < b /\ recency[a] = j /\ recency[b] = x

\* "So one run can never evict what the reader is actively using" (cache.rs
\* 136-137), with other readers about: an insertion drops an earlier piece of
\* its own run only to make room beside a chunk of theirs that is warmer.
RunStaysResident ==
    [][\A r \in Readers :
          LET run   == reader[r].first..(reader[r].first + reader[r].run - 1)
              piece == reader[r].first..(reader[r].first + reader[r].next - 1)
          IN  reader[r].at = "insert" /\ reader'[r].next > reader[r].next
              => \A j \in (piece \cap DOMAIN chunks) \ DOMAIN chunks' :
                    \E x \in DOMAIN chunks \ run : Warmer(x, j)]_vars

\* "Correctness is unaffected" by concurrent misses, dropped reads and
\* evictions (cache.rs 26-27): readers see what the source itself promises.
ImplementsReadAt == AskSpec

\* Every read that is not dropped ends, one of a source shorter than it
\* declared included (cache.rs 126, 237).
ReadsEnd == \A r \in Readers : asked[r] # Idle ~> asked[r] = Idle

=============================================================================
