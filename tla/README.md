# A verification project for pdfboss

pdfboss reads, renders, converts and writes PDF files.  Most of it is a function
from bytes to bytes and is well served by tests.  This project models the parts
that are *not*: the ones with state that outlives a call, several actors, or an
order of events nobody writes a test for.  Modules are checked by TLC on small
instances, and the theorems of the `*Proofs` modules are checked by the TLA+ proof
system for every value of the constants.

Paths below are relative to `src/crates/`.

## 1. The system

| Part | State it keeps | Operations | Who it talks to |
|---|---|---|---|
| `block_on` driver (`pdfboss-core/src/source.rs`) | per call: a waker with a private flag; per thread: the unpark token | poll, test the flag, park, return; wake | every synchronous entry point runs the shared asynchronous code on it; wakers on other threads |
| Backends (`pdfboss-aio/src/backend.rs`) | file handle; HTTP client and a once-filled whole body | `len`, `read_at` | awaited by the cache and the document |
| Chunk cache (`pdfboss-aio/src/cache.rs`) | resident chunks, their LRU stamps, byte count, batch estimate, previous miss | `read_at` = lookup, batch decision, inner reads, insertions | shared by all concurrent reads of a document; a mutex per step, none across an await |
| Asynchronous document (`pdfboss-aio/src/document.rs`) | cross-reference table, object and object-stream caches | `get_object`, `resolve`, `load_xref_chain`, pages | the cache below, the element stream and the explorer above |
| Element stream (`pdfboss-aio/src/stream.rs`, `pdfboss-core/src/elements.rs`) | position in the physical and logical layers | `poll_next` | explorer passes, search, command line |
| Synchronous document (`pdfboss-core/src/document.rs`) | object cache, set of objects being loaded, object streams, decryptor, page list | `get`, `resolve`, `page`, `map_pages` | all readers; a seed of it crosses to worker threads |
| Cross-reference loading (`pdfboss-core/src/xref.rs`) | entries, trailer, newest section | walk of `/Prev`, merge, recovery scan | document, updates |
| Importer, writer (`pdfboss-write/src/importer.rs`, `writer.rs`) | slots (reserved or filled), memo of copied objects | reserve, fill, copy a graph | assembling, splitting, stamping |
| Updates (`pdfboss-write/src/update.rs`) | next free number, log of changes, `/Info` | set, remove, reserve, put, set_metadata, append | document below, the file; the asynchronous append |
| Explorer (`pdfboss-tui/src`) | tree, selection, history, deferred jump, inspector, hex, preview, markdown, search bar, the generation of each | keys, ticks, messages | background tasks through an unbounded channel; one shared epoch |
| Codecs, fonts, text, render, Markdown, Python, CLI | buffers of one call | pure functions, wrappers | |

Where it is hard, and which properties make each part correct:

* **`block_on`.** The unpark token is one boolean per *thread*, calls nest on a
  thread, wakers run anywhere and late.  Correct: no wakeup is lost, every call
  returns, a call is resumed by its own wakeup only.
* **Cache.** Concurrent misses of one chunk, failures and drops at the await,
  eviction in the middle of an insertion, sources shorter than declared.
  Correct: it is not observable (a reader sees what the source promises), the
  byte count is exact, the budget is held, reads end.
* **Updates.** Numbers come from four places (the base's rows, its declared
  `/Size`, the caller, the allocator) and a number may be set, freed and set
  again.  Correct: a number handed out is new, one row per number, `/Size`
  covers everything, the free chain is a chain, and the reader of the appended
  file finds exactly the staged version.
* **Explorer.** Every answer may be late.  Correct: what is shown belongs to the
  selection, the hits to the query; loads are neither doubled nor waited for in
  vain; whatever is asked for is shown at last.
* **Document and element stream.** Circular references, caches filled before
  decryption is on, the same container decoded twice at once.  Correct: a cached
  object equals what an uncached fetch would give; no fetch re-enters itself.
* **Importer.** Cyclic graphs, pages that refer to themselves, calls dropped at an
  await.  Correct: each source object is copied once, a file that is written has
  no slot nobody filled, copies refer to each other as the originals do.
* **HTTP backend.** Servers that refuse, ignore ranges, cut bodies short; reads that
  race for the shared body.  Correct: an answer is bytes of the resource, reads
  answered from a whole body are all answered from one, an error surfaces only after
  the retries.
* **Cross-reference loading.** `/Prev` may point anywhere, a section may be broken,
  a read may fail.  Correct: walks end, the newest revision of a number wins, and
  the three walks over the same sections agree.

`PROJECT.json` lists these hazards at the line where each one bites.

## 2. Modules

| Module | Models | Composed with |
|---|---|---|
| `Wakeups` | what `block_on` promises: calls that wait on private wakeups | abstract |
| `BlockOn` | `ThreadWaker`, `block_on`, the unpark token | implements `Wakeups` |
| `ReadAt` | the `Backend` contract, exact (`AskSpec`) and with short reads (`ShortSpec`) | abstract |
| `ChunkCache` | `CachedBackend` over a backend | implements `ReadAt`'s exact form, which it extends with the reader's side |
| `HttpRead` | `HttpBackend::read_at` and the server | implements `ReadAt`'s short form, likewise |
| `ObjectFetch` | object fetches, object streams and the decryption set-up of both documents | |
| `XrefChain` | the two loaders of the cross-reference chain, the recovery scan, the iterator's sections stage | |
| `Importer` | `Importer` and the slots of `Writer`, as `assemble.rs` drives them | |
| `Revisions` | what an update promises: a private version, committed whole | abstract |
| `Overlay` | `OverlayBase`, `Overlay`, `Update`, the sections and their reader | implements `Revisions` |
| `SearchState`, `TuiSearch` | the search bar, its tasks, the epoch and the channel: the state and its promises, and the steps | |
| `TreeState`, `TuiExplorer` | tree passes, selection, jumps, history, inspector, in the same way | |
| `TuiPanes` | hex, preview and Markdown panes and their loads | |
| `Selection` | the selected node | part of `TreeState` and `TuiPanes` |
| `BlockOnProofs`, `ChunkCacheProofs`, `HttpReadProofs`, `ObjectFetchProofs`, `XrefChainProofs`, `ImporterProofs`, `OverlayProofs` | theorems about the module they are named after | |
| `TuiProofs` | theorems about `TuiPanes`, `TuiSearch` and `TuiExplorer` | |
| `Picks` | the elements of a sequence at some positions, a helper of the explorer's modules | |
| `MC*` | instances for TLC | |

### BlockOn

`stack[t]` is the nesting of calls on a thread, `phase[c]` the program counter of
a call (`poll` in the future's poll, `test` at the `swap` of the `while`
condition, `park` at `thread::park`, `swap` and `drain` in the `Poll::Ready`
arm).  Each atomic swap, park and unpark is one action; `Notify` and `Unpark` are
the two halves of `ThreadWaker::notify`, so anything happens between them.  An
agent that wakes is another thread or a thread inside a poll.  The futures are
external: `Complete` is the event one waits for, `StrayWake` a wake nothing
stands behind.  `ParkSpuriously` is a return of `park` the standard library
permits.

### ChunkCache

One action per critical section of the mutex and one per inner read.  The content
of a file is the identity function on positions, so a wrong byte is a wrong
number.  LRU stamps are only compared, so the model keeps the order `recency`
they define.  `DecideRun` computes with the state at its own lock, `InsertPiece`
with the state at another: readers interleave there as they do in the code.
`Drop` is the caller dropping the future at its only await, `FetchFails` an error
of the inner backend.  `ImplementsReadAt` uses the inherited variables `asked` and
`answers` as the refinement: `Deliver` must answer exactly `Promised`.

### HttpRead

`read[r]` is where a read is in `read_at`: about to send, backing off, collecting a
ranged body or the whole one.  Every await is a step boundary: `Send`, `Refused`
and `ServerError` (the retry loop with its `attempt`), `Answered`, one `Chunk` of a
body, its end or failure.  The server is external: it may give any answer at any
time and end any body early, and the bytes it sends are those of the resource.
`full` is the `OnceLock`: `Kept` is its race.  Two variables are histories:
`refusals`, the 5xx answers a read had, for `TransientErrorsAreHidden`, and `served`,
the answers read from a whole body, for `RacingBodiesAgree`.  A ranged answer and one
from a whole body may be short at different places, and nothing is said of that.

### ObjectFetch

A task is a stack of frames, one per call of `get_object`, `resolve` and the
container builders, and a step goes from one access to shared state, or one read
of the file, to the next.  `mode` selects the document: in the asynchronous one
tasks interleave and each carries its `chain`; in the synchronous one one task runs
at a time and the chain is the `loading` guard.  An object is known by what the
fetches look at: its kind, how its `/Length` was found (`declared` or `recovered`),
whether its strings are still ciphertext.  A call loads while its number is on the
chain (`Loading`): the fetches of both documents, and the container builder of the
asynchronous one.  Opening an encrypted file fetches
`/Encrypt` and the crypt filters before `SetKey`, or before `OpenFails` when no key comes
of them.  `Uncached` is the reference: what
a fetch gives with no cache, no other fetch and no failed read, each object made
(`Made`) of the ones its fetch itself needs (`Needs`).  It is a reference in
`PlainFiles`: no object needs itself along any path (there is a rank that falls),
no reference leads to a reference, and no stream is inside a container (the format
forbids both of the latter).  In other files an answer does depend on where a
fetch begins, and there `NoReentry` and `FetchesEnd` are what is promised.

### XrefChain

A section is where it is, the numbers it defines and where it points; the table
keeps for a number the section its entry is from, so precedence is visible.  `Walk`
has `acc`, `visited` and `next` of `load_chain` and of `load_xref_chain`, which are
one set of actions where the code is the same and differ in `ReadFails`, in where a
broken section leads (`GivenUp`: either way the table gathered so far is dropped)
and in `Scan`.  `Queued` is what the iterator's `pending` is fed with.  `Chain` and
`Newest` are the reference.

### Importer

`slots` are the writer's, with the source object each was reserved for (a history);
`map` and `pending` are the importer's.  One action per call (`Reference`,
`Substitute`, `Document`, `Page`) up to its first await, and the drain as `Draw`
(pop and await `get`), `Copy`, `CopyFails`, `FillSubstitute`.  `DropCall` is the
caller dropping the future while it waits.  A body is its set of references, and
the order a dictionary lists them in is arbitrary (`Orders`).  `NextSource` is the
next importer of `merge_documents` on the same writer, `Finish` the writer's check
that no slot is empty.

### Overlay

`file` is the sequence of cross-reference sections, each a set of rows that hold
the object's body in place of its offset.  An update is `Open` (with
`from_document`'s rule for the first free number), any number of `Set`, `Remove`,
`Reserve`, `Put` and `SetMetadata`, and `AppendSection` or `Discard`; the appended
file may be opened again.  `Winners`, `FreeRows` and `StreamRows` are the steps of
`section`.  `set` and `remove` share the guard for number 0 and the saturating
increment (`Raised`, `Past`).  `set_metadata` reads the *base's* dictionary (so
it allocates anew when an earlier call of the same update allocated one), and
rewrites the XMP packet if the catalog names one.  The reader's side, `ReadsAs`,
is the precedence of `Xref::merge`: the newest row of a number wins.
`Revisions` has no sections or numbers to allocate: `View` is what a reader
finds and `Replay` what a log makes of it, change by change.

### SearchState and TuiSearch

Keys are handled on the event-loop thread together with the commands they return,
hence in one step.  A task is split where another thread can act: the epoch check
(`Stop`, `Check`) and the send (`Send`, `Finish`).  The channel is a sequence.
`Matches(q)` is any function of the query; `AllHits`, the objects at the matching
positions (`Picks`), is the list a finished search must show.

### TreeState and TuiExplorer

No background task reads anything the event loop writes, so a task together with
its messages in the channel is one thing: an answer under way (`pass[req]`, the `tasks` of
`contents[i]`, `fetches`).  A pass yields its elements in order in batches
(`TreeBatch`) and ends with a last one (`TreeDone`).  It never fails: `TreeFailed` is
sent only when nothing was readable, while the physical pass always yields the trailer
and the logical pass never an error (aio stream.rs 246-268).  What fails, and is
retried, is the load of a page's Contents folder (`ExpandContents`, `ContentsLoaded`,
`ContentsFailed`).  An element is told apart by its kind and the object it names, a
page also by its index, so two pages may share an object; a stream by its page and its
place there.  `OnSelect` is `on_select` with
the bookkeeping of its generation.  Since a jump inside `TreeDone` selects twice, it
takes the earlier selections of the same message as a parameter.

### TuiPanes

The answers under way are the requests themselves; each comes back once, in any
order, with the generation of its request.  `Select` is the part of `on_select`
that concerns the panes, `Resize` and `MoveDivider` the two ways a size changes (the
first debounced by `Tick`), `ScrollHex` the keys of the hex pane followed by
`ensure_hex_window`.  Bytes are counted in hex lines.

## 3. Runs

| Run | Configuration | Checks |
|---|---|---|
| `block_on` | 2 threads, 1 waker, 2 calls, nesting 2, 2 stray wakes, fairness | `NoLostWakeup`, `EveryCallReturns`, `ImplementsWakeups` |
| `cache` | 2 readers, 3 reads, chunks of 2, a budget of 3 chunks, a source of 7 bytes that declares 11, fairness | `AccountingExact`, `RunStaysResident`, `ImplementsReadAt`, `ReadsEnd` |
| `http` | 2 readers, 3 reads, 2 retries, a resource of 4 bytes that declares 3, fairness | `ImplementsShortReads`, `RacingBodiesAgree`, `TransientErrorsAreHidden`, `ReadsEnd` |
| `document` | 2 tasks, 2 requests, 1 failed read, six files of five objects, both documents, fairness | `NoCiphertextLeft`, `CacheIsTransparent`, `AnswersAreOfTheFile`, `NoReentry`, `FetchesEnd` |
| `open` | every file of three sections and a hybrid stream, pointing anywhere, 1 failed read, fairness | `NewestRevisionWins`, `DocumentsAgree`, `WalksEnd` |
| `importer` | three graphs of five objects, two sources in a row, 3 calls, fairness | `NeverFilledTwice`, `HolesAccountedFor`, `CopyHasTheShape`, `PagesAreTheirOwn`, `CallsReturn` |
| `overlay` | both styles, up to two sections over the base, 2 changes each | `SizeCovers`, `FreeChain`, `OneRowPerNumber`, `FreshNumbers`, `ImplementsRevisions` |
| `search` | 5 keys, queries of up to 2 characters, 3 objects, fairness | `HitsOfTheQuery`, `SearchEnds` |
| `explorer` | 6 keys, batches of 2, an object that is also a page, a trailer, a contents stream that does not exist, fairness | `InspectorFollowsSelection`, `RetriesLoadOnce`, `DeferredJumpTaken`, `ObjectsGetShown` |
| `panes` | 5 keys and resizes, 0 or 2 pages, two sources of more than one window, 2 sizes, fairness | `PanesShowTheirPage`, `PreviewFitsThePane`, `PanesFollowSelection`, `HexShowsItsSource`, `PanesSettle` |

The type invariant of a module is a conjunct of one of its invariants, so that it
is evaluated in every state without a property of its own.

Two more runs show a disagreement between the code and what the repository says
of it; each checks one property, which TLC violates:

* `importer_identity` (`FirstImportKeepsIdentity`): `page_with` copies a page's
  dictionary before it looks the page up in the map, so a page whose own dictionary
  leads back to it is copied beside the object the rest of the graph refers to
  (importer.rs 208-212 promises the contrary).
* `http_contract` (`ShortOnlyAtTheEnd`): the `Backend` trait allows a short count at
  the end of input only (backend.rs 20-22), and `HttpBackend` answers short wherever a
  body was cut, which its own comment says (backend.rs 338-341).  Callers here ask
  again until an answer is empty (`CachedBackend`, cache.rs 101-113;
  `Fetcher::read_range`, document.rs 69-83), so a cut range costs them another request;
  a whole body that was cut is kept, and what it lacks stays out of reach.
  `ImplementsShortReads` is therefore stated against `ReadAt`'s short form, not against
  the trait's words.

Other differences were met while modelling.  The models do as the code does, and no
property claims otherwise:

* Emptying the search query starts a new generation but sends no command
  (app.rs 767), so the tasks' epoch is not advanced: the hits of the old search
  are dropped, its work goes on.  An accepted search keeps its generation, so
  reopening the bar with `/` shows its further hits under an empty query.
* A debounced resize asks for the preview of page 1 when the selection has no page
  (app.rs 1011), where app.rs 924-925 says such a selection keeps the page shown.
* The element iterator lists a hybrid stream that does not parse differently from
  the loaders (elements.rs 302-320 against aio document.rs 1979-1986), and the
  asynchronous loader takes a hybrid stream whose *read* failed for a broken one
  (aio document.rs 2014).  `DocumentsAgree` and `NewestRevisionWins` leave both out.
* A stream that is itself inside a container serves as a container in the synchronous
  document (`objstm_handle` fetches it like any object) and is refused by the
  asynchronous one (aio document.rs 1242-1250).  The format forbids such a file and
  `PlainFiles` leaves it out.

### Bounds

Every bound is a constant or a guard that names it.  `MaxDepth`, `MaxStray`: one
nested call is enough for the stolen token, two stray wakes for a token and a
flag left over together; what a third call or thread could do to the safety
properties is settled by the theorems.  `MaxReads`: two overlapping reads race, a
third meets what they left.  A budget of three chunks with reads of up to three
evicts in the middle of an insertion; `BudgetShare` is 1 there because a quarter of
three chunks would make every run a single chunk.  `Retries` is the code's.
`MaxFaults` = 1: one failed read is what separates a cached object from its
reference, and what splits the two loaders.  `MaxRequests` = 2 makes two fetches
concurrent or one meet what the other cached; the five objects of `MCObjectFetch`
are arranged as a length in a container whose own length and count are references,
as knots of those, as a ring, and as an encrypted file.  Three sections with every
pointer among them have every chain, loop and hybrid the walks tell apart.
`MaxCalls` = 3 lets a call be dropped, another go on, and a third come to the next
source.  `MaxChanges` = 2 with two sections has set and set again, free, and a
section over a section over the base.  `Limit` keeps the numbers handed out below
`MaxNum`, the width of the type.  `MaxKeys` = 5 allows two restarts of a search, an
accept, a reopening and one key more, and in `panes` a selection, both panes, a
resize during a render and one during its debounce.  In `explorer` `MaxKeys` = 6: three
keys load the page and reach its Contents folder, two ask for its load and again after
a failure, and one jumps or moves away in between.  `Batch` = 2 with two
physical elements makes a full batch and an empty last one, or a last one alone when
the object is unreadable; `Window` = 2 with five lines
makes three windows, the last one short.

Deadlock is not checked: each instance stops when its bounds are used up, and in
the code a call that nobody wakes may wait for ever.

### Fairness

Only what the code's scheduling gives.  `BlockOn`: a thread that can take a step
does, a waker that began finishes, and "something eventually wakes it", the
proviso of `block_on`'s comment; nothing makes `park` return spuriously.
`ChunkCache`, `HttpRead`: a woken read is polled, the inner backend or the server
answers (with data, an end or an error), the backoff timer fires; nobody is made to
drop a read.  `ObjectFetch`, `Importer`, `XrefChain`: a task or call whose read was
answered is polled, a loader runs to its end; which answer it gets, and whether a
read fails, is free.  `TuiSearch`, `TuiExplorer`, `TuiPanes`: the runtime runs every
spawned task, `select!` takes what the channel holds, and the clock ticks; no key is
ever pressed by fairness.

## 4. Proofs

The safety properties of every passing run are theorems, for every value of the
constants.

`BlockOnProofs`, for any sets of threads, wakers and calls, any depth and any
number of stray wakes:

* `TypeCorrect` and `WakeupsAreNeverLost`.  `NoLostWakeup` is not inductive: a
  nested call may take the token a parked call relies on.  `IInv` adds that calls
  on a stack belong to that thread (`StackedCallsBegan`), that only the innermost
  call of a thread is outside its poll, so at most one waits for the token
  (`OneWaiterPerThread`), and that a waker belongs to a call that began
  (`WokenCallsBegan`).
* `BlockOnImplementsWakeups`: each step maps to a step of `Wakeups` or stutters.

`ChunkCacheProofs`, for any readers, requests, chunk size, budget and lengths, with
reads that overlap, fail or are dropped anywhere:

* `EveryByteIsTheSources`: the invariant `IInv` = `RecencyInv` (the order of use lists
  the resident chunks, once each), `ContentInv` (a resident chunk is the source's
  bytes at its place), `BooksInv` (the counter is the weight of the residents),
  `BatchInv` (a run lies in the file and fits its share of the budget) and
  `ReadersInv` (what a reader copied, and what it fetched, is the source's).
* `TheBooksAreExact`: `AccountingExact`.  The weight is a sum over a set; the lemmas
  on adding and removing one chunk are proved once, from the fold's definition.
* `TheCacheImplementsReadAt`: `ImplementsReadAt`.  Only the end of a read is not a
  stutter of `ReadAt`, and the invariant makes its bytes the promised ones.
* `RunsAreNotTheirOwnVictims`: `RunStaysResident`, the action property: the pieces of
  a run are the most recent, so evicting stops before them while anything else is
  resident.

`HttpReadProofs`, for any readers, requests, retries and lengths:

* `BodiesStayWithinTheResource`: the invariant `IInv` = `TypeOK`, `WaitingIsReading`
  (a read that waits is one the caller made, and conversely) and
  `BodiesAreOfTheResource` (what was collected of a body is there in the resource).
* `AllAreServedOneBody`: `RacingBodiesAgree`, by the invariant `ServedFromTheBody`
  (once anything was served a body is kept, and all that was served is what it gives).
* `RetriesComeBeforeErrors` (the 5xx answers counted are the attempts made, so giving
  up means they were all used), and
  `HttpReadImplementsShortReads`: the only step that is not a stutter of `ReadAt` is
  the end of a read, whose bytes the invariant bounds.

`ObjectFetchProofs`, for any files, objects, tasks, requests and failed reads, and
both documents:

* `ChainsAreTheirCalls`: the invariant `IInv`.  A task's chain lists the numbers of
  the calls on its stack that load, in order and each once (`IsPath`); a call about
  to cache an object has one, and not as ciphertext once the document is open
  (`HasObject`); nobody else runs while the document is opened, and an open
  encrypted document has its key (`OpenedAlone`).  Every step of a fetch is one of
  four (a call returns, leaves the chain, goes on, or enters the chain), each of
  which keeps `IsPath` by a lemma of its own.
* `NothingIsLoadedTwice`: `NoReentry`, by the chain being one-to-one.  The guard is
  what makes the recursion of a fetch finite, so this is the safety half of
  `FetchesEnd`.
* `NoCiphertextIsLeft`: no cached object of an open document was read without the key.
* `TheCacheIsTransparent` and `AnswersComeFromTheFile`: `CacheIsTransparent` and
  `AnswersAreOfTheFile`.  First the reference: the recursive function in `Uncached`
  exists (`GotExists`), and by induction over the rank of an object its last value
  is a fixed point (`AnswersAreMade`): an object's ideal answer is made of those of
  what it needs.  Then the invariant `PInv` (`CallsKnowTheirObjects`), which adds to
  `IInv` where a request and the opening stand (`Course`) and, in a plain file whose
  containers can be read, `Known`: a cached object tells what its ideal answer does
  (`Stored`), a decoded container what it decodes to (`Unpackings`), and each task is
  `Sound`.  That is: every call on its stack waits for the call above it (`Awaits`),
  which is about something of lower rank (`Before`), the last answer is what the
  call at the top was to hear (`Heard`), and a finished request has its answer.
  Falling ranks are why a plain file is never told `Circular` (`NotGuarded`): the
  guard sees the numbers of the calls further up only, all of higher rank.  What is
  known speaks of the `World` (file, document, phase, failures), so that a step of
  one task keeps what is known of the others (`LaterSound`): it only lets more reads
  have failed.  It assumes the finite set of numbers a file has, and a `MaxDepth` of
  at least 3 (the code's is 32).

`XrefChainProofs`, for every file, of any number of sections pointing anywhere, with
failed reads and in any order of steps:

* `TheDocumentsAgree`: `DocumentsAgree`.  There is one run over the sections of a
  file (`Advance`: a section and its hybrid stream), and each walk is on it: the
  loaders by `Follows`, whether between sections or about to read a stream, the
  iterator by `Visits`, whether between sections, halfway through one or after a
  broken one.  A state the run reaches (`Leads`) is in every set of states that
  has the start and is closed under `Advance`, which replaces induction along the run
  (`AllAlong`); the run stops in one state (`OneEnd`), so all who stopped agree.
  The asynchronous loader is on the run only while no read of its has failed
  (`Healthy`), as the property says.
* `TheNewestRevisionWins`: `NewestRevisionWins`.  The function behind `Chain`
  exists (`UptoExists`), its value follows `/Prev` until it stops or has more sections
  than there are places (`ChainIs`), and the run reads it in order (`Read`): the
  places read are as many as the sections of the chain read, so a chain that has not
  stopped by then has come back to one of them.  On a regular file a hybrid stream
  is read with its own section only (`Tidy`), so a number's entry in the table is
  that of the first section on the chain with one (`TableOf`), which is what `Newest`
  chooses.

`ImporterProofs`, for any object graphs, sources and calls:

* `NothingIsCopiedTwice`: `NeverFilledTwice`.  `IInv` adds that the map is
  one-to-one into the slots and agrees with their origins, that whatever waits is in
  the map, and that something is drawn only during a call (`Sound`,
  `DrawnByACall`).  All four kinds of call grow slots, map and queue by the same list
  of unseen objects, which `GrowingIsSound` proves once.
* `NoHoleIsUnexplained`, `TheCopyHasTheShape` and `EveryCallGetsItsPage`:
  `HolesAccountedFor`, `CopyHasTheShape` and `PagesAreTheirOwn`, by the invariant
  `IInv` with `Traced`, one part for each fact about a slot: the object it was
  reserved for (`OriginsInv`), why it is empty (`HolesInv`), that its body's
  references are those of its object, translated (`ShapeInv`), that an object has
  one slot (`SharingInv`), and which call a page came from (`PagesInv`).  `Effect` is
  what a list of references does to a state, and each call's step is one `Effect`.

`OverlayProofs`, for every base, both styles, any number of changes, updates and
sections, under `NumbersFit` (callers and the catalog name no number that is the
largest of its type, and reserving stops before it.  The hypothesis is needed:
`set` raises the next number by a saturating addition, so object 2^32-1 would be
handed out again):

* `NumbersStayBelowNext`: the invariant `IInv` = `TypeOK`, `FileInv`, `StageInv`.
  While an update is open, every number in the file, in the log or handed out is
  below `next`.  The properties below need it; none of them is inductive alone,
  since none speaks of `next`.
* `HandedNumbersAreFresh`, `SizesCoverEveryNumber` and `RowsAreUnique`.  The last
  one adds that a number has one winner in the log, a freed number one successor
  in the chain, and that entry 0 and the stream's own number are not in the log.
* `FreeEntriesAreChained`: `FreeChain`.  Each freed number's row points at the least
  freed number above it, or at 0 from the greatest; least and greatest elements come
  from the well-foundedness of the naturals (`Extremes`).
* `SectionsCommitWhatWasStaged`: `ImplementsRevisions`.  The invariant is `RInv` =
  `IInv` with `FreedAreEmpty` (a free row has no body) and `HeadsAreFree` (entry 0 is
  free in every section).  `Replay`, a fold, has the closed form `Outcome` (the
  body of a number's last change), proved by induction over the prefixes of a log
  (`SubsetInduction`); committing a section is then equality of the winners' rows
  with that outcome.  It assumes `HeadIsFree` besides: entry 0 of a base is free,
  which the format says of every file, and which keeps the row for entry 0 of an
  appended section from changing what a reader finds.

`TuiProofs` has three parts that share nothing but names of variables.  The second and
third instantiate `TuiSearch` and `TuiExplorer` and prove what `SearchState` and
`TreeState` promise.

The panes, for any tree, pages, sources, pane sizes, window and number of keys:

* `AnswersFitTheirPanes`: the invariant `IInv`.  No answer under way is of a later
  generation than its pane's, and one of the pane's own generation is an answer to
  what the pane waits for: its bytes are of the source the pane shows, its render of
  the page and size it was asked at.  Each property needs it at the step that
  delivers an answer.
* `SettledPanesShowTheirPage`, `SettledPreviewsFit`, `ActivePanesFollow` and
  `HexBytesAreTheSelections`: the four safety properties of the `panes` run.

The search, for any characters, objects, matches and number of keys:

* `TheHitsAreTheQuerys`: `HitsOfTheQuery`.  The property is about the list alone; the
  invariant `SearchInv` is about everything that may still change it.  While the
  query is not empty (`Listing`), the epoch is the generation, the task of that
  generation searches that query, and the list begins its matches.  The messages of
  that generation in the channel continue the list, one match each and in order, up
  to what the task has sent so far, and a `SearchDone` comes after the last of them
  (`Coming`).  Messages of other generations lie anywhere between and do not count
  (`Counts`); no message is of a generation still to come.  A task that
  passed its check holds a match it has not sent (`TaskOK`), so the epoch may move
  between its check and its send.  It assumes `ObjectsAreListed`: the element pass
  yields a sequence.
* `Picks` is a recursive function of the position: that it exists, and what it adds
  position by position (`SentGrows`), is proved by the well-foundedness of the naturals.

The tree, selection and inspector, for any file, batches, failed loads, retries,
jumps and keys:

* The invariant `ExplorerInv` = `TreeOK`, `ContentsOK`, `SelectionInv`.  A section is
  loading exactly while a pass runs for it; a node of the tree is an element its pass
  has already read (`Reached`), and none is there twice.  A Contents folder waits for
  one task exactly while it loads, and has its page's streams once loaded and none
  before: so an answer finds it loading, and a retry finds it empty (`FolderOK`).  A
  fetch of the current generation is that of the selected node, and the history is
  within its cap.
* `TheInspectorFollowsTheSelection` and `ARetryLoadsNothingTwice`:
  `InspectorFollowsSelection` and `RetriesLoadOnce`.  A batch may end with a jump that
  selects twice and loads a section (`TreeDone`), and each of those keeps the parts it
  touches.
* `NoJumpIsForgotten`: `DeferredJumpTaken`, an invariant and an action property.  A
  jump waits only while the physical pass loads, so a pass that ends without taking it
  is the physical one (`JumpStep`).
* All three assume `FileIsListed` (each pass yields a sequence without repetitions,
  objects and the trailer the one, pages with distinct indices the other; a page's
  contents name a sequence of references; "no reference" is not a reference) and a
  positive `HistoryCap`.

Only model-checked: the liveness properties (`EveryCallReturns`, `ReadsEnd`,
`FetchesEnd`, `WalksEnd`, `CallsReturn`, `SearchEnds`, `ObjectsGetShown`,
`PanesSettle`), which need fairness and `ENABLED`.

## 5. Not modelled

Parsing, codecs, fonts, rendering, text geometry, Markdown and the bindings are
functions of their input with no state between calls; a model of one would be a
transliteration.  They are most of the repository's lines.  Cryptography is
arithmetic out of TLC's reach.  In the modelled parts: object generations (the
reader ignores them), byte offsets and the `/ID` of an update, imported pages and
stamps, the asynchronous sink; the cache's fetch observer; the HEAD request of the
HTTP backend and `FileBackend`; page-tree flattening, the lenient wrappers of a
fetch; what the recovery scan finds (any table); the emission of a written file and
`page_with`'s look at the page's own object before the call (importer.rs 214-226);
the fonts, images and annotations of a page, collapse state, decode views and yank of
the explorer, the Markdown scroll.

## 6. Plan

In the order they are worth most:

1. `PageFork`: workers drawing page indices from a shared counter (core
   document.rs 1121), with exactly-once proved.
2. The asynchronous append of `Overlay`: a sink whose writes are short or fail
   between the base and the section (aio update.rs 92).
3. `ElementStream`: the rest of the element iterator and the poll-driven
   asynchronous stream, over `XrefChain`.
4. `TreeWalk`: the cycle guard the catalogue readers share.
5. `ChunkCache` over `HttpRead`, with a backend of short reads.

A module of this plan comes with the theorems of its safety properties; liveness
stays with TLC.
