---------------------------- MODULE ObjectFetch -----------------------------
(***************************************************************************)
(* Fetching indirect objects through the caches of a document: the         *)
(* asynchronous one (pdfboss-aio/src/document.rs), whose fetches run       *)
(* concurrently, each with the chain of objects it is loading, and the     *)
(* synchronous one (pdfboss-core/src/document.rs), which has one set of    *)
(* them.  Opening an encrypted file fetches objects before there is a key. *)
(*                                                                         *)
(* A fetch is a stack of calls; a step goes from one access to shared      *)
(* state, or one read of the file, to the next.  A read may fail.  An      *)
(* object is known by what the fetches look at: its kind, how its /Length  *)
(* was found, and whether its strings are still ciphertext.                *)
(***************************************************************************)
EXTENDS Integers, Sequences, FiniteSets, SequencesExt

CONSTANTS
    Nums,        \* object numbers; 0 stands for a value written directly
    Files,       \* records [entries, encrypt, clearStreams], see FileType
    Modes,       \* of documents: "async", "sync"
    Tasks,       \* concurrent callers
    Opener,      \* the one that opens the document
    MaxDepth,    \* `MAX_RESOLVE_DEPTH`: 32 in the code
    MaxRequests, \* bound: requests made of an open document
    MaxFaults    \* bound: reads that fail

Refs == Nums \cup {0}

\* A cross-reference entry with what the file has there: the object's kind, its
\* /Length and /N when those are references, its container, what it refers to.
Kinds == {"int", "dict", "stream", "ref"}
Entry == {e \in [at : {"free", "file", "stream"}, kind : Kinds,
                 length : Refs, n : Refs, container : Refs, to : Refs] :
             (e.at = "stream" => e.container # 0) /\ (e.kind = "ref" => e.to # 0)}

\* `encrypt` lists what opening resolves: /Encrypt and its crypt filters.
FileType == [entries : [Nums -> Entry], encrypt : Seq(Nums), clearStreams : BOOLEAN]

ASSUME ObjectFetchAssumption ==
    /\ 0 \notin Nums /\ IsFiniteSet(Nums) /\ Opener \in Tasks
    /\ \A f \in Files : f.entries \in [Nums -> Entry] /\ f.encrypt \in Seq(Nums)
    /\ MaxDepth \in Nat \ 0..2 /\ MaxRequests \in Nat /\ MaxFaults \in Nat

VARIABLES
    file,     \* the file, which does not change
    mode,     \* the kind of document
    phase,    \* "opening", "clearing", "open" or "failed"
    key,      \* whether `decryptor` is set
    objects,  \* `objects`, `cache`: the cached objects
    objstms,  \* `objstms`: the decoded containers
    task,     \* task[t]: [stack, chain, ret], see Frame
    last,     \* history: the last request of each task, with its answer
    opened,   \* how many of `encrypt` were resolved
    requests, \* requests left
    faults    \* reads that may still fail

docVars == <<file, mode, phase, key, opened>>
vars == <<docVars, objects, objstms, task, last, requests, faults>>

\* A result: an object or an error.
Value(kind, length, text, to) == [kind |-> kind, length |-> length, text |-> text, to |-> to]
Failure(kind) == Value(kind, "none", "plain", 0)
Circular == Failure("circular")
Missing == Failure("missing")
Null == Failure("null")
Built == Failure("built")
IsError(v) == v \in {Circular, Missing}

Values == {v \in [kind : Kinds \cup {"circular", "missing", "null", "built"},
                  length : {"none", "declared", "recovered"}, text : {"plain", "cipher"},
                  to : Refs] : v.kind = "ref" => v.to # 0}

\* A call: its function, the number it is about, where it is, the iterations of
\* its loop, and the object it has parsed.
Frame(fn, n, at) == [fn |-> fn, num |-> n, at |-> at, depth |-> 0, val |-> Null]

Frames == [fn : {"fetch", "container", "resolve"}, num : Nums,
           at : {"begin", "read", "length", "again", "parsed", "container", "object", "n",
                 "decode", "store", "got"}, depth : Nat, val : Values]

\* Whether a call of a document of kind m has its number on the chain.
Loading(m, f) == f.at # "begin" /\ (f.fn = "fetch" \/ (f.fn = "container" /\ m = "async"))

Encrypted == file.encrypt # <<>>
E(n) == file.entries[n]

TypeOK ==
    /\ file \in Files /\ mode \in Modes
    /\ phase \in {"opening", "clearing", "open", "failed"}
    /\ key \in BOOLEAN
    /\ DOMAIN objects \subseteq Nums /\ DOMAIN objstms \subseteq Nums
    /\ \A n \in DOMAIN objects : objects[n] \in Values /\ objects[n].kind \in Kinds
    /\ \A n \in DOMAIN objstms : objstms[n] \in Values
    /\ task \in [Tasks -> [stack : Seq(Frames), chain : Seq(Nums), ret : Values]]
    /\ opened \in Nat /\ faults \in 0..MaxFaults /\ requests \in 0..MaxRequests

Waiting == [stack |-> <<>>, chain |-> <<>>, ret |-> Null]

Init ==
    /\ file \in Files /\ mode \in Modes
    /\ phase = IF Encrypted THEN "opening" ELSE "open"
    /\ key = FALSE
    /\ objects = <<>> /\ objstms = <<>>
    /\ task = [t \in Tasks |-> Waiting]
    /\ last = [t \in Tasks |-> [fn |-> "none", num |-> 0, ret |-> Null]]
    /\ opened = 0
    /\ requests = MaxRequests
    /\ faults = MaxFaults

-----------------------------------------------------------------------------
Top(t) == task[t].stack[Len(task[t].stack)]
Below(t) == Front(task[t].stack)
Running(t, fn, at) == task[t].stack # <<>> /\ Top(t).fn = fn /\ Top(t).at = at
Ret(t) == task[t].ret

\* The call at the top of t's stack goes on as `frame`, calling `calls`.
Goes(t, frame, calls) == [task[t] EXCEPT !.stack = Below(t) \o <<frame>> \o calls]
Going(t, frame, calls) == task' = [task EXCEPT ![t] = Goes(t, frame, calls)]

\* It returns; `Leaving` also takes its number off the chain.
Returning(t, v) ==
    /\ task' = [task EXCEPT ![t].stack = Below(t), ![t].ret = v]
    /\ last' = IF Len(task[t].stack) > 1 THEN last ELSE [last EXCEPT ![t].ret = v]
Leaving(t, v) ==
    /\ task' = [task EXCEPT ![t].stack = Below(t), ![t].ret = v, ![t].chain = Front(@)]
    /\ last' = IF Len(task[t].stack) > 1 THEN last ELSE [last EXCEPT ![t].ret = v]

Start(t, fn, n) ==
    /\ task' = [task EXCEPT ![t].stack = <<Frame(fn, n, "begin")>>]
    /\ last' = [last EXCEPT ![t] =
                  [fn |-> IF phase = "open" THEN fn ELSE "opening", num |-> n, ret |-> Null]]

\* `get_object` and `resolve` of an open document.
Request(t, fn, n) ==
    /\ phase = "open" /\ requests > 0
    /\ mode = "sync" => t = Opener
    /\ task[t].stack = <<>>
    /\ Start(t, fn, n)
    /\ requests' = requests - 1
    /\ UNCHANGED <<docVars, objects, objstms, faults>>

-----------------------------------------------------------------------------
\* Mutant of Guarded: The guard is not asked.
GuardedNever(t, n) == FALSE

\* Mutant of Guarded: One guard for all the fetches of the document.
GuardedByAll(t, n) == \E u \in Tasks : n \in ToSet(task[u].chain)

\* Whether n is being loaded further up this call path.
Guarded(t, n) == n \in ToSet(task[t].chain)

\* `fetch_object_cached`, `get`: the cache first, then the guard.
Hit(t) ==
    /\ Running(t, "fetch", "begin")
    /\ Top(t).num \in DOMAIN objects
    /\ Returning(t, objects[Top(t).num])
    /\ UNCHANGED <<docVars, objects, objstms, requests, faults>>

Refuse(t) ==
    /\ Running(t, "fetch", "begin")
    /\ Top(t).num \notin DOMAIN objects
    /\ \/ Guarded(t, Top(t).num) /\ Returning(t, Circular)
       \/ ~Guarded(t, Top(t).num) /\ E(Top(t).num).at = "free" /\ Returning(t, Missing)
    /\ UNCHANGED <<docVars, objects, objstms, requests, faults>>

Load(t) ==
    /\ Running(t, "fetch", "begin")
    /\ LET f == Top(t)
           n == f.num
       IN  /\ n \notin DOMAIN objects
           /\ ~Guarded(t, n) /\ E(n).at # "free"
           /\ task' = [task EXCEPT ![t] =
                 [IF E(n).at = "file" THEN Goes(t, [f EXCEPT !.at = "read"], <<>>)
                  ELSE Goes(t, [f EXCEPT !.at = "container"],
                            <<Frame("container", E(n).container, "begin")>>)
                  EXCEPT !.chain = Append(@, n)]]
    /\ UNCHANGED <<docVars, objects, objstms, last, requests, faults>>

\* The object at an offset; its strings are decrypted once there is a key.
Text == IF Encrypted /\ ~key THEN "cipher" ELSE "plain"
Parsed(n, length) == Value(E(n).kind, length, Text, E(n).to)

\* Mutant of Measured: The parse made before the length was known is kept.
MeasuredNever(length) == "recovered"

\* The re-parse with the length that was fetched, or the recovery scan's result.
Measured(length) == IF length.kind = "int" THEN "declared" ELSE "recovered"

\* `parse_in_file`, `object_at_spanned`: one read, and an indirect /Length is
\* fetched before the object counts as parsed.
Parse(t) ==
    /\ \E fn \in {"fetch", "container"} : Running(t, fn, "read")
    /\ LET f == Top(t)
       IN  IF E(f.num).length = 0
           THEN Going(t, [f EXCEPT !.at = "parsed", !.val = Parsed(f.num, "none")], <<>>)
           ELSE Going(t, [f EXCEPT !.at = "length"],
                      <<Frame("fetch", E(f.num).length, "begin")>>)
    /\ UNCHANGED <<docVars, objects, objstms, last, requests, faults>>

\* An integer is known: the object is read again and its data taken by it.
GotLength(t) ==
    /\ \E fn \in {"fetch", "container"} : Running(t, fn, "length")
    /\ LET f == Top(t)
       IN  Going(t, [f EXCEPT !.at = IF Ret(t).kind = "int" THEN "again" ELSE "parsed",
                              !.val = Parsed(f.num, Measured(Ret(t)))], <<>>)
    /\ UNCHANGED <<docVars, objects, objstms, last, requests, faults>>

ParseAgain(t) ==
    /\ \E fn \in {"fetch", "container"} : Running(t, fn, "again")
    /\ Going(t, [Top(t) EXCEPT !.at = "parsed"], <<>>)
    /\ UNCHANGED <<docVars, objects, objstms, last, requests, faults>>

ReadFails(t) ==
    /\ \E fn \in {"fetch", "container"}, at \in {"read", "again"} : Running(t, fn, at)
    /\ mode = "async" /\ faults > 0
    /\ faults' = faults - 1
    /\ Leaving(t, Missing)
    /\ UNCHANGED <<docVars, objects, objstms, requests>>

With(cache, n, v) == [x \in DOMAIN cache \cup {n} |-> IF x = n THEN v ELSE cache[x]]

\* The guard is lifted, and the object cached; an error never is.
Cache(t) ==
    /\ Running(t, "fetch", "parsed")
    /\ objects' = With(objects, Top(t).num, Top(t).val)
    /\ Leaving(t, Top(t).val)
    /\ UNCHANGED <<docVars, objstms, requests, faults>>

\* A member of a container: a copy out of the decoded data.
GotContainer(t) ==
    /\ Running(t, "fetch", "container")
    /\ LET n == Top(t).num
           v == Value(E(n).kind, Ret(t).length, "plain", E(n).to)
       IN  IF IsError(Ret(t))
           THEN Leaving(t, Ret(t)) /\ UNCHANGED objects
           ELSE Leaving(t, v) /\ objects' = With(objects, n, v)
    /\ UNCHANGED <<docVars, objstms, requests, faults>>

-----------------------------------------------------------------------------
\* `objstm_cache_with_chain`: the guard first, then the map, then the entry.
Container(t) ==
    /\ mode = "async" /\ Running(t, "container", "begin")
    /\ LET f == Top(t)
           c == f.num
       IN  IF Guarded(t, c) THEN Returning(t, Circular)
           ELSE IF c \in DOMAIN objstms THEN Returning(t, objstms[c])
           ELSE IF E(c).at # "file" THEN Returning(t, Missing)
           ELSE /\ task' = [task EXCEPT ![t] =
                       [Goes(t, [f EXCEPT !.at = "read"], <<>>) EXCEPT !.chain = Append(@, c)]]
                /\ UNCHANGED last
    /\ UNCHANGED <<docVars, objects, objstms, requests, faults>>

\* `objstm_handle`: the container is an object like any other.
Handle(t) ==
    /\ mode = "sync" /\ Running(t, "container", "begin")
    /\ LET f == Top(t)
       IN  IF f.num \in DOMAIN objstms THEN Returning(t, objstms[f.num])
           ELSE /\ Going(t, [f EXCEPT !.at = "object"], <<Frame("fetch", f.num, "begin")>>)
                /\ UNCHANGED last
    /\ UNCHANGED <<docVars, objects, objstms, requests, faults>>

GotObject(t) ==
    /\ mode = "sync" /\ Running(t, "container", "object")
    /\ IF IsError(Ret(t))
       THEN Returning(t, Ret(t))
       ELSE /\ Going(t, [Top(t) EXCEPT !.at = "parsed", !.val = Ret(t)], <<>>)
            /\ UNCHANGED last
    /\ UNCHANGED <<docVars, objects, objstms, requests, faults>>

\* The end of building a container, in either document.
Gone(t, v) == IF mode = "async" THEN Leaving(t, v) ELSE Returning(t, v)

\* `build_objstm_cache`: the container must be a stream, and /N an integer.
Entries(t) ==
    /\ Running(t, "container", "parsed")
    /\ LET f == Top(t)
       IN  \/ f.val.kind # "stream" /\ Gone(t, Missing)
           \/ /\ f.val.kind = "stream"
              /\ IF E(f.num).n = 0 THEN Going(t, [f EXCEPT !.at = "decode"], <<>>)
                 ELSE Going(t, [f EXCEPT !.at = "n"], <<Frame("resolve", E(f.num).n, "begin")>>)
              /\ UNCHANGED last
    /\ UNCHANGED <<docVars, objects, objstms, requests, faults>>

GotN(t) ==
    /\ Running(t, "container", "n")
    /\ \/ Ret(t).kind = "int" /\ Going(t, [Top(t) EXCEPT !.at = "decode"], <<>>) /\ UNCHANGED last
       \/ Ret(t) = Circular /\ Gone(t, Circular)
       \/ Ret(t).kind # "int" /\ Ret(t) # Circular /\ Gone(t, Missing)
    /\ UNCHANGED <<docVars, objects, objstms, requests, faults>>

\* `prefetch_filter_refs`: /Length among them, whatever becomes of it.
Prefetch(t) ==
    /\ Running(t, "container", "decode")
    /\ LET f == Top(t)
       IN  Going(t, [f EXCEPT !.at = "store"],
                 IF mode = "async" /\ E(f.num).length # 0
                 THEN <<Frame("fetch", E(f.num).length, "begin")>> ELSE <<>>)
    /\ UNCHANGED <<docVars, objects, objstms, last, requests, faults>>

\* Decoding: ciphertext does not.  Of concurrent builds the first one is kept.
Store(t) ==
    /\ Running(t, "container", "store")
    /\ LET c     == Top(t).num
           built == [Built EXCEPT !.length = Top(t).val.length]
           kept  == IF mode = "async" /\ c \in DOMAIN objstms THEN objstms[c] ELSE built
       IN  IF Encrypted /\ ~key /\ ~file.clearStreams
           THEN Gone(t, Missing) /\ UNCHANGED objstms
           ELSE objstms' = With(objstms, c, kept) /\ Gone(t, kept)
    /\ UNCHANGED <<docVars, objects, requests, faults>>

-----------------------------------------------------------------------------
\* Mutant of Iterated: The loop of `resolve_with` is not bounded.
IteratedNever(depth) == depth

Iterated(depth) == depth + 1

\* `resolve_with_chain`, `resolve_sync_with`: a bounded number of fetches; only
\* a cycle is an error.
Resolve(t) ==
    /\ Running(t, "resolve", "begin")
    /\ Going(t, [Top(t) EXCEPT !.at = "got"], <<Frame("fetch", Top(t).num, "begin")>>)
    /\ UNCHANGED <<docVars, objects, objstms, last, requests, faults>>

Resolved(t) ==
    /\ Running(t, "resolve", "got")
    /\ LET f     == Top(t)
           depth == Iterated(f.depth)
       IN  \/ Ret(t) = Circular /\ Returning(t, Circular)
           \/ Ret(t) = Missing /\ Returning(t, Null)
           \/ ~IsError(Ret(t)) /\ depth = MaxDepth /\ Returning(t, Circular)
           \/ /\ ~IsError(Ret(t)) /\ depth < MaxDepth /\ Ret(t).kind # "ref"
              /\ Returning(t, Ret(t))
           \/ /\ Ret(t).kind = "ref" /\ depth < MaxDepth
              /\ Going(t, [f EXCEPT !.at = "begin", !.num = Ret(t).to, !.depth = depth], <<>>)
              /\ UNCHANGED last
    /\ UNCHANGED <<docVars, objects, objstms, requests, faults>>

-----------------------------------------------------------------------------
\* `setup_decryption`: /Encrypt must read as a dictionary; the crypt filters
\* that may have objects of their own are looked up, whatever they are.
Idle(t) == task[t].stack = <<>>

OpenNext ==
    /\ phase = "opening" /\ Idle(Opener)
    /\ opened < Len(file.encrypt) /\ (opened = 1 => last[Opener].ret.kind = "dict")
    /\ Start(Opener, IF opened > 0 /\ mode = "sync" THEN "fetch" ELSE "resolve",
             file.encrypt[opened + 1])
    /\ opened' = opened + 1
    /\ UNCHANGED <<file, mode, phase, key, objects, objstms, requests, faults>>

\* /Encrypt is no dictionary, or no key comes of what was read: the password is
\* another one, or the scheme an unknown one.
OpenFails ==
    /\ phase = "opening" /\ Idle(Opener)
    /\ \/ opened = 1 /\ last[Opener].ret.kind # "dict"
       \/ opened = Len(file.encrypt)
    /\ phase' = "failed"
    /\ UNCHANGED <<file, mode, key, opened, objects, objstms, task, last, requests, faults>>

Ready ==
    /\ phase = "opening" /\ Idle(Opener) /\ opened = Len(file.encrypt)
    /\ opened = 1 => last[Opener].ret.kind = "dict"

\* Mutant of SetKey: What was read without the key is kept.
SetKeyKeeping ==
    /\ Ready
    /\ key' = TRUE
    /\ phase' = IF mode = "async" THEN "clearing" ELSE "open"
    /\ UNCHANGED <<file, mode, opened, objects, objstms, task, last, requests, faults>>

\* The key is set and the objects read without it are dropped; the asynchronous
\* document awaits a lock before it drops the containers, the other keeps them.
SetKey ==
    /\ Ready
    /\ key' = TRUE
    /\ objects' = <<>>
    /\ phase' = IF mode = "async" THEN "clearing" ELSE "open"
    /\ UNCHANGED <<file, mode, opened, objstms, task, last, requests, faults>>

ClearContainers ==
    /\ phase = "clearing"
    /\ objstms' = <<>>
    /\ phase' = "open"
    /\ UNCHANGED <<file, mode, key, opened, objects, task, last, requests, faults>>

-----------------------------------------------------------------------------
Step(t) ==
    \/ Hit(t) \/ Refuse(t) \/ Load(t) \/ Parse(t) \/ GotLength(t) \/ ParseAgain(t) \/ ReadFails(t)
    \/ Cache(t) \/ GotContainer(t) \/ Container(t) \/ Handle(t) \/ GotObject(t)
    \/ Entries(t) \/ GotN(t) \/ Prefetch(t) \/ Store(t) \/ Resolve(t) \/ Resolved(t)

Open == OpenNext \/ OpenFails \/ SetKey \/ ClearContainers

Next ==
    \/ Open
    \/ \E t \in Tasks : Step(t) \/ \E n \in Nums : Request(t, "fetch", n) \/ Request(t, "resolve", n)

Spec == Init /\ [][Next]_vars

\* The executor polls every task whose read was answered.
FairSpec == Spec /\ \A t \in Tasks : WF_vars(Step(t)) /\ WF_vars(Open)

-----------------------------------------------------------------------------
\* What a fetch of n may come to need.
Needs(f, n) ==
    LET e == f.entries[n]
    IN  (IF e.at = "stream" THEN {e.container, e.to} ELSE {e.length, e.n, e.to}) \ {0}

\* Files as writers make them: no object needs itself, whatever it leads to, no
\* reference leads to a reference, and no stream is inside a container.
PlainFiles ==
    {f \in Files :
        /\ \E rank \in [Nums -> 0..Cardinality(Nums)] :
              \A n \in Nums : \A m \in Needs(f, n) : rank[m] < rank[n]
        /\ \A n \in Nums : LET e == f.entries[n]
                         IN  /\ e.kind = "ref" => f.entries[e.to].kind # "ref"
                             /\ e.at = "stream" => e.kind # "stream"}

\* What the fetches of f give when those they make themselves give `below`.
Made(f, below) ==
    LET chased(m) == IF below[m].kind = "ref" THEN below[below[m].to] ELSE below[m]
        length(e) == IF e.length = 0 THEN "none"
                     ELSE IF below[e.length].kind = "int" THEN "declared" ELSE "recovered"
        decodes(c) == /\ c.at = "file" /\ c.kind = "stream"
                      /\ c.n # 0 => chased(c.n).kind = "int"
        made(e) == IF e.at = "file" THEN Value(e.kind, length(e), "plain", e.to)
                   ELSE IF e.at = "stream" /\ decodes(f.entries[e.container])
                   THEN Value(e.kind, below[e.container].length, "plain", e.to)
                   ELSE Missing
    IN  [n \in Nums |-> made(f.entries[n])]

\* What a fetch gives with no cache, no other fetch and no failed read.
Uncached(f) ==
    LET got[k \in Nat] == IF k = 0 THEN [n \in Nums |-> Missing] ELSE Made(f, got[k - 1])
    IN  got[Cardinality(Nums) + 1]
Answers == [f \in PlainFiles |-> Uncached(f)]
Plain == file \in PlainFiles
Ideal(n) == Answers[file][n]

\* A failed read may have left an object with its length recovered, where the
\* file declares it: the one thing a failure can leave behind in a cache.
SameBut(v, ideal) ==
    \/ v = ideal
    \/ faults < MaxFaults /\ v = [ideal EXCEPT !.length = "recovered"] /\ ideal.length = "declared"

\* A cached object is what an uncached fetch would give, whichever fetches of
\* whichever tasks raced for it, in both documents (document.rs 1091-1111,
\* 1227-1231; core document.rs 289-305).
CacheIsTransparent ==
    phase = "open" /\ Plain => \A n \in DOMAIN objects : SameBut(objects[n], Ideal(n))

\* And so is an answer: no fetch is told that an object is circular, or missing,
\* because another one is loading it (document.rs 1087-1090: "without blocking
\* unrelated concurrent fetches of the same object").
AnswersAreOfTheFile ==
    Plain =>
        \A t \in Tasks :
            last[t].fn = "fetch" /\ task[t].stack = <<>> =>
                \/ SameBut(last[t].ret, Ideal(last[t].num))
                \/ faults < MaxFaults /\ last[t].ret = Missing

\* The state is well typed, no error is ever cached, and no call path loads an
\* object it is loading already, however the file refers to itself
\* (document.rs 1087-1090; core document.rs 293-297).
NoReentry ==
    /\ TypeOK
    /\ \A t \in Tasks :
          LET s == task[t].stack
          IN  \A i, j \in DOMAIN s :
                 Loading(mode, s[i]) /\ Loading(mode, s[j]) /\ s[i].num = s[j].num => i = j

\* Nothing read before the key was set is seen after it: "drop them so they are
\* re-read through the decrypting path" (document.rs 829-834).
NoCiphertextLeft == phase = "open" => \A n \in DOMAIN objects : objects[n].text = "plain"

\* The strengthening the proofs need.  The chain of a task lists the numbers of
\* the calls on its stack that load, in order, each once.
Count(m, s, i) == Cardinality({j \in 1..i : Loading(m, s[j])})
IsPath(m, s, chain) ==
    /\ Len(chain) = Count(m, s, Len(s))
    /\ \A i \in 1..Len(s) : Loading(m, s[i]) => chain[Count(m, s, i)] = s[i].num
    /\ \A i, j \in 1..Len(chain) : chain[i] = chain[j] => i = j

\* A call that is about to cache an object has one, and not as ciphertext once
\* the document is open, ph being its phase.
HasObject(ph, f) ==
    f.fn = "fetch" /\ f.at \in {"again", "parsed"} =>
        f.val.kind \in Kinds /\ (ph \in {"clearing", "open"} => f.val.text = "plain")

Fits(ph, m, k) ==
    /\ k \in [stack : Seq(Frames), chain : Seq(Nums), ret : Values]
    /\ \A i \in 1..Len(k.stack) : HasObject(ph, k.stack[i])
    /\ IsPath(m, k.stack, k.chain)

\* While the document is opened only one task runs; then there is a key.
OpenedAlone ==
    /\ phase = "opening" => \A t \in Tasks \ {Opener} : Idle(t)
    /\ phase \in {"clearing", "open"} /\ Encrypted => key
    /\ phase \in {"clearing", "open"} => \A n \in DOMAIN objects : objects[n].text = "plain"

IInv == TypeOK /\ OpenedAlone /\ \A t \in Tasks : Fits(phase, mode, task[t])

\* Every fetch ends: no cycle and no container keeps one going, and no two of
\* them wait for each other (document.rs 1228-1230).
FetchesEnd == \A t \in Tasks : ~Idle(t) ~> Idle(t)
=============================================================================
