------------------------------ MODULE HttpRead ------------------------------
(***************************************************************************)
(* `HttpBackend::read_at` (pdfboss-aio/src/backend.rs): ranged requests    *)
(* with two retries of 5xx answers, and a fallback for servers that ignore *)
(* the range: the whole body is collected once, shared by all reads.       *)
(* Concurrent reads interleave at every await: request, backoff, chunk.    *)
(*                                                                         *)
(* The server may answer anything at any time, and end any body early; the *)
(* bytes it sends are those of the resource, a ranged answer from the      *)
(* offset asked for.  Content-Length declared FileLen bytes for it.        *)
(***************************************************************************)
EXTENDS ReadAt

CONSTANTS
    Retries,   \* 5xx answers a read puts up with: 2 in the code
    MaxReads   \* bound: reads made in one behaviour

ASSUME HttpReadAssumption ==
    /\ Retries \in Nat /\ MaxReads \in Nat

VARIABLES
    full,      \* `full`: how many bytes the shared whole body has, or NoBody
    read,      \* read[r]: where read r is, see Reading
    refusals,  \* history: the 5xx answers to r's request, up to Retries + 2
    served,    \* history: the answers read from a whole body, [asked, got]
    reads      \* reads left

vars == <<asked, answers, full, read, refusals, served, reads>>

NoBody == -1

\* The step a read is at, `attempt`, and the bytes of the body collected.
Reading(at) == [at |-> at, attempt |-> 0, filled |-> 0]

Readings == [at : {"done", "begin", "send", "backoff", "ranged", "whole"},
             attempt : 0..Retries, filled : Nat]

TypeOK ==
    /\ asked \in [Readers -> Requests \cup {Idle}]
    /\ answers \in [Readers -> Seq(Int)]
    /\ full \in 0..FileLen \cup {NoBody}
    /\ read \in [Readers -> Readings]
    /\ refusals \in [Readers -> 0..(Retries + 2)]
    /\ reads \in 0..MaxReads

Init ==
    /\ AskInit
    /\ full = NoBody
    /\ read = [r \in Readers |-> Reading("done")]
    /\ refusals = [r \in Readers |-> 0]
    /\ served = {}
    /\ reads = MaxReads

-----------------------------------------------------------------------------
Begin(r) ==
    /\ reads > 0
    /\ reads' = reads - 1
    /\ Ask(r)
    /\ read' = [read EXCEPT ![r] = Reading("begin")]
    /\ refusals' = [refusals EXCEPT ![r] = 0]
    /\ UNCHANGED <<full, served>>

\* `read_at` returns these bytes.
Finish(r, got) ==
    /\ read' = [read EXCEPT ![r] = Reading("done")]
    /\ asked' = [asked EXCEPT ![r] = Idle]
    /\ answers' = [answers EXCEPT ![r] = got]

\* `read_from_bytes` on a whole body of n bytes.
FromBody(q, n) == Bytes(q.offset, Min({q.offset + q.want, n}))

\* r's read is answered from a whole body of n bytes.
Serve(r, n) ==
    /\ Finish(r, FromBody(asked[r], n))
    /\ served' = served \cup {[asked |-> asked[r], got |-> FromBody(asked[r], n)]}

\* Nothing to read, or everything in memory already.
ReadNothing(r) ==
    /\ read[r].at = "begin"
    /\ asked[r].offset >= FileLen \/ asked[r].want = 0
    /\ Finish(r, <<>>)
    /\ UNCHANGED <<full, served, refusals, reads>>

ReadFull(r) ==
    /\ read[r].at = "begin"
    /\ asked[r].offset < FileLen /\ asked[r].want > 0
    /\ full # NoBody
    /\ Serve(r, full)
    /\ UNCHANGED <<full, refusals, reads>>

Send(r) ==
    /\ \/ /\ read[r].at = "begin" /\ full = NoBody
          /\ asked[r].offset < FileLen /\ asked[r].want > 0
       \/ read[r].at = "backoff"
    /\ read' = [read EXCEPT ![r].at = "send"]
    /\ UNCHANGED <<asked, answers, full, served, refusals, reads>>

\* Mutant of GivesUp: The attempts are counted from one.
GivesUpEarly(r) == read[r].attempt = Retries - 1

GivesUp(r) == read[r].attempt = Retries

\* Mutant of Counted: An attempt is not counted.
CountedNot(n) == n

Counted(n) == n + 1

\* A 5xx answer, retried after a sleep or let through.
ServerError(r) ==
    /\ read[r].at = "send"
    /\ refusals' = [refusals EXCEPT ![r] = Min({@ + 1, Retries + 2})]
    /\ IF GivesUp(r)
       THEN Fail(r) /\ read' = [read EXCEPT ![r] = Reading("done")]
       ELSE /\ read' = [read EXCEPT ![r].at = "backoff", ![r].attempt = Counted(@)]
            /\ UNCHANGED askVars
    /\ UNCHANGED <<full, served, reads>>

\* The request fails, or is refused in any other way.
Refused(r) ==
    /\ read[r].at = "send"
    /\ Fail(r)
    /\ read' = [read EXCEPT ![r] = Reading("done")]
    /\ refusals' = [refusals EXCEPT ![r] = 0]
    /\ UNCHANGED <<full, served, reads>>

\* 206 and 200: the body is collected chunk by chunk.
Answered(r) ==
    /\ read[r].at = "send"
    /\ \E at \in {"ranged", "whole"} : read' = [read EXCEPT ![r].at = at]
    /\ UNCHANGED <<asked, answers, full, served, refusals, reads>>

\* What a body is collected up to: the buffer, or the declared length.
Room(r) == IF read[r].at = "ranged" THEN asked[r].want ELSE FileLen

\* How much there is of the body after one more chunk.
Arriving(r) ==
    LET sent == IF read[r].at = "ranged" THEN SourceLen - asked[r].offset ELSE SourceLen
    IN  (read[r].filled + 1)..Min({Room(r), sent})

Chunk(r) ==
    /\ read[r].at \in {"ranged", "whole"}
    /\ \E n \in Arriving(r) : read' = [read EXCEPT ![r].filled = n]
    /\ UNCHANGED <<asked, answers, full, served, refusals, reads>>

BodyFails(r) ==
    /\ read[r].at \in {"ranged", "whole"}
    /\ read[r].filled < Room(r)
    /\ Fail(r)
    /\ read' = [read EXCEPT ![r] = Reading("done")]
    /\ refusals' = [refusals EXCEPT ![r] = 0]
    /\ UNCHANGED <<full, served, reads>>

\* The body ends, early or not, or there is no more room.
RangedEnds(r) ==
    /\ read[r].at = "ranged"
    /\ Finish(r, Bytes(asked[r].offset, asked[r].offset + read[r].filled))
    /\ UNCHANGED <<full, served, refusals, reads>>

\* `get_or_init`: the first body to be complete is the one every read uses.
Kept(n) == IF full = NoBody THEN n ELSE full

\* Mutant of WholeEnds: What was collected is handed out from its start.
WholeEndsFromStart(r) ==
    /\ read[r].at = "whole"
    /\ full' = Kept(read[r].filled)
    /\ Finish(r, Bytes(0, Min({asked[r].want, read[r].filled})))
    /\ UNCHANGED <<served, refusals, reads>>

\* Mutant of WholeEnds: A read is served from the body it collected itself.
WholeEndsOwn(r) ==
    /\ read[r].at = "whole"
    /\ full' = Kept(read[r].filled)
    /\ Serve(r, read[r].filled)
    /\ UNCHANGED <<refusals, reads>>

WholeEnds(r) ==
    /\ read[r].at = "whole"
    /\ full' = Kept(read[r].filled)
    /\ Serve(r, Kept(read[r].filled))
    /\ UNCHANGED <<refusals, reads>>

\* The caller drops the future at one of its awaits.
Drop(r) ==
    /\ read[r].at \notin {"done", "begin"}
    /\ Abandon(r)
    /\ read' = [read EXCEPT ![r] = Reading("done")]
    /\ UNCHANGED <<full, served, refusals, reads>>

-----------------------------------------------------------------------------
Step(r) ==
    \/ ReadNothing(r) \/ ReadFull(r) \/ Send(r) \/ ServerError(r) \/ Refused(r)
    \/ Answered(r) \/ Chunk(r) \/ BodyFails(r) \/ RangedEnds(r) \/ WholeEnds(r)

Next == \E r \in Readers : Begin(r) \/ Step(r) \/ Drop(r)

Spec == Init /\ [][Next]_vars

\* The executor polls a woken read, the timer fires, and the server answers a
\* request and goes on with a body or ends it.
FairSpec == Spec /\ \A r \in Readers : WF_vars(Step(r))

-----------------------------------------------------------------------------
\* What a read returns is what the resource has there, whether it came from a
\* range, from a whole body or from another read's, though possibly less of it: a
\* body that ends early "yields a short read" (backend.rs 339-341).
ImplementsShortReads == ShortSpec

\* "Implementations may only return a short count at end of input; anywhere else
\* they must fill the buffer" (backend.rs 20-22), of answers that are not empty.
ShortOnlyAtTheEnd ==
    [][\A r \in Readers :
          asked[r] # Idle /\ asked'[r] = Idle /\ answers'[r] \notin {<<>>, Error}
          => \/ Len(answers'[r]) = asked[r].want
             \/ asked[r].offset + Len(answers'[r]) >= Min({FileLen, SourceLen})]_vars

\* "Losing the OnceLock race to a concurrent read just drops a redundant body"
\* (backend.rs 318-321): however many reads collect a body, wherever each of their
\* bodies was cut and whichever is complete first, all answers ever given from a
\* whole body are those of one and the same body.
RacingBodiesAgree ==
    \E n \in 0..FileLen : \A s \in served : s.got = FromBody(s.asked, n)

\* "Retry 5xx answers twice ... before letting the failure surface" (backend.rs
\* 290-291): a read fails by such answers only after one more than that.
TransientErrorsAreHidden ==
    [][\A r \in Readers :
          answers[r] # Error /\ answers'[r] = Error
          => refusals'[r] \in {0, Retries + 1}]_vars

\* The strengthening the proofs need.  A read is under way while its caller
\* waits, and it counts the refusals of its own request.
WaitingIsReading ==
    \A r \in Readers :
        /\ read[r].at = "done" <=> asked[r] = Idle
        /\ read[r].at # "done" => refusals[r] = read[r].attempt

\* What was collected of a body fits the buffer or the declared length, and the
\* resource has that much; the body kept is no longer than either.
BodiesAreOfTheResource ==
    /\ full # NoBody => full <= SourceLen
    /\ \A r \in Readers :
          LET n == read[r].filled
          IN  /\ read[r].at \notin {"ranged", "whole"} => n = 0
              /\ read[r].at = "ranged" =>
                    n = 0 \/ (n <= asked[r].want /\ asked[r].offset + n <= SourceLen)
              /\ read[r].at = "whole" => n <= FileLen /\ n <= SourceLen

IInv == TypeOK /\ WaitingIsReading /\ BodiesAreOfTheResource

\* Whatever was served from a whole body is what the body kept would give.
ServedFromTheBody ==
    \A s \in served : full # NoBody /\ s.got = FromBody(s.asked, full)

\* However often the server refuses and however it cuts its bodies, a read that
\* is not dropped ends (backend.rs 333-338).
ReadsEnd == \A r \in Readers : asked[r] # Idle ~> asked[r] = Idle
=============================================================================
