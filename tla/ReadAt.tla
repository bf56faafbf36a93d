------------------------------- MODULE ReadAt -------------------------------
(***************************************************************************)
(* What a `Backend` (pdfboss-aio/src/backend.rs) promises its readers: a   *)
(* positioned read answers the bytes that are there, as many of the wanted *)
(* ones as the source holds, or an error; concurrent reads do not disturb  *)
(* one another.  ChunkCache, a cache in front of a backend, implements it. *)
(***************************************************************************)
EXTENDS Integers, Sequences, FiniteSetsExt

CONSTANTS
    Readers,     \* concurrent callers of `read_at`
    Requests,    \* the requests they make: records [offset, want]
    FileLen,     \* what `len` answers
    SourceLen    \* bytes the source really has; fewer when the file was cut

ASSUME ReadAtAssumption ==
    /\ Requests \subseteq [offset : Nat, want : Nat]
    /\ FileLen \in Nat /\ SourceLen \in Nat

VARIABLES
    asked,       \* asked[r]: the request r waits for, or Idle
    answers      \* answers[r]: what r's last request was answered

askVars == <<asked, answers>>

Idle == [offset |-> -1, want |-> 0]
Error == <<-1>>

\* The content of the source: byte p has the value p.
Bytes(from, until) == [i \in 1..(IF until > from THEN until - from ELSE 0) |-> from + i - 1]

\* The bytes a request gets: the wanted ones that exist.
Promised(q) ==
    IF q.offset >= FileLen THEN <<>>
    ELSE Bytes(q.offset, Min({q.offset + q.want, FileLen, SourceLen}))

AskInit ==
    /\ asked = [r \in Readers |-> Idle]
    /\ answers = [r \in Readers |-> <<>>]

Ask(r) ==
    /\ asked[r] = Idle
    /\ \E q \in Requests : asked' = [asked EXCEPT ![r] = q]
    /\ answers' = [answers EXCEPT ![r] = <<>>]

Answer(r) ==
    /\ asked[r] # Idle
    /\ asked' = [asked EXCEPT ![r] = Idle]
    /\ answers' = [answers EXCEPT ![r] = Promised(asked[r])]

\* The source failed.
Fail(r) ==
    /\ asked[r] # Idle
    /\ asked' = [asked EXCEPT ![r] = Idle]
    /\ answers' = [answers EXCEPT ![r] = Error]

\* The caller drops the future of its read and is never answered.
Abandon(r) ==
    /\ asked[r] # Idle
    /\ asked' = [asked EXCEPT ![r] = Idle]
    /\ UNCHANGED answers

\* A backend that answers with fewer bytes than there are, none included, but
\* with the right ones.
AnswerShort(r) ==
    LET q == asked[r]
    IN  /\ q # Idle
        /\ asked' = [asked EXCEPT ![r] = Idle]
        /\ \E until \in q.offset..Min({q.offset + q.want, SourceLen}) \cup {q.offset} :
              answers' = [answers EXCEPT ![r] = Bytes(q.offset, until)]

AskNext == \E r \in Readers : Ask(r) \/ Answer(r) \/ Fail(r) \/ Abandon(r)

AskSpec == AskInit /\ [][AskNext]_askVars

ShortNext == AskNext \/ \E r \in Readers : AnswerShort(r)

ShortSpec == AskInit /\ [][ShortNext]_askVars
=============================================================================
