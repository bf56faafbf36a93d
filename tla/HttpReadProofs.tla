--------------------------- MODULE HttpReadProofs ---------------------------
(***************************************************************************)
(* HttpRead proved for any number of readers and reads, any requests,      *)
(* retries, declared length and resource.                                  *)
(***************************************************************************)
EXTENDS HttpRead, TLAPS

\* What Min gives for two integers.
LEMMA MinOfTwo ==
    ASSUME NEW a \in Int, NEW b \in Int
    PROVE  Min({a, b}) = IF a <= b THEN a ELSE b
<1> DEFINE m == IF a <= b THEN a ELSE b
<1>1. m \in {a, b} /\ \A y \in {a, b} : m <= y
  OBVIOUS
<1>2. \A x \in {a, b} : (\A y \in {a, b} : x <= y) => x = m
  OBVIOUS
<1>. QED
  BY <1>1, <1>2 DEF Min

\* Bytes of the resource are a sequence of numbers, none of them an error.
LEMMA BytesAreData ==
    ASSUME NEW from \in Nat, NEW until \in Int
    PROVE  Bytes(from, until) \in Seq(Int) /\ Bytes(from, until) # Error
<1> DEFINE n == IF until > from THEN until - from ELSE 0
<1>1. n \in Nat
  OBVIOUS
<1>2. Bytes(from, until) \in [1..n -> Int]
  BY <1>1 DEF Bytes
<1>3. Bytes(from, until) \in Seq(Int)
  BY <1>1, <1>2
<1>4. ASSUME Bytes(from, until) = Error PROVE FALSE
  <2>1. 1 \in DOMAIN Error /\ Error[1] = -1
    BY DEF Error
  <2>2. 1 \in 1..n /\ Bytes(from, until)[1] = from
    BY <1>4, <2>1, <1>1 DEF Bytes
  <2>. QED
    BY <1>4, <2>1, <2>2
<1>. QED
  BY <1>3, <1>4

\* A range that is empty has no bytes.
LEMMA NoBytes ==
    ASSUME NEW from \in Nat, NEW until \in Int, until <= from
    PROVE  Bytes(from, until) = <<>>
BY DEF Bytes

LEMMA InitInv == Init => IInv
BY ReadAtAssumption, HttpReadAssumption
   DEF Init, AskInit, IInv, TypeOK, Readings, Reading, NoBody,
       WaitingIsReading, BodiesAreOfTheResource

\* A request is not the mark of a reader that waits for nothing.
LEMMA RequestsAreNotIdle ==
    \A q \in Requests : q # Idle /\ q.offset \in Nat /\ q.want \in Nat
BY ReadAtAssumption DEF Idle

LEMMA BeginInv ==
    ASSUME IInv, NEW r \in Readers, Begin(r)
    PROVE  IInv'
<1> USE DEF IInv, Begin, Ask
<1>1. TypeOK'
  BY HttpReadAssumption DEF TypeOK, Readings, Reading
<1>2. WaitingIsReading'
  BY RequestsAreNotIdle DEF WaitingIsReading, TypeOK, Reading
<1>3. BodiesAreOfTheResource'
  BY DEF BodiesAreOfTheResource, TypeOK, Reading
<1>. QED
  BY <1>1, <1>2, <1>3

\* A read ends with an answer, an error or nobody to answer.
LEMMA EndInv ==
    ASSUME IInv, NEW r \in Readers,
           asked' = [asked EXCEPT ![r] = Idle],
           answers' \in [Readers -> Seq(Int)],
           read' = [read EXCEPT ![r] = Reading("done")],
           full' \in 0..FileLen \cup {NoBody}, full' # NoBody => full' <= SourceLen,
           refusals' \in [Readers -> 0..(Retries + 2)],
           \A s \in Readers \ {r} : refusals'[s] = refusals[s],
           UNCHANGED reads
    PROVE  IInv'
<1> USE DEF IInv
<1>1. TypeOK'
  <2>1. Reading("done") \in Readings
    BY HttpReadAssumption DEF Readings, Reading
  <2>2. read' \in [Readers -> Readings] /\ asked' \in [Readers -> Requests \cup {Idle}]
    BY <2>1 DEF TypeOK
  <2>. QED
    BY <2>2 DEF TypeOK
<1>2. WaitingIsReading'
  BY DEF WaitingIsReading, TypeOK, Reading
<1>3. BodiesAreOfTheResource'
  BY DEF BodiesAreOfTheResource, TypeOK, Reading
<1>. QED
  BY <1>1, <1>2, <1>3

\* What a read under way is.
LEMMA Reads ==
    ASSUME IInv, NEW r \in Readers, read[r].at # "done"
    PROVE  /\ asked[r] # Idle /\ asked[r] \in Requests
           /\ asked[r].offset \in Nat /\ asked[r].want \in Nat
           /\ read[r].filled \in Nat
BY RequestsAreNotIdle DEF IInv, TypeOK, Readings, WaitingIsReading

\* What is read from a whole body is data, and what a short read may give.
LEMMA FromBodyIsShort ==
    ASSUME NEW q \in Requests, NEW n \in Nat, n <= SourceLen
    PROVE  /\ FromBody(q, n) \in Seq(Int) /\ FromBody(q, n) # Error
           /\ \E until \in q.offset..Min({q.offset + q.want, SourceLen}) \cup {q.offset} :
                 FromBody(q, n) = Bytes(q.offset, until)
<1> DEFINE end == IF q.offset + q.want <= n THEN q.offset + q.want ELSE n
<1>1. q.offset \in Nat /\ q.want \in Nat
  BY RequestsAreNotIdle
<1>2. FromBody(q, n) = Bytes(q.offset, end) /\ end \in Int
  BY <1>1, MinOfTwo DEF FromBody
<1>3. FromBody(q, n) \in Seq(Int) /\ FromBody(q, n) # Error
  BY <1>1, <1>2, BytesAreData
<1>4. CASE end > q.offset
  <2>1. end \in q.offset..Min({q.offset + q.want, SourceLen})
    BY <1>1, <1>4, MinOfTwo, ReadAtAssumption
  <2>. QED
    BY <1>2, <1>3, <2>1
<1>5. CASE end <= q.offset
  <2>1. Bytes(q.offset, end) = Bytes(q.offset, q.offset)
    BY <1>1, <1>2, <1>5, NoBytes
  <2>. QED
    BY <1>2, <1>3, <2>1
<1>6. end > q.offset \/ end <= q.offset
  BY <1>1, <1>2
<1>. HIDE DEF end
<1>. QED
  BY <1>4, <1>5, <1>6

\* A step that neither answers a read nor begins one.
LEMMA GoOnInv ==
    ASSUME IInv, NEW r \in Readers, read[r].at # "done",
           NEW x \in Readings, x.at \notin {"done", "begin"},
           read' = [read EXCEPT ![r] = x],
           refusals' = [refusals EXCEPT ![r] = x.attempt],
           x.at \notin {"ranged", "whole"} => x.filled = 0,
           x.at = "ranged" =>
              x.filled = 0 \/ (x.filled <= asked[r].want /\ asked[r].offset + x.filled <= SourceLen),
           x.at = "whole" => x.filled <= FileLen /\ x.filled <= SourceLen,
           UNCHANGED <<asked, answers, full, reads>>
    PROVE  IInv'
<1> USE DEF IInv
<1>1. TypeOK'
  <2>1. read' \in [Readers -> Readings]
    BY DEF TypeOK
  <2>2. refusals' \in [Readers -> 0..(Retries + 2)]
    BY HttpReadAssumption DEF TypeOK, Readings
  <2>. QED
    BY <2>1, <2>2 DEF TypeOK
<1>2. WaitingIsReading'
  BY DEF WaitingIsReading, TypeOK, Readings
<1>3. BodiesAreOfTheResource'
  BY DEF BodiesAreOfTheResource, TypeOK, Readings
<1>. QED
  BY <1>1, <1>2, <1>3

\* Every step of a read keeps the invariant.
LEMMA StepInv ==
    ASSUME IInv, NEW r \in Readers, Step(r) \/ Drop(r)
    PROVE  IInv'
<1> DEFINE w == read[r]
<1>1. /\ w \in Readings
      /\ w = [at |-> w.at, attempt |-> w.attempt, filled |-> w.filled]
      /\ w.at # "done" => refusals[r] = w.attempt
      /\ answers \in [Readers -> Seq(Int)]
      /\ refusals \in [Readers -> 0..(Retries + 2)]
      /\ full \in 0..FileLen \cup {NoBody} /\ (full # NoBody => full <= SourceLen)
  BY DEF IInv, TypeOK, WaitingIsReading, BodiesAreOfTheResource, Readings
<1>2. \A v \in Seq(Int) : [answers EXCEPT ![r] = v] \in [Readers -> Seq(Int)]
  BY <1>1
<1>3. CASE ReadNothing(r)
  <2>1. answers' \in [Readers -> Seq(Int)]
    <3>1. <<>> \in Seq(Int)
      OBVIOUS
    <3>. QED
      BY <1>2, <1>3, <3>1 DEF ReadNothing, Finish
  <2>. QED
    BY <1>1, <1>3, <2>1, EndInv DEF ReadNothing, Finish
<1>4. CASE ReadFull(r)
  <2>1. full \in Nat /\ full <= SourceLen /\ asked[r] \in Requests
    BY <1>1, <1>4, Reads DEF ReadFull
  <2>2. FromBody(asked[r], full) \in Seq(Int)
    BY <2>1, FromBodyIsShort
  <2>3. answers' \in [Readers -> Seq(Int)]
    BY <1>2, <1>4, <2>2 DEF ReadFull, Serve, Finish
  <2>. QED
    BY <1>1, <1>4, <2>3, EndInv DEF ReadFull, Serve, Finish
<1>5. CASE Send(r)
  <2>1. w.at # "done" /\ w.filled = 0 /\ w.attempt \in 0..Retries
    BY <1>1, <1>5 DEF Send, IInv, BodiesAreOfTheResource, Readings
  <2> DEFINE x == [w EXCEPT !.at = "send"]
  <2>2. x \in Readings /\ x.at = "send" /\ x.attempt = w.attempt /\ x.filled = 0
    BY <1>1, <2>1 DEF Readings
  <2>3. read' = [read EXCEPT ![r] = x]
    BY <1>5 DEF Send
  <2>4. refusals' = [refusals EXCEPT ![r] = x.attempt]
    BY <1>1, <1>5, <2>1, <2>2 DEF Send
  <2> HIDE DEF x
  <2>. QED
    BY <1>5, <2>1, <2>2, <2>3, <2>4, GoOnInv DEF Send
<1>6. CASE ServerError(r)
  <2>1. w.at = "send" /\ w.filled = 0 /\ w.attempt \in 0..Retries /\ refusals[r] = w.attempt
    BY <1>1, <1>6 DEF ServerError, IInv, BodiesAreOfTheResource, Readings
  <2>2. refusals' = [refusals EXCEPT ![r] = w.attempt + 1]
    <3>1. Min({refusals[r] + 1, Retries + 2}) = w.attempt + 1
      BY <2>1, MinOfTwo, HttpReadAssumption
    <3>. QED
      BY <1>6, <3>1 DEF ServerError
  <2>3. CASE GivesUp(r)
    <3>1. refusals' \in [Readers -> 0..(Retries + 2)] /\ Error \in Seq(Int)
      BY <1>1, <2>1, <2>2, HttpReadAssumption DEF Error
    <3>. QED
      BY <1>1, <1>2, <1>6, <2>2, <2>3, <3>1, EndInv DEF ServerError, Fail
  <2>4. CASE ~GivesUp(r)
    <3>1. w.attempt + 1 \in 0..Retries
      BY <2>1, <2>4, HttpReadAssumption DEF GivesUp
    <3> DEFINE x == [w EXCEPT !.at = "backoff", !.attempt = w.attempt + 1]
    <3>2. x \in Readings /\ x.at = "backoff" /\ x.attempt = w.attempt + 1 /\ x.filled = 0
      BY <1>1, <2>1, <3>1 DEF Readings
    <3>3. read' = [read EXCEPT ![r] = x]
      BY <1>6, <2>4 DEF ServerError, Counted
    <3>4. UNCHANGED <<asked, answers, full, reads>>
      BY <1>6, <2>4 DEF ServerError, askVars
    <3> HIDE DEF x
    <3>. QED
      BY <2>1, <2>2, <3>2, <3>3, <3>4, GoOnInv
  <2>. QED
    BY <2>3, <2>4
<1>7. CASE Refused(r) \/ BodyFails(r)
  <2>1. refusals' = [refusals EXCEPT ![r] = 0] /\ answers' = [answers EXCEPT ![r] = Error]
    BY <1>7 DEF Refused, BodyFails, Fail
  <2>2. refusals' \in [Readers -> 0..(Retries + 2)] /\ Error \in Seq(Int)
    BY <1>1, <2>1, HttpReadAssumption DEF Error
  <2>3. answers' \in [Readers -> Seq(Int)]
    BY <1>2, <2>1, <2>2
  <2>. QED
    BY <1>1, <1>7, <2>1, <2>2, <2>3, EndInv DEF Refused, BodyFails, Fail
<1>8. CASE Answered(r)
  <2>1. w.at = "send" /\ w.filled = 0 /\ w.attempt \in 0..Retries
    BY <1>1, <1>8 DEF Answered, IInv, BodiesAreOfTheResource, Readings
  <2>2. PICK at \in {"ranged", "whole"} : read' = [read EXCEPT ![r].at = at]
    BY <1>8 DEF Answered
  <2> DEFINE x == [w EXCEPT !.at = at]
  <2>3. x \in Readings /\ x.at = at /\ x.attempt = w.attempt /\ x.filled = 0
    BY <1>1, <2>1 DEF Readings
  <2>4. read' = [read EXCEPT ![r] = x]
    BY <2>2
  <2>5. refusals' = [refusals EXCEPT ![r] = x.attempt]
    BY <1>1, <1>8, <2>1, <2>3 DEF Answered
  <2>6. /\ UNCHANGED <<asked, answers, full, reads>>
        /\ x \in Readings /\ x.at \in {"ranged", "whole"} /\ x.filled = 0
        /\ 0 <= FileLen /\ 0 <= SourceLen
    BY <1>8, <2>3, ReadAtAssumption DEF Answered
  <2> HIDE DEF x
  <2>. QED
    BY <2>1, <2>4, <2>5, <2>6, GoOnInv
<1>9. CASE Chunk(r)
  <2>1. PICK n \in Arriving(r) : read' = [read EXCEPT ![r].filled = n]
    BY <1>9 DEF Chunk
  <2>2. w.at \in {"ranged", "whole"} /\ w.filled \in Nat
    BY <1>1, <1>9 DEF Chunk, Readings
  <2>3. /\ n \in Nat
        /\ w.at = "ranged" => n <= asked[r].want /\ asked[r].offset + n <= SourceLen
        /\ w.at = "whole" => n <= FileLen /\ n <= SourceLen
    <3>1. asked[r].want \in Nat /\ asked[r].offset \in Nat
      BY <2>2, Reads
    <3>2. CASE w.at = "ranged"
      <4>1. n \in (w.filled + 1)..Min({asked[r].want, SourceLen - asked[r].offset})
        BY <2>1, <3>2 DEF Arriving, Room
      <4>. QED
        BY <2>2, <3>1, <3>2, <4>1, MinOfTwo, ReadAtAssumption
    <3>3. CASE w.at = "whole"
      <4>1. n \in (w.filled + 1)..Min({FileLen, SourceLen})
        BY <2>1, <3>3 DEF Arriving, Room
      <4>. QED
        BY <2>2, <3>3, <4>1, MinOfTwo, ReadAtAssumption
    <3>. QED
      BY <2>2, <3>2, <3>3
  <2> DEFINE x == [w EXCEPT !.filled = n]
  <2>4. x \in Readings /\ x.at = w.at /\ x.attempt = w.attempt /\ x.filled = n
    BY <1>1, <2>3 DEF Readings
  <2>5. read' = [read EXCEPT ![r] = x]
    BY <2>1
  <2>6. refusals' = [refusals EXCEPT ![r] = x.attempt]
    BY <1>1, <1>9, <2>2, <2>4 DEF Chunk
  <2> HIDE DEF x
  <2>. QED
    BY <1>9, <2>2, <2>3, <2>4, <2>5, <2>6, GoOnInv DEF Chunk
<1>10. CASE RangedEnds(r)
  <2>1. Bytes(asked[r].offset, asked[r].offset + w.filled) \in Seq(Int)
    BY <1>10, Reads, BytesAreData DEF RangedEnds
  <2>. QED
    BY <1>1, <1>2, <1>10, <2>1, EndInv DEF RangedEnds, Finish
<1>11. CASE WholeEnds(r)
  <2>1. w.filled \in Nat /\ w.filled <= FileLen /\ w.filled <= SourceLen
    BY <1>1, <1>11 DEF WholeEnds, IInv, BodiesAreOfTheResource, Readings
  <2>2. Kept(w.filled) \in 0..FileLen /\ Kept(w.filled) <= SourceLen
    BY <1>1, <2>1, ReadAtAssumption DEF Kept
  <2>3. FromBody(asked[r], Kept(w.filled)) \in Seq(Int)
    <3>1. asked[r] \in Requests /\ Kept(w.filled) \in Nat
      BY <1>11, <2>2, Reads DEF WholeEnds
    <3>. QED
      BY <2>2, <3>1, FromBodyIsShort
  <2>. QED
    BY <1>1, <1>2, <1>11, <2>2, <2>3, EndInv DEF WholeEnds, Serve, Finish
<1>12. CASE Drop(r)
  BY <1>1, <1>12, EndInv DEF Drop, Abandon
<1>. QED
  BY <1>3, <1>4, <1>5, <1>6, <1>7, <1>8, <1>9, <1>10, <1>11, <1>12 DEF Step

LEMMA NextInv == IInv /\ [Next]_vars => IInv'
<1> SUFFICES ASSUME IInv, [Next]_vars
             PROVE  IInv'
  OBVIOUS
<1>1. CASE Next
  BY <1>1, BeginInv, StepInv DEF Next
<1>2. CASE UNCHANGED vars
  BY <1>2 DEF vars, IInv, TypeOK, WaitingIsReading, BodiesAreOfTheResource
<1>. QED
  BY <1>1, <1>2

\* Every reachable state is well typed, a read is under way while its caller
\* waits, and what was collected or kept of a body is there in the resource: the
\* inductive invariant of `read_at`.
THEOREM BodiesStayWithinTheResource == Spec => []IInv
<1>1. Init => IInv
  BY InitInv
<1>2. IInv /\ [Next]_vars => IInv'
  BY NextInv
<1>. QED
  BY <1>1, <1>2, PTL DEF Spec

\* What a step serves from a whole body it serves from the one that is kept.
LEMMA ServedInv ==
    ASSUME IInv, IInv', ServedFromTheBody, [Next]_vars
    PROVE  ServedFromTheBody'
<1>1. full \in 0..FileLen \cup {NoBody} /\ NoBody \notin 0..FileLen
  BY ReadAtAssumption DEF IInv, TypeOK, NoBody
<1>2. ASSUME NEW r \in Readers, Begin(r) \/ Step(r) \/ Drop(r)
      PROVE  ServedFromTheBody'
  <2>1. CASE ReadFull(r)
    <3> DEFINE got == FromBody(asked[r], full)
    <3>1. served' = served \cup {[asked |-> asked[r], got |-> got]} /\ full # NoBody /\ full' = full
      BY <2>1 DEF ReadFull, Serve
    <3>2. ASSUME NEW s \in served' PROVE full' # NoBody /\ s.got = FromBody(s.asked, full')
      <4>1. CASE s \in served
        BY <3>1, <4>1 DEF ServedFromTheBody
      <4>2. CASE s \notin served
        <5>1. s.asked = asked[r] /\ s.got = got
          BY <3>1, <4>2
        <5>. QED
          BY <3>1, <5>1
      <4>. QED
        BY <4>1, <4>2
    <3>. QED
      BY <3>2 DEF ServedFromTheBody, FromBody
  <2>2. CASE WholeEnds(r)
    <3> DEFINE n == Kept(read[r].filled)
               got == FromBody(asked[r], n)
    <3>1. served' = served \cup {[asked |-> asked[r], got |-> got]} /\ full' = n
      BY <2>2 DEF WholeEnds, Serve
    <3>2. n # NoBody /\ (full # NoBody => n = full)
      <4>1. read[r].filled \in Nat
        BY <2>2, Reads DEF WholeEnds
      <4>. QED
        BY <4>1 DEF Kept, NoBody
    <3>. HIDE DEF n
    <3>3. ASSUME NEW s \in served' PROVE full' # NoBody /\ s.got = FromBody(s.asked, full')
      <4>1. CASE s \in served
        BY <3>1, <3>2, <4>1 DEF ServedFromTheBody
      <4>2. CASE s \notin served
        <5>1. s.asked = asked[r] /\ s.got = got
          BY <3>1, <4>2
        <5>. QED
          BY <3>1, <3>2, <5>1
      <4>. QED
        BY <4>1, <4>2
    <3>. QED
      BY <3>3 DEF ServedFromTheBody, FromBody
  <2>3. CASE ~ReadFull(r) /\ ~WholeEnds(r)
    <3>1. UNCHANGED <<full, served>>
      BY <1>2, <2>3
         DEF Begin, Step, Drop, ReadNothing, Send, ServerError, Refused, Answered, Chunk,
             BodyFails, RangedEnds
    <3>. QED
      BY <3>1 DEF ServedFromTheBody, FromBody
  <2>. QED
    BY <2>1, <2>2, <2>3
<1>3. CASE UNCHANGED vars
  BY <1>3 DEF vars, ServedFromTheBody, FromBody
<1>. QED
  BY <1>2, <1>3 DEF Next

\* However many reads race to collect a whole body, all that are ever served from
\* one are served from the same: every answer is what the body kept would give.
THEOREM AllAreServedOneBody == Spec => []RacingBodiesAgree
<1>1. Init => ServedFromTheBody
  BY DEF Init, ServedFromTheBody
<1>2. IInv /\ ServedFromTheBody => RacingBodiesAgree
  <2>. SUFFICES ASSUME IInv, ServedFromTheBody PROVE RacingBodiesAgree
    OBVIOUS
  <2>1. CASE full = NoBody
    <3>1. served = {} /\ 0 \in 0..FileLen
      BY <2>1, ReadAtAssumption DEF ServedFromTheBody
    <3>. QED
      BY <3>1 DEF RacingBodiesAgree
  <2>2. CASE full # NoBody
    <3>1. full \in 0..FileLen
      BY <2>2 DEF IInv, TypeOK
    <3>. QED
      BY <3>1 DEF ServedFromTheBody, RacingBodiesAgree
  <2>. QED
    BY <2>1, <2>2
<1>3. Spec => []IInv
  BY BodiesStayWithinTheResource
<1>. QED
  BY <1>1, <1>2, <1>3, ServedInv, PTL DEF Spec

\* A step of one read leaves the answers of the others alone, and answers its own
\* with an error only after the refusals it puts up with, or for another reason.
LEMMA ErrorsAreCounted ==
    ASSUME IInv, NEW r \in Readers, Begin(r) \/ Step(r) \/ Drop(r),
           NEW s \in Readers, answers[s] # Error, answers'[s] = Error
    PROVE  refusals'[s] \in {0, Retries + 1}
<1>1. /\ answers \in [Readers -> Seq(Int)] /\ refusals \in [Readers -> 0..(Retries + 2)]
      /\ <<>> # Error
  BY DEF IInv, TypeOK, Error
<1>2. answers'[s] # answers[s]
  OBVIOUS
<1>3. CASE ReadNothing(r)
  BY <1>1, <1>2, <1>3 DEF ReadNothing, Finish
<1>4. CASE ReadFull(r)
  <2>1. full \in Nat /\ full <= SourceLen /\ asked[r] \in Requests
    BY <1>4, Reads DEF ReadFull, IInv, TypeOK, BodiesAreOfTheResource
  <2>2. FromBody(asked[r], full) # Error
    BY <2>1, FromBodyIsShort
  <2>. QED
    BY <1>1, <1>2, <1>4, <2>2 DEF ReadFull, Serve, Finish
<1>5. CASE ServerError(r)
  <2>1. read[r].at = "send" /\ refusals[r] = read[r].attempt
    BY <1>5 DEF ServerError, IInv, WaitingIsReading
  <2>2. GivesUp(r) /\ s = r
    BY <1>1, <1>2, <1>5 DEF ServerError, Fail, askVars
  <2>3. refusals[r] = Retries
    BY <2>1, <2>2 DEF GivesUp
  <2>4. Min({refusals[r] + 1, Retries + 2}) = Retries + 1
    BY <2>3, MinOfTwo, HttpReadAssumption
  <2>. QED
    BY <1>1, <1>5, <2>2, <2>4 DEF ServerError
<1>6. CASE Refused(r) \/ BodyFails(r)
  BY <1>1, <1>2, <1>6 DEF Refused, BodyFails, Fail
<1>7. CASE RangedEnds(r)
  <2>1. Bytes(asked[r].offset, asked[r].offset + read[r].filled) # Error
    <3>1. asked[r].offset \in Nat /\ asked[r].offset + read[r].filled \in Int
      BY <1>7, Reads DEF RangedEnds
    <3>. QED
      BY <3>1, BytesAreData
  <2>. QED
    BY <1>1, <1>2, <1>7, <2>1 DEF RangedEnds, Finish
<1>8. CASE WholeEnds(r)
  <2>1. Kept(read[r].filled) \in Nat /\ Kept(read[r].filled) <= SourceLen
    BY <1>8, Reads DEF WholeEnds, Kept, IInv, TypeOK, BodiesAreOfTheResource
  <2>2. FromBody(asked[r], Kept(read[r].filled)) # Error
    BY <1>8, <2>1, Reads, FromBodyIsShort DEF WholeEnds
  <2>. QED
    BY <1>1, <1>2, <1>8, <2>2 DEF WholeEnds, Serve, Finish
<1>9. CASE Begin(r) \/ Send(r) \/ Answered(r) \/ Chunk(r) \/ Drop(r)
  BY <1>1, <1>2, <1>9 DEF Begin, Ask, Send, Answered, Chunk, Drop, Abandon
<1>. QED
  BY <1>3, <1>4, <1>5, <1>6, <1>7, <1>8, <1>9 DEF Step

\* A 5xx answer reaches a caller only after the retries were used up.
THEOREM RetriesComeBeforeErrors == Spec => TransientErrorsAreHidden
<1> DEFINE Hidden == \A r \in Readers :
                        answers[r] # Error /\ answers'[r] = Error
                        => refusals'[r] \in {0, Retries + 1}
<1>1. IInv /\ [Next]_vars => [Hidden]_vars
  BY ErrorsAreCounted DEF Next
<1>2. Spec => []IInv
  BY BodiesStayWithinTheResource
<1>. QED
  BY <1>1, <1>2, PTL DEF Spec, TransientErrorsAreHidden

\* A read that ends answers what a short read may.
LEMMA FinishIsShort ==
    ASSUME NEW r \in Readers, NEW until \in Int, asked[r] # Idle,
           until \in asked[r].offset..Min({asked[r].offset + asked[r].want, SourceLen})
                        \cup {asked[r].offset},
           Finish(r, Bytes(asked[r].offset, until))
    PROVE  AnswerShort(r)
BY DEF Finish, AnswerShort

LEMMA StepIsShort ==
    ASSUME IInv, NEW r \in Readers, Step(r) \/ Drop(r) \/ Begin(r)
    PROVE  ShortNext \/ UNCHANGED askVars
<1>1. CASE Begin(r)
  BY <1>1 DEF Begin, ShortNext, AskNext
<1>2. CASE Drop(r)
  BY <1>2 DEF Drop, ShortNext, AskNext
<1>3. CASE Send(r) \/ Answered(r) \/ Chunk(r)
  BY <1>3 DEF Send, Answered, Chunk, askVars
<1>4. CASE ServerError(r) \/ Refused(r) \/ BodyFails(r)
  BY <1>4 DEF ServerError, Refused, BodyFails, ShortNext, AskNext, askVars
<1>5. CASE ReadNothing(r)
  <2> DEFINE until == asked[r].offset
  <2>1. asked[r] # Idle /\ asked[r].offset \in Nat
    BY <1>5, Reads DEF ReadNothing
  <2>2. Bytes(asked[r].offset, until) = <<>>
    BY <2>1, NoBytes
  <2>3. AnswerShort(r)
    <3>1. Finish(r, Bytes(asked[r].offset, until)) /\ until \in Int
      BY <1>5, <2>1, <2>2 DEF ReadNothing
    <3>2. until \in {asked[r].offset}
      OBVIOUS
    <3> HIDE DEF until
    <3>. QED
      BY <2>1, <3>1, <3>2, FinishIsShort
  <2>. QED
    BY <2>3 DEF ShortNext
<1>6. CASE ReadFull(r) \/ WholeEnds(r)
  <2>1. PICK n \in Nat : n <= SourceLen /\ Finish(r, FromBody(asked[r], n))
    <3>1. CASE ReadFull(r)
      BY <3>1 DEF ReadFull, Serve, IInv, TypeOK, BodiesAreOfTheResource
    <3>2. CASE WholeEnds(r)
      BY <3>2, Reads DEF WholeEnds, Serve, Kept, IInv, TypeOK, BodiesAreOfTheResource
    <3>. QED
      BY <1>6, <3>1, <3>2
  <2>2. asked[r] # Idle /\ asked[r] \in Requests /\ asked[r].offset \in Nat /\ asked[r].want \in Nat
    BY <1>6, Reads DEF ReadFull, WholeEnds
  <2>3. PICK until \in asked[r].offset..Min({asked[r].offset + asked[r].want, SourceLen})
                          \cup {asked[r].offset} :
               FromBody(asked[r], n) = Bytes(asked[r].offset, until)
    BY <2>1, <2>2, FromBodyIsShort
  <2>4. until \in Int
    BY <2>2, <2>3
  <2>5. AnswerShort(r)
    BY <2>1, <2>2, <2>3, <2>4, FinishIsShort
  <2>. QED
    BY <2>5 DEF ShortNext
<1>7. CASE RangedEnds(r)
  <2> DEFINE q == asked[r]
             until == q.offset + read[r].filled
  <2>1. q # Idle /\ q.offset \in Nat /\ q.want \in Nat /\ read[r].filled \in Nat
    BY <1>7, Reads DEF RangedEnds
  <2>2. read[r].filled = 0 \/ (read[r].filled <= q.want /\ until <= SourceLen)
    BY <1>7 DEF RangedEnds, IInv, BodiesAreOfTheResource
  <2>3. until \in q.offset..Min({q.offset + q.want, SourceLen}) \cup {q.offset}
    BY <2>1, <2>2, MinOfTwo, ReadAtAssumption
  <2>4. until \in Int /\ Finish(r, Bytes(q.offset, until))
    BY <1>7, <2>1 DEF RangedEnds
  <2> HIDE DEF until
  <2>5. AnswerShort(r)
    BY <2>1, <2>3, <2>4, FinishIsShort
  <2>. QED
    BY <2>5 DEF ShortNext
<1>. QED
  BY <1>1, <1>2, <1>3, <1>4, <1>5, <1>6, <1>7 DEF Step

\* Every behaviour of the HTTP backend, seen by its callers, is one of a backend
\* that answers with some of the bytes that are there: none are shifted, made up
\* or another request's, whatever the server does.
THEOREM HttpReadImplementsShortReads == Spec => ImplementsShortReads
<1>1. Init => AskInit
  BY DEF Init
<1>2. IInv /\ [Next]_vars => [ShortNext]_askVars
  BY StepIsShort DEF Next, vars, askVars
<1>3. Spec => []IInv
  BY BodiesStayWithinTheResource
<1>. QED
  BY <1>1, <1>2, <1>3, PTL DEF Spec, ImplementsShortReads, ShortSpec
=============================================================================
