--------------------------- MODULE MCObjectFetch ----------------------------
\* Small documents, two concurrent callers, and one read that fails.
EXTENDS ObjectFetch, TLC

CONSTANTS t1, t2

Free == [at |-> "free", kind |-> "dict", length |-> 0, n |-> 0, container |-> 0, to |-> 0]
InFile(kind) == [Free EXCEPT !.at = "file", !.kind = kind]
Member(kind, c) == [Free EXCEPT !.at = "stream", !.kind = kind, !.container = c]

Document(entries) ==
    [entries |-> [n \in 1..5 |-> IF n \in DOMAIN entries THEN entries[n] ELSE Free],
     encrypt |-> <<>>, clearStreams |-> FALSE]

\* A stream whose length is a member of a container, whose own length and count
\* are references, the count through another reference.
Nested == Document(
    1 :> [InFile("stream") EXCEPT !.length = 2] @@ 2 :> Member("int", 3) @@
    3 :> [InFile("stream") EXCEPT !.length = 5, !.n = 4] @@
    4 :> [InFile("ref") EXCEPT !.to = 5] @@ 5 :> InFile("int"))

\* Lengths that need themselves, directly and through a container, a container
\* whose count is its own member, and references in a ring.
Knotted == Document(
    1 :> [InFile("stream") EXCEPT !.length = 2] @@ 2 :> Member("int", 3) @@
    3 :> [InFile("stream") EXCEPT !.length = 1] @@
    4 :> [InFile("stream") EXCEPT !.length = 4, !.n = 5] @@ 5 :> Member("int", 4))
Ring == Document(
    1 :> [InFile("ref") EXCEPT !.to = 2] @@ 2 :> [InFile("ref") EXCEPT !.to = 1] @@
    3 :> [InFile("stream") EXCEPT !.n = 1] @@ 4 :> Member("dict", 3) @@ 5 :> Member("dict", 4))

\* An encrypted file: /Encrypt in the file, crypt filters in a container.
Locked == [Document(
    1 :> InFile("dict") @@ 2 :> Member("dict", 3) @@
    3 :> [InFile("stream") EXCEPT !.length = 4] @@ 4 :> InFile("int") @@ 5 :> InFile("dict"))
    EXCEPT !.encrypt = <<1, 2, 5>>]
Clear == [Locked EXCEPT !.clearStreams = TRUE]
Broken == [Locked EXCEPT !.encrypt = <<4>>]

MCFiles == {Nested, Knotted, Ring, Locked, Clear, Broken}
=============================================================================
