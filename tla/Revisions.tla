----------------------------- MODULE Revisions ------------------------------
(***************************************************************************)
(* What an incremental update promises (pdfboss-write/src/update.rs): the  *)
(* staged changes are a private version of the file's objects, the last    *)
(* change of a number counts, and committing them makes exactly that       *)
(* version the file's.  Overlay implements it with appended sections.      *)
(***************************************************************************)
EXTENDS Integers, FiniteSets

CONSTANTS
    Numbers,   \* object numbers
    Bodies,    \* what an object may be
    Absent     \* a number without an object

VARIABLES
    contents,  \* contents[n]: what a reader of the file finds under n
    pending    \* the version being prepared; Closed while there is none

revisionVars == <<contents, pending>>

Closed == [n \in {} |-> Absent]

RevInit ==
    /\ contents \in [Numbers -> Bodies \cup {Absent}]
    /\ pending = Closed

RevOpen == pending = Closed /\ pending' = contents /\ UNCHANGED contents

\* A change of one object, or of the two that hold the metadata.
RevChange ==
    /\ pending # Closed
    /\ pending' \in [Numbers -> Bodies \cup {Absent}]
    /\ Cardinality({n \in Numbers : pending'[n] # pending[n]}) <= 2
    /\ UNCHANGED contents

RevCommit ==
    /\ pending # Closed
    /\ contents' = pending
    /\ pending' = Closed

RevDiscard == pending # Closed /\ pending' = Closed /\ UNCHANGED contents

RevNext == RevOpen \/ RevChange \/ RevCommit \/ RevDiscard

RevSpec == RevInit /\ [][RevNext]_revisionVars
=============================================================================
