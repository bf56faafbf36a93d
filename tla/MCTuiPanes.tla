----------------------------- MODULE MCTuiPanes -----------------------------
\* A tree of a document node, two pages with bytes and without, and a member of
\* a container; files of more windows than one.
EXTENDS TuiPanes

CONSTANT none

Long == [kind |-> "file", len |-> 5]
Short == [kind |-> "objstm", len |-> 3]

MCSources == {Long, Short}
MCNodes == {[page |-> 0, hex |-> none], [page |-> 1, hex |-> Long],
            [page |-> 2, hex |-> none], [page |-> 0, hex |-> Short]}
MCSizes == {[rows |-> 1, id |-> 1], [rows |-> 2, id |-> 2]}
=============================================================================
