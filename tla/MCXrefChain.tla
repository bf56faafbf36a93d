---------------------------- MODULE MCXrefChain -----------------------------
\* Every file of three sections whose pointers lead anywhere among them, and one
\* more that is only a hybrid stream.
EXTENDS XrefChain

\* The sections differ in the objects they have entries for, and only the one at
\* offset 3 has a root.
Defined == <<{1}, {1, 2}, {2}, {1, 2}>>

Broken == [parses |-> FALSE, defines |-> {}, root |-> FALSE, prev |-> 0, xrefstm |-> 0]
Parsed(o, prevs, xrefstms) ==
    [parses : {TRUE}, defines : {Defined[o]}, root : {o = 3}, prev : prevs, xrefstm : xrefstms]
Options == <<Parsed(1, 0..3, {0, 2, 4}), {Broken} \cup Parsed(2, 0..3, {0, 4}),
             {Broken} \cup Parsed(3, 0..3, {0, 4}), {Broken} \cup Parsed(4, {0}, {0})>>

MCFiles == {<<a, b, c, d>> : a \in Options[1], b \in Options[2], c \in Options[3],
                             d \in Options[4]}
=============================================================================
