----------------------------- MODULE MCImporter -----------------------------
(* Sources of five objects: a catalog, a page tree node, two pages, one       *)
(* object the pages lead to.                                                  *)
EXTENDS Importer, TLC

CONSTANTS root, tree, p, q, a

Plain(refs) == [refs |-> refs, parent |-> NoObj, inherited |-> {}, type |-> "plain"]
Leaf(refs, inherited, type) ==
    [refs |-> refs, parent |-> tree, inherited |-> inherited, type |-> type]

\* A page with an annotation of its own object that names both pages; the
\* other page inherits that object.
Linked == root :> Plain({tree}) @@ tree :> Plain({p, q})
          @@ p :> Leaf({a}, {}, "page") @@ q :> Leaf({}, {a}, "page") @@ a :> Plain({p, q})

\* A page whose inlined annotation names the page, and a page inlined in /Kids.
Direct == root :> Plain({tree}) @@ tree :> Plain({p, a})
          @@ p :> Leaf({p, a}, {}, "page") @@ q :> Leaf({a}, {}, "inline") @@ a :> Plain({})

\* The object both pages lead to cannot be read.
Broken == [Linked EXCEPT ![a] = [@ EXCEPT !.type = "unreadable", !.refs = {}]]

MCFiles == {Linked, Direct, Broken}
=============================================================================
