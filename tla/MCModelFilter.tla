------------------------------ MODULE MCModelFilter ------------------------------
(***************************************************************************)
(* An instance of ModelFilter for TLC: four elements, every model with      *)
(* relationships out of a few, and the configurations worth telling apart.  *)
(***************************************************************************)
EXTENDS ModelFilter, TLC

CONSTANTS A, B, C, D, top, dep, inh, agg

E(from, type, to) == [from |-> from, type |-> type, to |-> to]

\* Chains, a branch, a cycle (B, C, D) and an element on its own.
MCModels ==
    SUBSET {E(B, dep, A), E(C, dep, B), E(D, dep, C), E(B, dep, D)}
        \cup {{E(B, inh, A), E(C, inh, B)} \cup m :
                  m \in SUBSET {E(D, dep, C), E(A, dep, C), E(D, agg, B)}}

Opinion(yes, no) == [type |-> "verdict", yes |-> yes, no |-> no]
Search(roots, rel, forward) ==
    [type |-> "graph", roots |-> roots, rel |-> rel, forward |-> forward, cached |-> TRUE]
Bases(roots, forward) ==
    [type |-> "graph", roots |-> roots, rel |-> inh, forward |-> forward, cached |-> FALSE]
Context(roots, radius, direction) ==
    [type |-> "context", roots |-> roots, radius |-> radius, direction |-> direction]

Flat == [e \in Element |-> top]
Nested == (B :> A) @@ (A :> top) @@ (C :> top) @@ (D :> C)
Chain == (D :> C) @@ (C :> B) @@ (B :> top) @@ (A :> top)

Config(kind, parent, f1, f2, f3, exclude, include) ==
    [kind |-> kind, parent |-> parent, filters |-> (1 :> f1) @@ (2 :> f2) @@ (3 :> f3),
     exclude |-> exclude, include |-> include, types |-> {dep, inh, agg}]

All == Element
Nothing == Opinion({}, {})

MCSettings ==
    { \* dependants of A outside of a namespace
      Config("class", Flat, Search({A}, dep, FALSE), Opinion(All \ {C}, {C}), Nothing,
             {}, {{1}, {2}}),
      \* subclasses of A, and the dependencies of D
      Config("class", Flat, Bases({A}, FALSE), Search({D}, dep, TRUE), Opinion({B}, {}),
             {3}, {{1, 2}}),
      \* parents of C which are dependencies of D, too (the advanced allof)
      Config("class", Flat, Bases({C}, TRUE), Search({D}, dep, TRUE), Nothing,
             {}, {{1}, {2}, {3}}),
      \* around B, without the dependants of D
      Config("class", Flat, Context({B}, 1, "inward"), Search({D}, dep, FALSE), Nothing,
             {2}, {{1, 3}}),
      \* packages: the dependants of A with the packages around them
      Config("package", Nested, Search({A}, dep, FALSE), Nothing, Nothing, {}, {{1, 2}}),
      Config("package", Chain, Search({A}, dep, FALSE), Nothing, Nothing, {}, {{1}}),
      \* packages around A; without a namespace
      Config("package", Chain, Context({A}, 1, "any"), Nothing, Nothing, {}, {{1}, {2}}),
      Config("package", Nested, Context({A, B}, 2, "outward"), Opinion({C, D}, {A, B}), Nothing,
             {2}, {{1}}),
      \* dependants of A; an outer package refused by name, an inner one not
      Config("package", Nested, Search({A}, dep, FALSE), Opinion({B, D}, {C}), Nothing,
             {}, {{1}, {2}}),
      \* source files: dependencies of D, without some; no dependants of A
      Config("include", Flat, Search({D}, dep, TRUE), Opinion({C}, {}), Nothing, {2}, {{1}}),
      Config("include", Flat, Search({A}, dep, FALSE), Opinion({}, {C, D}), Nothing,
             {1}, {{2}}) }
================================================================================
