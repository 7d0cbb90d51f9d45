------------------------------- MODULE ModelFilter -------------------------------
(***************************************************************************)
(* What diagram::finalize() does to a finished model: apply_filter() of    *)
(* class, package and include diagrams, with the 3-valued filters of       *)
(* diagram_filter.cc. Some filters are graph searches whose result is      *)
(* cached in the filter as references to elements of the model, while      *)
(* apply_filter() takes elements out of that model and asks again.         *)
(***************************************************************************)
EXTENDS Naturals, FiniteSets

CONSTANTS Element,   \* classes, packages or source files
          Root,      \* the diagram itself, above every other element of the tree
          RelType,   \* the types of relationships
          Owning,    \* of them aggregation and composition, which lead from the part
                     \*   to the whole in the model
          FilterId,  \* the filters of the configuration
          Settings,  \* diagrams and configurations
          Models     \* the relationships a model may have

Edge == [from : Element, type : RelType, to : Element]

\* "verdict": a filter that looks at one element only (namespaces, modules,
\*   paths, elements, element types, ...): it matches yes, does not match no and
\*   has no opinion of the others.
\* "graph": edge_traversal_filter (cached), and subclass_filter and
\*   parents_filter (computed again for every element): everything that is
\*   reachable from the roots, along the relationship or against it.
\* "context": context_filter, everything within a radius of the roots.
Filter ==
    [type : {"verdict"}, yes : SUBSET Element, no : SUBSET Element]
        \cup [type : {"graph"}, roots : SUBSET Element, rel : RelType,
              forward : BOOLEAN, cached : BOOLEAN]
        \cup [type : {"context"}, roots : SUBSET Element, radius : Nat,
              direction : {"any", "inward", "outward"}]

Setting ==
    [kind : {"class", "package", "include"},
     parent : [Element -> Element \cup {Root}],
     filters : [FilterId -> Filter],
     exclude : SUBSET FilterId,          \* any of them excludes
     include : SUBSET SUBSET FilterId,   \* all have to match, each an anyof_filter
     types : SUBSET RelType]             \* the relationships the filters let pass

ASSUME FilterAssumption ==
    /\ Root \notin Element
    /\ Owning \subseteq RelType
    /\ Settings \subseteq Setting
    \* Nested classes are elements of their own; the namespaces around classes and
    \* the directories around files are never filtered.
    /\ \A s \in Settings : s.kind # "package" => \A e \in Element : s.parent[e] = Root
    \* Packages are nested four deep at most.
    /\ \A s \in Settings, e \in Element :
          LET p == s.parent IN
          p[e] # Root /\ p[p[e]] # Root /\ p[p[p[e]]] # Root => p[p[p[p[e]]]] = Root
    /\ Models \subseteq SUBSET Edge

VARIABLES setting,   \* the configuration, and the tree of packages
          view,      \* element_view: the elements apply_filter() goes over
          tree,      \* nested_trait: the elements that exist, it owns them
          edges,     \* relationships() of all elements
          matching,  \* matching_elements_ and effective_contexts_ of each filter
          filled,    \* initialized_ of each filter
          growing,   \* the filters whose search has begun and not ended
          toRemove,  \* to_remove
          pc

vars == <<setting, view, tree, edges, matching, filled, growing, toRemove, pc>>

Kind == setting.kind
Of(i) == setting.filters[i]
Searching == {i \in FilterId : Of(i).type # "verdict"}
Graph(i) == Of(i).type = "graph"

--------------------------------------------------------------------------------
(* Three-valued logic: tvl.h. "none" is an optional without a value. *)

AnyOf(values) ==
    IF "yes" \in values THEN "yes" ELSE IF "no" \in values THEN "no" ELSE "none"

AllOf(values) ==
    IF "no" \in values THEN "no" ELSE IF "yes" \in values THEN "yes" ELSE "none"

\* is_empty(true): a package without packages inside.
IsLeaf(e) == ~ \E c \in tree : setting.parent[c] = e

Verdict(i, e) ==
    IF e \in Of(i).yes THEN "yes" ELSE IF e \in Of(i).no THEN "no" ELSE "none"

InGraph(i, e, found) ==
    IF Of(i).roots = {} THEN "none" ELSE IF e \in found THEN "yes" ELSE "no"

\* A context nothing is in has no opinion, nor any context of inner packages.
InContext(i, e, found) ==
    IF found = {} \/ (Kind = "package" /\ ~IsLeaf(e)) THEN "none"
    ELSE IF e \in found THEN "yes" ELSE "no"

Match(i, e, found) ==
    CASE Of(i).type = "verdict" -> Verdict(i, e)
      [] Of(i).type = "graph"   -> InGraph(i, e, found)
      [] Of(i).type = "context" -> InContext(i, e, found)

Answers(group, e, found) == {Match(i, e, found[i]) : i \in group}

\* should_include(), when filter i found the elements found[i].
IncludedBy(e, found) ==
    /\ AnyOf(Answers(setting.exclude, e, found)) # "yes"
    /\ AllOf({AnyOf(Answers(g, e, found)) : g \in setting.include}) # "no"

ShouldInclude(e) == IncludedBy(e, matching)

--------------------------------------------------------------------------------
(* The searches. *)

Connected(i, from, to) ==
    \E x \in edges : x.type = Of(i).rel /\ x.from = from /\ x.to = to

\* dependencies, bases: along the relationship; dependants, subclasses: against it.
Step(i, e, n) == IF Of(i).forward THEN Connected(i, e, n) ELSE Connected(i, n, e)

Adjacent(i, visited) == {n \in view : \E e \in visited : Step(i, e, n)}

\* Above e are three packages at most.
Ancestor(a, e) ==
    LET p == setting.parent IN
    \/ a = p[e]
    \/ /\ p[e] # Root
       /\ \/ a = p[p[e]]
          \/ p[p[e]] # Root /\ a = p[p[p[e]]]

\* add_parents(): the packages around the matches of an inclusive filter.
WithParents(i, found) ==
    IF Kind = "package" /\ i \in UNION setting.include
    THEN found \cup {a \in view : \E e \in found : Ancestor(a, e)}
    ELSE found

Init ==
    /\ setting \in Settings
    /\ edges \in Models
    /\ view = Element /\ tree = Element
    /\ matching = [i \in FilterId |-> {}]
    /\ filled = [i \in FilterId |-> ~(i \in Searching)]
    /\ growing = {}
    /\ toRemove = {}
    /\ pc = "judge"

\* The first element that is matched makes the filter search: first the elements
\* of the configuration which are in the model ...
Seed(i) ==
    /\ pc = "judge" /\ ~filled[i] /\ Graph(i) /\ i \notin growing
    /\ matching' = [matching EXCEPT ![i] = Of(i).roots \cap view]
    /\ growing' = growing \cup {i}
    /\ UNCHANGED <<setting, view, tree, edges, filled, toRemove, pc>>

\* ... then passes over the set that it inserts into. An insertion may rehash
\* the unordered_set under the loop, so which of its elements a pass with an
\* insertion still visits is not known; a pass without one visits them all.
Grow(i) ==
    /\ i \in growing
    /\ \E visited \in SUBSET matching[i] :
          LET found == Adjacent(i, visited) \ matching[i] IN
          /\ found # {}
          /\ matching' = [matching EXCEPT ![i] = @ \cup found]
    /\ UNCHANGED <<setting, view, tree, edges, filled, growing, toRemove, pc>>

\* Slips: the passes end with the first one; a pass that meets a relationship with
\* what is there already asks for another pass.
Grown_OnePass(i) ==
    /\ i \in growing
    /\ matching' = [matching EXCEPT ![i] = WithParents(i, @)]
    /\ filled' = [filled EXCEPT ![i] = TRUE]
    /\ growing' = growing \ {i}
    /\ UNCHANGED <<setting, view, tree, edges, toRemove, pc>>
Grown_NothingMet(i) == i \in growing /\ Adjacent(i, matching[i]) = {} /\ Grown_OnePass(i)

Grown(i) ==
    /\ i \in growing
    /\ Adjacent(i, matching[i]) \subseteq matching[i]
    /\ matching' = [matching EXCEPT ![i] = WithParents(i, @)]
    /\ filled' = [filled EXCEPT ![i] = TRUE]
    /\ growing' = growing \ {i}
    /\ UNCHANGED <<setting, view, tree, edges, toRemove, pc>>

\* Of the relationships with the context the direction of the filter lets some pass.
Inward(x) == x.type \notin Owning
Related(i, e, f) ==
    \E x \in edges :
        /\ x.type \in setting.types
        /\ \/ /\ x.from = f /\ x.to = e
              /\ Of(i).direction = "inward" => Inward(x)
              /\ Of(i).direction = "outward" => ~Inward(x)
           \/ /\ x.from = e /\ x.to = f
              /\ Of(i).direction = "inward" => ~Inward(x)
              /\ Of(i).direction = "outward" => Inward(x)

\* Everything at most radius relationships away from what the pattern matches.
Around(i) ==
    {e \in tree :
        \E path \in [0 .. Of(i).radius -> tree] :
            /\ path[0] \in Of(i).roots \cap view
            /\ path[Of(i).radius] = e
            /\ \A k \in 1 .. Of(i).radius :
                  path[k] = path[k - 1] \/ Related(i, path[k - 1], path[k])}

FillContext(i) ==
    /\ pc = "judge" /\ ~filled[i] /\ Of(i).type = "context"
    /\ matching' = [matching EXCEPT ![i] = Around(i)]
    /\ filled' = [filled EXCEPT ![i] = TRUE]
    /\ UNCHANGED <<setting, view, tree, edges, growing, toRemove, pc>>

--------------------------------------------------------------------------------
(* apply_filter() *)

Judge ==
    /\ pc = "judge" /\ \A i \in FilterId : filled[i]
    /\ toRemove' = {e \in view : ~ShouldInclude(e)}
    /\ pc' = "remove"
    /\ UNCHANGED <<setting, view, tree, edges, matching, filled, growing>>

\* nested_trait::remove() destroys the element with everything inside it.
Destroyed == {e \in tree : e \in toRemove \/ \E a \in toRemove : Ancestor(a, e)}

\* diagram_element::apply_filter() of the elements in the view.
\* (A slip: only the types are filtered.)
Trimmed_TypesOnly(removed) == {x \in edges : x.type \in setting.types}
Trimmed(removed) == {x \in edges : x.type \in setting.types /\ x.to \notin removed}

\* What is still initialized in the next round: filter().reset() makes the
\* edge_traversal_filters search again, context_filter has no reset();
\* subclass_filter and parents_filter keep nothing.
\* (A slip: they are not reset.)
Kept_Always(i, reset) == filled[i] /\ (Graph(i) => Of(i).cached)
Kept(i, reset) == filled[i] /\ (Graph(i) => Of(i).cached /\ ~reset)

\* A slip: one round only.
RemoveClasses_Once ==
    /\ pc = "remove" /\ Kind = "class" /\ toRemove # {}
    /\ view' = view \ toRemove
    /\ tree' = tree \ Destroyed
    /\ toRemove' = {}
    /\ UNCHANGED <<setting, edges, matching, filled, growing, pc>>

RemoveClasses ==
    /\ pc = "remove" /\ Kind = "class" /\ toRemove # {}
    /\ view' = view \ toRemove
    /\ tree' = tree \ Destroyed
    /\ filled' = [i \in FilterId |-> Kept(i, TRUE)]
    /\ toRemove' = {}
    /\ pc' = "judge"
    /\ UNCHANGED <<setting, edges, matching, growing>>

\* to_remove is empty by now: only the types of relationships are filtered.
TrimClasses ==
    /\ pc = "remove" /\ Kind = "class" /\ toRemove = {}
    /\ edges' = Trimmed(toRemove)
    /\ pc' = "done"
    /\ UNCHANGED <<setting, view, tree, matching, filled, growing, toRemove>>

\* A slip: one round only.
RemovePackages_Once ==
    /\ pc = "remove" /\ Kind = "package"
    /\ view' = view \ toRemove
    /\ tree' = tree \ Destroyed
    /\ edges' = Trimmed(toRemove)
    /\ toRemove' = {}
    /\ pc' = "done"
    /\ UNCHANGED <<setting, matching, filled, growing>>

RemovePackages ==
    /\ pc = "remove" /\ Kind = "package"
    /\ view' = view \ toRemove
    /\ tree' = tree \ Destroyed
    /\ edges' = Trimmed(toRemove)
    /\ filled' = [i \in FilterId |-> Kept(i, FALSE)]
    /\ toRemove' = {}
    /\ pc' = IF view' = view THEN "done" ELSE "judge"
    /\ UNCHANGED <<setting, matching, growing>>

RemoveFiles ==
    /\ pc = "remove" /\ Kind = "include"
    /\ edges' = Trimmed(toRemove)
    /\ view' = view \ toRemove
    /\ tree' = tree \ Destroyed
    /\ pc' = "done"
    /\ UNCHANGED <<setting, matching, filled, growing, toRemove>>

Next ==
    \/ \E i \in FilterId : Seed(i) \/ Grow(i) \/ Grown(i) \/ FillContext(i)
    \/ Judge
    \/ RemoveClasses \/ TrimClasses \/ RemovePackages \/ RemoveFiles

\* finalize() runs to its end.
Spec == Init /\ [][Next]_vars /\ WF_vars(Next)

--------------------------------------------------------------------------------
(* Properties. *)

TypeOK ==
    /\ setting \in Settings /\ edges \subseteq Edge
    /\ view \subseteq Element /\ tree \subseteq Element
    /\ matching \in [FilterId -> SUBSET Element]
    /\ filled \in [FilterId -> BOOLEAN]
    /\ growing \subseteq FilterId
    /\ toRemove \subseteq Element
    /\ pc \in {"judge", "remove", "done"}

\* Configurations of package diagrams which take with a package those inside of it:
\* nothing is said of an outer package by name that is not said of the inner ones, no
\* search excludes, and contexts stand in groups of their own. (Otherwise the inner
\* packages are destroyed while the view still has them.)
InwardClosed(S) ==
    \A a \in S, e \in Element : Ancestor(a, e) => e \in S
OutwardClosed(S) ==
    \A e \in S, a \in Element : Ancestor(a, e) => a \in S
InsideGoesToo ==
    Kind = "package" =>
        /\ \A i \in setting.exclude :
              ~Graph(i) /\ (Of(i).type = "verdict" => InwardClosed(Of(i).yes))
        /\ \A g \in setting.include :
              \/ \A i \in g : Of(i).type = "context"
              \/ \A i \in g :
                    /\ Of(i).type # "context"
                    /\ Of(i).type = "verdict" =>
                          OutwardClosed(Of(i).yes) /\ InwardClosed(Of(i).no)

\* While elements are judged every element that is asked for exists: apply_filter()
\* goes over references to the elements that the tree owns, and in class diagrams a
\* filter that keeps its matches across rounds compares with the names of those
\* matches. (Package diagrams never reset their filters: a match that another filter
\* refuses stays referred to.)
NoDanglingUse ==
    pc = "judge" =>
        /\ InsideGoesToo => view \subseteq tree
        /\ Kind = "class" =>
              \A i \in FilterId : filled[i] /\ Graph(i) => matching[i] \subseteq tree

Closed(i, S, model) == \A e \in S, n \in model : Step(i, e, n) => n \in S

\* What a graph filter means in a model: the least set that has its roots and,
\* with an element, everything one relationship further.
Reach(i, model) ==
    {e \in model : \A S \in SUBSET model :
        Of(i).roots \cap model \subseteq S /\ Closed(i, S, model) => e \in S}

\* Whenever elements are judged, a graph filter knows exactly the elements that can
\* be reached in the model as it is then, however its passes went, and (in package
\* diagrams, when it includes) the packages around them.
ClosureIsExact ==
    pc # "done" /\ (Kind = "class" \/ view = Element) =>
        \A i \in FilterId : filled[i] /\ Graph(i) =>
            matching[i] = WithParents(i, Reach(i, view))

\* A set of elements that the configuration includes all of when they are the model.
\* A context stays what it was in the complete model.
Found(K) == [i \in FilterId |-> IF Graph(i) THEN Reach(i, K) ELSE matching[i]]
SelfConsistent(K) == \A e \in K : IncludedBy(e, Found(K))

\* The rounds of a class diagram keep no element too many and none too few: when
\* nothing more is removed, what is left is the largest set of elements that the
\* configuration includes all of. (A search that excludes may have lost its reason
\* in the meantime, so there is no largest set with one.)
LargestConsistent ==
    /\ Kind = "class" /\ \A i \in setting.exclude : ~Graph(i)
    /\ pc = "remove" /\ toRemove = {}
    => /\ SelfConsistent(view)
       /\ \A K \in SUBSET Element : SelfConsistent(K) => K \subseteq view

\* In include diagrams, and in package diagrams where the inside goes too, no
\* relationship that survives leads to an element that was removed, in whichever
\* round that was.
RelationshipsHaveEnds ==
    pc = "done" /\ Kind # "class" /\ InsideGoesToo =>
        \A x \in edges : x.from \in tree => x.to \in tree

\* An inner package which the rounds emptied is judged again: of the packages that
\* are left none is without packages inside and outside of the including contexts.
EmptyPackagesAreJudged ==
    pc = "done" /\ Kind = "package" =>
        \A e \in view, g \in setting.include \ {{}} :
            IsLeaf(e) /\ (\A i \in g : Of(i).type = "context" /\ matching[i] # {})
                => \E i \in g : e \in matching[i]

\* The rounds come to an end.
Finishes == <>(pc = "done")
================================================================================
