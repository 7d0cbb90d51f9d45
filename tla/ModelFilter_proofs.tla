--------------------------- MODULE ModelFilter_proofs ---------------------------
(***************************************************************************)
(* For any elements, relationships and filters: a graph filter that is     *)
(* asked knows exactly what can be reached in the model as it is then      *)
(* (Exactness), no element is judged or compared with after it was removed *)
(* (NothingDangles), relationships of packages and files keep their ends   *)
(* (EndsOfRelationships), packages that were emptied are judged again      *)
(* (EmptiedAreJudged), and the rounds of a class diagram end with the      *)
(* largest set of elements that the configuration includes all of          *)
(* (Largest).                                                              *)
(*                                                                         *)
(* For the packages: whatever refuses one refuses those inside of it       *)
(* (InnerIsRefused), because a search that includes knows the packages     *)
(* around its matches (AroundMatches) and nothing is said of an outer name *)
(* that is not said of the inner ones. So each round destroys exactly what *)
(* it found, and view, tree and ends of relationships agree; the round     *)
(* that found nothing has judged what is left as it is (Judged).           *)
(*                                                                         *)
(* For classes: without searches that exclude, an element                  *)
(* which is included in a model is included in every larger one            *)
(* (MoreIsIncluded), since what can be reached only grows. So a set that   *)
(* is included all by itself loses no element in any round (Kept by the    *)
(* conjunct NothingLost), and a last round that removes nothing shows that *)
(* what is left is such a set.                                             *)
(***************************************************************************)
EXTENDS ModelFilter, TLAPS

LEMMA SettingFacts ==
    ASSUME setting \in Settings
    PROVE  /\ Kind \in {"class", "package", "include"}
           /\ setting.exclude \subseteq FilterId
           /\ setting.include \subseteq SUBSET FilterId
           /\ \A i \in FilterId : Of(i) \in Filter
           /\ Kind # "package" => \A e \in Element : setting.parent[e] = Root
           /\ \A e \in Element : setting.parent[e] \in Element \cup {Root}
  BY FilterAssumption DEF Setting, Kind, Of

LEMMA FilterFacts ==
    ASSUME setting \in Settings, NEW i \in FilterId
    PROVE  /\ Of(i).type \in {"verdict", "graph", "context"}
           /\ Of(i).type \in {"graph", "context"} => Of(i).roots \subseteq Element
  BY SettingFacts DEF Filter

--------------------------------------------------------------------------------
(* Searches. *)

LEMMA AdjacentFacts ==
    ASSUME NEW i, NEW S
    PROVE  /\ Adjacent(i, S) \subseteq view
           /\ Adjacent(i, S) \subseteq S <=> Closed(i, S, view)
  BY DEF Adjacent, Closed

LEMMA ReachFacts ==
    ASSUME NEW i, NEW V
    PROVE  /\ Reach(i, V) \subseteq V
           /\ Of(i).roots \cap V \subseteq Reach(i, V)
           /\ \A e \in Reach(i, V), n \in V : Step(i, e, n) => n \in Reach(i, V)
  BY DEF Reach, Closed

LEMMA ReachIsLeast ==
    ASSUME NEW i, NEW V, NEW S \in SUBSET V,
           Of(i).roots \cap V \subseteq S, Closed(i, S, V)
    PROVE  Reach(i, V) \subseteq S
  BY DEF Reach

\* In a larger model more can be reached.
LEMMA ReachGrows ==
    ASSUME NEW i, NEW V, NEW K \in SUBSET V
    PROVE  Reach(i, K) \subseteq Reach(i, V)
<1> SUFFICES ASSUME NEW e \in Reach(i, K), NEW S \in SUBSET V,
                    Of(i).roots \cap V \subseteq S, Closed(i, S, V)
             PROVE  e \in S
  BY DEF Reach
<1>1. Of(i).roots \cap K \subseteq S \cap K /\ Closed(i, S \cap K, K)
  BY DEF Closed
<1>2. S \cap K \in SUBSET K
  OBVIOUS
<1>3. Reach(i, K) \subseteq S \cap K
  BY <1>1, <1>2, ReachIsLeast
<1> QED
  BY <1>3

--------------------------------------------------------------------------------
(* Judgements. *)

Static(i) == ~Graph(i)

\* An inclusive filter that found more does not reject what it did not reject.
LEMMA AnyOfGrows ==
    ASSUME setting \in Settings, NEW g \in SUBSET FilterId, NEW e, NEW less, NEW more,
           \A i \in FilterId : Graph(i) => less[i] \subseteq more[i],
           \A i \in FilterId : Static(i) => less[i] = more[i],
           AnyOf(Answers(g, e, less)) # "no"
    PROVE  AnyOf(Answers(g, e, more)) # "no"
<1>1. \A i \in g : Static(i) => Match(i, e, less[i]) = Match(i, e, more[i])
  OBVIOUS
<1>2. \A i \in g : Graph(i) =>
         /\ Match(i, e, less[i]) = InGraph(i, e, less[i])
         /\ Match(i, e, more[i]) = InGraph(i, e, more[i])
  BY DEF Match, Graph
<1>3. \A i \in g : Match(i, e, less[i]) = "yes" => Match(i, e, more[i]) = "yes"
  BY <1>1, <1>2 DEF InGraph, Static
<1>4. \A i \in g : Match(i, e, more[i]) = "no" => Match(i, e, less[i]) = "no"
  BY <1>1, <1>2 DEF InGraph, Static
<1>5. CASE "yes" \in Answers(g, e, less)
  BY <1>3, <1>5 DEF AnyOf, Answers
<1>6. CASE "no" \notin Answers(g, e, less)
  BY <1>4, <1>6 DEF AnyOf, Answers
<1> QED
  BY <1>5, <1>6 DEF AnyOf

\* What is included stays included when searches find more, unless they exclude.
LEMMA MoreIsIncluded ==
    ASSUME setting \in Settings, NEW e, NEW less, NEW more,
           \A i \in FilterId : Graph(i) => less[i] \subseteq more[i],
           \A i \in FilterId : Static(i) => less[i] = more[i],
           \A i \in setting.exclude : Static(i),
           IncludedBy(e, less)
    PROVE  IncludedBy(e, more)
<1>1. \A i \in setting.exclude : Match(i, e, less[i]) = Match(i, e, more[i])
  BY SettingFacts
<1>2. Answers(setting.exclude, e, less) = Answers(setting.exclude, e, more)
  BY <1>1 DEF Answers
<1>3. \A g \in setting.include : AnyOf(Answers(g, e, less)) # "no"
  BY DEF IncludedBy, AllOf
<1>4. \A g \in setting.include : AnyOf(Answers(g, e, more)) # "no"
  <2> TAKE g \in setting.include
  <2>1. g \in SUBSET FilterId
    BY SettingFacts
  <2>2. AnyOf(Answers(g, e, less)) # "no"
    BY <1>3
  <2> QED
    BY <2>1, <2>2, AnyOfGrows
<1>5. AllOf({AnyOf(Answers(g, e, more)) : g \in setting.include}) # "no"
  BY <1>4 DEF AllOf
<1> QED
  BY <1>2, <1>5 DEF IncludedBy

--------------------------------------------------------------------------------
(* What a set of elements is worth by itself does not change while the     *)
(* relationships and the contexts do not.                                  *)

LEMMA SameReach ==
    ASSUME setting' = setting, edges' = edges, NEW i, NEW K
    PROVE  Reach(i, K)' = Reach(i, K)
  BY DEF Reach, Closed, Step, Connected, Of

LEMMA SameFound ==
    ASSUME setting' = setting, edges' = edges, NEW K,
           \A i \in FilterId : Static(i) => matching'[i] = matching[i]
    PROVE  Found(K)' = Found(K)
<1>1. \A i \in FilterId : Reach(i, K)' = Reach(i, K)
  BY SameReach
<1>2. \A i \in FilterId : Graph(i)' = Graph(i)
  BY DEF Graph, Of
<1> QED
  BY <1>1, <1>2 DEF Found, Static

LEMMA SameMatch ==
    ASSUME setting' = setting, Kind = "class", NEW i, NEW e, NEW f
    PROVE  Match(i, e, f)' = Match(i, e, f)
  BY DEF Match, Verdict, InGraph, InContext, Kind, Of

LEMMA SameIncluded ==
    ASSUME setting' = setting, Kind = "class", NEW e, NEW found
    PROVE  IncludedBy(e, found)' = IncludedBy(e, found)
<1>1. \A i : Match(i, e, found[i])' = Match(i, e, found[i])
  BY SameMatch
<1>2. \A g : Answers(g, e, found)' = Answers(g, e, found)
  BY <1>1 DEF Answers
<1> QED
  BY <1>2 DEF IncludedBy

LEMMA SameWorth ==
    ASSUME setting' = setting, edges' = edges, Kind = "class", NEW K,
           \A i \in FilterId : Static(i) => matching'[i] = matching[i]
    PROVE  SelfConsistent(K)' = SelfConsistent(K)
<1>1. Found(K)' = Found(K)
  BY SameFound
<1> QED
  BY <1>1, SameIncluded DEF SelfConsistent

--------------------------------------------------------------------------------
(* The inductive invariant. *)

\* A search has its roots and nothing that cannot be reached.
GrowingSearch ==
    \A i \in growing :
        /\ Graph(i) /\ ~filled[i] /\ pc = "judge"
        /\ Of(i).roots \cap view \subseteq matching[i]
        /\ matching[i] \subseteq Reach(i, view)

AskedBeforeRemoval ==
    /\ pc = "remove" => \A i \in FilterId : filled[i]
    /\ pc = "judge" => toRemove = {}

\* The contexts are those of the complete model.
ContextsFirst ==
    (\E i \in FilterId : Of(i).type = "context" /\ ~filled[i]) => view = Element

ViewIsTree == InsideGoesToo => view = tree

\* A package is never left without the packages around it.
TreeIsWhole == \A e \in tree : setting.parent[e] \in tree \cup {Root}

\* A search that includes knows the packages around its matches as long as they are
\* in the model.
AroundMatches ==
    Kind = "package" =>
        \A i \in UNION setting.include : filled[i] /\ Graph(i) =>
            \A e \in matching[i], a \in view : Ancestor(a, e) => a \in matching[i]

\* What is removed and what is left was judged, with the filters as they are.
Judged ==
    /\ pc = "remove" => toRemove = {e \in view : ~ShouldInclude(e)}
    /\ pc = "done" /\ Kind = "package" => \A e \in view : ShouldInclude(e)

EndsExist ==
    Kind # "class" /\ InsideGoesToo => \A x \in edges : x.to \in tree

\* What is included all by itself is not removed.
NothingLost ==
    /\ Kind = "class" /\ pc # "done" /\ (\A i \in setting.exclude : Static(i))
    /\ \A i \in FilterId : Of(i).type = "context" => filled[i]
    => \A K \in SUBSET Element : SelfConsistent(K) => K \subseteq view \ toRemove

LastRound ==
    Kind = "class" /\ pc = "remove" /\ toRemove = {} => SelfConsistent(view)

IInv ==
    /\ TypeOK /\ GrowingSearch /\ AskedBeforeRemoval /\ ContextsFirst
    /\ ClosureIsExact /\ ViewIsTree /\ NothingLost /\ LastRound
    /\ TreeIsWhole /\ AroundMatches /\ Judged /\ EndsExist

\* What depends on the configuration only does not change.
LEMMA SameSetting ==
    ASSUME setting' = setting
    PROVE  /\ Kind' = Kind
           /\ \A i : Of(i)' = Of(i) /\ Graph(i)' = Graph(i)
           /\ \A a, e : Ancestor(a, e)' = Ancestor(a, e)
           /\ InsideGoesToo' = InsideGoesToo
<1>1. \A a, e : Ancestor(a, e)' = Ancestor(a, e)
  BY DEF Ancestor
<1>2. \A S : InwardClosed(S)' = InwardClosed(S) /\ OutwardClosed(S)' = OutwardClosed(S)
  BY <1>1 DEF InwardClosed, OutwardClosed
<1>3. Kind' = Kind /\ \A i : Of(i)' = Of(i) /\ Graph(i)' = Graph(i)
  BY DEF Kind, Of, Graph
<1>4. InsideGoesToo' = InsideGoesToo
  BY <1>2, <1>3 DEF InsideGoesToo
<1> QED
  BY <1>1, <1>3, <1>4

LEMMA AncestorIsTransitive ==
    ASSUME setting \in Settings, NEW a \in Element, NEW e \in Element, NEW c \in Element,
           Ancestor(a, e), Ancestor(e, c)
    PROVE  Ancestor(a, c)
<1> DEFINE p == setting.parent
<1>1. /\ \A x \in Element : p[x] \in Element \cup {Root}
      /\ Root \notin Element
      /\ p[c] # Root /\ p[p[c]] # Root /\ p[p[p[c]]] # Root => p[p[p[p[c]]]] = Root
  BY SettingFacts, FilterAssumption
<1> HIDE DEF p
<1>2. \/ e = p[c]
      \/ p[c] # Root /\ e = p[p[c]]
      \/ p[c] # Root /\ p[p[c]] # Root /\ e = p[p[p[c]]]
  BY DEF Ancestor, p
<1>3. \/ a = p[e]
      \/ p[e] # Root /\ a = p[p[e]]
      \/ p[e] # Root /\ p[p[e]] # Root /\ a = p[p[p[e]]]
  BY DEF Ancestor, p
<1>4. \/ a = p[c]
      \/ p[c] # Root /\ a = p[p[c]]
      \/ p[c] # Root /\ p[p[c]] # Root /\ a = p[p[p[c]]]
  <2>1. CASE e = p[c]
    BY <1>1, <1>3, <2>1
  <2>2. CASE p[c] # Root /\ e = p[p[c]]
    BY <1>1, <1>3, <2>2
  <2>3. CASE p[c] # Root /\ p[p[c]] # Root /\ e = p[p[p[c]]]
    BY <1>1, <1>3, <2>3
  <2> QED
    BY <1>2, <2>1, <2>2, <2>3
<1> QED
  BY <1>4 DEF Ancestor, p

\* What is above a package in the tree has packages inside.
LEMMA OuterIsNoLeaf ==
    ASSUME setting \in Settings, tree \subseteq Element, TreeIsWhole,
           NEW a \in tree, NEW e \in tree, Ancestor(a, e)
    PROVE  ~IsLeaf(a)
<1> DEFINE p == setting.parent
<1>1. Root \notin Element /\ \A x \in tree : p[x] \in tree \cup {Root}
  BY FilterAssumption DEF TreeIsWhole
<1>2. CASE a = p[e]
  BY <1>2 DEF IsLeaf
<1>3. CASE p[e] # Root /\ a = p[p[e]]
  BY <1>1, <1>3 DEF IsLeaf
<1>4. CASE p[e] # Root /\ p[p[e]] # Root /\ a = p[p[p[e]]]
  BY <1>1, <1>4 DEF IsLeaf
<1> QED
  BY <1>2, <1>3, <1>4 DEF Ancestor

\* Whatever refuses a package refuses those inside of it.
LEMMA InnerIsRefused ==
    ASSUME IInv, Kind = "package", InsideGoesToo, \A i \in FilterId : filled[i],
           NEW a \in view, NEW e \in view, Ancestor(a, e), ~ShouldInclude(a)
    PROVE  ~ShouldInclude(e)
<1>1. setting \in Settings /\ tree \subseteq Element /\ view = tree /\ TreeIsWhole
  BY DEF IInv, TypeOK, ViewIsTree
<1>2. ~IsLeaf(a)
  BY <1>1, OuterIsNoLeaf
<1>3. \A i \in FilterId : Of(i).type \in {"verdict", "graph", "context"}
  BY <1>1, FilterFacts
<1>4. \A i, x : Of(i).type = "context" => Match(i, x, matching[i]) = InContext(i, x, matching[i])
  BY DEF Match
<1>5. \A i : Of(i).type = "context" => Match(i, a, matching[i]) = "none"
  BY <1>2, <1>4 DEF InContext
<1>6. \A i, x : Of(i).type = "verdict" => Match(i, x, matching[i]) = Verdict(i, x)
  BY DEF Match
<1>7. \A i, x : Of(i).type = "graph" => Match(i, x, matching[i]) = InGraph(i, x, matching[i])
  BY DEF Match
<1>8. ASSUME AnyOf(Answers(setting.exclude, a, matching)) = "yes"
      PROVE  AnyOf(Answers(setting.exclude, e, matching)) = "yes"
  <2>1. PICK i \in setting.exclude : Match(i, a, matching[i]) = "yes"
    BY <1>8 DEF AnyOf, Answers
  <2>2. i \in FilterId /\ ~Graph(i) /\ (Of(i).type = "verdict" => InwardClosed(Of(i).yes))
    BY <1>1, SettingFacts DEF InsideGoesToo
  <2>3. Of(i).type = "verdict"
    BY <1>3, <1>5, <2>1, <2>2 DEF Graph
  <2>4. a \in Of(i).yes
    BY <1>6, <2>1, <2>3 DEF Verdict
  <2>5. e \in Of(i).yes
    BY <1>1, <2>2, <2>3, <2>4 DEF InwardClosed
  <2>6. Match(i, e, matching[i]) = "yes"
    BY <1>6, <2>3, <2>5 DEF Verdict
  <2> QED
    BY <2>6 DEF AnyOf, Answers
<1>9. ASSUME NEW g \in setting.include, AnyOf(Answers(g, a, matching)) = "no"
      PROVE  AnyOf(Answers(g, e, matching)) = "no"
  <2>1. PICK i \in g : Match(i, a, matching[i]) = "no"
    BY <1>9 DEF AnyOf, Answers
  <2>2. \A j \in g : Match(j, a, matching[j]) # "yes"
    BY <1>9 DEF AnyOf, Answers
  <2>3. \A j \in g :
           /\ j \in FilterId /\ j \in UNION setting.include
           /\ Of(j).type # "context"
           /\ Of(j).type = "verdict" => OutwardClosed(Of(j).yes) /\ InwardClosed(Of(j).no)
    BY <1>1, <1>5, <2>1, SettingFacts DEF InsideGoesToo
  <2>4. \A j \in g : Of(j).type = "graph" =>
           (e \in matching[j] => a \in matching[j])
    BY <2>3 DEF IInv, AroundMatches, Graph
  <2>5. ASSUME NEW j \in g PROVE Match(j, e, matching[j]) # "yes"
    <3>1. CASE Of(j).type = "verdict"
      BY <1>1, <1>6, <2>2, <2>3, <3>1 DEF Verdict, OutwardClosed
    <3>2. CASE Of(j).type = "graph"
      BY <1>7, <2>2, <2>4, <3>2 DEF InGraph
    <3> QED
      BY <1>3, <2>3, <3>1, <3>2
  <2>6. Match(i, e, matching[i]) = "no"
    <3>1. CASE Of(i).type = "verdict"
      <4>1. a \in Of(i).no
        BY <1>6, <2>1, <3>1 DEF Verdict
      <4>2. e \in Of(i).no
        BY <1>1, <2>3, <3>1, <4>1 DEF InwardClosed
      <4> QED
        BY <1>6, <2>5, <3>1, <4>2 DEF Verdict
    <3>2. CASE Of(i).type = "graph"
      BY <1>7, <2>1, <2>4, <3>2 DEF InGraph
    <3> QED
      BY <1>3, <2>3, <3>1, <3>2
  <2> QED
    BY <2>5, <2>6 DEF AnyOf, Answers
<1>10. CASE AnyOf(Answers(setting.exclude, a, matching)) = "yes"
  BY <1>8, <1>10 DEF ShouldInclude, IncludedBy
<1>11. CASE AllOf({AnyOf(Answers(g, a, matching)) : g \in setting.include}) = "no"
  <2>1. PICK g \in setting.include : AnyOf(Answers(g, a, matching)) = "no"
    BY <1>11 DEF AllOf
  <2>2. AnyOf(Answers(g, e, matching)) = "no"
    BY <1>9, <2>1
  <2>3. AllOf({AnyOf(Answers(h, e, matching)) : h \in setting.include}) = "no"
    BY <2>2 DEF AllOf
  <2> QED
    BY <2>3 DEF ShouldInclude, IncludedBy
<1> QED
  BY <1>10, <1>11 DEF ShouldInclude, IncludedBy

\* What is destroyed was found by its own name.
LEMMA DestroyedIsFound ==
    ASSUME IInv, InsideGoesToo, pc = "remove" \/ (pc = "done" /\ Kind # "package")
    PROVE  Destroyed = tree \cap toRemove
<1>1. toRemove \subseteq Element /\ tree \subseteq Element /\ setting \in Settings
  BY DEF IInv, TypeOK
<1>2. CASE Kind # "package"
  <2>1. \A e \in Element : setting.parent[e] = Root
    BY <1>1, <1>2, SettingFacts
  <2>2. \A a \in toRemove, e \in tree : ~Ancestor(a, e)
    BY <1>1, <2>1, FilterAssumption DEF Ancestor
  <2> QED
    BY <2>2 DEF Destroyed
<1>3. CASE Kind = "package"
  <2>1. pc = "remove" /\ view = tree /\ \A i \in FilterId : filled[i]
    BY <1>3 DEF IInv, ViewIsTree, AskedBeforeRemoval
  <2>2. toRemove = {e \in view : ~ShouldInclude(e)}
    BY <2>1 DEF IInv, Judged
  <2>3. \A a \in toRemove, e \in tree : Ancestor(a, e) => e \in toRemove
    BY <1>3, <2>1, <2>2, InnerIsRefused
  <2> QED
    BY <2>3 DEF Destroyed
<1> QED
  BY <1>2, <1>3

\* Removing a package takes everything inside of it.
LEMMA WholeAfterRemoval ==
    ASSUME IInv, tree' = tree \ Destroyed, setting' = setting
    PROVE  TreeIsWhole'
<1> SUFFICES ASSUME NEW e \in tree \ Destroyed
             PROVE  setting.parent[e] \in (tree \ Destroyed) \cup {Root}
  BY DEF TreeIsWhole
<1>1. setting.parent[e] \in tree \cup {Root}
  BY DEF IInv, TreeIsWhole
<1>2. setting.parent[e] \in toRemove => e \in Destroyed
  BY DEF Destroyed, Ancestor
<1>3. ASSUME NEW a \in toRemove, setting.parent[e] \in tree, Ancestor(a, setting.parent[e])
      PROVE  e \in Destroyed
  <2>1. /\ toRemove \subseteq Element /\ tree \subseteq Element /\ setting \in Settings
    BY DEF IInv, TypeOK
  <2>2. Ancestor(setting.parent[e], e)
    BY DEF Ancestor
  <2>3. Ancestor(a, e)
    BY <1>3, <2>1, <2>2, AncestorIsTransitive
  <2> QED
    BY <2>3 DEF Destroyed
<1> QED
  BY <1>1, <1>2, <1>3 DEF Destroyed

\* Where the view, the tree and the relationships stay, so do the facts about them.
LEMMA SameTree ==
    ASSUME IInv, UNCHANGED <<setting, view, tree>>, edges' \subseteq edges
    PROVE  ViewIsTree' /\ TreeIsWhole' /\ EndsExist'
  BY SameSetting DEF IInv, ViewIsTree, TreeIsWhole, EndsExist

\* ... and the judgement, if the filters do not search again.
LEMMA SameJudgement ==
    ASSUME UNCHANGED <<setting, tree, matching>>, NEW e
    PROVE  ShouldInclude(e)' = ShouldInclude(e)
<1>1. \A i, f : Match(i, e, f)' = Match(i, e, f)
  BY SameSetting DEF Match, Verdict, InGraph, InContext, IsLeaf, Kind, Of
<1>2. \A g : Answers(g, e, matching)' = Answers(g, e, matching)
  BY <1>1 DEF Answers
<1> QED
  BY <1>2 DEF ShouldInclude, IncludedBy

\* Filters that are still filled have the matches they had.
LEMMA SameAround ==
    ASSUME IInv, UNCHANGED <<setting, matching>>, view' \subseteq view,
           \A i \in FilterId : filled'[i] => filled[i]
    PROVE  AroundMatches'
<1>1. UNION setting.include \subseteq FilterId
  BY SettingFacts DEF IInv, TypeOK
<1> QED
  BY <1>1, SameSetting DEF IInv, AroundMatches

LEMMA InitIInv ==
    ASSUME Init
    PROVE  IInv
<1>1. TypeOK
  BY FilterAssumption DEF Init, TypeOK
<1>2. GrowingSearch /\ AskedBeforeRemoval /\ ContextsFirst /\ ViewIsTree /\ LastRound
  BY DEF Init, GrowingSearch, AskedBeforeRemoval, ContextsFirst, ViewIsTree, LastRound
<1>3. ClosureIsExact
  BY DEF Init, ClosureIsExact, Searching, Graph
<1>4. NothingLost
  BY DEF Init, NothingLost
<1>5. TreeIsWhole /\ EndsExist
  BY <1>1, SettingFacts DEF Init, TreeIsWhole, EndsExist, TypeOK, Edge
<1>6. AroundMatches /\ Judged
  <2>1. \A i \in FilterId : filled[i] => ~Graph(i)
    BY DEF Init, Searching, Graph
  <2>2. UNION setting.include \subseteq FilterId
    BY <1>1, SettingFacts DEF TypeOK
  <2> QED
    BY <2>1, <2>2 DEF Init, AroundMatches, Judged
<1> QED
  BY <1>1, <1>2, <1>3, <1>4, <1>5, <1>6 DEF IInv

LEMMA ParentsFacts ==
    ASSUME NEW i, NEW S
    PROVE  /\ S \subseteq WithParents(i, S)
           /\ WithParents(i, S) \subseteq S \cup view
           /\ Kind = "class" => WithParents(i, S) = S
  BY DEF WithParents

\* add_parents() adds all the packages around a match.
LEMMA ParentsAreAround ==
    ASSUME setting \in Settings, view \subseteq Element, Kind = "package",
           NEW i \in UNION setting.include, NEW S \in SUBSET Element,
           NEW e \in WithParents(i, S), NEW a \in view, Ancestor(a, e)
    PROVE  a \in WithParents(i, S)
<1>1. CASE e \in S
  BY <1>1 DEF WithParents
<1>2. CASE e \notin S
  <2>1. e \in view
    BY <1>2 DEF WithParents
  <2>2. PICK c \in S : Ancestor(e, c)
    BY <1>2 DEF WithParents
  <2>3. Ancestor(a, c)
    BY <2>1, <2>2, AncestorIsTransitive
  <2> QED
    BY <2>3 DEF WithParents
<1> QED
  BY <1>1, <1>2

\* Steps that only touch what the filters remember and no filled filter.
LEMMA SearchStep ==
    ASSUME IInv, NEW j \in FilterId,
           UNCHANGED <<setting, view, tree, edges, toRemove, pc>>, pc = "judge",
           matching' \in [FilterId -> SUBSET Element], filled' \in [FilterId -> BOOLEAN],
           growing' \subseteq FilterId,
           \A i \in FilterId \ {j} : matching'[i] = matching[i] /\ filled'[i] = filled[i],
           \A i \in FilterId \ {j} : i \in growing' <=> i \in growing,
           ~filled[j], Graph(j) \/ Of(j).type = "context",
           j \in growing' =>
               /\ Graph(j) /\ ~filled'[j]
               /\ Of(j).roots \cap view \subseteq matching'[j]
               /\ matching'[j] \subseteq Reach(j, view),
           filled'[j] /\ Graph(j) => matching'[j] = WithParents(j, Reach(j, view))
    PROVE  IInv'
<1>1. TypeOK'
  BY DEF IInv, TypeOK
<1>2. /\ \A i, K : Reach(i, K)' = Reach(i, K)
      /\ \A i : Of(i)' = Of(i) /\ Graph(i)' = Graph(i)
      /\ Kind' = Kind
  <2>1. \A i, K : Reach(i, K)' = Reach(i, K)
    BY SameReach
  <2> QED
    BY <2>1 DEF Of, Graph, Kind
<1>3. GrowingSearch'
  <2> SUFFICES ASSUME NEW i \in growing'
               PROVE  /\ Graph(i) /\ ~filled'[i] /\ pc = "judge"
                      /\ Of(i).roots \cap view \subseteq matching'[i]
                      /\ matching'[i] \subseteq Reach(i, view)
    BY <1>2 DEF GrowingSearch
  <2>1. CASE i = j
    BY <2>1
  <2>2. CASE i # j
    BY <2>2 DEF IInv, GrowingSearch
  <2> QED
    BY <2>1, <2>2
<1>4. AskedBeforeRemoval' /\ LastRound' /\ Judged'
  BY <1>2 DEF IInv, AskedBeforeRemoval, LastRound, Judged
<1>8. ViewIsTree' /\ TreeIsWhole' /\ EndsExist'
  BY SameTree
<1>9. AroundMatches'
  <2> SUFFICES ASSUME Kind = "package", NEW i \in UNION setting.include, filled'[i], Graph(i),
                      NEW e \in matching'[i], NEW a \in view, Ancestor(a, e)
               PROVE  a \in matching'[i]
    BY SameSetting DEF AroundMatches
  <2>1. i \in FilterId /\ setting \in Settings /\ view \subseteq Element
    BY SettingFacts DEF IInv, TypeOK
  <2>2. CASE i = j
    <3>1. Reach(j, view) \in SUBSET Element
      BY <2>1, ReachFacts
    <3> QED
      BY <2>1, <2>2, <3>1, ParentsAreAround
  <2>3. CASE i # j
    BY <2>1, <2>3 DEF IInv, AroundMatches
  <2> QED
    BY <2>2, <2>3
<1>5. ContextsFirst'
  BY <1>2 DEF IInv, ContextsFirst
<1>6. ClosureIsExact'
  <2> SUFFICES ASSUME Kind = "class" \/ view = Element, NEW i \in FilterId,
                      filled'[i], Graph(i)
               PROVE  matching'[i] = WithParents(i, Reach(i, view))
    <3>1. \A i, S : WithParents(i, S)' = WithParents(i, S)
      BY DEF WithParents, Kind, Ancestor
    <3> QED
      BY <3>1, <1>2 DEF ClosureIsExact
  <2> QED
    BY DEF IInv, ClosureIsExact
<1>7. NothingLost'
  <2> SUFFICES ASSUME Kind = "class", \A i \in setting.exclude : Static(i),
                      \A i \in FilterId : Of(i).type = "context" => filled'[i],
                      NEW K \in SUBSET Element, SelfConsistent(K)'
               PROVE  K \subseteq view
    BY <1>2 DEF NothingLost, Static, IInv, AskedBeforeRemoval
  <2>1. CASE Graph(j)
    <3>1. \A i \in FilterId : Static(i) => matching'[i] = matching[i]
      BY <2>1 DEF Static
    <3>2. SelfConsistent(K)
      BY <3>1, SameWorth
    <3>3. \A i \in FilterId : Of(i).type = "context" => filled[i]
      BY <2>1 DEF Graph
    <3> QED
      BY <3>2, <3>3 DEF IInv, NothingLost
  <2>2. CASE Of(j).type = "context"
    BY <2>2 DEF IInv, ContextsFirst
  <2> QED
    BY <2>1, <2>2
<1> QED
  BY <1>1, <1>3, <1>4, <1>5, <1>6, <1>7, <1>8, <1>9 DEF IInv

LEMMA SeedStep ==
    ASSUME IInv, NEW i \in FilterId, Seed(i)
    PROVE  IInv'
<1>1. matching' \in [FilterId -> SUBSET Element]
  BY DEF Seed, IInv, TypeOK
<1>2. Of(i).roots \cap view \subseteq matching'[i] /\ matching'[i] \subseteq Reach(i, view)
  BY ReachFacts DEF Seed, IInv, TypeOK
<1> QED
  BY <1>1, <1>2, SearchStep DEF Seed, IInv, TypeOK

LEMMA GrowStep ==
    ASSUME IInv, NEW i \in FilterId, Grow(i)
    PROVE  IInv'
<1>0. /\ Graph(i) /\ ~filled[i] /\ pc = "judge" /\ i \in growing
      /\ Of(i).roots \cap view \subseteq matching[i] /\ matching[i] \subseteq Reach(i, view)
  BY DEF Grow, IInv, GrowingSearch
<1>1. PICK visited \in SUBSET matching[i] :
         matching' = [matching EXCEPT ![i] = @ \cup (Adjacent(i, visited) \ @)]
  BY DEF Grow, IInv, TypeOK
<1>2. Adjacent(i, visited) \subseteq Reach(i, view)
  BY <1>0, ReachFacts DEF Adjacent
<1>3. matching' \in [FilterId -> SUBSET Element]
  BY <1>1, AdjacentFacts DEF IInv, TypeOK
<1>4. Of(i).roots \cap view \subseteq matching'[i] /\ matching'[i] \subseteq Reach(i, view)
  BY <1>0, <1>1, <1>2 DEF IInv, TypeOK
<1> QED
  BY <1>0, <1>1, <1>3, <1>4, SearchStep DEF Grow, IInv, TypeOK

LEMMA GrownStep ==
    ASSUME IInv, NEW i \in FilterId, Grown(i)
    PROVE  IInv'
<1>0. /\ Graph(i) /\ ~filled[i] /\ pc = "judge" /\ i \in growing
      /\ Of(i).roots \cap view \subseteq matching[i] /\ matching[i] \subseteq Reach(i, view)
  BY DEF Grown, IInv, GrowingSearch
<1>1. matching[i] = Reach(i, view)
  <2>1. Closed(i, matching[i], view)
    BY AdjacentFacts DEF Grown
  <2>2. matching[i] \in SUBSET view
    BY <1>0, ReachFacts
  <2> QED
    BY <1>0, <2>1, <2>2, ReachIsLeast
<1>2. matching' = [matching EXCEPT ![i] = WithParents(i, Reach(i, view))]
  BY <1>1 DEF Grown, IInv, TypeOK
<1>3. WithParents(i, Reach(i, view)) \subseteq Element
  BY ReachFacts, ParentsFacts DEF IInv, TypeOK
<1>4. matching' \in [FilterId -> SUBSET Element]
  BY <1>2, <1>3 DEF IInv, TypeOK
<1> QED
  BY <1>0, <1>2, <1>4, SearchStep DEF Grown, IInv, TypeOK

LEMMA FillContextStep ==
    ASSUME IInv, NEW i \in FilterId, FillContext(i)
    PROVE  IInv'
<1>1. ~Graph(i) /\ i \notin growing
  BY DEF FillContext, Graph, IInv, GrowingSearch
<1>2. Around(i) \subseteq Element
  BY DEF Around, IInv, TypeOK
<1>3. matching' \in [FilterId -> SUBSET Element]
  BY <1>2 DEF FillContext, IInv, TypeOK
<1> QED
  BY <1>1, <1>3, SearchStep DEF FillContext, IInv, TypeOK

\* In a round of a class diagram the judgement is that of the model as it is then.
LEMMA JudgedAsFound ==
    ASSUME IInv, Kind = "class", pc = "judge", \A i \in FilterId : filled[i]
    PROVE  matching = Found(view)
<1>1. \A i \in FilterId : Graph(i) => matching[i] = Reach(i, view)
  BY ParentsFacts DEF IInv, ClosureIsExact
<1> QED
  BY <1>1 DEF Found, IInv, TypeOK

LEMMA JudgeStep ==
    ASSUME IInv, Judge
    PROVE  IInv'
<1>1. TypeOK' /\ AskedBeforeRemoval' /\ ContextsFirst' /\ GrowingSearch'
  BY DEF Judge, IInv, TypeOK, AskedBeforeRemoval, ContextsFirst, GrowingSearch, Of, Kind
<1>6. ViewIsTree' /\ TreeIsWhole' /\ EndsExist'
  BY SameTree DEF Judge
<1>7. AroundMatches'
  BY SameAround DEF Judge
<1>8. Judged'
  BY SameJudgement DEF Judge, Judged
<1>2. ClosureIsExact'
  <2>1. \A i, S : WithParents(i, S)' = WithParents(i, S)
    BY DEF Judge, WithParents, Kind, Ancestor
  <2>2. \A i, K : Reach(i, K)' = Reach(i, K)
    BY SameReach DEF Judge
  <2> QED
    BY <2>1, <2>2 DEF Judge, IInv, ClosureIsExact, Kind, Graph, Of
<1>3. ASSUME Kind = "class"
      PROVE  \A K : SelfConsistent(K)' = SelfConsistent(K)
  BY <1>3, SameWorth DEF Judge
<1>4. LastRound'
  <2> SUFFICES ASSUME Kind = "class", toRemove' = {}
               PROVE  SelfConsistent(view)
    BY <1>3 DEF LastRound, Judge, Kind
  <2>1. \A e \in view : IncludedBy(e, matching)
    BY DEF Judge, ShouldInclude
  <2> QED
    BY <2>1, JudgedAsFound DEF Judge, SelfConsistent
<1>5. NothingLost'
  <2> SUFFICES ASSUME Kind = "class", \A i \in setting.exclude : Static(i),
                      NEW K \in SUBSET Element, SelfConsistent(K)
               PROVE  K \subseteq view \ toRemove'
    BY <1>3 DEF NothingLost, Static, Judge, Kind, Graph, Of
  <2>1. K \subseteq view
    BY DEF IInv, NothingLost, Judge
  <2>2. ASSUME NEW e \in K PROVE IncludedBy(e, matching)
    <3>1. IncludedBy(e, Found(K))
      BY DEF SelfConsistent
    <3>2. \A i \in FilterId : Graph(i) => Found(K)[i] \subseteq Found(view)[i]
      BY <2>1, ReachGrows DEF Found
    <3>3. \A i \in FilterId : Static(i) => Found(K)[i] = Found(view)[i]
      BY DEF Found, Static
    <3>4. IncludedBy(e, Found(view))
      BY <3>1, <3>2, <3>3, MoreIsIncluded DEF IInv, TypeOK
    <3> QED
      BY <3>4, JudgedAsFound DEF Judge
  <2> QED
    BY <2>1, <2>2 DEF Judge, ShouldInclude
<1> QED
  BY <1>1, <1>2, <1>4, <1>5, <1>6, <1>7, <1>8 DEF IInv

LEMMA RemoveClassesStep ==
    ASSUME IInv, RemoveClasses
    PROVE  IInv'
<1>1. TypeOK'
  BY DEF RemoveClasses, IInv, TypeOK, Kept
<1>2. \A i \in FilterId : filled[i] /\ (Graph(i) => ~filled'[i])
  BY DEF RemoveClasses, Kept, IInv, AskedBeforeRemoval
<1>3. \A i \in FilterId : Of(i).type = "context" => filled'[i]
  BY <1>2 DEF RemoveClasses, Kept, Graph
<1>4. GrowingSearch'
  BY <1>2 DEF RemoveClasses, IInv, GrowingSearch, TypeOK
<1>5. AskedBeforeRemoval' /\ LastRound'
  BY DEF RemoveClasses, AskedBeforeRemoval, LastRound
<1>6. ContextsFirst'
  BY <1>3 DEF RemoveClasses, ContextsFirst, Of
<1>7. ClosureIsExact'
  BY <1>2 DEF RemoveClasses, ClosureIsExact, Graph, Of
<1>8. ViewIsTree' /\ EndsExist' /\ Judged'
  BY DestroyedIsFound, SameSetting
     DEF RemoveClasses, IInv, ViewIsTree, EndsExist, Judged, InsideGoesToo
<1>10. TreeIsWhole' /\ AroundMatches'
  BY WholeAfterRemoval, SameSetting DEF RemoveClasses, AroundMatches
<1>9. NothingLost'
  <2> SUFFICES ASSUME \A i \in setting.exclude : Static(i),
                      NEW K \in SUBSET Element, SelfConsistent(K)'
               PROVE  K \subseteq view'
    BY DEF NothingLost, Static, Graph, Of, RemoveClasses
  <2>1. SelfConsistent(K)
    BY SameWorth DEF RemoveClasses
  <2> QED
    BY <1>2, <2>1 DEF RemoveClasses, IInv, NothingLost
<1> QED
  BY <1>1, <1>4, <1>5, <1>6, <1>7, <1>8, <1>9, <1>10 DEF IInv

\* The steps of the other diagrams, and the last one of a class diagram.
LEMMA LastStep ==
    ASSUME IInv, TrimClasses \/ RemoveFiles
    PROVE  IInv'
<1>1. TypeOK'
  BY DEF TrimClasses, RemoveFiles, Trimmed, IInv, TypeOK
<1>2. GrowingSearch'
  BY DEF TrimClasses, RemoveFiles, IInv, GrowingSearch
<1>3. AskedBeforeRemoval' /\ ContextsFirst'
  BY DEF TrimClasses, RemoveFiles, IInv, AskedBeforeRemoval, ContextsFirst
<1>4. ClosureIsExact' /\ NothingLost' /\ LastRound'
  BY DEF TrimClasses, RemoveFiles, ClosureIsExact, NothingLost, LastRound
<1>5. Judged' /\ AroundMatches'
  BY SameSetting DEF TrimClasses, RemoveFiles, Judged, AroundMatches
<1>6. ViewIsTree' /\ TreeIsWhole' /\ EndsExist'
  <2>1. CASE TrimClasses
    BY <2>1, SameTree DEF TrimClasses, Trimmed
  <2>2. CASE RemoveFiles
    <3>1. InsideGoesToo /\ Destroyed = tree \cap toRemove
      BY <2>2, DestroyedIsFound DEF RemoveFiles, InsideGoesToo
    <3>2. ViewIsTree' /\ EndsExist'
      BY <2>2, <3>1, SameSetting DEF RemoveFiles, Trimmed, IInv, ViewIsTree, EndsExist
    <3> QED
      BY <2>2, <3>2, WholeAfterRemoval DEF RemoveFiles
  <2> QED
    BY <2>1, <2>2
<1> QED
  BY <1>1, <1>2, <1>3, <1>4, <1>5, <1>6 DEF IInv

LEMMA RemovePackagesStep ==
    ASSUME IInv, RemovePackages
    PROVE  IInv'
<1>1. TypeOK'
  BY DEF RemovePackages, Trimmed, Kept, IInv, TypeOK
<1>2. \A i \in FilterId : filled[i]
  BY DEF RemovePackages, IInv, AskedBeforeRemoval
<1>3. GrowingSearch'
  BY <1>2 DEF RemovePackages, IInv, GrowingSearch, TypeOK
<1>4. view' = Element => pc' = "done"
  BY DEF RemovePackages, IInv, TypeOK
<1>5. Kind' = "package"
  BY DEF RemovePackages, Kind
<1>6. ClosureIsExact' /\ NothingLost' /\ LastRound'
  BY <1>4, <1>5 DEF ClosureIsExact, NothingLost, LastRound
<1>9. ViewIsTree' /\ EndsExist'
  BY DestroyedIsFound, SameSetting DEF RemovePackages, Trimmed, IInv, ViewIsTree, EndsExist
<1>10. TreeIsWhole' /\ AroundMatches'
  <2>1. \A i \in FilterId : filled'[i] => filled[i]
    BY <1>2
  <2> QED
    BY <2>1, WholeAfterRemoval, SameAround DEF RemovePackages
<1>11. Judged'
  <2>1. toRemove = {e \in view : ~ShouldInclude(e)}
    BY DEF RemovePackages, IInv, Judged
  <2> SUFFICES ASSUME view' = view
               PROVE  \A e \in view : ShouldInclude(e)'
    BY DEF RemovePackages, Judged
  <2>2. toRemove = {} /\ \A e \in view : ShouldInclude(e)
    BY <2>1 DEF RemovePackages
  <2>3. tree' = tree
    BY <2>2 DEF RemovePackages, Destroyed
  <2> QED
    BY <2>2, <2>3, SameJudgement DEF RemovePackages
<1>7. ContextsFirst'
  BY <1>2 DEF RemovePackages, Kept, ContextsFirst, Graph, Of
<1>8. AskedBeforeRemoval'
  <2>1. CASE pc' = "judge"
    BY <2>1 DEF RemovePackages, AskedBeforeRemoval
  <2>2. CASE pc' = "done"
    BY <2>2 DEF RemovePackages, AskedBeforeRemoval
  <2> QED
    BY <2>1, <2>2 DEF RemovePackages
<1> QED
  BY <1>1, <1>3, <1>6, <1>7, <1>8, <1>9, <1>10, <1>11 DEF IInv

LEMMA StutterStep ==
    ASSUME IInv, UNCHANGED vars
    PROVE  IInv'
<1>1. /\ TypeOK' /\ GrowingSearch' /\ AskedBeforeRemoval' /\ ContextsFirst'
  <2>1. TypeOK' /\ AskedBeforeRemoval'
    BY DEF IInv, vars, TypeOK, AskedBeforeRemoval, Kind
  <2>2. GrowingSearch'
    <3>1. \A i : Graph(i)' = Graph(i) /\ Of(i)' = Of(i) /\ Reach(i, view)' = Reach(i, view)
      BY DEF vars, Graph, Of, Reach, Closed, Step, Connected
    <3> QED
      BY <3>1 DEF IInv, vars, GrowingSearch
  <2>3. ContextsFirst'
    BY DEF IInv, vars, ContextsFirst, Of
  <2> QED
    BY <2>1, <2>2, <2>3
<1>2. ClosureIsExact'
  <2>1. \A i, S : WithParents(i, S)' = WithParents(i, S)
    BY DEF vars, WithParents, Kind, Ancestor
  <2>2. \A i, K : Reach(i, K)' = Reach(i, K)
    BY SameReach DEF vars
  <2> QED
    BY <2>1, <2>2 DEF vars, IInv, ClosureIsExact, Kind, Graph, Of
<1>3. ASSUME Kind = "class"
      PROVE  \A K : SelfConsistent(K)' = SelfConsistent(K)
  BY <1>3, SameWorth DEF vars
<1>4. Kind' = Kind /\ \A i : Of(i)' = Of(i) /\ Static(i)' = Static(i)
  BY DEF vars, Kind, Of, Static, Graph
<1>5. NothingLost'
  BY <1>3, <1>4 DEF vars, IInv, NothingLost
<1>6. LastRound'
  BY <1>3, <1>4 DEF vars, IInv, LastRound
<1>7. ViewIsTree' /\ TreeIsWhole' /\ EndsExist' /\ AroundMatches'
  BY SameTree, SameAround DEF vars
<1>8. Judged'
  BY <1>4, SameJudgement DEF vars, IInv, Judged
<1> QED
  BY <1>1, <1>2, <1>5, <1>6, <1>7, <1>8 DEF IInv

THEOREM Invariance == Spec => []IInv
<1>1. Init => IInv
  BY InitIInv
<1>2. IInv /\ [Next]_vars => IInv'
  <2> SUFFICES ASSUME IInv, [Next]_vars PROVE IInv'
    OBVIOUS
  <2>1. ASSUME NEW i \in FilterId, Seed(i) PROVE IInv'
    BY <2>1, SeedStep
  <2>2. ASSUME NEW i \in FilterId, Grow(i) PROVE IInv'
    BY <2>2, GrowStep
  <2>3. ASSUME NEW i \in FilterId, Grown(i) PROVE IInv'
    BY <2>3, GrownStep
  <2>4. ASSUME NEW i \in FilterId, FillContext(i) PROVE IInv'
    BY <2>4, FillContextStep
  <2> QED
    BY <2>1, <2>2, <2>3, <2>4, JudgeStep, RemoveClassesStep, LastStep, RemovePackagesStep,
       StutterStep DEF Next
<1> QED
  BY <1>1, <1>2, PTL DEF Spec

--------------------------------------------------------------------------------
(* The theorems. *)

\* The variables of apply_filter() and of the filters have their types.
THEOREM TypeCorrect == Spec => []TypeOK
<1>1. IInv => TypeOK
  BY DEF IInv
<1> QED
  BY <1>1, Invariance, PTL

\* However the passes over the growing set go, an edge_traversal_filter knows exactly
\* what can be reached in the model that is being filtered.
THEOREM Exactness == Spec => []ClosureIsExact
<1>1. IInv => ClosureIsExact
  BY DEF IInv
<1> QED
  BY <1>1, Invariance, PTL

\* apply_filter() never judges an element that the rounds before have removed, unless
\* a package was removed before the packages inside of it; and in class diagrams no
\* filter compares with one.
THEOREM NothingDangles == Spec => []NoDanglingUse
<1>1. IInv => NoDanglingUse
  <2> SUFFICES ASSUME IInv, pc = "judge"
               PROVE  /\ InsideGoesToo => view \subseteq tree
                      /\ Kind = "class" =>
                            \A i \in FilterId : filled[i] /\ Graph(i) => matching[i] \subseteq tree
    BY DEF NoDanglingUse
  <2>1. InsideGoesToo => view \subseteq tree
    BY DEF IInv, ViewIsTree
  <2>2. Kind = "class" => InsideGoesToo
    BY DEF InsideGoesToo
  <2> QED
    BY <2>1, <2>2, ReachFacts, ParentsFacts DEF IInv, ClosureIsExact
<1> QED
  BY <1>1, Invariance, PTL

\* When the rounds of a class diagram stop, the largest set of elements is left that
\* the configuration includes all of.
THEOREM Largest == Spec => []LargestConsistent
<1>1. IInv => LargestConsistent
  BY DEF IInv, LargestConsistent, NothingLost, LastRound, AskedBeforeRemoval, Static
<1> QED
  BY <1>1, Invariance, PTL

\* However many rounds apply_filter() takes in a package diagram, and in the one round
\* of an include diagram, no relationship is left without its end, for every tree of
\* packages and every configuration that takes with a package those inside of it.
THEOREM EndsOfRelationships == Spec => []RelationshipsHaveEnds
<1>1. IInv => RelationshipsHaveEnds
  BY DEF IInv, EndsExist, RelationshipsHaveEnds
<1> QED
  BY <1>1, Invariance, PTL

\* The rounds of a package diagram do not stop before the packages that they emptied
\* were judged as packages without anything inside.
THEOREM EmptiedAreJudged == Spec => []EmptyPackagesAreJudged
<1>1. IInv => EmptyPackagesAreJudged
  <2> SUFFICES ASSUME IInv, pc = "done", Kind = "package",
                      NEW e \in view, NEW g \in setting.include, g # {}, IsLeaf(e),
                      \A i \in g : Of(i).type = "context" /\ matching[i] # {}
               PROVE  \E i \in g : e \in matching[i]
    BY DEF EmptyPackagesAreJudged
  <2>1. AnyOf(Answers(g, e, matching)) # "no"
    BY DEF IInv, Judged, ShouldInclude, IncludedBy, AllOf
  <2>2. \A i \in g : Match(i, e, matching[i]) = IF e \in matching[i] THEN "yes" ELSE "no"
    BY DEF Match, InContext
  <2> QED
    BY <2>1, <2>2 DEF AnyOf, Answers
<1> QED
  BY <1>1, Invariance, PTL
================================================================================
