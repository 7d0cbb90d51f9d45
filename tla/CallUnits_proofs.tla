---------------------------- MODULE CallUnits_proofs ----------------------------
(***************************************************************************)
(* Chains are call paths, and where callers are kept they are all of the   *)
(* longest ones: for every program, whatever its functions call, and every *)
(* distribution of their declarations and definitions among units.         *)
(*                                                                         *)
(* First the search itself. WaysUp is recursive, and its recursion ends    *)
(* because every call has fewer functions left to go to: of the calls that *)
(* would return something else than the ways (Ways, defined without        *)
(* recursion) one with the fewest functions left is refuted by its own     *)
(* calls. The messages of a chain are taken in the same way.               *)
(*                                                                         *)
(* Then what the search finds. IInv follows each call from a body to the   *)
(* model: VisitorKnows says under which key the present visitor recorded   *)
(* it, Recorded what messages the activities have, Kept that a function    *)
(* has all its callers once the one unit that calls it was finalized, and  *)
(* InlinedCalls what is left of them when lambdas are inlined: no call but *)
(* those on the way through lambdas, which InlinedIsCalled shows for any   *)
(* depth, as lambdas call one another in no cycle.                         *)
(***************************************************************************)
EXTENDS CallUnits, SequenceTheorems, FiniteSetTheorems, WellFoundedInduction, TLAPS
--------------------------------------------------------------------------------
(***************************************************************************)
(* The ways up from a function                                             *)
(***************************************************************************)
\* The functions of a way from one position on.
From(w, k) == {w[j] : j \in k..Len(w)}

\* What WaysUp computes, without recursion: a way up to f leads from caller to
\* called function, meets no function twice and none of those below, and cannot
\* be prolonged.
IsWay(w, f, below) ==
    /\ w \in Seq(Function) /\ Len(w) >= 1 /\ w[Len(w)] = f
    /\ \A i \in 1..(Len(w) - 1) :
          w[i] \in CallersAbove(w[i + 1], below \cup From(w, i + 1))
    /\ CallersAbove(w[1], below \cup From(w, 1)) = {}

Ways(f, below) == {w \in Seq(Function) : IsWay(w, f, below)}

\* The functions of a way with one more at its end.
LEMMA FromAppend ==
    ASSUME NEW v \in Seq(Function), NEW f \in Function
    PROVE  /\ From(Append(v, f), Len(v) + 1) = {f}
           /\ \A k \in 1..Len(v) : From(Append(v, f), k) = From(v, k) \cup {f}
<1> DEFINE w == Append(v, f)
           n == Len(v)
<1>1. /\ n \in Nat /\ Len(w) = n + 1 /\ w[n + 1] = f
      /\ \A j \in 1..n : w[j] = v[j]
  OBVIOUS
<1> HIDE DEF w, n
<1>2. From(w, n + 1) = {f}
  <2>1. (n + 1)..(n + 1) = {n + 1}
    BY <1>1
  <2> QED
    BY <1>1, <2>1 DEF From
<1>3. ASSUME NEW k \in 1..n PROVE From(w, k) = From(v, k) \cup {f}
  <2>1. k..(n + 1) = (k..n) \cup {n + 1}
    BY <1>1
  <2>2. \A j \in k..n : w[j] = v[j]
    BY <1>1
  <2>3. From(w, k) = {w[j] : j \in (k..n) \cup {n + 1}}
    BY <1>1, <2>1 DEF From
  <2>4. From(v, k) = {w[j] : j \in k..n}
    BY <2>2 DEF From, n
  <2> QED
    BY <1>1, <2>3, <2>4
<1> QED
  BY <1>2, <1>3 DEF w, n

\* A way that ends at once.
LEMMA WayOfOne ==
    ASSUME NEW f \in Function, NEW below \in SUBSET Function,
           CallersAbove(f, below \cup {f}) = {}
    PROVE  Ways(f, below) = {<<f>>}
<1>1. <<f>> \in Seq(Function) /\ Len(<<f>>) = 1 /\ <<f>>[1] = f
  OBVIOUS
<1>2. From(<<f>>, 1) = {f}
  <2>1. 1..1 = {1}
    OBVIOUS
  <2> QED
    BY <1>1, <2>1 DEF From
<1>3. IsWay(<<f>>, f, below)
  BY <1>1, <1>2 DEF IsWay
<1>4. ASSUME NEW w \in Seq(Function), IsWay(w, f, below) PROVE w = <<f>>
  <2> DEFINE n == Len(w)
  <2>1. n \in Nat /\ n >= 1 /\ w[n] = f /\ Len(w) = n
    BY <1>4 DEF IsWay
  <2>2. \A i \in 1..(n - 1) : w[i] \in CallersAbove(w[i + 1], below \cup From(w, i + 1))
    BY <1>4 DEF IsWay
  <2> HIDE DEF n
  <2>3. n = 1
    <3> SUFFICES ASSUME n # 1 PROVE FALSE
      OBVIOUS
    <3>1. n - 1 \in 1..(n - 1) /\ (n - 1) + 1 = n
      BY ONLY <2>1, n # 1
    <3>2. w[n - 1] \in CallersAbove(w[n], below \cup From(w, n))
      BY ONLY <2>2, <3>1
    <3>3. From(w, n) = {f}
      <4>1. n..n = {n}
        BY <2>1
      <4> QED
        BY <2>1, <4>1 DEF From
    <3> QED
      BY <2>1, <3>2, <3>3
  <2> QED
    BY <2>1, <2>3
<1> QED
  BY <1>1, <1>3, <1>4 DEF Ways

\* A way that goes on is a way up to a caller, with the function at its end.
LEMMA WayOfMore ==
    ASSUME NEW f \in Function, NEW below \in SUBSET Function,
           CallersAbove(f, below \cup {f}) # {},
           \A g \in Function : CallersAbove(g, below \cup {f}) \subseteq Function
    PROVE  Ways(f, below) =
              {Append(v, f) : v \in UNION {Ways(c, below \cup {f}) :
                                             c \in CallersAbove(f, below \cup {f})}}
<1> DEFINE visited == below \cup {f}
           next == CallersAbove(f, visited)
           longer == {Append(v, f) : v \in UNION {Ways(c, visited) : c \in next}}
<1>1. ASSUME NEW w \in Seq(Function), IsWay(w, f, below) PROVE w \in longer
  <2> DEFINE n == Len(w)
             v == SubSeq(w, 1, n - 1)
             c == w[n - 1]
  <2>1. n \in Nat /\ n >= 1 /\ w[n] = f /\ Len(w) = n
    BY <1>1 DEF IsWay
  <2>2. \A i \in 1..(n - 1) : w[i] \in CallersAbove(w[i + 1], below \cup From(w, i + 1))
    BY <1>1 DEF IsWay
  <2> HIDE DEF n
  <2>3. From(w, n) = {f}
    <3>1. n..n = {n}
      BY <2>1
    <3> QED
      BY <2>1, <3>1 DEF From
  <2>4. n # 1
    BY <1>1, <2>1, <2>3 DEF IsWay
  <2>5. c \in next
    <3>1. n - 1 \in 1..(n - 1) /\ (n - 1) + 1 = n
      BY ONLY <2>1, <2>4
    <3>2. w[n - 1] \in CallersAbove(w[n], below \cup From(w, n))
      BY ONLY <2>2, <3>1
    <3> QED
      BY <2>1, <2>3, <3>2
  <2>6. /\ v \in Seq(Function) /\ Len(v) = n - 1
        /\ \A j \in 1..(n - 1) : v[j] = w[j]
    BY ONLY <2>1, w \in Seq(Function)
  <2>7. w = Append(v, f)
    BY <2>1, <2>6
  <2> HIDE DEF v
  <2>8. \A k \in 1..(n - 1) : From(w, k) = From(v, k) \cup {f}
    BY <2>6, <2>7, FromAppend
  <2>9. Len(v) >= 1 /\ v[Len(v)] = c
    BY <2>1, <2>4, <2>6
  <2>10. ASSUME NEW i \in 1..(Len(v) - 1)
        PROVE  v[i] \in CallersAbove(v[i + 1], visited \cup From(v, i + 1))
    <3>1. i \in 1..(n - 1) /\ i + 1 \in 1..(n - 1)
      BY <2>1, <2>6
    <3>2. w[i] \in CallersAbove(w[i + 1], below \cup From(w, i + 1))
      BY ONLY <2>2, <3>1
    <3>3. From(w, i + 1) = From(v, i + 1) \cup {f}
      BY <2>8, <3>1
    <3>4. below \cup From(w, i + 1) = visited \cup From(v, i + 1)
      BY <3>3
    <3>5. v[i] = w[i] /\ v[i + 1] = w[i + 1]
      BY <2>6, <3>1
    <3> QED
      BY <3>2, <3>4, <3>5
  <2>11. CallersAbove(v[1], visited \cup From(v, 1)) = {}
    <3>1. 1 \in 1..(n - 1)
      BY ONLY <2>1, <2>4
    <3>2. From(w, 1) = From(v, 1) \cup {f} /\ v[1] = w[1]
      BY <2>6, <2>8, <3>1
    <3>3. below \cup From(w, 1) = visited \cup From(v, 1)
      BY <3>2
    <3>4. CallersAbove(w[1], below \cup From(w, 1)) = {}
      BY <1>1 DEF IsWay
    <3> QED
      BY <3>2, <3>3, <3>4
  <2>12. v \in Ways(c, visited)
    BY <2>6, <2>9, <2>10, <2>11 DEF IsWay, Ways
  <2> HIDE DEF next, visited, c
  <2> QED
    BY <2>5, <2>7, <2>12
<1>2. ASSUME NEW c \in next, NEW v \in Ways(c, visited) PROVE Append(v, f) \in Ways(f, below)
  <2> DEFINE n == Len(v)
             w == Append(v, f)
  <2>1. /\ v \in Seq(Function) /\ n \in Nat /\ n >= 1 /\ v[n] = c /\ Len(v) = n
        /\ \A i \in 1..(n - 1) :
              v[i] \in CallersAbove(v[i + 1], visited \cup From(v, i + 1))
        /\ CallersAbove(v[1], visited \cup From(v, 1)) = {}
    <3>1. v \in Seq(Function) /\ IsWay(v, c, visited)
      BY <1>2 DEF Ways
    <3>2. n \in Nat
      BY <3>1
    <3> QED
      BY <3>1, <3>2 DEF IsWay
  <2> HIDE DEF n
  <2>2. /\ w \in Seq(Function) /\ Len(w) = n + 1 /\ w[n + 1] = f
        /\ \A j \in 1..n : w[j] = v[j]
    BY <2>1
  <2>3. /\ From(w, n + 1) = {f}
        /\ \A k \in 1..n : From(w, k) = From(v, k) \cup {f}
    BY <2>1, FromAppend
  <2> HIDE DEF w
  <2>4. ASSUME NEW i \in 1..(Len(w) - 1)
        PROVE  w[i] \in CallersAbove(w[i + 1], below \cup From(w, i + 1))
    <3>1. CASE i = n
      <4>1. w[i] = c /\ w[i + 1] = f
        BY <2>1, <2>2, <3>1
      <4>2. below \cup From(w, i + 1) = visited
        BY <2>3, <3>1
      <4> QED
        BY <1>2, <4>1, <4>2
    <3>2. CASE i # n
      <4>1. i \in 1..(n - 1) /\ i \in 1..n /\ i + 1 \in 1..n
        BY <2>1, <2>2, <3>2
      <4>2. v[i] \in CallersAbove(v[i + 1], visited \cup From(v, i + 1))
        BY <2>1, <4>1
      <4>3. From(w, i + 1) = From(v, i + 1) \cup {f}
        BY <2>3, <4>1
      <4>4. below \cup From(w, i + 1) = visited \cup From(v, i + 1)
        BY <4>3
      <4>5. w[i] = v[i] /\ w[i + 1] = v[i + 1]
        BY <2>2, <4>1
      <4> QED
        BY <4>2, <4>4, <4>5
    <3> QED
      BY <3>1, <3>2
  <2>5. CallersAbove(w[1], below \cup From(w, 1)) = {}
    <3>1. 1 \in 1..n
      BY <2>1
    <3>2. From(w, 1) = From(v, 1) \cup {f} /\ v[1] = w[1]
      BY <2>2, <2>3, <3>1
    <3>3. below \cup From(w, 1) = visited \cup From(v, 1)
      BY <3>2
    <3> QED
      BY <2>1, <3>2, <3>3
  <2>6. Len(w) >= 1 /\ w[Len(w)] = f
    BY <2>1, <2>2
  <2>7. w \in Ways(f, below)
    BY <2>2, <2>4, <2>5, <2>6 DEF IsWay, Ways
  <2> QED
    BY <2>7 DEF w
<1> HIDE DEF next, visited
<1>3. longer \subseteq Ways(f, below)
  BY <1>2
<1>4. Ways(f, below) \subseteq longer
  BY <1>1 DEF Ways
<1> QED
  BY <1>3, <1>4 DEF next, visited

\* One call of the recursion, with h for what the calls in it return.
WaysStep(h, f, below) ==
    LET visited == below \cup {f}
        next == CallersAbove(f, visited)
    IN  IF next = {} THEN {<<f>>}
        ELSE {Append(way, f) : way \in UNION {h[<<c, visited>>] : c \in next}}

Nodes == Function \X SUBSET Function

CallersAreFunctions == callers \in [Function -> SUBSET Function]

\* The ways satisfy the recursion ...
LEMMA WaysRecur ==
    ASSUME CallersAreFunctions, NEW f \in Function, NEW below \in SUBSET Function, NEW h,
           \A g \in Function, b \in SUBSET Function : h[<<g, b>>] = Ways(g, b)
    PROVE  Ways(f, below) = WaysStep(h, f, below)
<1> DEFINE visited == below \cup {f}
           next == CallersAbove(f, visited)
<1>1. \A g \in Function : CallersAbove(g, visited) \subseteq Function
  BY DEF CallersAreFunctions, CallersAbove
<1>2. visited \in SUBSET Function
  OBVIOUS
<1>3. \A c \in next : h[<<c, visited>>] = Ways(c, visited)
  BY <1>1, <1>2
<1>4. CASE next = {}
  BY <1>4, WayOfOne DEF WaysStep
<1>5. CASE next # {}
  <2>1. Ways(f, below) = {Append(v, f) : v \in UNION {Ways(c, visited) : c \in next}}
    BY <1>1, <1>5, WayOfMore
  <2>2. WaysStep(h, f, below) =
           {Append(v, f) : v \in UNION {h[<<c, visited>>] : c \in next}}
    BY <1>5 DEF WaysStep
  <2>3. {Ways(c, visited) : c \in next} = {h[<<c, visited>>] : c \in next}
    BY <1>3
  <2> HIDE DEF next, visited
  <2> QED
    BY <2>1, <2>2, <2>3
<1> QED
  BY <1>4, <1>5

\* ... so there is a function that does, and WaysUp is one.
LEMMA WaysUpRecur ==
    ASSUME CallersAreFunctions, NEW f \in Function, NEW below \in SUBSET Function
    PROVE  WaysUp[<<f, below>>] = WaysStep(WaysUp, f, below)
<1> DEFINE h == [node \in Nodes |-> Ways(node[1], node[2])]
<1>1. \A g \in Function, b \in SUBSET Function : h[<<g, b>>] = Ways(g, b)
  BY DEF Nodes
<1>2. h = [node \in Nodes |-> h[node]]
  OBVIOUS
<1> HIDE DEF h
<1>3. \A node \in Nodes : h[node] = WaysStep(h, node[1], node[2])
  <2> SUFFICES ASSUME NEW node \in Nodes PROVE h[node] = WaysStep(h, node[1], node[2])
    OBVIOUS
  <2>1. /\ node[1] \in Function /\ node[2] \in SUBSET Function
        /\ node = <<node[1], node[2]>>
    BY DEF Nodes
  <2>2. Ways(node[1], node[2]) = WaysStep(h, node[1], node[2])
    BY <1>1, <2>1, WaysRecur
  <2>3. h[<<node[1], node[2]>>] = Ways(node[1], node[2])
    BY <1>1, <2>1
  <2> QED
    BY <2>1, <2>2, <2>3
<1>4. h = [node \in Nodes |-> WaysStep(h, node[1], node[2])]
  BY <1>2, <1>3
<1>5. \E k : k = [node \in Nodes |-> WaysStep(k, node[1], node[2])]
  BY <1>4
<1>6. WaysUp = [node \in Nodes |-> WaysStep(WaysUp, node[1], node[2])]
  BY <1>5 DEF WaysUp, WaysStep, Nodes
<1>7. <<f, below>> \in Nodes /\ <<f, below>>[1] = f /\ <<f, below>>[2] = below
  BY DEF Nodes
<1> QED
  BY <1>6, <1>7

\* Of any sets of functions one has no smaller one among them.
LEMMA SmallestSet ==
    ASSUME IsFiniteSet(Function), NEW T, T \subseteq SUBSET Function, T # {}
    PROVE  \E x \in T : \A y \in T : y \subseteq x => y = x
<1>1. IsWellFoundedOn(StrictSubsetOrdering(Function), FiniteSubsetsOf(Function))
  BY FS_StrictSubsetOrderingWellFounded
<1>2. T \subseteq FiniteSubsetsOf(Function)
  BY FS_Subset DEF FiniteSubsetsOf
<1>3. PICK x \in T : \A y \in T : ~(<<y, x>> \in StrictSubsetOrdering(Function))
  BY <1>1, <1>2, WFMin
<1>4. ASSUME NEW y \in T, y \subseteq x PROVE y = x
  BY <1>3, <1>4 DEF StrictSubsetOrdering
<1> QED
  BY <1>3, <1>4

\* Every recursive call has fewer functions left to go to, so what WaysUp returns
\* is what its recursion makes of it: exactly the ways, for every call graph, with
\* cycles and shared callers.
LEMMA WaysUpAreWays ==
    ASSUME IsFiniteSet(Function), CallersAreFunctions
    PROVE  \A f \in Function, below \in SUBSET Function :
              WaysUp[<<f, below>>] = Ways(f, below)
<1> DEFINE Left(node) == Function \ (node[2] \cup {node[1]})
           bad == {node \in Nodes : WaysUp[node] # Ways(node[1], node[2])}
<1>1. bad = {}
  <2> SUFFICES ASSUME bad # {} PROVE FALSE
    OBVIOUS
  <2> DEFINE T == {Left(node) : node \in bad}
  <2>1. T \subseteq SUBSET Function /\ T # {}
    OBVIOUS
  <2>2. PICK x \in T : \A y \in T : y \subseteq x => y = x
    <3> HIDE DEF T
    <3> QED
      BY <2>1, SmallestSet
  <2>3. PICK node \in bad : x = Left(node)
    BY <2>2
  <2> DEFINE f == node[1]
             below == node[2]
             visited == below \cup {f}
             next == CallersAbove(f, visited)
  <2>4. f \in Function /\ below \in SUBSET Function /\ node = <<f, below>>
    BY DEF Nodes
  <2>5. ASSUME NEW c \in next PROVE WaysUp[<<c, visited>>] = Ways(c, visited)
    <3>1. c \in Function /\ c \notin visited
      BY <2>4, <2>5 DEF CallersAbove, CallersAreFunctions
    <3>2. <<c, visited>> \in Nodes /\ <<c, visited>>[1] = c /\ <<c, visited>>[2] = visited
      BY <2>4, <3>1 DEF Nodes
    <3>3. Left(<<c, visited>>) \subseteq x /\ Left(<<c, visited>>) # x
      BY <2>3, <3>1, <3>2
    <3>4. <<c, visited>> \notin bad
      BY <2>2, <3>3
    <3> QED
      BY <3>2, <3>4
  <2>6. WaysUp[node] = WaysStep(WaysUp, f, below)
    BY <2>4, WaysUpRecur
  <2>7. \A g \in Function : CallersAbove(g, visited) \subseteq Function
    BY DEF CallersAreFunctions, CallersAbove
  <2>8. CASE next = {}
    <3>1. Ways(f, below) = {<<f>>}
      BY <2>4, <2>8, WayOfOne
    <3> QED
      BY <2>6, <2>8, <3>1 DEF WaysStep
  <2>9. CASE next # {}
    <3>1. Ways(f, below) = {Append(v, f) : v \in UNION {Ways(c, visited) : c \in next}}
      BY <2>4, <2>7, <2>9, WayOfMore
    <3>2. WaysStep(WaysUp, f, below) =
             {Append(v, f) : v \in UNION {WaysUp[<<c, visited>>] : c \in next}}
      BY <2>9 DEF WaysStep
    <3>3. {Ways(c, visited) : c \in next} = {WaysUp[<<c, visited>>] : c \in next}
      BY <2>5
    <3> HIDE DEF next, visited
    <3> QED
      BY <2>6, <3>1, <3>2, <3>3
  <2> QED
    BY <2>8, <2>9
<1>2. ASSUME NEW f \in Function, NEW below \in SUBSET Function
      PROVE  WaysUp[<<f, below>>] = Ways(f, below)
  <2>1. <<f, below>> \in Nodes /\ <<f, below>>[1] = f /\ <<f, below>>[2] = below
    BY DEF Nodes
  <2> QED
    BY <1>1, <2>1
<1> QED
  BY <1>2
--------------------------------------------------------------------------------
(***************************************************************************)
(* The messages of a chain                                                 *)
(***************************************************************************)
\* The relation by which the library says that numbers are well-founded.
LEMMA LessIsWellFounded ==
    \E less : /\ IsWellFoundedOn(less, Nat)
              /\ \A m, n \in Nat : m < n => <<m, n>> \in less
<1>1. \A m, n \in Nat : m < n => <<m, n>> \in OpToRel(<, Nat)
  BY DEF OpToRel
<1> QED
  BY <1>1, NatLessThanWellFounded, Zenon

\* Every set of numbers that is not empty has a least one.
LEMMA LeastNumber ==
    ASSUME NEW T, T \subseteq Nat, T # {}
    PROVE  \E n \in T : \A m \in T : n <= m
<1>1. PICK less : /\ IsWellFoundedOn(less, Nat)
                  /\ \A m, n \in Nat : m < n => <<m, n>> \in less
  BY LessIsWellFounded
<1>2. IsWellFoundedOn(less, Nat)
  BY <1>1
<1>3. PICK n \in T : \A m \in T : ~(<<m, n>> \in less)
  BY <1>2, WFMin
<1>4. \A m \in T : ~(m < n)
  BY <1>1, <1>3
<1> QED
  BY <1>3, <1>4

\* What is true of zero, and of a number if it is of the one before, holds.
LEMMA Upwards ==
    ASSUME NEW S, NEW n \in Nat, 0 \in S, \A k \in 0..(n - 1) : k \in S => k + 1 \in S
    PROVE  \A k \in 0..n : k \in S
<1> DEFINE T == {k \in 0..n : k \notin S}
<1>1. T \subseteq Nat
  OBVIOUS
<1>2. ASSUME T # {} PROVE FALSE
  <2>1. PICK k \in T : \A j \in T : k <= j
    BY <1>1, <1>2, LeastNumber
  <2>2. k # 0
    OBVIOUS
  <2>3. k - 1 \in 0..(n - 1) /\ k - 1 \notin T
    BY <2>1, <2>2
  <2> QED
    BY <2>3
<1> QED
  BY <1>2

CallAt(chain, n) == [from |-> chain[n], to |-> chain[n + 1]]
CallsUpTo(chain, n) == [i \in 1..n |-> CallAt(chain, i)]

\* The calls up to a position, and the next one.
LEMMA OneMoreCall ==
    ASSUME NEW chain, NEW n \in Nat \ {0}
    PROVE  CallsUpTo(chain, n) = Append(CallsUpTo(chain, n - 1), CallAt(chain, n))
<1> DEFINE S == {CallAt(chain, i) : i \in 1..n}
           s == CallsUpTo(chain, n)
           t == CallsUpTo(chain, n - 1)
           m == CallAt(chain, n)
<1>1. /\ s \in [1..n -> S] /\ \A i \in 1..n : s[i] = CallAt(chain, i)
      /\ t \in [1..(n - 1) -> S] /\ \A i \in 1..(n - 1) : t[i] = CallAt(chain, i)
      /\ m \in S /\ n - 1 \in Nat /\ n \in 1..n
  BY DEF CallsUpTo
<1> HIDE DEF S, s, t, m
<1>2. s \in Seq(S) /\ Len(s) = n /\ t \in Seq(S) /\ Len(t) = n - 1
  BY <1>1
<1>3. Append(t, m) \in Seq(S) /\ Len(Append(t, m)) = n
  BY <1>1, <1>2
<1>4. ASSUME NEW i \in 1..n PROVE Append(t, m)[i] = s[i]
  <2>1. CASE i = n
    BY <1>1, <1>2, <2>1 DEF m
  <2>2. CASE i # n
    <3>1. i \in 1..(n - 1)
      BY <2>2
    <3> QED
      BY <1>1, <1>2, <3>1
  <2> QED
    BY <2>1, <2>2
<1>5. Append(t, m) = s
  BY <1>2, <1>3, <1>4
<1> QED
  BY <1>5 DEF s, t, m

\* Where every call of a chain is recorded, the messages are the calls.
LEMMA MessagesAreCalls ==
    ASSUME NEW chain, Len(chain) \in Nat \ {0},
           \A n \in 1..(Len(chain) - 1) : IsRecorded(CallAt(chain, n))
    PROVE  MessageChain(chain) = CallsUpTo(chain, Len(chain) - 1)
<1> DEFINE L == Len(chain) - 1
           Value(h, n) == IF n = 0 THEN <<>>
                          ELSE LET call == [from |-> chain[n], to |-> chain[n + 1]]
                               IN  IF IsRecorded(call) THEN Append(h[n - 1], call)
                                   ELSE h[n - 1]
           iter == CHOOSE h : h = [n \in 0..L |-> Value(h, n)]
           calls == [n \in 0..L |-> CallsUpTo(chain, n)]
<1>1. L \in Nat
  OBVIOUS
<1>2. MessageChain(chain) = iter[L]
  BY DEF MessageChain
<1>3. \A h : Value(h, 0) = <<>>
  OBVIOUS
<1>4. \A h : \A n \in 1..L : Value(h, n) = Append(h[n - 1], CallAt(chain, n))
  BY <1>1 DEF CallAt
<1> HIDE DEF Value, L
<1>5. calls = [n \in 0..L |-> Value(calls, n)]
  <2>1. CallsUpTo(chain, 0) = <<>>
    BY DEF CallsUpTo
  <2>2. ASSUME NEW n \in 0..L PROVE calls[n] = Value(calls, n)
    <3>1. CASE n = 0
      BY <1>3, <2>1, <3>1
    <3>2. CASE n # 0
      <4>1. n \in Nat \ {0} /\ n \in 1..L /\ n - 1 \in 0..L
        BY <1>1, <3>2
      <4>2. calls[n] = CallsUpTo(chain, n) /\ calls[n - 1] = CallsUpTo(chain, n - 1)
        BY <4>1
      <4> HIDE DEF calls
      <4> QED
        BY <1>4, <4>1, <4>2, OneMoreCall
    <3> QED
      BY <3>1, <3>2
  <2>3. calls = [n \in 0..L |-> calls[n]]
    OBVIOUS
  <2> HIDE DEF calls
  <2> QED
    BY <2>2, <2>3
<1>6. iter = [n \in 0..L |-> Value(iter, n)]
  <2> HIDE DEF calls
  <2>1. \E h : h = [n \in 0..L |-> Value(h, n)]
    BY <1>5
  <2> QED
    BY <2>1
<1> DEFINE S == {n \in 0..L : iter[n] = CallsUpTo(chain, n)}
<1> HIDE DEF iter
<1>7. 0 \in S
  BY <1>1, <1>3, <1>6 DEF CallsUpTo
<1>8. ASSUME NEW n \in 0..(L - 1), n \in S PROVE n + 1 \in S
  <2>1. n + 1 \in 0..L /\ n + 1 \in 1..L /\ (n + 1) - 1 = n /\ n + 1 \in Nat \ {0}
    BY <1>1
  <2>2. iter[n + 1] = Append(CallsUpTo(chain, n), CallAt(chain, n + 1))
    BY <1>4, <1>6, <1>8, <2>1
  <2>3. CallsUpTo(chain, n + 1) = Append(CallsUpTo(chain, n), CallAt(chain, n + 1))
    BY <2>1, OneMoreCall
  <2> QED
    BY <2>1, <2>2, <2>3
<1> HIDE DEF S
<1>9. \A n \in 0..L : n \in S
  BY ONLY <1>1, <1>7, <1>8, Upwards
<1>10. iter[L] = CallsUpTo(chain, L)
  BY <1>1, <1>9 DEF S
<1> QED
  BY <1>2, <1>10 DEF L
--------------------------------------------------------------------------------
(***************************************************************************)
(* The inductive invariant                                                 *)
(***************************************************************************)
Items(u) == setting.units[u]

\* An item of a unit that defines a function.
Defines(u, i, f) == Items(u)[i].fn = f /\ Items(u)[i].def = TRUE

\* A visitor is at an item of its unit, or has visited all.
Progress ==
    /\ setting \in Settings
    /\ TypeOK
    /\ unit = 0 => pc = "between"
    /\ unit # 0 =>
          /\ at \in 1..(Len(Items(unit)) + 1)
          /\ pc = "between" => at = Len(Items(unit)) + 1

\* The functions a unit mentions up to an item.
SeenUpTo(u, i) == {Items(u)[n].fn : n \in 1..i}

\* An item of the present unit in whose body a call was found, and the key under
\* which it was recorded.
FoundAt(a, i) ==
    /\ Defines(unit, i, a.from)
    /\ a.to \in setting.calls[a.from]
    /\ a.key = KeyOf(a.to, SeenUpTo(unit, i))

\* The visitor knows the functions of the items it passed, and who calls whom in
\* their bodies.
VisitorKnows ==
    unit # 0 =>
        /\ mapped = SeenUpTo(unit, at - 1)
        /\ \A a \in activityCallers : \E i \in 1..(at - 1) : FoundAt(a, i)
        /\ \A i \in 1..(at - 1) : \A f, g \in Function :
              Defines(unit, i, f) /\ g \in setting.calls[f] =>
                  [to |-> g, key |-> KeyOf(g, SeenUpTo(unit, i)), from |-> f]
                      \in activityCallers

\* The definition of a function was visited.
Met(f) == \E u \in 1..unit : \E i \in 1..Len(Items(u)) :
              Defines(u, i, f) /\ (u < unit \/ i < at)

\* Where lambdas are not inlined the messages are the calls of the bodies that were
\* visited, and a caller is a function with a message.
Recorded ==
    ~setting.inline =>
        /\ \A f \in Function : Met(f) => messages[f] = setting.calls[f]
        /\ \A f \in Function : ~Met(f) => messages[f] = {}
        /\ \A f \in Function : f \in activities <=> messages[f] # {}
        /\ \A g \in Function : \A c \in callers[g] : g \in messages[c]

\* No unit that calls f is still to be visited or finalized.
CallersWereMet(f) ==
    \A u \in UnitsCalling(f) : u < unit \/ (u = unit /\ pc = "between")

\* Then f has all its callers, if it keeps them at all.
Kept ==
    ~setting.inline =>
        \A f \in Function :
            setting.calls[f] # {} /\ CallersAreKept(f) /\ CallersWereMet(f)
                => \A c \in Function : f \in CalledBy(c) => c \in callers[f]

\* Where they are inlined, there are no callers, and between two units the messages
\* are calls of the inlined program.
InlinedCalls ==
    setting.inline =>
        /\ \A g \in Function : callers[g] = {}
        /\ \A f \in Function :
              /\ messages[f] # {} => DefinedIn(f) # {} /\ f \in activities
              /\ messages[f] \subseteq setting.calls[f] \cup CalledBy(f)
              /\ f \in Lambda => messages[f] \subseteq setting.calls[f]
              /\ pc = "between" => messages[f] \subseteq CalledBy(f)

IInv == Progress /\ VisitorKnows /\ Recorded /\ Kept /\ InlinedCalls
--------------------------------------------------------------------------------
\* The types of a setting.
LEMMA SettingFacts ==
    ASSUME Progress
    PROVE  /\ setting.inline \in BOOLEAN
           /\ setting.calls \in [Function -> SUBSET Function]
           /\ setting.units \in Seq(Seq(Item))
           /\ Len(setting.units) \in Nat
  BY CallsAssumption DEF Progress, Setting

\* The types of an item of a unit.
LEMMA ItemFacts ==
    ASSUME Progress, NEW u \in 1..Len(setting.units)
    PROVE  /\ Items(u) \in Seq(Item) /\ Len(Items(u)) \in Nat
           /\ \A i \in 1..Len(Items(u)) :
                 Items(u)[i].fn \in Function /\ Items(u)[i].def \in BOOLEAN
<1>1. Items(u) \in Seq(Item)
  BY SettingFacts DEF Items
<1>2. Len(Items(u)) \in Nat /\ \A i \in 1..Len(Items(u)) : Items(u)[i] \in Item
  BY <1>1
<1> QED
  BY <1>1, <1>2 DEF Item

\* A function is defined where an item of a unit defines it.
LEMMA DefinedWhere ==
    ASSUME Progress, NEW f \in Function, NEW u
    PROVE  u \in DefinedIn(f) <=>
              /\ u \in 1..Len(setting.units)
              /\ \E i \in 1..Len(Items(u)) : Defines(u, i, f)
  BY ItemFacts DEF DefinedIn, Occurs, Defines, Items

\* What was visited is defined.
LEMMA MetIsDefined ==
    ASSUME Progress, NEW f \in Function, Met(f)
    PROVE  DefinedIn(f) # {}
<1>1. PICK u \in 1..unit : \E i \in 1..Len(Items(u)) : Defines(u, i, f)
  BY DEF Met
<1>2. u \in 1..Len(setting.units)
  BY SettingFacts DEF Progress, TypeOK
<1> QED
  BY <1>1, <1>2, DefinedWhere

\* In the end all that is defined was visited.
LEMMA DefinedIsMet ==
    ASSUME Progress, Generating, NEW f \in Function, DefinedIn(f) # {}
    PROVE  Met(f)
<1>1. PICK u \in DefinedIn(f) : TRUE
  OBVIOUS
<1>2. u \in 1..Len(setting.units) /\ \E i \in 1..Len(Items(u)) : Defines(u, i, f)
  BY <1>1, DefinedWhere
<1>3. PICK i \in 1..Len(Items(u)) : Defines(u, i, f)
  BY <1>2
<1>4. unit = Len(setting.units) /\ pc = "between" /\ Len(setting.units) \in Nat
  BY SettingFacts DEF Generating
<1>5. u < unit \/ u = unit
  BY <1>2, <1>4
<1>6. u = unit => at = Len(Items(u)) + 1
  BY <1>2, <1>4 DEF Progress
<1>7. Len(Items(u)) \in Nat
  BY <1>2, ItemFacts
<1>8. u < unit \/ i < at
  BY <1>3, <1>5, <1>6, <1>7
<1>9. u \in 1..unit
  BY <1>2, <1>4
<1> QED
  BY <1>3, <1>8, <1>9 DEF Met

\* Who calls f by its configuration, where nothing is inlined.
LEMMA PlainCalls ==
    ASSUME Progress, ~setting.inline, NEW f \in Function, NEW c \in Function
    PROVE  /\ f \in CalledBy(c) <=> f \in setting.calls[c] /\ DefinedIn(c) # {}
           /\ f \in setting.calls[c] => DefinedIn(c) \subseteq UnitsCalling(f)
  BY DEF CalledBy, UnitsCalling

\* Where a visitor is when it visits an item.
LEMMA VisitingFacts ==
    ASSUME Progress, NEW def \in BOOLEAN, Visiting(def)
    PROVE  /\ unit \in 1..Len(setting.units) /\ unit # 0
           /\ at \in 1..Len(Items(unit)) /\ Here = Items(unit)[at]
           /\ Here.fn \in Function /\ Here.def = def
           /\ setting' = setting /\ unit' = unit /\ at' = at + 1 /\ callers' = callers
           /\ mapped' = mapped \cup {Here.fn}
           /\ pc = "visit" /\ pc' = pc
<1>1. /\ setting' = setting /\ unit' = unit /\ at' = at + 1 /\ callers' = callers
      /\ mapped' = mapped \cup {Here.fn}
      /\ pc = "visit" /\ pc' = pc /\ at <= Len(setting.units[unit]) /\ Here.def = def
  BY DEF Visiting
<1>2. unit # 0 /\ unit \in 0..Len(setting.units) /\ Len(setting.units) \in Nat
  BY <1>1, SettingFacts DEF Progress, TypeOK
<1>3. unit \in 1..Len(setting.units)
  BY <1>2
<1>4. Len(Items(unit)) \in Nat /\ at \in 1..(Len(Items(unit)) + 1)
  BY <1>2, <1>3, ItemFacts DEF Progress
<1>5. at \in 1..Len(Items(unit))
  BY <1>1, <1>4 DEF Items
<1>6. Here = Items(unit)[at]
  BY DEF Here, Items
<1>7. Here.fn \in Function
  BY <1>3, <1>5, <1>6, ItemFacts
<1> QED
  BY <1>1, <1>2, <1>3, <1>5, <1>6, <1>7

\* It then knows one function more.
LEMMA SeesOneMore ==
    ASSUME Progress, VisitorKnows, NEW def \in BOOLEAN, Visiting(def)
    PROVE  mapped' = SeenUpTo(unit, at)
<1>1. /\ at \in 1..Len(Items(unit)) /\ Here = Items(unit)[at] /\ unit # 0
      /\ mapped' = mapped \cup {Here.fn}
  BY VisitingFacts
<1>2. mapped = SeenUpTo(unit, at - 1)
  BY <1>1 DEF VisitorKnows
<1>3. 1..at = (1..(at - 1)) \cup {at}
  BY <1>1
<1> QED
  BY <1>1, <1>2, <1>3 DEF SeenUpTo

\* The functions whose definition was visited are those that were, and the one
\* the visitor is at if this is its definition.
LEMMA MeetsOneMore ==
    ASSUME Progress, NEW def \in BOOLEAN, Visiting(def), NEW f \in Function
    PROVE  Met(f)' <=> Met(f) \/ (def /\ f = Here.fn)
<1>1. /\ unit \in 1..Len(setting.units) /\ at \in 1..Len(Items(unit))
      /\ Here = Items(unit)[at] /\ Here.def = def
      /\ setting' = setting /\ unit' = unit /\ at' = at + 1
  BY VisitingFacts
<1>2. \A u, i : Defines(u, i, f)' = Defines(u, i, f) /\ Items(u)' = Items(u)
  BY <1>1 DEF Defines, Items
<1>3. Met(f)' <=> \E u \in 1..unit : \E i \in 1..Len(Items(u)) :
                     Defines(u, i, f) /\ (u < unit \/ i < at + 1)
  BY <1>1, <1>2 DEF Met
<1>4. ASSUME NEW u \in 1..unit, NEW i \in 1..Len(Items(u))
      PROVE  (u < unit \/ i < at + 1) <=> (u < unit \/ i < at) \/ (u = unit /\ i = at)
  <2>1. u \in Int /\ unit \in Int /\ u <= unit
    BY <1>1
  <2>2. Len(Items(u)) \in Nat
    BY <1>1, ItemFacts
  <2>3. i \in Int /\ at \in Int
    BY <1>1, <2>2
  <2> QED
    BY ONLY <2>1, <2>3
<1>5. Defines(unit, at, f) <=> def /\ f = Here.fn
  BY <1>1 DEF Defines
<1>6. unit \in 1..unit
  BY <1>1
<1> QED
  BY <1>1, <1>3, <1>4, <1>5, <1>6 DEF Met

\* The types after an item was visited.
LEMMA VisitingProgress ==
    ASSUME Progress, NEW def \in BOOLEAN, Visiting(def),
           activityCallers' \subseteq [to : Function, key : {"ast", "uml"}, from : Function],
           activities' \subseteq Function, messages' \in [Function -> SUBSET Function]
    PROVE  Progress'
<1>1. /\ unit \in 1..Len(setting.units) /\ unit # 0 /\ at \in 1..Len(Items(unit))
      /\ Here.fn \in Function
      /\ setting' = setting /\ unit' = unit /\ at' = at + 1 /\ callers' = callers
      /\ mapped' = mapped \cup {Here.fn} /\ pc = "visit" /\ pc' = pc
  BY VisitingFacts
<1>2. Len(Items(unit)) \in Nat
  BY <1>1, ItemFacts
<1>3. at + 1 \in Nat /\ at + 1 \in 1..(Len(Items(unit)) + 1)
  BY <1>1, <1>2
<1>4. Items(unit)' = Items(unit)
  BY <1>1 DEF Items
<1>5. TypeOK'
  BY <1>1, <1>3 DEF Progress, TypeOK
<1> QED
  BY <1>1, <1>3, <1>4, <1>5 DEF Progress

\* Between two units no more is met, and all of the last unit was.
LEMMA BeginMeetsNone ==
    ASSUME Progress, BeginUnit, NEW f \in Function
    PROVE  Met(f)' <=> Met(f)
<1>1. /\ setting' = setting /\ unit' = unit + 1 /\ at' = 1 /\ pc = "between"
      /\ unit \in 0..Len(setting.units) /\ Len(setting.units) \in Nat
  BY SettingFacts DEF BeginUnit, Progress, TypeOK
<1>2. \A u, i : Defines(u, i, f)' = Defines(u, i, f) /\ Items(u)' = Items(u)
  BY <1>1 DEF Defines, Items
<1>3. Met(f)' <=> \E u \in 1..(unit + 1) : \E i \in 1..Len(Items(u)) :
                     Defines(u, i, f) /\ (u < unit + 1 \/ i < 1)
  BY <1>1, <1>2 DEF Met
<1>4. ASSUME NEW u \in 1..(unit + 1), NEW i \in 1..Len(Items(u)),
             u < unit + 1 \/ i < 1
      PROVE  u \in 1..unit /\ (u < unit \/ i < at)
  <2>1. i >= 1 /\ i \in Int
    <3>1. CASE Len(Items(u)) \in Int
      BY <3>1
    <3>2. CASE u \notin 1..Len(setting.units)
      <4>1. ~(u < unit + 1)
        BY ONLY <1>1, <3>2, u \in 1..(unit + 1)
      <4> QED
        BY <1>4, <4>1
    <3> QED
      BY <3>1, <3>2, ItemFacts
  <2>2. u \in 1..unit
    BY <1>1, <1>4, <2>1
  <2>3. u = unit => at = Len(Items(u)) + 1
    BY <1>1, <2>2 DEF Progress
  <2>4. Len(Items(u)) \in Nat
    BY <1>1, <2>2, ItemFacts
  <2> QED
    BY <1>1, <2>1, <2>2, <2>3, <2>4
<1>5. ASSUME NEW u \in 1..unit PROVE u \in 1..(unit + 1) /\ u < unit + 1
  BY <1>1
<1> QED
  BY <1>3, <1>4, <1>5 DEF Met
--------------------------------------------------------------------------------
(* The initial states, and each action. *)
LEMMA InitIInv == Init => IInv
<1> SUFFICES ASSUME Init PROVE IInv
  OBVIOUS
<1>1. Progress
  <2>1. /\ setting \in Settings /\ unit = 0 /\ at = 1 /\ mapped = {} /\ activityCallers = {}
        /\ activities = {} /\ pc = "between"
        /\ messages \in [Function -> SUBSET Function]
        /\ callers \in [Function -> SUBSET Function]
    BY DEF Init
  <2>2. Len(setting.units) \in Nat
    BY <2>1, CallsAssumption DEF Setting
  <2>3. TypeOK
    BY <2>1, <2>2 DEF TypeOK
  <2> QED
    BY <2>1, <2>3 DEF Progress
<1>2. VisitorKnows
  BY DEF Init, VisitorKnows
<1>3. \A f \in Function : ~Met(f) /\ messages[f] = {} /\ callers[f] = {}
  <2>1. unit = 0 /\ 1..0 = {}
    BY DEF Init
  <2>2. \A f : ~Met(f)
    BY <2>1 DEF Met
  <2> QED
    BY <2>2 DEF Init
<1>4. Recorded /\ InlinedCalls
  BY <1>3 DEF Init, Recorded, InlinedCalls
<1>5. Kept
  <2> SUFFICES ASSUME ~setting.inline, NEW f \in Function, CallersWereMet(f),
                      NEW c \in Function, f \in CalledBy(c)
               PROVE  FALSE
    BY DEF Kept
  <2>1. DefinedIn(c) # {} /\ DefinedIn(c) \subseteq UnitsCalling(f)
    BY <1>1, PlainCalls
  <2>2. PICK u \in DefinedIn(c) : TRUE
    BY <2>1
  <2>3. u \in 1..Len(setting.units) /\ u \in UnitsCalling(f)
    BY <1>1, <2>1, <2>2, DefinedWhere
  <2>4. Len(setting.units) \in Nat /\ unit = 0
    BY <1>1, SettingFacts DEF Init
  <2> QED
    BY <2>3, <2>4 DEF CallersWereMet
<1> QED
  BY <1>1, <1>2, <1>4, <1>5 DEF IInv

\* What is said of the functions of a setting does not change.
LEMMA SettingStays ==
    ASSUME setting' = setting
    PROVE  /\ \A u : Items(u)' = Items(u)
           /\ \A u, i, f : Defines(u, i, f)' = Defines(u, i, f)
           /\ \A u, i : SeenUpTo(u, i)' = SeenUpTo(u, i)
           /\ \A f : DefinedIn(f)' = DefinedIn(f)
           /\ \A f : CalledBy(f)' = CalledBy(f)
           /\ \A f : UnitsCalling(f)' = UnitsCalling(f)
           /\ \A f : CallersAreKept(f)' = CallersAreKept(f)
<1>1. /\ \A u : Items(u)' = Items(u)
      /\ \A u, i, f : Defines(u, i, f)' = Defines(u, i, f)
      /\ \A u, i : SeenUpTo(u, i)' = SeenUpTo(u, i)
  BY DEF Items, Defines, SeenUpTo
<1>2. \A f : DefinedIn(f)' = DefinedIn(f)
  BY DEF DefinedIn, Occurs
<1>3. \A f : CalledBy(f)' = CalledBy(f)
  BY <1>2 DEF CalledBy, LambdasOf, TakesIn
<1>4. \A f : UnitsCalling(f)' = UnitsCalling(f)
  BY <1>2 DEF UnitsCalling
<1>5. \A f, u : NamedOneWay(f, u)' = NamedOneWay(f, u)
  BY DEF NamedOneWay
<1>6. \A f : CallersAreKept(f)' = CallersAreKept(f)
  BY <1>2, <1>4, <1>5 DEF CallersAreKept
<1> QED
  BY <1>1, <1>2, <1>3, <1>4, <1>6

\* A new visitor.
LEMMA BeginUnitStep ==
    ASSUME IInv, BeginUnit
    PROVE  IInv'
<1>1. /\ pc = "between" /\ unit < Len(setting.units)
      /\ unit' = unit + 1 /\ at' = 1 /\ mapped' = {} /\ activityCallers' = {}
      /\ pc' = "visit" /\ setting' = setting
      /\ activities' = activities /\ messages' = messages /\ callers' = callers
  BY DEF BeginUnit, model
<1>2. Progress /\ unit \in 0..Len(setting.units) /\ Len(setting.units) \in Nat
  BY SettingFacts DEF IInv, Progress, TypeOK
<1>3. unit + 1 \in 1..Len(setting.units) /\ unit + 1 # 0
  BY <1>1, <1>2
<1>4. Progress'
  <2>1. Len(Items(unit + 1)) \in Nat
    BY <1>2, <1>3, ItemFacts
  <2>2. Items(unit)' = Items(unit + 1)
    BY <1>1 DEF Items
  <2>3. at' \in 1..(Len(Items(unit + 1)) + 1) /\ at' \in Nat
    BY <1>1, <2>1
  <2>4. TypeOK'
    BY <1>1, <1>2, <1>3, <2>3 DEF Progress, TypeOK
  <2> QED
    BY <1>1, <1>2, <1>3, <2>2, <2>3, <2>4 DEF Progress
<1>5. VisitorKnows'
  <2>1. 1..(at' - 1) = {}
    BY <1>1
  <2>2. SeenUpTo(unit, at - 1)' = {}
    BY <2>1 DEF SeenUpTo
  <2> QED
    BY <1>1, <2>1, <2>2 DEF VisitorKnows
<1>6. \A f \in Function : Met(f)' <=> Met(f)
  BY <1>2, BeginMeetsNone
<1>7. Recorded'
  BY <1>1, <1>6 DEF IInv, Recorded
<1>8. \A f \in Function : CallersWereMet(f)' => CallersWereMet(f)
  <2> SUFFICES ASSUME NEW f \in Function, CallersWereMet(f)', NEW u \in UnitsCalling(f)
               PROVE  u < unit \/ (u = unit /\ pc = "between")
    BY DEF CallersWereMet
  <2>1. UnitsCalling(f)' = UnitsCalling(f)
    BY <1>1, SettingStays
  <2>2. u < unit + 1
    BY <1>1, <2>1 DEF CallersWereMet
  <2>3. u \in 1..Len(setting.units)
    BY DEF UnitsCalling, DefinedIn
  <2> QED
    BY <1>1, <1>2, <2>2, <2>3
<1>9. Kept'
  <2> SUFFICES ASSUME ~setting'.inline, NEW f \in Function, setting'.calls[f] # {},
                      CallersAreKept(f)', CallersWereMet(f)',
                      NEW c \in Function, (f \in CalledBy(c))'
               PROVE  c \in callers'[f]
    BY DEF Kept
  <2>1. /\ CallersAreKept(f) /\ CallersWereMet(f) /\ f \in CalledBy(c)
        /\ ~setting.inline /\ setting.calls[f] # {}
    BY <1>1, <1>8, SettingStays
  <2> QED
    BY <1>1, <2>1 DEF IInv, Kept
<1>10. InlinedCalls'
  <2>1. /\ \A f : DefinedIn(f)' = DefinedIn(f)
        /\ \A f : CalledBy(f)' = CalledBy(f)
    BY <1>1, SettingStays
  <2> QED
    BY <1>1, <2>1 DEF IInv, InlinedCalls
<1> QED
  BY <1>4, <1>5, <1>7, <1>9, <1>10 DEF IInv

\* No callers were met by visiting an item.
LEMMA VisitingKeeps ==
    ASSUME IInv, NEW def \in BOOLEAN, Visiting(def)
    PROVE  Kept'
<1>1. /\ setting' = setting /\ unit' = unit /\ callers' = callers
      /\ pc = "visit" /\ pc' = pc
  BY VisitingFacts DEF IInv
<1> SUFFICES ASSUME ~setting'.inline, NEW f \in Function, setting'.calls[f] # {},
                    CallersAreKept(f)', CallersWereMet(f)',
                    NEW c \in Function, (f \in CalledBy(c))'
             PROVE  c \in callers'[f]
  BY DEF Kept
<1>2. CallersWereMet(f)
  BY <1>1, SettingStays DEF CallersWereMet
<1>3. /\ CallersAreKept(f) /\ f \in CalledBy(c)
      /\ ~setting.inline /\ setting.calls[f] # {}
  BY <1>1, SettingStays
<1> QED
  BY <1>1, <1>2, <1>3 DEF IInv, Kept

\* A declaration.
LEMMA VisitDeclarationStep ==
    ASSUME IInv, VisitDeclaration
    PROVE  IInv'
<1>1. /\ Visiting(FALSE) /\ Progress
      /\ activityCallers' = activityCallers /\ activities' = activities
      /\ messages' = messages
  BY DEF IInv, VisitDeclaration
<1>2. /\ unit \in 1..Len(setting.units) /\ unit # 0
      /\ at \in 1..Len(Items(unit)) /\ Here = Items(unit)[at]
      /\ Here.fn \in Function /\ Here.def = FALSE
      /\ setting' = setting /\ unit' = unit /\ at' = at + 1 /\ callers' = callers
      /\ pc = "visit" /\ pc' = pc
  BY <1>1, VisitingFacts
<1>3. Progress'
  BY <1>1, VisitingProgress DEF Progress, TypeOK
<1>4. VisitorKnows'
  <2>1. /\ \A u, i, f : Defines(u, i, f)' = Defines(u, i, f)
        /\ \A u, i : SeenUpTo(u, i)' = SeenUpTo(u, i)
    BY <1>2, SettingStays
  <2>2. mapped' = SeenUpTo(unit, at - 1)'
    <3>1. mapped' = SeenUpTo(unit, at)
      BY <1>1, SeesOneMore DEF IInv
    <3>2. at' - 1 = at
      BY <1>2
    <3> QED
      BY <1>2, <2>1, <3>1, <3>2
  <2>3. 1..(at' - 1) = (1..(at - 1)) \cup {at}
    BY <1>2
  <2>4. \A a, i : FoundAt(a, i)' = FoundAt(a, i)
    BY <1>2, <2>1 DEF FoundAt, KeyOf
  <2>5. \A f : ~Defines(unit, at, f)
    BY <1>2 DEF Defines
  <2>6. \A a \in activityCallers' : \E i \in 1..(at' - 1) : FoundAt(a, i)'
    BY <1>1, <1>2, <2>3, <2>4 DEF IInv, VisitorKnows
  <2>7. ASSUME NEW i \in 1..(at' - 1), NEW f \in Function, NEW g \in Function,
               Defines(unit, i, f)', g \in setting'.calls[f]
        PROVE  [to |-> g, key |-> KeyOf(g, SeenUpTo(unit, i)'), from |-> f]
                  \in activityCallers'
    <3>1. i \in 1..(at - 1) /\ Defines(unit, i, f) /\ g \in setting.calls[f]
      BY <1>2, <2>1, <2>3, <2>5, <2>7
    <3>2. SeenUpTo(unit, i)' = SeenUpTo(unit, i)
      BY <1>2, <2>1
    <3> QED
      BY <1>1, <1>2, <3>1, <3>2 DEF IInv, VisitorKnows
  <2> QED
    BY <2>2, <2>6, <2>7 DEF VisitorKnows, KeyOf
<1>5. \A f \in Function : Met(f)' <=> Met(f)
  BY <1>1, MeetsOneMore
<1>6. Recorded'
  BY <1>1, <1>2, <1>5 DEF IInv, Recorded
<1>7. Kept'
  BY <1>1, VisitingKeeps
<1>8. InlinedCalls'
  BY <1>1, <1>2, SettingStays DEF IInv, InlinedCalls
<1> QED
  BY <1>3, <1>4, <1>6, <1>7, <1>8 DEF IInv

\* A definition: its calls, under the keys of what is known by then.
LEMMA VisitDefinitionStep ==
    ASSUME IInv, VisitDefinition
    PROVE  IInv'
<1> DEFINE f == Here.fn
           calls == setting.calls[f]
           Found(g) == [to |-> g, key |-> KeyOf(g, SeenUpTo(unit, at)), from |-> f]
<1>1. Visiting(TRUE) /\ Progress
  BY DEF IInv, VisitDefinition
<1>2. /\ unit \in 1..Len(setting.units) /\ unit # 0
      /\ at \in 1..Len(Items(unit)) /\ Here = Items(unit)[at]
      /\ f \in Function /\ Here.def = TRUE
      /\ setting' = setting /\ unit' = unit /\ at' = at + 1 /\ callers' = callers
      /\ pc = "visit" /\ pc' = pc
  BY <1>1, VisitingFacts
<1>3. mapped' = SeenUpTo(unit, at)
  BY <1>1, SeesOneMore DEF IInv
<1>4. /\ activities' = IF calls = {} THEN activities ELSE activities \cup {f}
      /\ messages' = [messages EXCEPT ![f] = @ \cup calls]
      /\ activityCallers' = activityCallers \cup {Found(g) : g \in calls}
  BY <1>3 DEF VisitDefinition
<1>5. calls \in SUBSET Function
  BY <1>1, <1>2, SettingFacts
<1>6. /\ messages \in [Function -> SUBSET Function] /\ activities \subseteq Function
      /\ activityCallers \subseteq [to : Function, key : {"ast", "uml"}, from : Function]
  BY <1>1 DEF Progress, TypeOK
<1>7. messages' \in [Function -> SUBSET Function] /\ activities' \subseteq Function
  BY <1>2, <1>4, <1>5, <1>6
<1>8. /\ messages'[f] = messages[f] \cup calls
      /\ \A h \in Function : h # f => messages'[h] = messages[h]
  BY <1>2, <1>4, <1>6
<1>9. ASSUME NEW g \in calls
      PROVE  Found(g) \in [to : Function, key : {"ast", "uml"}, from : Function]
  BY <1>2, <1>5 DEF KeyOf
<1>10. Progress'
  <2>1. activityCallers' \subseteq [to : Function, key : {"ast", "uml"}, from : Function]
    BY <1>4, <1>6, <1>9
  <2> QED
    BY <1>1, <1>7, <2>1, VisitingProgress
<1>11. Defines(unit, at, f) /\ \A h : Defines(unit, at, h) => h = f
  BY <1>2 DEF Defines
<1>12. VisitorKnows'
  <2>1. /\ \A u, i, h : Defines(u, i, h)' = Defines(u, i, h)
        /\ \A u, i : SeenUpTo(u, i)' = SeenUpTo(u, i)
    BY <1>2, SettingStays
  <2>2. mapped' = SeenUpTo(unit, at - 1)'
    <3>1. at' - 1 = at
      BY <1>2
    <3> QED
      BY <1>2, <1>3, <2>1, <3>1
  <2>3. 1..(at' - 1) = (1..(at - 1)) \cup {at}
    BY <1>2
  <2>4. \A a, i : FoundAt(a, i)' = FoundAt(a, i)
    BY <1>2, <2>1 DEF FoundAt, KeyOf
  <2>5. ASSUME NEW a \in activityCallers' PROVE \E i \in 1..(at' - 1) : FoundAt(a, i)'
    <3>1. CASE a \in activityCallers
      BY <1>2, <2>3, <2>4, <3>1 DEF IInv, VisitorKnows
    <3>2. CASE a \notin activityCallers
      <4>1. PICK g \in calls : a = Found(g)
        BY <1>4, <3>2
      <4>2. FoundAt(a, at)
        BY <1>11, <4>1 DEF FoundAt
      <4> QED
        BY <2>3, <2>4, <4>2
    <3> QED
      BY <3>1, <3>2
  <2>6. ASSUME NEW i \in 1..(at' - 1), NEW h \in Function, NEW g \in Function,
               Defines(unit, i, h)', g \in setting'.calls[h]
        PROVE  [to |-> g, key |-> KeyOf(g, SeenUpTo(unit, i)'), from |-> h]
                  \in activityCallers'
    <3>1. Defines(unit, i, h) /\ g \in setting.calls[h]
      BY <1>2, <2>1, <2>6
    <3>2. SeenUpTo(unit, i)' = SeenUpTo(unit, i)
      BY <1>2, <2>1
    <3>3. CASE i \in 1..(at - 1)
      <4>1. [to |-> g, key |-> KeyOf(g, SeenUpTo(unit, i)), from |-> h] \in activityCallers
        BY <1>2, <3>1, <3>3 DEF IInv, VisitorKnows
      <4> QED
        BY <1>4, <3>2, <4>1
    <3>4. CASE i = at
      <4>1. h = f /\ g \in calls
        BY <1>11, <3>1, <3>4
      <4> QED
        BY <1>4, <3>2, <3>4, <4>1
    <3> QED
      BY <2>3, <3>3, <3>4
  <2> QED
    BY <2>2, <2>5, <2>6 DEF VisitorKnows, KeyOf
<1>13. \A h \in Function : Met(h)' <=> Met(h) \/ h = f
  BY <1>1, MeetsOneMore
<1>14. Recorded'
  <2> SUFFICES ASSUME ~setting.inline PROVE Recorded'
    BY <1>2 DEF Recorded
  <2>1. /\ \A h \in Function : Met(h) => messages[h] = setting.calls[h]
        /\ \A h \in Function : ~Met(h) => messages[h] = {}
        /\ \A h \in Function : h \in activities <=> messages[h] # {}
        /\ \A g \in Function : \A c \in callers[g] : g \in messages[c]
    BY DEF IInv, Recorded
  <2>2. messages'[f] = calls
    BY <1>2, <1>8, <2>1
  <2>3. \A h \in Function : Met(h)' => messages'[h] = setting'.calls[h]
    BY <1>2, <1>8, <1>13, <2>1, <2>2
  <2>4. \A h \in Function : ~Met(h)' => messages'[h] = {}
    BY <1>2, <1>8, <1>13, <2>1
  <2>5. \A h \in Function : h \in activities' <=> messages'[h] # {}
    BY <1>2, <1>4, <1>8, <2>1, <2>2
  <2>6. \A g \in Function : \A c \in callers'[g] : g \in messages'[c]
    <3>1. callers \in [Function -> SUBSET Function]
      BY <1>1 DEF Progress, TypeOK
    <3>2. \A h \in Function : messages[h] \subseteq messages'[h]
      BY <1>2, <1>8
    <3> QED
      BY <1>2, <2>1, <3>1, <3>2
  <2> QED
    BY <2>3, <2>4, <2>5, <2>6 DEF Recorded
<1>15. Kept'
  BY <1>1, VisitingKeeps
<1>16. InlinedCalls'
  <2> SUFFICES ASSUME setting.inline PROVE InlinedCalls'
    BY <1>2 DEF InlinedCalls
  <2>1. /\ \A g \in Function : callers[g] = {}
        /\ \A h \in Function :
              /\ messages[h] # {} => DefinedIn(h) # {} /\ h \in activities
              /\ messages[h] \subseteq setting.calls[h] \cup CalledBy(h)
              /\ h \in Lambda => messages[h] \subseteq setting.calls[h]
    BY DEF IInv, InlinedCalls
  <2>2. DefinedIn(f) # {}
    BY <1>1, <1>2, <1>11, DefinedWhere
  <2>3. \A h : DefinedIn(h)' = DefinedIn(h) /\ CalledBy(h)' = CalledBy(h)
    BY <1>2, SettingStays
  <2>4. ASSUME NEW h \in Function, messages'[h] # {}
        PROVE  DefinedIn(h)' # {} /\ h \in activities'
    BY <1>2, <1>4, <1>8, <2>1, <2>2, <2>3, <2>4
  <2>5. ASSUME NEW h \in Function
        PROVE  /\ messages'[h] \subseteq setting'.calls[h] \cup CalledBy(h)'
               /\ h \in Lambda => messages'[h] \subseteq setting'.calls[h]
    BY <1>2, <1>8, <2>1, <2>3
  <2> QED
    BY <1>2, <2>1, <2>4, <2>5 DEF InlinedCalls
<1> QED
  BY <1>10, <1>12, <1>14, <1>15, <1>16 DEF IInv

\* Where a visitor is when its unit is finalized: every item was visited.
LEMMA FinalizeFacts ==
    ASSUME Progress, Finalize
    PROVE  /\ unit \in 1..Len(setting.units) /\ unit # 0 /\ pc = "visit"
           /\ at = Len(Items(unit)) + 1 /\ Len(Items(unit)) \in Nat
           /\ setting' = setting /\ unit' = unit /\ at' = at /\ mapped' = mapped
           /\ activityCallers' = activityCallers /\ pc' = "between"
<1>1. /\ pc = "visit" /\ at > Len(setting.units[unit])
      /\ setting' = setting /\ unit' = unit /\ at' = at /\ mapped' = mapped
      /\ activityCallers' = activityCallers /\ pc' = "between"
  BY DEF Finalize, visitor
<1>2. unit # 0 /\ unit \in 0..Len(setting.units) /\ Len(setting.units) \in Nat
  BY <1>1, SettingFacts DEF Progress, TypeOK
<1>3. unit \in 1..Len(setting.units)
  BY <1>2
<1>4. Len(Items(unit)) \in Nat /\ at \in 1..(Len(Items(unit)) + 1)
  BY <1>2, <1>3, ItemFacts DEF Progress
<1>5. at > Len(Items(unit))
  BY <1>1 DEF Items
<1>6. at = Len(Items(unit)) + 1
  BY <1>4, <1>5
<1> QED
  BY <1>1, <1>2, <1>3, <1>4, <1>6

\* An activity caller is a function in whose body, in the present unit, a call was found.
LEMMA ActivityCallerFacts ==
    ASSUME Progress, VisitorKnows, unit # 0, NEW a \in activityCallers
    PROVE  /\ a.from \in Function /\ a.to \in Function
           /\ a.to \in setting.calls[a.from]
           /\ unit \in DefinedIn(a.from) /\ unit \in UnitsCalling(a.to)
           /\ Met(a.from)
           /\ \E i \in 1..Len(Items(unit)) : FoundAt(a, i)
<1>1. /\ a.from \in Function /\ a.to \in Function /\ unit \in 0..Len(setting.units)
      /\ Len(setting.units) \in Nat
  BY SettingFacts DEF Progress, TypeOK
<1>2. unit \in 1..Len(setting.units) /\ unit \in 1..unit
  BY <1>1
<1>3. PICK i \in 1..(at - 1) : FoundAt(a, i)
  BY DEF VisitorKnows
<1>4. Len(Items(unit)) \in Nat /\ at \in 1..(Len(Items(unit)) + 1)
  BY <1>2, ItemFacts DEF Progress
<1>5. i \in 1..Len(Items(unit)) /\ i < at
  BY <1>4
<1>6. Defines(unit, i, a.from) /\ a.to \in setting.calls[a.from]
  BY <1>3 DEF FoundAt
<1>7. unit \in DefinedIn(a.from)
  BY <1>1, <1>2, <1>5, <1>6, DefinedWhere
<1>8. unit \in UnitsCalling(a.to)
  BY <1>1, <1>6, <1>7 DEF UnitsCalling
<1>9. Met(a.from)
  BY <1>2, <1>5, <1>6 DEF Met
<1> QED
  BY <1>1, <1>3, <1>5, <1>6, <1>7, <1>8, <1>9

\* All callers of a function that one unit calls in one way are under one key.
LEMMA OneKey ==
    ASSUME Progress, VisitorKnows, NEW f \in Function, NamedOneWay(f, unit), unit # 0,
           NEW a \in activityCallers, NEW b \in activityCallers, a.to = f, b.to = f
    PROVE  a.key = b.key
<1>1. PICK i \in 1..Len(Items(unit)) : FoundAt(a, i)
  BY ActivityCallerFacts
<1>2. PICK j \in 1..Len(Items(unit)) : FoundAt(b, j)
  BY ActivityCallerFacts
<1>3. CASE f \in Method
  BY <1>1, <1>2, <1>3 DEF FoundAt, KeyOf
<1>4. CASE f \notin Method
  <2> DEFINE caller(k) == setting.units[unit][k].def
                              /\ f \in setting.calls[setting.units[unit][k].fn]
             seen(k) == \E n \in 1..k : setting.units[unit][n].fn = f
  <2>1. \A k, l \in 1..Len(setting.units[unit]) : caller(k) /\ caller(l) => seen(k) = seen(l)
    BY <1>4 DEF NamedOneWay
  <2>2. caller(i) /\ caller(j)
    BY <1>1, <1>2 DEF FoundAt, Defines, Items
  <2>3. \A k : seen(k) <=> f \in SeenUpTo(unit, k)
    BY DEF SeenUpTo, Items
  <2>4. i \in 1..Len(setting.units[unit]) /\ j \in 1..Len(setting.units[unit])
    BY DEF Items
  <2> HIDE DEF caller, seen
  <2>5. f \in SeenUpTo(unit, i) <=> f \in SeenUpTo(unit, j)
    BY <2>1, <2>2, <2>3, <2>4
  <2> QED
    BY <1>1, <1>2, <2>5 DEF FoundAt, KeyOf
<1> QED
  BY <1>3, <1>4

\* Callers are kept where they ought to be when the unit that has them is finalized.
LEMMA FinalizeKeeps ==
    ASSUME IInv, Finalize, ~setting.inline,
           NEW first \in [Function -> {"ast", "uml"}],
           \A g \in Function : first[g] \in Keys(g) \/ (Keys(g) = {} /\ first[g] = "ast"),
           callers' = WithCallers(first),
           NEW f \in Function, setting.calls[f] # {}, CallersAreKept(f),
           \A u \in UnitsCalling(f) : u <= unit,
           NEW c \in Function, f \in CalledBy(c)
    PROVE  c \in callers'[f]
<1>1. /\ unit \in 1..Len(setting.units) /\ unit # 0 /\ at = Len(Items(unit)) + 1
      /\ Len(Items(unit)) \in Nat /\ Len(setting.units) \in Nat
  BY FinalizeFacts, SettingFacts DEF IInv
<1>2. f \in setting.calls[c] /\ DefinedIn(c) # {} /\ DefinedIn(c) \subseteq UnitsCalling(f)
  BY PlainCalls DEF IInv
<1>3. PICK u \in DefinedIn(c) : TRUE
  BY <1>2
<1>4. u \in UnitsCalling(f) /\ u \in 1..Len(setting.units)
  BY <1>2, <1>3 DEF DefinedIn
<1>5. /\ UnitsCalling(f) = {u}
      /\ \E d \in DefinedIn(f) : d <= u
      /\ NamedOneWay(f, u)
  BY <1>4 DEF CallersAreKept
<1>6. \A a \in activityCallers : a.to = f => unit = u
  BY <1>1, <1>5, ActivityCallerFacts DEF IInv
<1>7. CASE u # unit
  <2>1. CallersWereMet(f)
    BY <1>1, <1>4, <1>5, <1>7 DEF CallersWereMet
  <2>2. c \in callers[f]
    BY <2>1 DEF IInv, Kept
  <2>3. Keys(f) = {}
    BY <1>6, <1>7 DEF Keys
  <2> QED
    BY <2>2, <2>3 DEF WithCallers
<1>8. CASE u = unit
  <2>1. Met(f)
    <3>1. PICK d \in DefinedIn(f) : d <= unit
      BY <1>5, <1>8
    <3>2. d \in 1..Len(setting.units) /\ \E i \in 1..Len(Items(d)) : Defines(d, i, f)
      BY <3>1, DefinedWhere DEF IInv
    <3>3. PICK i \in 1..Len(Items(d)) : Defines(d, i, f)
      BY <3>2
    <3>4. d \in 1..unit
      BY <1>1, <3>1, <3>2
    <3>5. d < unit \/ i < at
      <4>1. CASE d = unit
        BY <1>1, <3>3, <4>1
      <4>2. CASE d # unit
        BY <1>1, <3>1, <3>2, <4>2
      <4> QED
        BY <4>1, <4>2
    <3> QED
      BY <3>3, <3>4, <3>5 DEF Met
  <2>2. f \in activities
    BY <2>1 DEF IInv, Recorded
  <2>3. PICK i \in 1..Len(Items(unit)) : Defines(unit, i, c)
    BY <1>3, <1>8, DefinedWhere DEF IInv
  <2> DEFINE a == [to |-> f, key |-> KeyOf(f, SeenUpTo(unit, i)), from |-> c]
  <2>4. i \in 1..(at - 1)
    BY <1>1, <2>3
  <2>5. a \in activityCallers
    BY <1>1, <1>2, <2>3, <2>4 DEF IInv, VisitorKnows
  <2>6. a.to = f /\ a.from = c
    OBVIOUS
  <2> HIDE DEF a
  <2>7. a.key \in Keys(f)
    BY <2>5, <2>6 DEF Keys
  <2>8. PICK b \in activityCallers : b.to = f /\ b.key = first[f]
    BY <2>7 DEF Keys
  <2>9. a.key = first[f]
    BY <1>1, <1>5, <1>8, <2>5, <2>6, <2>8, OneKey DEF IInv
  <2>10. c \in CallersBy(f, first[f])
    BY <2>5, <2>6, <2>9 DEF CallersBy
  <2> QED
    BY <2>2, <2>7, <2>10 DEF WithCallers
<1> QED
  BY <1>7, <1>8

\* The end of a unit, where lambdas are not inlined.
LEMMA FinalizePlainStep ==
    ASSUME IInv, Finalize, ~setting.inline
    PROVE  IInv'
<1>1. /\ unit \in 1..Len(setting.units) /\ unit # 0 /\ pc = "visit"
      /\ at = Len(Items(unit)) + 1 /\ Len(Items(unit)) \in Nat
      /\ setting' = setting /\ unit' = unit /\ at' = at /\ mapped' = mapped
      /\ activityCallers' = activityCallers /\ pc' = "between"
  BY FinalizeFacts DEF IInv
<1>2. PICK first \in [Function -> {"ast", "uml"}] :
          /\ \A g \in Function : first[g] \in Keys(g) \/ (Keys(g) = {} /\ first[g] = "ast")
          /\ callers' = WithCallers(first)
  BY DEF Finalize
<1>3. activities' = activities /\ messages' = messages
  BY DEF Finalize
<1>4. callers \in [Function -> SUBSET Function] /\ TypeOK
  BY DEF IInv, Progress, TypeOK
<1>5. ASSUME NEW g \in Function
      PROVE  callers'[g] = callers[g] \/ callers'[g] = CallersBy(g, first[g])
  BY <1>2 DEF WithCallers
<1>6. ASSUME NEW g \in Function, NEW c \in CallersBy(g, first[g])
      PROVE  c \in Function /\ g \in messages[c]
  <2>1. PICK a \in activityCallers : a.to = g /\ a.from = c
    BY <1>6 DEF CallersBy
  <2>2. c \in Function /\ g \in setting.calls[c] /\ Met(c)
    BY <1>1, <2>1, ActivityCallerFacts DEF IInv
  <2> QED
    BY <2>2 DEF IInv, Recorded
<1>7. callers' \in [Function -> SUBSET Function]
  <2>1. \A g \in Function : callers'[g] \subseteq Function
    BY <1>4, <1>5, <1>6
  <2>2. callers' = [g \in Function |-> callers'[g]]
    BY <1>2 DEF WithCallers
  <2> QED
    BY <2>1, <2>2
<1>8. Items(unit)' = Items(unit)
  BY <1>1 DEF Items
<1>9. Progress'
  <2>1. TypeOK'
    BY <1>1, <1>3, <1>4, <1>7 DEF TypeOK
  <2>2. at' \in 1..(Len(Items(unit)) + 1)
    BY <1>1
  <2> QED
    BY <1>1, <1>8, <2>1, <2>2 DEF IInv, Progress
<1>10. VisitorKnows'
  <2>1. /\ \A u, i, f : Defines(u, i, f)' = Defines(u, i, f)
        /\ \A u, i : SeenUpTo(u, i)' = SeenUpTo(u, i)
    BY <1>1, SettingStays
  <2>2. \A a, i : FoundAt(a, i)' = FoundAt(a, i)
    BY <1>1, <2>1 DEF FoundAt, KeyOf
  <2> QED
    BY <1>1, <2>1, <2>2 DEF IInv, VisitorKnows, KeyOf
<1>11. \A f \in Function : Met(f)' <=> Met(f)
  <2>1. \A u, i, f : Defines(u, i, f)' = Defines(u, i, f) /\ Items(u)' = Items(u)
    BY <1>1, SettingStays
  <2> QED
    BY <1>1, <2>1 DEF Met
<1>12. Recorded'
  <2>1. \A g \in Function : \A c \in callers'[g] : g \in messages[c]
    BY <1>5, <1>6 DEF IInv, Recorded
  <2> QED
    BY <1>1, <1>3, <1>11, <2>1 DEF IInv, Recorded
<1>13. Kept'
  <2> SUFFICES ASSUME NEW f \in Function, setting'.calls[f] # {},
                      CallersAreKept(f)', CallersWereMet(f)',
                      NEW c \in Function, (f \in CalledBy(c))'
               PROVE  c \in callers'[f]
    BY DEF Kept
  <2>1. CallersAreKept(f) /\ f \in CalledBy(c) /\ setting.calls[f] # {}
    BY <1>1, SettingStays
  <2>2. \A u \in UnitsCalling(f) : u <= unit
    <3>1. UnitsCalling(f)' = UnitsCalling(f)
      BY <1>1, SettingStays
    <3>2. ASSUME NEW u \in UnitsCalling(f) PROVE u <= unit
      <4>1. u < unit \/ u = unit
        BY <1>1, <3>1 DEF CallersWereMet
      <4>2. u \in Nat
        BY DEF UnitsCalling, DefinedIn
      <4> QED
        BY <1>1, <4>1, <4>2
    <3> QED
      BY <3>2
  <2> QED
    BY ONLY IInv, Finalize, ~setting.inline, <1>2, <2>1, <2>2, FinalizeKeeps
<1>14. InlinedCalls'
  BY <1>1 DEF InlinedCalls
<1> QED
  BY <1>9, <1>10, <1>12, <1>13, <1>14 DEF IInv

\* The messages of f as inlining finds them: its own, and for a lambda what h says.
Unfolded(h, f) ==
    (messages[f] \ Lambda) \cup
        UNION {h[l] : l \in messages[f] \cap Lambda \cap activities}

\* A function that satisfies it: what is called by f and by the lambdas that f calls
\* and these call, the least set with them.
LambdaMessages(f) == messages[f] \cap Lambda \cap activities
ClosedFor(f, set) ==
    LambdaMessages(f) \subseteq set /\ \A l \in set : LambdaMessages(l) \subseteq set
Below(f) == {l \in Lambda : \A set \in SUBSET Lambda : ClosedFor(f, set) => l \in set}
Gathered(f) == (messages[f] \cup UNION {messages[l] : l \in Below(f)}) \ Lambda

\* The least set of a function consists of the lambdas it calls and of their least sets.
LEMMA BelowRecurs ==
    ASSUME NEW f
    PROVE  Below(f) = LambdaMessages(f) \cup UNION {Below(l) : l \in LambdaMessages(f)}
<1> DEFINE all == LambdaMessages(f) \cup UNION {Below(l) : l \in LambdaMessages(f)}
<1>1. \A g : LambdaMessages(g) \subseteq Below(g)
  BY DEF LambdaMessages, Below, ClosedFor
<1>2. \A g : \A l \in Below(g) : LambdaMessages(l) \subseteq Below(g)
  BY DEF LambdaMessages, Below, ClosedFor
<1>3. \A g : Below(g) \subseteq Lambda /\ LambdaMessages(g) \subseteq Lambda
  BY DEF LambdaMessages, Below
<1>4. ASSUME NEW l \in LambdaMessages(f) PROVE Below(l) \subseteq Below(f)
  <2>1. l \in Below(f)
    BY <1>1
  <2>2. ASSUME NEW set \in SUBSET Lambda, ClosedFor(f, set) PROVE ClosedFor(l, set)
    BY <2>2 DEF ClosedFor
  <2> QED
    BY <2>2 DEF Below
<1>5. all \subseteq Below(f)
  BY <1>1, <1>4
<1>6. all \in SUBSET Lambda
  BY <1>3
<1>7. ClosedFor(f, all)
  <2>1. ASSUME NEW l \in all PROVE LambdaMessages(l) \subseteq all
    <3>1. CASE l \in LambdaMessages(f)
      BY <1>1, <3>1
    <3>2. CASE \E k \in LambdaMessages(f) : l \in Below(k)
      BY <1>2, <3>2
    <3> QED
      BY <3>1, <3>2
  <2> QED
    BY <2>1 DEF ClosedFor
<1>8. Below(f) \subseteq all
  <2> HIDE DEF all
  <2> QED
    BY <1>6, <1>7 DEF Below
<1> QED
  BY <1>5, <1>8

\* ... so there is a function that satisfies the recursion, and Reattached is one.
LEMMA ReattachedRecurs ==
    ASSUME Lambda \subseteq Function, NEW f \in Function
    PROVE  Reattached[f] = Unfolded(Reattached, f)
<1> DEFINE h == [g \in Function |-> Gathered(g)]
<1>1. ASSUME NEW g \in Function PROVE h[g] = Unfolded(h, g)
  <2>1. \A l \in LambdaMessages(g) : h[l] = Gathered(l)
    BY DEF LambdaMessages
  <2>2. Below(g) = LambdaMessages(g) \cup UNION {Below(l) : l \in LambdaMessages(g)}
    BY BelowRecurs
  <2>3. Gathered(g) = (messages[g] \ Lambda) \cup
            UNION {Gathered(l) : l \in LambdaMessages(g)}
    BY <2>2 DEF Gathered
  <2>4. {Gathered(l) : l \in LambdaMessages(g)} = {h[l] : l \in LambdaMessages(g)}
    BY <2>1
  <2>5. h[g] = Gathered(g)
    OBVIOUS
  <2> HIDE DEF h
  <2> QED
    BY <2>3, <2>4, <2>5 DEF Unfolded, LambdaMessages
<1>2. h = [g \in Function |-> Unfolded(h, g)]
  <2>1. h = [g \in Function |-> h[g]]
    OBVIOUS
  <2> HIDE DEF h
  <2> QED
    BY <1>1, <2>1
<1>3. \E k : k = [g \in Function |-> Unfolded(k, g)]
  BY <1>2
<1>4. Reattached = [g \in Function |-> Unfolded(Reattached, g)]
  BY <1>3 DEF Reattached, Unfolded
<1> QED
  BY <1>4

\* What a lambda calls is called through it.
LEMMA CalledThroughLambdas ==
    ASSUME setting.inline, NEW f, DefinedIn(f) # {}, NEW l \in setting.calls[f] \cap Lambda
    PROVE  CalledBy(l) \subseteq CalledBy(f)
<1> SUFFICES ASSUME NEW g \in CalledBy(l) PROVE g \in CalledBy(f)
  OBVIOUS
<1>1. /\ DefinedIn(l) # {} /\ g \notin Lambda
      /\ \/ g \in setting.calls[l]
         \/ \E k \in LambdasOf(l) : DefinedIn(k) # {} /\ g \in setting.calls[k]
  BY DEF CalledBy
<1>2. l \in LambdasOf(f)
  BY DEF LambdasOf, TakesIn
<1>3. LambdasOf(l) \subseteq LambdasOf(f)
  <2>1. ASSUME NEW set \in SUBSET Lambda, TakesIn(f, set) PROVE TakesIn(l, set)
    BY <1>1, <2>1 DEF TakesIn
  <2> QED
    BY <2>1 DEF LambdasOf
<1> QED
  BY <1>1, <1>2, <1>3 DEF CalledBy

\* What inlining makes of the messages of a function are calls of the program: of the
\* lambdas for which that were false, one calls no other of them.
LEMMA InlinedIsCalled ==
    ASSUME Progress, InlinedCalls, setting.inline, NEW f \in Function, NEW g \in Inlined(f)
    PROVE  g \in CalledBy(f) /\ g \in Function /\ f \notin Lambda /\ messages[f] # {}
<1>1. /\ messages \in [Function -> SUBSET Function] /\ Lambda \subseteq Function
      /\ NoLambdaCycle(setting.calls) /\ setting.calls \in [Function -> SUBSET Function]
  BY SettingFacts, CallsAssumption DEF Progress, TypeOK
<1>2. \A x \in Function :
          /\ messages[x] # {} => DefinedIn(x) # {}
          /\ messages[x] \subseteq setting.calls[x] \cup CalledBy(x)
          /\ x \in Lambda => messages[x] \subseteq setting.calls[x]
  BY DEF InlinedCalls
<1>3. \A x \in Function : CalledBy(x) \cap Lambda = {}
  BY DEF CalledBy
<1>4. ASSUME NEW x \in Function, NEW y \in messages[x] \ Lambda PROVE y \in CalledBy(x)
  <2>1. DefinedIn(x) # {} /\ y \in setting.calls[x] \cup CalledBy(x)
    BY <1>2, <1>4
  <2> QED
    BY <1>4, <2>1 DEF CalledBy
<1>5. ASSUME NEW x \in Function, NEW l \in messages[x] \cap Lambda
      PROVE  l \in Function /\ l \in setting.calls[x] /\ CalledBy(l) \subseteq CalledBy(x)
  <2>1. DefinedIn(x) # {} /\ l \in setting.calls[x] /\ l \in Function
    BY <1>1, <1>2, <1>3, <1>5
  <2> QED
    BY <2>1, CalledThroughLambdas
<1> DEFINE bad == {l \in Lambda : ~(Reattached[l] \subseteq CalledBy(l))}
<1>6. bad = {}
  <2> SUFFICES ASSUME bad # {} PROVE FALSE
    OBVIOUS
  <2>1. PICK l \in bad : setting.calls[l] \cap bad = {}
    <3>1. bad \in SUBSET Lambda
      OBVIOUS
    <3> HIDE DEF bad
    <3> QED
      BY <1>1, <3>1 DEF NoLambdaCycle
  <2>2. l \in Function /\ l \in Lambda
    BY <1>1
  <2>3. ASSUME NEW k \in messages[l] \cap Lambda PROVE Reattached[k] \subseteq CalledBy(l)
    <3>1. k \in setting.calls[l] /\ CalledBy(k) \subseteq CalledBy(l)
      BY <1>5, <2>2
    <3>2. Reattached[k] \subseteq CalledBy(k)
      BY <2>1, <3>1
    <3> QED
      BY <3>1, <3>2
  <2>4. Reattached[l] = Unfolded(Reattached, l)
    BY <1>1, <2>2, ReattachedRecurs
  <2>5. Reattached[l] \subseteq CalledBy(l)
    BY <1>4, <2>2, <2>3, <2>4 DEF Unfolded
  <2> QED
    BY <2>5
<1>7. f \notin Lambda /\ g \in Unfolded(Reattached, f)
  BY <1>1, ReattachedRecurs DEF Inlined
<1>8. g \in CalledBy(f) /\ messages[f] # {}
  <2>1. CASE g \in messages[f] \ Lambda
    BY <1>4, <2>1
  <2>2. CASE \E l \in messages[f] \cap Lambda : g \in Reattached[l]
    BY <1>5, <1>6, <2>2
  <2> QED
    BY <1>7, <2>1, <2>2 DEF Unfolded
<1>9. CalledBy(f) \subseteq Function
  BY <1>1 DEF CalledBy, LambdasOf
<1> QED
  BY <1>7, <1>8, <1>9

\* The end of a unit, where they are.
LEMMA FinalizeInlineStep ==
    ASSUME IInv, Finalize, setting.inline
    PROVE  IInv'
<1>1. /\ unit \in 1..Len(setting.units) /\ unit # 0 /\ pc = "visit"
      /\ at = Len(Items(unit)) + 1 /\ Len(Items(unit)) \in Nat
      /\ setting' = setting /\ unit' = unit /\ at' = at /\ mapped' = mapped
      /\ activityCallers' = activityCallers /\ pc' = "between"
  BY FinalizeFacts DEF IInv
<1>2. /\ callers' = [g \in Function |-> {}]
      /\ activities' = activities \ Lambda
      /\ messages' = [f \in Function |-> Inlined(f)]
  BY DEF Finalize
<1>3. /\ TypeOK /\ activities \subseteq Function
      /\ messages \in [Function -> SUBSET Function] /\ Lambda \subseteq Function
  BY CallsAssumption DEF IInv, Progress, TypeOK
<1>4. \A f \in Function :
          /\ messages[f] # {} => DefinedIn(f) # {} /\ f \in activities
          /\ messages[f] \subseteq setting.calls[f] \cup CalledBy(f)
          /\ f \in Lambda => messages[f] \subseteq setting.calls[f]
  BY DEF IInv, InlinedCalls
<1>5. ASSUME NEW f \in Function, NEW g \in Inlined(f)
      PROVE  g \in CalledBy(f) /\ g \in Function /\ f \notin Lambda /\ messages[f] # {}
  BY <1>5, InlinedIsCalled DEF IInv
<1>6. messages' \in [Function -> SUBSET Function]
  BY <1>2, <1>5
<1>7. Progress'
  <2>1. Items(unit)' = Items(unit)
    BY <1>1 DEF Items
  <2>2. TypeOK'
    BY <1>1, <1>2, <1>3, <1>6 DEF TypeOK
  <2>3. at' \in 1..(Len(Items(unit)) + 1)
    BY <1>1
  <2> QED
    BY <1>1, <2>1, <2>2, <2>3 DEF IInv, Progress
<1>8. VisitorKnows'
  <2>1. /\ \A u, i, f : Defines(u, i, f)' = Defines(u, i, f)
        /\ \A u, i : SeenUpTo(u, i)' = SeenUpTo(u, i)
    BY <1>1, SettingStays
  <2>2. \A a, i : FoundAt(a, i)' = FoundAt(a, i)
    BY <1>1, <2>1 DEF FoundAt, KeyOf
  <2> QED
    BY <1>1, <2>1, <2>2 DEF IInv, VisitorKnows, KeyOf
<1>9. InlinedCalls'
  <2>1. \A f : DefinedIn(f)' = DefinedIn(f) /\ CalledBy(f)' = CalledBy(f)
    BY <1>1, SettingStays
  <2>2. ASSUME NEW f \in Function
        PROVE  /\ messages'[f] = Inlined(f) /\ Inlined(f) \subseteq CalledBy(f)
               /\ f \in Lambda => messages'[f] = {}
               /\ messages'[f] # {} => DefinedIn(f) # {} /\ f \in activities'
    BY <1>2, <1>4, <1>5
  <2>3. \A g \in Function : callers'[g] = {}
    BY <1>2
  <2> QED
    BY <2>1, <2>2, <2>3 DEF InlinedCalls
<1>10. Recorded' /\ Kept'
  BY <1>1 DEF Recorded, Kept
<1> QED
  BY <1>7, <1>8, <1>9, <1>10 DEF IInv

\* The invariant is inductive.
LEMMA NextIInv == IInv /\ [Next]_vars => IInv'
<1> SUFFICES ASSUME IInv, [Next]_vars PROVE IInv'
  OBVIOUS
<1>1. CASE BeginUnit
  BY <1>1, BeginUnitStep
<1>2. CASE VisitDeclaration
  BY <1>2, VisitDeclarationStep
<1>3. CASE VisitDefinition
  BY <1>3, VisitDefinitionStep
<1>4. CASE Finalize
  BY <1>4, SettingFacts, FinalizePlainStep, FinalizeInlineStep DEF IInv
<1>5. CASE UNCHANGED vars
  <2>1. /\ setting' = setting /\ unit' = unit /\ at' = at /\ mapped' = mapped
        /\ activityCallers' = activityCallers /\ activities' = activities
        /\ messages' = messages /\ callers' = callers /\ pc' = pc
    BY <1>5 DEF vars, visitor, model
  <2>2. /\ \A u : Items(u)' = Items(u)
        /\ \A u, i, f : Defines(u, i, f)' = Defines(u, i, f)
        /\ \A u, i : SeenUpTo(u, i)' = SeenUpTo(u, i)
        /\ \A f : DefinedIn(f)' = DefinedIn(f) /\ CalledBy(f)' = CalledBy(f)
        /\ \A f : UnitsCalling(f)' = UnitsCalling(f)
        /\ \A f : CallersAreKept(f)' = CallersAreKept(f)
    BY <2>1, SettingStays
  <2>3. Progress'
    BY <2>1, <2>2 DEF IInv, Progress, TypeOK
  <2>4. \A a, i : FoundAt(a, i)' = FoundAt(a, i)
    BY <2>1, <2>2 DEF FoundAt, KeyOf
  <2>5. VisitorKnows'
    BY <2>1, <2>2, <2>4 DEF IInv, VisitorKnows, KeyOf
  <2>6. \A f : Met(f)' <=> Met(f)
    BY <2>1, <2>2 DEF Met
  <2>7. Recorded'
    BY <2>1, <2>6 DEF IInv, Recorded
  <2>8. \A f : CallersWereMet(f)' <=> CallersWereMet(f)
    BY <2>1, <2>2 DEF CallersWereMet
  <2>9. Kept'
    BY <2>1, <2>2, <2>8 DEF IInv, Kept
  <2>10. InlinedCalls'
    BY <2>1, <2>2 DEF IInv, InlinedCalls
  <2> QED
    BY <2>3, <2>5, <2>7, <2>9, <2>10 DEF IInv
<1> QED
  BY <1>1, <1>2, <1>3, <1>4, <1>5 DEF Next

\* What the visitors know and what the model has recorded, in every state.
THEOREM Invariance == Spec => []IInv
<1> QED
  BY InitIInv, NextIInv, PTL DEF Spec

\* Every variable keeps its type.
THEOREM TypeCorrect == Spec => []TypeOK
<1>1. IInv => TypeOK
  BY DEF IInv, Progress
<1> QED
  BY <1>1, Invariance, PTL
--------------------------------------------------------------------------------
(***************************************************************************)
(* The chains                                                              *)
(***************************************************************************)
\* After the last unit: what is recorded, forwards and backwards, are calls of the
\* program.
LEMMA RecordedAreCalls ==
    ASSUME IInv, Generating
    PROVE  /\ CallersAreFunctions
           /\ activities \subseteq Function
           /\ \A f \in Function : /\ messages[f] \subseteq CalledBy(f)
                                  /\ messages[f] # {} => f \in activities
           /\ \A g \in Function : \A c \in callers[g] :
                 c \in Function /\ IsRecorded([from |-> c, to |-> g])
<1>1. /\ callers \in [Function -> SUBSET Function] /\ activities \subseteq Function
      /\ messages \in [Function -> SUBSET Function] /\ pc = "between"
      /\ setting.inline \in BOOLEAN
  BY SettingFacts DEF IInv, Progress, TypeOK, Generating
<1>2. CASE setting.inline
  BY <1>1, <1>2 DEF IInv, InlinedCalls, CallersAreFunctions
<1>3. CASE ~setting.inline
  <2>1. ASSUME NEW f \in Function
        PROVE  /\ messages[f] \subseteq CalledBy(f)
               /\ messages[f] # {} => f \in activities
    <3>1. CASE Met(f)
      <4>1. DefinedIn(f) # {} /\ messages[f] = setting.calls[f]
        BY <1>3, <3>1, MetIsDefined DEF IInv, Recorded
      <4> QED
        BY <1>3, <4>1 DEF IInv, Recorded, CalledBy
    <3>2. CASE ~Met(f)
      BY <1>3, <3>2 DEF IInv, Recorded
    <3> QED
      BY <3>1, <3>2
  <2>2. ASSUME NEW g \in Function, NEW c \in callers[g]
        PROVE  c \in Function /\ IsRecorded([from |-> c, to |-> g])
    <3>1. c \in Function /\ g \in messages[c]
      BY <1>1, <1>3 DEF IInv, Recorded
    <3>2. c \in activities
      BY <2>1, <3>1
    <3> QED
      BY <3>1, <3>2 DEF IsRecorded
  <2> QED
    BY <1>1, <2>1, <2>2 DEF CallersAreFunctions
<1> QED
  BY <1>1, <1>2, <1>3

\* The messages along a way to a function that calls `to`: the calls from each
\* function of the way to the next, and to `to`.
IsPathAlong(mc, w, to) ==
    /\ mc = [i \in 1..Len(w) |-> mc[i]] /\ Len(mc) = Len(w)
    /\ \A i \in 1..Len(w) : mc[i] \in [from : Function, to : Function]
    /\ \A i \in 1..Len(w) : mc[i].from = w[i]
    /\ \A i \in 1..(Len(w) - 1) : mc[i].to = w[i + 1]
    /\ mc[Len(w)].to = to

\* The calls of a chain are such a path.
LEMMA PathsAlongWays ==
    ASSUME NEW w \in Seq(Function), Len(w) >= 1, NEW to \in Function
    PROVE  /\ IsPathAlong(CallsUpTo(Append(w, to), Len(w)), w, to)
           /\ \A i \in 1..(Len(w) - 1) :
                 CallAt(Append(w, to), i) = [from |-> w[i], to |-> w[i + 1]]
           /\ CallAt(Append(w, to), Len(w)) = [from |-> w[Len(w)], to |-> to]
           /\ Len(Append(w, to)) = Len(w) + 1
<1> DEFINE n == Len(w)
           chain == Append(w, to)
           mc == CallsUpTo(chain, n)
<1>1. /\ n \in Nat \ {0} /\ Len(chain) = n + 1 /\ chain[n + 1] = to
      /\ \A i \in 1..n : chain[i] = w[i] /\ w[i] \in Function
  OBVIOUS
<1>2. mc = [i \in 1..n |-> CallAt(chain, i)]
  BY DEF CallsUpTo
<1> HIDE DEF n, chain, mc
<1>3. /\ \A i \in 1..(n - 1) : CallAt(chain, i) = [from |-> w[i], to |-> w[i + 1]]
      /\ CallAt(chain, n) = [from |-> w[n], to |-> to]
  <2>1. \A i \in 1..(n - 1) : i \in 1..n /\ i + 1 \in 1..n
    BY <1>1
  <2>2. n \in 1..n
    BY <1>1
  <2> QED
    BY <1>1, <2>1, <2>2 DEF CallAt
<1>4. \A i \in 1..n : CallAt(chain, i) \in [from : Function, to : Function]
  <2> SUFFICES ASSUME NEW i \in 1..n
               PROVE  CallAt(chain, i) \in [from : Function, to : Function]
    OBVIOUS
  <2>1. CASE i = n
    BY <1>1, <1>3, <2>1
  <2>2. CASE i # n
    <3>1. i \in 1..(n - 1) /\ i + 1 \in 1..n
      BY <1>1, <2>2
    <3>2. w[i] \in Function /\ w[i + 1] \in Function
      BY <1>1, <3>1
    <3> QED
      BY <1>3, <3>1, <3>2
  <2> QED
    BY <2>1, <2>2
<1>5. mc = [i \in 1..n |-> mc[i]] /\ Len(mc) = n
  <2> DEFINE S == [from : Function, to : Function]
  <2>1. mc \in [1..n -> S]
    BY <1>2, <1>4
  <2> HIDE DEF S
  <2>2. mc \in Seq(S)
    BY <1>1, <2>1
  <2>3. Len(mc) = n
    BY <1>1, <2>1, <2>2
  <2> QED
    BY <1>2, <2>3
<1>6. \A i \in 1..n : mc[i].from = w[i]
  BY <1>1, <1>2 DEF CallAt
<1>7. /\ \A i \in 1..(n - 1) : mc[i].to = w[i + 1]
      /\ mc[n].to = to
      /\ \A i \in 1..n : mc[i] \in [from : Function, to : Function]
  <2>1. \A i \in 1..(n - 1) : i \in 1..n
    BY <1>1
  <2>2. n \in 1..n
    BY <1>1
  <2> QED
    BY <1>2, <1>3, <1>4, <2>1, <2>2
<1>8. IsPathAlong(mc, w, to)
  BY <1>5, <1>6, <1>7 DEF IsPathAlong, n
<1> QED
  BY <1>1, <1>3, <1>8 DEF n, chain, mc

\* No function is twice in a way.
LEMMA WaysMeetOnce ==
    ASSUME CallersAreFunctions, NEW f \in Function, NEW w \in Ways(f, {}),
           NEW i \in 1..Len(w), NEW j \in 1..Len(w), w[i] = w[j]
    PROVE  i = j
<1> DEFINE n == Len(w)
<1>1. /\ w \in Seq(Function) /\ n \in Nat
      /\ \A k \in 1..(n - 1) : w[k] \in CallersAbove(w[k + 1], From(w, k + 1))
  <2>1. w \in Seq(Function) /\ IsWay(w, f, {})
    BY DEF Ways
  <2>2. \A k : {} \cup From(w, k) = From(w, k)
    OBVIOUS
  <2> QED
    BY <2>1, <2>2 DEF IsWay
<1>2. i \in 1..n /\ j \in 1..n
  OBVIOUS
<1>3. \A k, l : l \in k..n => w[l] \in From(w, k)
  BY DEF From
<1> HIDE DEF n
<1>4. ASSUME NEW k \in 1..n, NEW l \in 1..n, k < l PROVE w[k] # w[l]
  <2>1. k \in 1..(n - 1) /\ l \in (k + 1)..n
    BY <1>1, <1>4
  <2>2. w[k] \in CallersAbove(w[k + 1], From(w, k + 1)) /\ w[l] \in From(w, k + 1)
    BY <1>1, <1>3, <2>1
  <2> QED
    BY <2>2 DEF CallersAbove
<1>5. i < j \/ j < i \/ i = j
  BY <1>1, <1>2
<1> QED
  BY <1>2, <1>4, <1>5

\* A way up from a function that calls `to` gives a chain whose messages are a path
\* of calls along it.
LEMMA WaysGivePaths ==
    ASSUME IInv, Generating, NEW to \in Function, NEW f \in DirectCallers(to),
           NEW w \in Ways(f, {})
    PROVE  /\ Len(w) \in Nat /\ Len(w) >= 1
           /\ IsPathAlong(MessageChain(Append(w, to)), w, to)
           /\ CallPath(MessageChain(Append(w, to)))
           /\ EndsAt(MessageChain(Append(w, to)), to)
<1> DEFINE n == Len(w)
           chain == Append(w, to)
           mc == MessageChain(chain)
<1>1. /\ w \in Seq(Function) /\ n \in Nat /\ n >= 1 /\ w[n] = f
      /\ \A i \in 1..(n - 1) : w[i] \in CallersAbove(w[i + 1], {} \cup From(w, i + 1))
  <2>1. w \in Seq(Function) /\ IsWay(w, f, {})
    BY DEF Ways
  <2> QED
    BY <2>1 DEF IsWay
<1>2. /\ Len(chain) = n + 1
      /\ IsPathAlong(CallsUpTo(chain, n), w, to)
      /\ \A i \in 1..(n - 1) : CallAt(chain, i) = [from |-> w[i], to |-> w[i + 1]]
      /\ CallAt(chain, n) = [from |-> w[n], to |-> to]
  BY <1>1, PathsAlongWays
<1>3. \A i \in 1..n : w[i] \in Function
  BY <1>1
<1>4. \A i, j \in 1..n : w[i] = w[j] => i = j
  <2>1. f \in Function /\ CallersAreFunctions
    BY RecordedAreCalls DEF DirectCallers
  <2> QED
    BY <2>1, WaysMeetOnce
<1> HIDE DEF n, chain
<1>5. ASSUME NEW i \in 1..n PROVE IsRecorded(CallAt(chain, i))
  <2>1. CASE i = n
    BY <1>1, <1>2, <2>1 DEF DirectCallers, IsRecorded
  <2>2. CASE i # n
    <3>1. i \in 1..(n - 1) /\ i + 1 \in 1..n
      BY <1>1, <2>2
    <3>2. w[i] \in callers[w[i + 1]]
      BY <1>1, <3>1 DEF CallersAbove
    <3>3. w[i + 1] \in Function
      BY <1>3, <3>1
    <3>4. IsRecorded([from |-> w[i], to |-> w[i + 1]])
      BY <3>2, <3>3, RecordedAreCalls
    <3> QED
      BY <1>2, <3>1, <3>4
  <2> QED
    BY <2>1, <2>2
<1>6. mc = CallsUpTo(chain, n)
  <2>1. Len(chain) \in Nat \ {0} /\ Len(chain) - 1 = n
    BY <1>1, <1>2
  <2> QED
    BY <1>5, <2>1, MessagesAreCalls
<1>7. \A i \in 1..n : IsRecorded(mc[i])
  BY <1>5, <1>6 DEF CallsUpTo
<1> HIDE DEF mc
<1>8. /\ IsPathAlong(mc, w, to) /\ Len(mc) = n
      /\ \A i \in 1..n : mc[i] \in [from : Function, to : Function] /\ mc[i].from = w[i]
      /\ \A i \in 1..(n - 1) : mc[i].to = w[i + 1]
      /\ mc[n].to = to
  BY <1>2, <1>6 DEF IsPathAlong, n
<1>9. CallPath(mc)
  <2>1. \A i \in 1..Len(mc) : mc[i].to \in CalledBy(mc[i].from)
    <3> SUFFICES ASSUME NEW i \in 1..n PROVE mc[i].to \in CalledBy(mc[i].from)
      BY <1>8
    <3>1. mc[i].to \in messages[mc[i].from] /\ mc[i].from \in Function
      BY <1>3, <1>7, <1>8 DEF IsRecorded
    <3> QED
      BY <3>1, RecordedAreCalls
  <2>2. \A i \in 1..(Len(mc) - 1) : mc[i].to = mc[i + 1].from
    <3> SUFFICES ASSUME NEW i \in 1..(n - 1) PROVE mc[i].to = mc[i + 1].from
      BY <1>8
    <3>1. i + 1 \in 1..n
      BY <1>1
    <3> QED
      BY <1>8, <3>1
  <2>3. \A i, j \in 1..Len(mc) : mc[i].from = mc[j].from => i = j
    BY <1>4, <1>8
  <2> QED
    BY <2>1, <2>2, <2>3 DEF CallPath
<1>10. EndsAt(mc, to)
  BY <1>8 DEF EndsAt
<1> QED
  BY <1>1, <1>8, <1>9, <1>10 DEF mc, chain, n

\* The chains to a function come from the ways up from those that call it.
LEMMA ChainsComeFromWays ==
    ASSUME IsFiniteSet(Function), IInv, Generating, NEW to \in Function
    PROVE  ToChains(to) =
              {MessageChain(Append(w, to)) :
                 w \in UNION {Ways(f, {}) : f \in DirectCallers(to)}}
<1>1. CallersAreFunctions /\ DirectCallers(to) \subseteq Function
  BY RecordedAreCalls DEF DirectCallers
<1>2. \A f \in DirectCallers(to) : WaysUp[<<f, {}>>] = Ways(f, {})
  BY <1>1, WaysUpAreWays
<1>3. {WaysUp[<<f, {}>>] : f \in DirectCallers(to)} = {Ways(f, {}) : f \in DirectCallers(to)}
  BY <1>2
<1> DEFINE ways == UNION {Ways(f, {}) : f \in DirectCallers(to)}
           chains == {MessageChain(Append(w, to)) : w \in ways}
<1>4. ActivityChains(to) = {Append(w, to) : w \in ways}
  BY <1>3 DEF ActivityChains
<1>5. {MessageChain(c) : c \in ActivityChains(to)} = chains
  <2> HIDE DEF ways
  <2> QED
    BY <1>4
<1>6. <<>> \notin chains
  <2> SUFFICES ASSUME NEW w \in ways PROVE MessageChain(Append(w, to)) # <<>>
    OBVIOUS
  <2>1. PICK f \in DirectCallers(to) : w \in Ways(f, {})
    OBVIOUS
  <2>2. Len(w) >= 1 /\ Len(MessageChain(Append(w, to))) = Len(w) /\ Len(w) \in Nat
    BY <2>1, WaysGivePaths DEF IsPathAlong
  <2>3. Len(<<>>) = 0
    OBVIOUS
  <2> QED
    BY <2>2, <2>3
<1> HIDE DEF chains
<1>7. ToChains(to) = chains
  BY <1>5, <1>6 DEF ToChains
<1> QED
  BY <1>7 DEF chains

\* get_all_from_to_message_chains(): every chain of a diagram that is bounded by `to`
\* is a way through the program, with recursion followed once, for any configuration:
\* where lambdas are inlined, however deep they call one another (in no cycle), the
\* messages are the calls on the way through them.
THEOREM ChainsAreCallPathsCorrect ==
    ASSUME IsFiniteSet(Function)
    PROVE  Spec => []ChainsAreCallPaths
<1>1. IInv => ChainsAreCallPaths
  <2> SUFFICES ASSUME IInv, Generating, NEW to \in Function, NEW mc \in ToChains(to)
               PROVE  CallPath(mc) /\ EndsAt(mc, to)
    BY DEF ChainsAreCallPaths
  <2>1. PICK w \in UNION {Ways(f, {}) : f \in DirectCallers(to)} :
            mc = MessageChain(Append(w, to))
    BY ChainsComeFromWays
  <2>2. PICK f \in DirectCallers(to) : w \in Ways(f, {})
    BY <2>1
  <2> QED
    BY <2>1, <2>2, WaysGivePaths
<1> QED
  BY <1>1, Invariance, PTL

\* After the last unit, where nothing is inlined: every call of the program is
\* recorded forwards, and backwards if callers are kept.
LEMMA CallsAreRecorded ==
    ASSUME IInv, Generating, ~setting.inline, NEW f \in Function, NEW g \in Function,
           g \in CalledBy(f)
    PROVE  /\ IsRecorded([from |-> f, to |-> g]) /\ setting.calls[f] # {}
           /\ CallersAreKept(g) /\ setting.calls[g] # {} => f \in callers[g]
<1>1. g \in setting.calls[f] /\ DefinedIn(f) # {}
  BY PlainCalls DEF IInv
<1>2. messages[f] = setting.calls[f]
  BY <1>1, DefinedIsMet DEF IInv, Recorded
<1>3. IsRecorded([from |-> f, to |-> g])
  BY <1>1, <1>2, RecordedAreCalls DEF IsRecorded
<1>4. CallersWereMet(g)
  <2> SUFFICES ASSUME NEW u \in UnitsCalling(g)
               PROVE  u < unit \/ (u = unit /\ pc = "between")
    BY DEF CallersWereMet
  <2>1. u \in 1..Len(setting.units)
    BY DEF UnitsCalling, DefinedIn
  <2>2. Len(setting.units) \in Nat
    BY SettingFacts DEF IInv
  <2> QED
    BY <2>1, <2>2 DEF Generating
<1>5. CallersAreKept(g) /\ setting.calls[g] # {} => f \in callers[g]
  BY <1>4 DEF IInv, Kept
<1> QED
  BY <1>1, <1>3, <1>5

\* A way has at most as many functions as there are.
LEMMA WaysAreShort ==
    ASSUME IsFiniteSet(Function), CallersAreFunctions, NEW f \in Function,
           NEW w \in Ways(f, {})
    PROVE  Len(w) <= Cardinality(Function)
<1> DEFINE n == Len(w)
<1>1. w \in Seq(Function) /\ n \in Nat
  BY DEF Ways
<1>2. \A i, j \in 1..n : w[i] = w[j] => i = j
  BY WaysMeetOnce
<1>3. w \in [1..n -> Function]
  BY <1>1
<1> HIDE DEF n
<1>4. w \in Injection(1..n, Function)
  BY <1>2, <1>3 DEF Injection, IsInjective
<1>5. Cardinality(1..n) <= Cardinality(Function)
  BY <1>4, FS_Injection
<1>6. Cardinality(1..n) = n
  <2>1. Cardinality(1..n) = IF 1 > n THEN 0 ELSE n - 1 + 1
    BY <1>1, FS_Interval
  <2> QED
    BY <1>1, <2>1
<1> QED
  BY <1>5, <1>6 DEF n

\* Where callers are kept, a chain cannot be prolonged ...
LEMMA ChainsAreMaximal ==
    ASSUME IInv, Generating, ~setting.inline, \A f \in Function : CallersAreKept(f),
           NEW to \in Function, NEW f \in DirectCallers(to), NEW w \in Ways(f, {})
    PROVE  Maximal(MessageChain(Append(w, to)))
<1> DEFINE mc == MessageChain(Append(w, to))
<1>1. /\ Len(w) \in Nat /\ Len(w) >= 1 /\ IsPathAlong(mc, w, to) /\ CallPath(mc)
  BY WaysGivePaths
<1>2. w \in Seq(Function) /\ CallersAbove(w[1], From(w, 1)) = {}
  <2>1. w \in Seq(Function) /\ IsWay(w, f, {})
    BY DEF Ways
  <2>2. {} \cup From(w, 1) = From(w, 1)
    OBVIOUS
  <2> QED
    BY <2>1, <2>2 DEF IsWay
<1> HIDE DEF mc
<1>3. 1 \in 1..Len(w) /\ w[1] \in Function
  BY <1>1, <1>2
<1>4. mc[1].from = w[1] /\ mc[1].to \in Function /\ mc[1].to \in CalledBy(w[1])
  BY <1>1, <1>3 DEF IsPathAlong, CallPath
<1>5. w[1] \in activities /\ setting.calls[w[1]] # {}
  BY <1>3, <1>4, CallsAreRecorded DEF IsRecorded
<1>6. ASSUME NEW g \in Function, w[1] \in CalledBy(g)
      PROVE  \E i \in 1..Len(mc) : mc[i].from = g
  <2>1. g \in callers[w[1]]
    BY <1>3, <1>5, <1>6, CallsAreRecorded
  <2>2. g \in From(w, 1)
    BY <1>2, <1>5, <2>1 DEF CallersAbove
  <2>3. PICK i \in 1..Len(w) : w[i] = g
    BY <2>2 DEF From
  <2>4. i \in 1..Len(mc) /\ mc[i].from = w[i]
    BY <1>1 DEF IsPathAlong
  <2> QED
    BY <2>3, <2>4
<1> QED
  BY <1>4, <1>6 DEF Maximal, mc

\* ... and a path of calls that cannot be prolonged is a chain.
LEMMA MaximalPathsAreChains ==
    ASSUME IInv, Generating, ~setting.inline, \A f \in Function : CallersAreKept(f),
           NEW to \in Function, NEW n \in Nat \ {0}, NEW mc \in [1..n -> Call],
           CallPath(mc), EndsAt(mc, to), Maximal(mc)
    PROVE  \E f \in DirectCallers(to) : \E w \in Ways(f, {}) :
              mc = MessageChain(Append(w, to))
<1> DEFINE w == [i \in 1..n |-> mc[i].from]
           C == Call
<1>1. \A i \in 1..n : /\ mc[i] \in [from : Function, to : Function]
                      /\ mc[i].from \in Function /\ mc[i].to \in Function
                      /\ mc[i].to \in CalledBy(mc[i].from)
  BY DEF Call
<1>2. Len(mc) = n
  <2>1. mc \in [1..n -> C]
    OBVIOUS
  <2> HIDE DEF C
  <2>2. DOMAIN mc = 1..n
    OBVIOUS
  <2> QED
    BY <2>1, <2>2
<1>3. /\ \A i \in 1..(n - 1) : mc[i].to = mc[i + 1].from
      /\ \A i, j \in 1..n : mc[i].from = mc[j].from => i = j
      /\ mc[n].to = to
  BY <1>2 DEF CallPath, EndsAt
<1>4. w \in Seq(Function) /\ Len(w) = n /\ \A i \in 1..n : w[i] = mc[i].from
  <2>1. w \in [1..n -> Function] /\ \A i \in 1..n : w[i] = mc[i].from
    BY <1>1
  <2> HIDE DEF w
  <2> QED
    BY <2>1
<1> HIDE DEF w
<1>5. n \in 1..n /\ 1 \in 1..n
  OBVIOUS
<1>6. \A i \in 1..n : IsRecorded([from |-> mc[i].from, to |-> mc[i].to])
                      /\ setting.calls[mc[i].from] # {}
  BY <1>1, CallsAreRecorded
<1>7. w[n] \in DirectCallers(to)
  BY <1>3, <1>4, <1>5, <1>6 DEF IsRecorded, DirectCallers
<1>8. ASSUME NEW i \in 1..(n - 1)
      PROVE  w[i] \in CallersAbove(w[i + 1], {} \cup From(w, i + 1))
  <2>1. i \in 1..n /\ i + 1 \in 1..n
    OBVIOUS
  <2>2. w[i + 1] \in activities /\ setting.calls[w[i + 1]] # {}
    BY <1>4, <1>6, <2>1 DEF IsRecorded
  <2>3. w[i + 1] \in CalledBy(w[i]) /\ w[i] \in Function /\ w[i + 1] \in Function
    BY <1>1, <1>3, <1>4, <2>1
  <2>4. w[i] \in callers[w[i + 1]]
    BY <2>2, <2>3, CallsAreRecorded
  <2>5. w[i] \notin From(w, i + 1)
    <3> SUFFICES ASSUME NEW j \in (i + 1)..n, w[j] = w[i] PROVE FALSE
      BY <1>4 DEF From
    <3>1. j \in 1..n /\ j # i
      OBVIOUS
    <3> QED
      BY <1>3, <1>4, <2>1, <3>1
  <2> QED
    BY <2>2, <2>4, <2>5 DEF CallersAbove
<1>9. CallersAbove(w[1], {} \cup From(w, 1)) = {}
  <2> SUFFICES ASSUME NEW c \in callers[w[1]] PROVE c \in From(w, 1)
    BY DEF CallersAbove
  <2>1. w[1] \in Function
    BY <1>1, <1>4, <1>5
  <2>2. c \in Function /\ IsRecorded([from |-> c, to |-> w[1]])
    BY <2>1, RecordedAreCalls
  <2>3. w[1] \in CalledBy(c)
    BY <2>2, RecordedAreCalls DEF IsRecorded
  <2>4. PICK i \in 1..n : mc[i].from = c
    BY <1>2, <1>4, <1>5, <2>2, <2>3 DEF Maximal
  <2> QED
    BY <1>4, <2>4 DEF From
<1>10. w \in Ways(w[n], {})
  BY <1>4, <1>8, <1>9 DEF Ways, IsWay
<1>11. MessageChain(Append(w, to)) = mc
  <2> DEFINE other == MessageChain(Append(w, to))
  <2>1. IsPathAlong(other, w, to)
    BY <1>7, <1>10, WaysGivePaths
  <2>2. /\ other = [i \in 1..n |-> other[i]]
        /\ \A i \in 1..n : other[i] \in [from : Function, to : Function]
                           /\ other[i].from = w[i]
        /\ \A i \in 1..(n - 1) : other[i].to = w[i + 1]
        /\ other[n].to = to /\ Len(other) = n
    BY <1>4, <2>1 DEF IsPathAlong
  <2>3. ASSUME NEW i \in 1..n PROVE other[i] = mc[i]
    <3> HIDE DEF other
    <3>1. other[i].to = mc[i].to
      <4>1. CASE i = n
        BY <1>3, <2>2, <4>1
      <4>2. CASE i # n
        <5>1. i \in 1..(n - 1) /\ i + 1 \in 1..n
          BY <4>2
        <5> QED
          BY <1>3, <1>4, <2>2, <5>1
      <4> QED
        BY <4>1, <4>2
    <3>2. other[i].from = mc[i].from
      BY <1>4, <2>2
    <3> QED
      BY <1>1, <2>2, <3>1, <3>2
  <2>4. mc = [i \in 1..n |-> mc[i]]
    OBVIOUS
  <2>5. [i \in 1..n |-> other[i]] = [i \in 1..n |-> mc[i]]
    BY <2>3
  <2> QED
    BY <2>2, <2>4, <2>5
<1> QED
  BY <1>7, <1>10, <1>11

\* Where add_callers_to_activities() keeps the callers, the chains to a function are
\* exactly the longest ways there, for every program, however its functions are shared
\* out among units. No way is longer than there are functions, so the bound on the
\* paths leaves none out.
THEOREM ToChainsAreExactCorrect ==
    ASSUME IsFiniteSet(Function), Cardinality(Function) <= MaxChain
    PROVE  Spec => []ToChainsAreExact
<1>1. IInv => ToChainsAreExact
  <2> SUFFICES ASSUME IInv, Generating, ~setting.inline,
                      \A f \in Function : CallersAreKept(f), NEW to \in Function
               PROVE  ToChains(to) = {mc \in CallPaths : EndsAt(mc, to) /\ Maximal(mc)}
    BY DEF ToChainsAreExact
  <2>1. ASSUME NEW mc \in ToChains(to)
        PROVE  mc \in CallPaths /\ EndsAt(mc, to) /\ Maximal(mc)
    <3>1. PICK w \in UNION {Ways(f, {}) : f \in DirectCallers(to)} :
              mc = MessageChain(Append(w, to))
      BY <2>1, ChainsComeFromWays
    <3>2. PICK f \in DirectCallers(to) : w \in Ways(f, {})
      BY <3>1
    <3> DEFINE n == Len(w)
    <3>3. /\ n \in Nat /\ n >= 1 /\ IsPathAlong(mc, w, to) /\ CallPath(mc)
          /\ EndsAt(mc, to)
      BY <3>1, <3>2, WaysGivePaths
    <3>4. Maximal(mc)
      BY <3>1, <3>2, ChainsAreMaximal
    <3>5. n <= Cardinality(Function)
      <4>1. f \in Function /\ CallersAreFunctions
        BY RecordedAreCalls DEF DirectCallers
      <4> QED
        BY <3>2, <4>1, WaysAreShort
    <3>6. /\ mc = [i \in 1..n |-> mc[i]] /\ Len(mc) = n
          /\ \A i \in 1..n : mc[i] \in [from : Function, to : Function]
      BY <3>3 DEF IsPathAlong
    <3> HIDE DEF n
    <3>7. n \in 1..MaxChain
      <4>1. Cardinality(Function) \in Nat /\ MaxChain \in Nat
        BY FS_CardinalityType, CallsAssumption
      <4> QED
        BY <3>3, <3>5, <4>1
    <3>8. \A i \in 1..n : mc[i] \in Call
      BY <3>3, <3>6 DEF CallPath, Call
    <3>9. mc \in [1..n -> Call]
      BY <3>6, <3>8
    <3>10. mc \in CallPaths
      BY <3>3, <3>7, <3>9 DEF CallPaths
    <3> QED
      BY <3>3, <3>4, <3>10
  <2>2. ASSUME NEW mc \in CallPaths, EndsAt(mc, to), Maximal(mc) PROVE mc \in ToChains(to)
    <3>1. CallPath(mc) /\ \E n \in 1..MaxChain : mc \in [1..n -> Call]
      BY <2>2 DEF CallPaths
    <3>2. PICK n \in 1..MaxChain : mc \in [1..n -> Call]
      BY <3>1
    <3>3. n \in Nat \ {0}
      BY CallsAssumption
    <3>4. \E f \in DirectCallers(to) : \E w \in Ways(f, {}) :
              mc = MessageChain(Append(w, to))
      BY <2>2, <3>1, <3>2, <3>3, MaximalPathsAreChains
    <3> QED
      BY <3>4, ChainsComeFromWays
  <2>3. {mc \in CallPaths : EndsAt(mc, to) /\ Maximal(mc)} \subseteq ToChains(to)
    BY <2>2
  <2>4. ToChains(to) \subseteq {mc \in CallPaths : EndsAt(mc, to) /\ Maximal(mc)}
    BY <2>1
  <2> QED
    BY <2>3, <2>4
<1> QED
  BY <1>1, Invariance, PTL
================================================================================
