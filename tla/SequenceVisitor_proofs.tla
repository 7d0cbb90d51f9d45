------------------------ MODULE SequenceVisitor_proofs ------------------------
(***************************************************************************)
(* For syntax trees of any size: the context the visitor keeps follows its *)
(* traversal, every message is in one place, an else is marked, and every  *)
(* activity goes through a behaviour of SequenceModel.                     *)
(*                                                                         *)
(* Statements are numbered as they are entered, so the numbers on the way  *)
(* from the root to the node being visited ascend (IsWalk), and a stack    *)
(* that ascends is known by its set of numbers: entering pushes the        *)
(* greatest, leaving pops it. The context Knows the walk if each stack     *)
(* holds the numbers of the frames of its kinds.                           *)
(*                                                                         *)
(* A lambda is entered with a copy of the context, which is put back when  *)
(* it is left; so the invariant says of the copies too which walk they     *)
(* know: the walk up to their lambda (Restores). When a lambda is left,    *)
(* the walk is back where it was entered.                                  *)
(*                                                                         *)
(* The second invariant is about messages (Tidy). A block that is folded   *)
(* is erased from its beginning, so it has to be known that nothing which  *)
(* waits or is work is behind it: the frames know where their blocks begin *)
(* (BlocksStand), and a block that is closed holds work (ClosedHoldWork),  *)
(* so a search for the beginning of the innermost block stops at its own.  *)
(* Messages are told apart by the number of the node they were made for;   *)
(* Placed says where each of them is.                                      *)
(*                                                                         *)
(* The third is about the branches of ifs (ElseInv). Every step is one of  *)
(* three moves of the walk: a node is entered, goes on, or is left. Of an  *)
(* if that is Clean, whose branches are still told apart, the context      *)
(* Recalls whether an else-if came last, and the copies of the context     *)
(* recall it of the walk up to their lambda (Backed); so an else finds the *)
(* if it belongs to. Its mark stays, because the blocks inside of the else *)
(* begin after it (Divided).                                               *)
(*                                                                         *)
(* The last part maps the blocks of the frames to those of one activity    *)
(* (OpenIn): a step continues the walk, and so lets the blocks of the      *)
(* activity be, or begins or ends the innermost one of them.               *)
(***************************************************************************)
EXTENDS VisitorActivities, SequenceTheorems, FiniteSetTheorems, TLAPS

--------------------------------------------------------------------------------
(***************************************************************************)
(* Stacks of ascending numbers                                             *)
(***************************************************************************)
\* What Append() does to a sequence.
LEMMA PushFacts ==
    ASSUME NEW S, NEW s \in Seq(S), NEW e \in S
    PROVE  /\ Append(s, e) \in Seq(S)
           /\ Len(s) \in Nat /\ Len(Append(s, e)) = Len(s) + 1
           /\ DOMAIN s = 1..Len(s) /\ DOMAIN Append(s, e) = 1..(Len(s) + 1)
           /\ \A i \in 1..Len(s) : Append(s, e)[i] = s[i]
           /\ Append(s, e)[Len(s) + 1] = e
  OBVIOUS

\* What Front() and Last() are, of a sequence that is not empty.
LEMMA PopFacts ==
    ASSUME NEW S, NEW s \in Seq(S), s # <<>>
    PROVE  /\ Len(s) \in Nat \ {0} /\ DOMAIN s = 1..Len(s)
           /\ Front(s) \in Seq(S)
           /\ Len(Front(s)) = Len(s) - 1 /\ DOMAIN Front(s) = 1..(Len(s) - 1)
           /\ \A i \in 1..(Len(s) - 1) : Front(s)[i] = s[i]
           /\ Last(s) = s[Len(s)] /\ Last(s) \in S
<1>1. Len(s) \in Nat \ {0} /\ DOMAIN s = 1..Len(s)
  OBVIOUS
<1>2. Front(s) = SubSeq(s, 1, Len(s) - 1)
  BY DEF Front
<1>3. /\ SubSeq(s, 1, Len(s) - 1) \in Seq(S)
      /\ Len(SubSeq(s, 1, Len(s) - 1)) = Len(s) - 1
      /\ \A i \in 1..(Len(s) - 1) : SubSeq(s, 1, Len(s) - 1)[i] = s[i]
  BY <1>1
<1> QED
  BY <1>1, <1>2, <1>3 DEF Last

\* A number above those of a stack is pushed.
LEMMA StackPush ==
    ASSUME NEW s \in Seq(Nat), NEW ids, IsStackOf(s, ids), NEW n \in Nat,
           \A x \in ids : x < n
    PROVE  Append(s, n) \in Seq(Nat) /\ IsStackOf(Append(s, n), ids \cup {n})
<1> DEFINE t == Append(s, n)
<1>1. /\ t \in Seq(Nat) /\ Len(s) \in Nat
      /\ DOMAIN s = 1..Len(s) /\ DOMAIN t = 1..(Len(s) + 1)
      /\ \A i \in 1..Len(s) : t[i] = s[i]
      /\ t[Len(s) + 1] = n
  BY PushFacts
<1> HIDE DEF t
<1>2. \A i \in 1..Len(s) : s[i] \in ids /\ s[i] < n
  BY <1>1 DEF IsStackOf, Range
<1>3. Ascending(t)
  <2> SUFFICES ASSUME NEW j \in DOMAIN t, NEW k \in DOMAIN t, j < k
               PROVE  t[j] < t[k]
    BY DEF Ascending
  <2>1. j \in 1..Len(s) /\ (k \in 1..Len(s) \/ k = Len(s) + 1)
    BY <1>1
  <2>2. CASE k \in 1..Len(s)
    BY <1>1, <2>1, <2>2 DEF IsStackOf, Ascending
  <2>3. CASE k = Len(s) + 1
    BY <1>1, <1>2, <2>1, <2>3
  <2> QED
    BY <2>1, <2>2, <2>3
<1>4. Range(t) = ids \cup {n}
  <2>1. ASSUME NEW x \in Range(t) PROVE x \in ids \cup {n}
    <3>1. PICK i \in 1..(Len(s) + 1) : x = t[i]
      BY <1>1, <2>1 DEF Range
    <3>2. i \in 1..Len(s) \/ i = Len(s) + 1
      BY <1>1, <3>1
    <3> QED
      BY <1>1, <1>2, <3>1, <3>2
  <2>2. ASSUME NEW x \in ids PROVE x \in Range(t)
    <3>1. PICK i \in 1..Len(s) : x = s[i]
      BY <1>1, <2>2 DEF IsStackOf, Range
    <3>2. i \in DOMAIN t /\ t[i] = x
      BY <1>1, <3>1
    <3> QED
      BY <3>2 DEF Range
  <2>3. n \in Range(t)
    <3>1. Len(s) + 1 \in DOMAIN t
      BY <1>1
    <3> QED
      BY <1>1, <3>1 DEF Range
  <2> QED
    BY <2>1, <2>2, <2>3
<1> QED
  BY <1>1, <1>3, <1>4 DEF IsStackOf, t

\* The top of a stack is the greatest number on it, and popping removes it.
LEMMA StackPop ==
    ASSUME NEW s \in Seq(Nat), NEW ids, IsStackOf(s, ids), NEW n \in ids,
           \A x \in ids : x <= n
    PROVE  /\ s # <<>> /\ Last(s) = n
           /\ Front(s) \in Seq(Nat) /\ IsStackOf(Front(s), ids \ {n})
<1>1. /\ Len(s) \in Nat /\ DOMAIN s = 1..Len(s)
      /\ \A i \in 1..Len(s) : s[i] \in Nat /\ s[i] \in ids /\ s[i] <= n
  BY DEF IsStackOf, Range
<1>2. PICK m \in 1..Len(s) : s[m] = n
  BY <1>1 DEF IsStackOf, Range
<1>3. m = Len(s)
  <2>1. ~(m < Len(s))
    <3> SUFFICES ASSUME m < Len(s) PROVE FALSE
      OBVIOUS
    <3>1. s[m] < s[Len(s)] /\ s[Len(s)] <= s[m]
      BY <1>1, <1>2 DEF IsStackOf, Ascending
    <3> QED
      BY <1>1, <1>2, <3>1
  <2>2. m \in Nat /\ m <= Len(s) /\ Len(s) \in Nat
    BY <1>1
  <2> QED
    BY <2>1, <2>2
<1>4. s # <<>>
  BY <1>1, <1>2
<1> DEFINE t == Front(s)
<1>5. /\ Last(s) = s[Len(s)] /\ t \in Seq(Nat)
      /\ DOMAIN t = 1..(Len(s) - 1)
      /\ \A i \in 1..(Len(s) - 1) : t[i] = s[i]
  BY <1>4, PopFacts
<1> HIDE DEF t
<1>6. Ascending(t)
  <2> SUFFICES ASSUME NEW j \in DOMAIN t, NEW k \in DOMAIN t, j < k
               PROVE  t[j] < t[k]
    BY DEF Ascending
  <2>1. j \in 1..(Len(s) - 1) /\ k \in 1..(Len(s) - 1)
    BY <1>5
  <2>2. j \in DOMAIN s /\ k \in DOMAIN s
    BY <1>1, <2>1
  <2>3. t[j] = s[j] /\ t[k] = s[k]
    BY <1>5, <2>1
  <2> QED
    BY <2>2, <2>3 DEF IsStackOf, Ascending
<1>7. Range(t) = ids \ {n}
  <2>1. ASSUME NEW x \in Range(t) PROVE x \in ids \ {n}
    <3>1. PICK i \in 1..(Len(s) - 1) : x = s[i]
      BY <1>5, <2>1 DEF Range
    <3>2. s[i] < s[Len(s)]
      BY <1>1, <3>1 DEF IsStackOf, Ascending
    <3> QED
      BY <1>1, <1>2, <1>3, <3>1, <3>2
  <2>2. ASSUME NEW x \in ids \ {n} PROVE x \in Range(t)
    <3>1. PICK i \in 1..Len(s) : x = s[i]
      BY <1>1, <2>2 DEF IsStackOf, Range
    <3>2. i # Len(s)
      BY <1>2, <1>3, <2>2, <3>1
    <3>3. i \in 1..(Len(s) - 1)
      <4>1. Len(s) \in Nat
        BY <1>1
      <4> QED
        BY <3>2, <4>1
    <3>4. i \in DOMAIN t /\ t[i] = x
      BY <1>5, <3>1, <3>3
    <3> QED
      BY <3>4 DEF Range
  <2> QED
    BY <2>1, <2>2
<1> QED
  BY <1>2, <1>3, <1>4, <1>5, <1>6, <1>7 DEF IsStackOf, t
--------------------------------------------------------------------------------
(***************************************************************************)
(* Walks: what the steps of a traversal do to the nodes that are standing  *)
(***************************************************************************)
FrameFields == {"kind", "id", "caller", "part", "elseif", "braces", "bare",
                "filled", "split", "pending", "block", "begin"}

IsFrame(f) ==
    /\ DOMAIN f = FrameFields
    /\ f.id \in Nat
    /\ f.elseif => f.kind = "If"
    /\ f.part = "leaving" => f.kind \in Messengers

\* The traversal of a syntax tree: the nodes have increasing numbers.
IsWalk(w) ==
    /\ w \in Seq(Range(w))
    /\ \A k \in DOMAIN w : IsFrame(w[k])
    /\ Ascending(Ids(w))

\* Frames that count as the same node in the same state.
Alike(f, g) ==
    /\ DOMAIN g = DOMAIN f
    /\ g.id = f.id /\ g.kind = f.kind /\ g.elseif = f.elseif
    /\ g.part = "leaving" <=> f.part = "leaving"

AlikeWalks(w, v) ==
    /\ v \in Seq(Range(v)) /\ Len(v) = Len(w)
    /\ \A k \in 1..Len(w) : Alike(w[k], v[k])

\* Changing one frame of a walk.
LEMMA EditFacts ==
    ASSUME NEW S, NEW w \in Seq(S), NEW i \in 1..Len(w), NEW g
    PROVE  LET v == [w EXCEPT ![i] = g]
           IN  /\ v \in Seq(Range(v)) /\ Len(v) = Len(w)
               /\ DOMAIN v = 1..Len(w)
               /\ v[i] = g /\ \A k \in 1..Len(w) : k # i => v[k] = w[k]
<1> DEFINE v == [w EXCEPT ![i] = g]
<1>1. w \in Seq(S \cup {g})
  <2>1. S \subseteq S \cup {g}
    OBVIOUS
  <2> QED
    BY <2>1, SeqMonotonic
<1>2. v \in Seq(S \cup {g}) /\ Len(v) = Len(w)
  BY <1>1, ExceptSeq
<1>3. v \in Seq(Range(v))
  BY <1>2, SeqOfRange
<1> QED
  BY <1>2, <1>3

\* Alike walks have the same nodes standing.
LEMMA AlikeStanding ==
    ASSUME NEW w, IsWalk(w), NEW v, AlikeWalks(w, v)
    PROVE  /\ IsWalk(v)
           /\ \A kinds : Standing(v, kinds) = Standing(w, kinds)
           /\ \A c : Follows(c, w) => Follows(c, v)
<1>1. DOMAIN w = 1..Len(w) /\ DOMAIN v = 1..Len(w)
  BY DEF IsWalk, AlikeWalks
<1>2. \A k \in 1..Len(w) : Alike(w[k], v[k])
  BY DEF AlikeWalks
<1>3. ASSUME NEW kinds PROVE Standing(v, kinds) = Standing(w, kinds)
  BY <1>1, <1>2 DEF Standing, Alike
<1>4. IsWalk(v)
  <2>1. \A k \in 1..Len(w) : IsFrame(v[k])
    BY <1>1, <1>2 DEF IsWalk, IsFrame, Alike
  <2>2. Ids(v) = Ids(w)
    BY <1>1, <1>2 DEF Ids, Alike
  <2> QED
    BY <1>1, <2>1, <2>2 DEF IsWalk, AlikeWalks
<1> QED
  BY <1>3, <1>4 DEF Follows

\* What is standing after a node was entered.
LEMMA StandingAfterOpen ==
    ASSUME NEW w, IsWalk(w), NEW f, NEW kinds
    PROVE  Standing(Append(w, f), kinds) =
             Standing(w, kinds) \cup
               (IF f.kind \in kinds /\ ~f.elseif /\ f.part # "leaving"
                THEN {f.id} ELSE {})
<1> DEFINE v == Append(w, f)
<1>1. w \in Seq(Range(w) \cup {f})
  BY SeqMonotonic DEF IsWalk
<1>2. /\ Len(w) \in Nat /\ DOMAIN w = 1..Len(w)
      /\ DOMAIN v = 1..(Len(w) + 1)
      /\ \A k \in 1..Len(w) : v[k] = w[k]
      /\ v[Len(w) + 1] = f
  <2>1. f \in Range(w) \cup {f}
    OBVIOUS
  <2> QED
    BY <1>1, <2>1, PushFacts
<1> HIDE DEF v
<1> DEFINE new == IF f.kind \in kinds /\ ~f.elseif /\ f.part # "leaving"
                  THEN {f.id} ELSE {}
<1>3. ASSUME NEW x \in Standing(v, kinds) PROVE x \in Standing(w, kinds) \cup new
  <2>1. PICK k \in DOMAIN v : /\ x = v[k].id /\ v[k].kind \in kinds
                              /\ ~v[k].elseif /\ v[k].part # "leaving"
    BY <1>3 DEF Standing
  <2>2. k \in 1..Len(w) \/ k = Len(w) + 1
    BY <1>2, <2>1
  <2>3. CASE k \in 1..Len(w)
    BY <1>2, <2>1, <2>3 DEF Standing
  <2>4. CASE k = Len(w) + 1
    BY <1>2, <2>1, <2>4
  <2> QED
    BY <2>2, <2>3, <2>4
<1>4. Standing(w, kinds) \subseteq Standing(v, kinds)
  <2>1. DOMAIN w \subseteq DOMAIN v /\ \A k \in DOMAIN w : v[k] = w[k]
    BY <1>2
  <2> QED
    BY <2>1 DEF Standing
<1>5. new \subseteq Standing(v, kinds)
  <2>1. Len(w) + 1 \in DOMAIN v
    BY <1>2
  <2> QED
    BY <1>2, <2>1 DEF Standing
<1> QED
  BY <1>3, <1>4, <1>5 DEF v

\* The node that was entered is the innermost of a walk.
LEMMA WalkAfterOpen ==
    ASSUME NEW w, IsWalk(w), NEW f, IsFrame(f),
           \A k \in DOMAIN w : w[k].id < f.id
    PROVE  /\ IsWalk(Append(w, f)) /\ Len(Append(w, f)) = Len(w) + 1
           /\ Len(w) \in Nat /\ \A k \in 1..Len(w) : Append(w, f)[k] = w[k]
           /\ Append(w, f)[Len(w) + 1] = f
<1> DEFINE v == Append(w, f)
<1>1. w \in Seq(Range(w) \cup {f})
  BY SeqMonotonic DEF IsWalk
<1>2. /\ v \in Seq(Range(w) \cup {f}) /\ Len(v) = Len(w) + 1
      /\ Len(w) \in Nat /\ DOMAIN w = 1..Len(w)
      /\ DOMAIN v = 1..(Len(w) + 1)
      /\ \A k \in 1..Len(w) : v[k] = w[k]
      /\ v[Len(w) + 1] = f
  <2>1. f \in Range(w) \cup {f}
    OBVIOUS
  <2> QED
    BY <1>1, <2>1, PushFacts
<1>3. v \in Seq(Range(v))
  BY <1>2, SeqOfRange
<1> HIDE DEF v
<1>4. ASSUME NEW k \in DOMAIN v PROVE IsFrame(v[k])
  <2>1. k \in 1..Len(w) \/ k = Len(w) + 1
    BY <1>2
  <2> QED
    BY <1>2, <2>1 DEF IsWalk
<1>5. ASSUME NEW j \in DOMAIN v, NEW k \in DOMAIN v, j < k
      PROVE  v[j].id < v[k].id
  <2>1. j \in 1..Len(w) /\ (k \in 1..Len(w) \/ k = Len(w) + 1)
    BY <1>2, <1>5
  <2>2. CASE k \in 1..Len(w)
    <3>1. Ids(w)[j] < Ids(w)[k]
      BY <1>2, <1>5, <2>1, <2>2 DEF IsWalk, Ascending, Ids
    <3> QED
      BY <1>2, <2>1, <2>2, <3>1 DEF Ids
  <2>3. CASE k = Len(w) + 1
    BY <1>2, <2>1, <2>3
  <2> QED
    BY <2>1, <2>2, <2>3
<1>6. Ascending(Ids(v))
  BY <1>5 DEF Ascending, Ids
<1> QED
  BY <1>2, <1>3, <1>4, <1>6 DEF IsWalk, v

\* The innermost node has the greatest number.
LEMMA TopIsGreatest ==
    ASSUME NEW w, IsWalk(w), w # <<>>
    PROVE  /\ Len(w) \in Nat \ {0} /\ DOMAIN w = 1..Len(w)
           /\ Last(w) = w[Len(w)] /\ IsFrame(Last(w))
           /\ \A k \in 1..(Len(w) - 1) : w[k].id < Last(w).id
           /\ \A kinds : \A x \in Standing(w, kinds) :
                 /\ x \in Nat /\ x <= Last(w).id
                 /\ x = Last(w).id =>
                       /\ Last(w).kind \in kinds /\ ~Last(w).elseif
                       /\ Last(w).part # "leaving"
<1>1. /\ Len(w) \in Nat \ {0} /\ DOMAIN w = 1..Len(w)
      /\ Last(w) = w[Len(w)]
  BY PopFacts DEF IsWalk
<1>2. IsFrame(Last(w)) /\ \A k \in 1..Len(w) : IsFrame(w[k])
  BY <1>1 DEF IsWalk
<1>3. ASSUME NEW k \in 1..Len(w), k < Len(w) PROVE w[k].id < Last(w).id
  <2>1. Len(w) \in DOMAIN w /\ k \in DOMAIN w
    BY <1>1
  <2>2. Ids(w)[k] < Ids(w)[Len(w)]
    BY <1>3, <2>1 DEF IsWalk, Ascending, Ids
  <2> QED
    BY <1>1, <2>1, <2>2 DEF Ids
<1>4. ASSUME NEW kinds, NEW x \in Standing(w, kinds)
      PROVE  /\ x \in Nat /\ x <= Last(w).id
             /\ x = Last(w).id =>
                   /\ Last(w).kind \in kinds /\ ~Last(w).elseif
                   /\ Last(w).part # "leaving"
  <2>1. PICK k \in 1..Len(w) : /\ x = w[k].id /\ w[k].kind \in kinds
                              /\ ~w[k].elseif /\ w[k].part # "leaving"
    BY <1>1, <1>4 DEF Standing
  <2>2. w[k].id \in Nat /\ Last(w).id \in Nat
    BY <1>2 DEF IsFrame
  <2>3. CASE k = Len(w)
    BY <1>1, <2>1, <2>2, <2>3
  <2>4. CASE k # Len(w)
    <3>1. k < Len(w)
      <4>1. Len(w) \in Nat
        BY <1>1
      <4> QED
        BY <2>4, <4>1
    <3>2. w[k].id < Last(w).id
      BY <1>3, <3>1
    <3> QED
      BY <2>1, <2>2, <3>2
  <2> QED
    BY <2>3, <2>4
<1>5. \A k \in 1..(Len(w) - 1) : k \in 1..Len(w) /\ k < Len(w)
  BY <1>1
<1> QED
  BY <1>1, <1>2, <1>3, <1>4, <1>5

\* What is standing once the innermost node is gone, or is being left: v has the
\* frames of w below the innermost one, and on top of them none that stands.
LEMMA StandingAfterLeave ==
    ASSUME NEW w, IsWalk(w), w # <<>>, NEW v, NEW kinds,
           DOMAIN v \subseteq 1..Len(w), 1..(Len(w) - 1) \subseteq DOMAIN v,
           \A k \in 1..(Len(w) - 1) : Alike(w[k], v[k]),
           Len(w) \in DOMAIN v => v[Len(w)].part = "leaving"
    PROVE  Standing(v, kinds) = Standing(w, kinds) \ {Last(w).id}
<1>1. /\ Len(w) \in Nat \ {0} /\ DOMAIN w = 1..Len(w) /\ Last(w) = w[Len(w)]
      /\ \A k \in 1..(Len(w) - 1) : w[k].id < Last(w).id
      /\ IsFrame(Last(w))
  BY TopIsGreatest
<1>2. \A k \in 1..(Len(w) - 1) : w[k].id # Last(w).id
  <2>1. \A k \in 1..(Len(w) - 1) : k \in DOMAIN w
    BY <1>1
  <2>2. \A k \in 1..(Len(w) - 1) : w[k].id \in Nat
    BY <2>1 DEF IsWalk, IsFrame
  <2> QED
    BY <1>1, <2>2 DEF IsFrame
<1>3. ASSUME NEW x \in Standing(v, kinds)
      PROVE  x \in Standing(w, kinds) /\ x # Last(w).id
  <2>1. PICK k \in DOMAIN v : /\ x = v[k].id /\ v[k].kind \in kinds
                              /\ ~v[k].elseif /\ v[k].part # "leaving"
    BY <1>3 DEF Standing
  <2>2. k \in 1..(Len(w) - 1) /\ k \in DOMAIN w
    <3>1. k \in 1..Len(w) /\ k # Len(w)
      BY <2>1
    <3> QED
      BY <1>1, <3>1
  <2>3. /\ x = w[k].id /\ w[k].kind \in kinds
        /\ ~w[k].elseif /\ w[k].part # "leaving"
    BY <2>1, <2>2 DEF Alike
  <2> QED
    BY <1>2, <2>2, <2>3 DEF Standing
<1>4. ASSUME NEW x \in Standing(w, kinds), x # Last(w).id
      PROVE  x \in Standing(v, kinds)
  <2>1. PICK k \in DOMAIN w : /\ x = w[k].id /\ w[k].kind \in kinds
                              /\ ~w[k].elseif /\ w[k].part # "leaving"
    BY <1>4 DEF Standing
  <2>2. k \in 1..(Len(w) - 1)
    <3>1. k # Len(w)
      BY <1>1, <1>4, <2>1
    <3> QED
      BY <1>1, <3>1
  <2>3. /\ k \in DOMAIN v /\ x = v[k].id /\ v[k].kind \in kinds
        /\ ~v[k].elseif /\ v[k].part # "leaving"
    BY <2>1, <2>2 DEF Alike
  <2> QED
    BY <2>3 DEF Standing
<1> QED
  BY <1>3, <1>4

\* Leaving the innermost node leaves a walk.
LEMMA WalkAfterClose ==
    ASSUME NEW w, IsWalk(w), w # <<>>
    PROVE  /\ IsWalk(Front(w)) /\ Len(Front(w)) = Len(w) - 1
           /\ DOMAIN Front(w) = 1..(Len(w) - 1)
           /\ \A k \in 1..(Len(w) - 1) : Front(w)[k] = w[k]
           /\ \A kinds : Standing(Front(w), kinds) = Standing(w, kinds) \ {Last(w).id}
<1> DEFINE v == Front(w)
<1>1. /\ Len(w) \in Nat \ {0} /\ DOMAIN w = 1..Len(w)
      /\ v \in Seq(Range(w)) /\ Len(v) = Len(w) - 1
      /\ DOMAIN v = 1..(Len(w) - 1) /\ \A k \in 1..(Len(w) - 1) : v[k] = w[k]
  BY PopFacts DEF IsWalk
<1>2. v \in Seq(Range(v))
  BY <1>1, SeqOfRange
<1> HIDE DEF v
<1>3. \A k \in DOMAIN v : k \in DOMAIN w /\ v[k] = w[k]
  BY <1>1
<1>4. \A k \in DOMAIN v : IsFrame(v[k])
  BY <1>3 DEF IsWalk
<1>5. Ascending(Ids(v))
  <2>1. \A k \in DOMAIN v : Ids(v)[k] = Ids(w)[k]
    BY <1>3 DEF Ids
  <2>2. DOMAIN Ids(v) = DOMAIN v /\ DOMAIN Ids(w) = DOMAIN w
    BY DEF Ids
  <2> QED
    BY <1>3, <2>1, <2>2 DEF IsWalk, Ascending
<1>6. ASSUME NEW kinds
      PROVE  Standing(v, kinds) = Standing(w, kinds) \ {Last(w).id}
  <2>1. DOMAIN v \subseteq 1..Len(w) /\ Len(w) \notin DOMAIN v
    BY <1>1
  <2>2. \A k \in 1..(Len(w) - 1) : Alike(w[k], v[k])
    BY <1>1 DEF Alike
  <2> QED
    BY <1>1, <2>1, <2>2, StandingAfterLeave
<1> QED
  BY <1>1, <1>2, <1>4, <1>5, <1>6 DEF IsWalk, v
--------------------------------------------------------------------------------
(***************************************************************************)
(* Contexts that follow a walk                                             *)
(***************************************************************************)
Stacks == {"ifs", "loops", "conditionals", "calls"}

\* A context that follows a walk, and its shape.
Knows(c, w) ==
    /\ DOMAIN c = DOMAIN EmptyContext
    /\ \A stack \in Stacks : c[stack] \in Seq(Nat)
    /\ Follows(c, w)

\* Whether entering and leaving f concerns the stack.
StandsOn(f, stack) ==
    f.kind \in KindsOn[stack] /\ ~f.elseif /\ f.part # "leaving"

\* A node concerns at most one stack.
LEMMA KindsApart ==
    /\ DOMAIN KindsOn = Stacks
    /\ \A s, t \in Stacks : s # t => KindsOn[s] \cap KindsOn[t] = {}
    /\ \A s \in Stacks :
          KindsOn[s] \cap {"Lambda", "Try", "Switch", "ConstexprIf"} = {}
<1>1. DOMAIN KindsOn = Stacks
  BY DEF KindsOn, Stacks
<1>2. /\ KindsOn["ifs"] = {"If"} /\ KindsOn["loops"] = {"While", "Do", "For"}
      /\ KindsOn["conditionals"] = {"Conditional"}
      /\ KindsOn["calls"] = {"Call", "Return", "CoReturn", "CoYield", "CoAwait"}
  BY DEF KindsOn, Loops, Messengers
<1> QED
  BY <1>1, <1>2 DEF Stacks

\* The frames changed in nothing a stack is about.
LEMMA KnowsAlike ==
    ASSUME NEW w, IsWalk(w), NEW v, AlikeWalks(w, v), NEW c, Knows(c, w)
    PROVE  Knows(c, v)
  BY AlikeStanding DEF Knows

\* A node was entered on a stack.
LEMMA KnowsPush ==
    ASSUME NEW w, IsWalk(w), NEW f, IsFrame(f),
           \A k \in DOMAIN w : w[k].id < f.id,
           NEW c, Knows(c, w), NEW stack \in Stacks, StandsOn(f, stack),
           NEW d, d = [c EXCEPT ![stack] = Append(@, f.id)]
    PROVE  Knows(d, Append(w, f))
<1> DEFINE v == Append(w, f)
<1>1. /\ DOMAIN c = DOMAIN EmptyContext /\ stack \in DOMAIN c
      /\ \A s \in Stacks : s \in DOMAIN c
  BY DEF Knows, EmptyContext, Stacks
<1>2. /\ DOMAIN d = DOMAIN c /\ d[stack] = Append(c[stack], f.id)
      /\ \A s \in DOMAIN c : s # stack => d[s] = c[s]
  BY <1>1
<1>3. \A s \in Stacks : Standing(v, KindsOn[s]) =
          Standing(w, KindsOn[s]) \cup (IF s = stack THEN {f.id} ELSE {})
  BY StandingAfterOpen, KindsApart DEF StandsOn
<1> HIDE DEF v
<1>4. c[stack] \in Seq(Nat) /\ IsStackOf(c[stack], Standing(w, KindsOn[stack]))
  BY KindsApart DEF Knows, Follows
<1>5. \A x \in Standing(w, KindsOn[stack]) : x < f.id
  BY DEF Standing
<1>6. /\ Append(c[stack], f.id) \in Seq(Nat)
      /\ IsStackOf(Append(c[stack], f.id), Standing(w, KindsOn[stack]) \cup {f.id})
  BY <1>4, <1>5, StackPush DEF IsFrame
<1>7. ASSUME NEW s \in Stacks
      PROVE  d[s] \in Seq(Nat) /\ IsStackOf(d[s], Standing(v, KindsOn[s]))
  <2>1. CASE s = stack
    BY <1>2, <1>3, <1>6, <2>1
  <2>2. CASE s # stack
    BY <1>1, <1>2, <1>3, <2>2, KindsApart DEF Knows, Follows
  <2> QED
    BY <2>1, <2>2
<1>8. DOMAIN d.elseifs \subseteq Range(d.ifs)
  <2>1. d.elseifs = c.elseifs
    BY <1>2, <1>1 DEF EmptyContext, Stacks
  <2>2. Range(c.ifs) \subseteq Range(d.ifs)
    <3>1. CASE stack = "ifs"
      <4>1. Range(c.ifs) = Standing(w, KindsOn["ifs"])
        BY <1>4, <3>1 DEF IsStackOf
      <4>2. Range(d.ifs) = Standing(v, KindsOn["ifs"])
        BY <1>7, <3>1 DEF IsStackOf
      <4> QED
        BY <1>3, <3>1, <4>1, <4>2
    <3>2. CASE stack # "ifs"
      BY <1>1, <1>2, <3>2 DEF Stacks
    <3> QED
      BY <3>1, <3>2
  <2> QED
    BY <2>1, <2>2 DEF Knows, Follows
<1> QED
  BY <1>1, <1>2, <1>7, <1>8, KindsApart DEF Knows, Follows, v

\* A node was entered that is on no stack; else-ifs may have been noted.
LEMMA KnowsPass ==
    ASSUME NEW w, IsWalk(w), NEW f, \A s \in Stacks : ~StandsOn(f, s),
           NEW c, Knows(c, w), NEW d, DOMAIN d = DOMAIN c,
           \A s \in Stacks : d[s] = c[s], DOMAIN d.elseifs \subseteq Range(d.ifs)
    PROVE  Knows(d, Append(w, f))
<1>1. ASSUME NEW s \in Stacks
      PROVE  Standing(Append(w, f), KindsOn[s]) = Standing(w, KindsOn[s])
  <2>1. ~(f.kind \in KindsOn[s] /\ ~f.elseif /\ f.part # "leaving")
    BY DEF StandsOn
  <2> QED
    BY <2>1, StandingAfterOpen
<1> QED
  BY <1>1, KindsApart DEF Knows, Follows

\* The innermost node, which is on a stack, was left and popped from it.
LEMMA KnowsPop ==
    ASSUME NEW w, IsWalk(w), w # <<>>, NEW v,
           \A kinds : Standing(v, kinds) = Standing(w, kinds) \ {Last(w).id},
           NEW c, Knows(c, w), NEW stack \in Stacks, StandsOn(Last(w), stack),
           NEW d, DOMAIN d = DOMAIN c, d[stack] = Front(c[stack]),
           \A s \in Stacks : s # stack => d[s] = c[s],
           DOMAIN d.elseifs \subseteq DOMAIN c.elseifs,
           stack = "ifs" => Last(c.ifs) \notin DOMAIN d.elseifs
    PROVE  Knows(d, v)
<1>1. \A s \in Stacks : c[s] \in Seq(Nat)
                        /\ IsStackOf(c[s], Standing(w, KindsOn[s]))
  BY KindsApart DEF Knows, Follows
<1>2. Last(w).id \in Standing(w, KindsOn[stack])
  <2>1. Len(w) \in DOMAIN w /\ Last(w) = w[Len(w)]
    BY TopIsGreatest
  <2> QED
    BY <2>1 DEF Standing, StandsOn
<1>3. /\ Last(c[stack]) = Last(w).id /\ d[stack] \in Seq(Nat)
      /\ IsStackOf(d[stack], Standing(v, KindsOn[stack]))
  <2>1. \A x \in Standing(w, KindsOn[stack]) : x <= Last(w).id
    BY TopIsGreatest
  <2> QED
    BY <1>1, <1>2, <2>1, StackPop
<1>4. ASSUME NEW s \in Stacks, s # stack
      PROVE  Standing(v, KindsOn[s]) = Standing(w, KindsOn[s])
  <2>1. Last(w).kind \notin KindsOn[s]
    BY <1>4, KindsApart DEF StandsOn
  <2>2. Last(w).id \notin Standing(w, KindsOn[s])
    BY <2>1, TopIsGreatest
  <2> QED
    BY <2>2
<1>5. \A s \in Stacks : d[s] \in Seq(Nat)
                        /\ IsStackOf(d[s], Standing(v, KindsOn[s]))
  BY <1>1, <1>3, <1>4
<1>6. DOMAIN d.elseifs \subseteq Range(d.ifs)
  <2>1. DOMAIN c.elseifs \subseteq Range(c.ifs)
    BY DEF Knows, Follows
  <2>2. CASE stack = "ifs"
    <3>1. Range(c.ifs) = Standing(w, KindsOn["ifs"]) /\ Last(c.ifs) = Last(w).id
      BY <1>1, <1>3, <2>2 DEF IsStackOf
    <3>2. Range(d.ifs) = Standing(v, KindsOn["ifs"])
      BY <1>5, <2>2 DEF IsStackOf
    <3> QED
      BY <2>1, <2>2, <3>1, <3>2
  <2>3. CASE stack # "ifs"
    BY <2>1, <2>3 DEF Stacks
  <2> QED
    BY <2>2, <2>3
<1> QED
  BY <1>5, <1>6, KindsApart DEF Knows, Follows

\* The innermost node, which is on no stack, was left.
LEMMA KnowsSkip ==
    ASSUME NEW w, IsWalk(w), w # <<>>, NEW v,
           \A kinds : Standing(v, kinds) = Standing(w, kinds) \ {Last(w).id},
           NEW c, Knows(c, w), \A s \in Stacks : ~StandsOn(Last(w), s)
    PROVE  Knows(c, v)
<1>1. ASSUME NEW s \in Stacks
      PROVE  Standing(v, KindsOn[s]) = Standing(w, KindsOn[s])
  <2>1. Last(w).id \notin Standing(w, KindsOn[s])
    BY TopIsGreatest DEF StandsOn
  <2> QED
    BY <2>1
<1> QED
  BY <1>1, KindsApart DEF Knows, Follows
--------------------------------------------------------------------------------
(***************************************************************************)
(* The backups of the lambdas being traversed                              *)
(***************************************************************************)
LambdasIn(w) == {k \in DOMAIN w : w[k].kind = "Lambda"}

\* There is a backup for each lambda of a walk, at[j] for the j-th, and it
\* follows the walk up to there.
Restores(bs, w, at) ==
    /\ at \in Seq(Nat) /\ Len(at) = Len(bs)
    /\ IsStackOf(at, LambdasIn(w))
    /\ \A j \in 1..Len(bs) : Knows(bs[j], SubSeq(w, 1, at[j] - 1))

\* The beginning of a walk is a walk.
LEMMA PrefixFacts ==
    ASSUME NEW w, IsWalk(w), NEW m \in Nat, m <= Len(w)
    PROVE  /\ IsWalk(SubSeq(w, 1, m)) /\ Len(SubSeq(w, 1, m)) = m
           /\ DOMAIN SubSeq(w, 1, m) = 1..m
           /\ \A k \in 1..m : SubSeq(w, 1, m)[k] = w[k]
<1> DEFINE v == SubSeq(w, 1, m)
<1>1. /\ Len(w) \in Nat /\ DOMAIN w = 1..Len(w) /\ w \in Seq(Range(w))
  BY DEF IsWalk
<1>2. /\ v \in Seq(Range(w)) /\ Len(v) = m /\ DOMAIN v = 1..m
      /\ \A k \in 1..m : v[k] = w[k]
  BY <1>1
<1>3. v \in Seq(Range(v))
  BY <1>2, SeqOfRange
<1> HIDE DEF v
<1>4. \A k \in DOMAIN v : k \in DOMAIN w /\ v[k] = w[k]
  BY <1>1, <1>2
<1>5. \A k \in DOMAIN v : IsFrame(v[k])
  BY <1>4 DEF IsWalk
<1>6. Ascending(Ids(v))
  <2>1. \A k \in DOMAIN v : Ids(v)[k] = Ids(w)[k]
    BY <1>4 DEF Ids
  <2>2. DOMAIN Ids(v) = DOMAIN v /\ DOMAIN Ids(w) = DOMAIN w
    BY DEF Ids
  <2> QED
    BY <1>4, <2>1, <2>2 DEF IsWalk, Ascending
<1> QED
  BY <1>2, <1>3, <1>5, <1>6 DEF IsWalk, v

\* Walks that are alike up to some node have alike beginnings.
LEMMA KnowsPrefix ==
    ASSUME NEW w, IsWalk(w), NEW v, IsWalk(v),
           NEW m \in Nat, m <= Len(w), m <= Len(v),
           \A k \in 1..m : Alike(w[k], v[k]),
           NEW c, Knows(c, SubSeq(w, 1, m))
    PROVE  Knows(c, SubSeq(v, 1, m))
<1> DEFINE x == SubSeq(w, 1, m)
           y == SubSeq(v, 1, m)
<1>1. /\ IsWalk(x) /\ Len(x) = m
      /\ \A k \in 1..m : x[k] = w[k]
  BY PrefixFacts
<1>2. /\ IsWalk(y) /\ Len(y) = m
      /\ \A k \in 1..m : y[k] = v[k]
  BY PrefixFacts
<1> HIDE DEF x, y
<1>3. AlikeWalks(x, y)
  BY <1>1, <1>2 DEF AlikeWalks, IsWalk
<1> QED
  BY <1>1, <1>3, KnowsAlike DEF x, y

\* No lambda was entered or left.
LEMMA RestoresKept ==
    ASSUME NEW w, IsWalk(w), NEW v, IsWalk(v), NEW bs, Len(bs) \in Nat, NEW at,
           Restores(bs, w, at), LambdasIn(v) = LambdasIn(w),
           \A m \in LambdasIn(w) :
              m <= Len(v) + 1 /\ \A k \in 1..(m - 1) : Alike(w[k], v[k])
    PROVE  Restores(bs, v, at)
<1>1. Len(w) \in Nat /\ DOMAIN w = 1..Len(w) /\ Len(v) \in Nat
  BY DEF IsWalk
<1>2. ASSUME NEW j \in 1..Len(bs) PROVE Knows(bs[j], SubSeq(v, 1, at[j] - 1))
  <2>1. at[j] \in LambdasIn(w)
    BY DEF Restores, IsStackOf, Range
  <2>2. at[j] \in 1..Len(w)
    BY <1>1, <2>1 DEF LambdasIn
  <2>3. /\ at[j] - 1 \in Nat /\ at[j] - 1 <= Len(w) /\ at[j] - 1 <= Len(v)
    BY <1>1, <2>1, <2>2
  <2>4. Knows(bs[j], SubSeq(w, 1, at[j] - 1))
    BY DEF Restores
  <2>5. \A k \in 1..(at[j] - 1) : Alike(w[k], v[k])
    BY <2>1
  <2> QED
    BY <2>3, <2>4, <2>5, KnowsPrefix
<1> QED
  BY <1>2 DEF Restores

\* TraverseLambdaExpr() has saved the context.
LEMMA RestoresPush ==
    ASSUME NEW w, IsWalk(w), NEW f, IsFrame(f), f.kind = "Lambda",
           \A k \in DOMAIN w : w[k].id < f.id,
           NEW S, NEW bs \in Seq(S), NEW at, Restores(bs, w, at),
           NEW c, Knows(c, w)
    PROVE  Restores(Append(bs, c), Append(w, f), Append(at, Len(w) + 1))
<1> DEFINE v == Append(w, f)
           cs == Append(bs, c)
           ats == Append(at, Len(w) + 1)
<1>1. /\ IsWalk(v) /\ Len(v) = Len(w) + 1 /\ Len(w) \in Nat
      /\ \A k \in 1..Len(w) : v[k] = w[k]
      /\ v[Len(w) + 1] = f
  BY WalkAfterOpen
<1>2. DOMAIN w = 1..Len(w) /\ DOMAIN v = 1..(Len(w) + 1)
  BY <1>1 DEF IsWalk
<1>3. /\ Len(bs) \in Nat /\ Len(cs) = Len(bs) + 1
      /\ \A j \in 1..Len(bs) : cs[j] = bs[j]
      /\ cs[Len(bs) + 1] = c
  <2>1. bs \in Seq(S \cup {c})
    BY SeqMonotonic
  <2> QED
    BY <2>1, PushFacts
<1>4. /\ at \in Seq(Nat) /\ Len(at) = Len(bs)
      /\ IsStackOf(at, LambdasIn(w))
  BY DEF Restores
<1>5. /\ ats \in Seq(Nat) /\ Len(ats) = Len(bs) + 1
      /\ \A j \in 1..Len(bs) : ats[j] = at[j]
      /\ ats[Len(bs) + 1] = Len(w) + 1
  <2>1. Len(w) + 1 \in Nat
    BY <1>1
  <2> QED
    BY <1>4, <2>1, PushFacts
<1>6. IsStackOf(ats, LambdasIn(w) \cup {Len(w) + 1})
  <2>1. \A m \in LambdasIn(w) : m < Len(w) + 1
    BY <1>1, <1>2 DEF LambdasIn
  <2> QED
    BY <1>1, <1>4, <2>1, StackPush
<1> HIDE DEF v, cs, ats
<1>7. LambdasIn(v) = LambdasIn(w) \cup {Len(w) + 1}
  <2>1. \A k \in 1..(Len(w) + 1) : k \in 1..Len(w) \/ k = Len(w) + 1
    BY <1>1
  <2>2. \A k \in 1..Len(w) : k \in 1..(Len(w) + 1)
    BY <1>1
  <2>3. Len(w) + 1 \in 1..(Len(w) + 1)
    BY <1>1
  <2> QED
    BY <1>1, <1>2, <2>1, <2>2, <2>3 DEF LambdasIn
<1>8. ASSUME NEW j \in 1..(Len(bs) + 1)
      PROVE  Knows(cs[j], SubSeq(v, 1, ats[j] - 1))
  <2>1. j \in 1..Len(bs) \/ j = Len(bs) + 1
    BY <1>3
  <2>2. CASE j \in 1..Len(bs)
    <3>1. at[j] \in 1..Len(w)
      <4>1. at[j] \in LambdasIn(w)
        BY <1>4, <2>2 DEF IsStackOf, Range
      <4> QED
        BY <1>2, <4>1 DEF LambdasIn
    <3>2. /\ at[j] - 1 \in Nat /\ at[j] - 1 <= Len(w) /\ at[j] - 1 <= Len(v)
      BY <1>1, <3>1
    <3>3. Knows(bs[j], SubSeq(w, 1, at[j] - 1))
      BY <2>2 DEF Restores
    <3>4. \A k \in 1..(at[j] - 1) : Alike(w[k], v[k])
      BY <1>1, <3>1 DEF Alike
    <3>5. Knows(bs[j], SubSeq(v, 1, at[j] - 1))
      BY <1>1, <3>2, <3>3, <3>4, KnowsPrefix
    <3> QED
      BY <1>3, <1>5, <2>2, <3>5
  <2>3. CASE j = Len(bs) + 1
    <3> DEFINE x == SubSeq(v, 1, Len(w))
    <3>1. /\ IsWalk(x) /\ Len(x) = Len(w)
          /\ \A k \in 1..Len(w) : x[k] = w[k]
      BY <1>1, PrefixFacts
    <3> HIDE DEF x
    <3>2. AlikeWalks(w, x)
      BY <3>1 DEF AlikeWalks, Alike, IsWalk
    <3>3. Knows(c, x)
      BY <3>2, KnowsAlike
    <3>4. ats[j] - 1 = Len(w) /\ cs[j] = c
      BY <1>1, <1>3, <1>5, <2>3
    <3> QED
      BY <3>3, <3>4 DEF x
  <2> QED
    BY <2>1, <2>2, <2>3
<1> QED
  BY <1>3, <1>5, <1>6, <1>7, <1>8 DEF Restores, v, cs, ats

\* TraverseLambdaExpr() puts the context back.
LEMMA RestoresPop ==
    ASSUME NEW w, IsWalk(w), w # <<>>, Last(w).kind = "Lambda",
           NEW S, NEW bs \in Seq(S), NEW at, Restores(bs, w, at)
    PROVE  /\ bs # <<>> /\ Knows(Last(bs), Front(w))
           /\ Restores(Front(bs), Front(w), Front(at))
<1>1. /\ Len(w) \in Nat \ {0} /\ DOMAIN w = 1..Len(w)
      /\ Last(w) = w[Len(w)]
  BY TopIsGreatest
<1>2. /\ IsWalk(Front(w)) /\ Len(Front(w)) = Len(w) - 1
      /\ DOMAIN Front(w) = 1..(Len(w) - 1)
      /\ \A k \in 1..(Len(w) - 1) : Front(w)[k] = w[k]
  BY WalkAfterClose
<1>3. /\ at \in Seq(Nat) /\ Len(at) = Len(bs)
      /\ IsStackOf(at, LambdasIn(w))
  BY DEF Restores
<1>4. Len(w) \in LambdasIn(w) /\ \A m \in LambdasIn(w) : m <= Len(w)
  BY <1>1 DEF LambdasIn
<1>5. /\ at # <<>> /\ Last(at) = Len(w)
      /\ Front(at) \in Seq(Nat)
      /\ IsStackOf(Front(at), LambdasIn(w) \ {Len(w)})
  BY <1>3, <1>4, StackPop
<1>6. /\ Len(at) \in Nat \ {0} /\ Len(Front(at)) = Len(at) - 1
      /\ Last(at) = at[Len(at)]
      /\ \A j \in 1..(Len(at) - 1) : Front(at)[j] = at[j]
  BY <1>3, <1>5, PopFacts
<1>7. bs # <<>>
  BY <1>3, <1>6
<1>8. /\ Len(Front(bs)) = Len(at) - 1 /\ Last(bs) = bs[Len(at)]
      /\ \A j \in 1..(Len(at) - 1) : Front(bs)[j] = bs[j]
  BY <1>3, <1>7, PopFacts
<1>9. Knows(Last(bs), Front(w))
  <2>1. Knows(bs[Len(at)], SubSeq(w, 1, at[Len(at)] - 1))
    BY <1>3, <1>6 DEF Restores
  <2> QED
    BY <1>5, <1>6, <1>8, <2>1 DEF Front
<1>10. LambdasIn(Front(w)) = LambdasIn(w) \ {Len(w)}
  <2>1. \A k : k \in DOMAIN Front(w) <=> k \in DOMAIN w /\ k # Len(w)
    BY <1>1, <1>2
  <2>2. \A k \in DOMAIN Front(w) : Front(w)[k] = w[k]
    BY <1>2
  <2> QED
    BY <2>1, <2>2 DEF LambdasIn
<1>11. ASSUME NEW j \in 1..(Len(at) - 1)
       PROVE  Knows(Front(bs)[j], SubSeq(Front(w), 1, Front(at)[j] - 1))
  <2>1. j \in 1..Len(bs) /\ j \in 1..Len(at) /\ j < Len(at)
    BY <1>3, <1>6
  <2>2. at[j] < Len(w) /\ at[j] \in 1..Len(w)
    <3>1. at[j] < at[Len(at)]
      BY <1>3, <1>6, <2>1 DEF IsStackOf, Ascending
    <3>2. at[j] \in LambdasIn(w)
      BY <1>3, <2>1 DEF IsStackOf, Range
    <3> QED
      BY <1>1, <1>5, <1>6, <3>1, <3>2 DEF LambdasIn
  <2>3. /\ at[j] - 1 \in Nat /\ at[j] - 1 <= Len(w) /\ at[j] - 1 <= Len(Front(w))
    BY <1>1, <1>2, <2>2
  <2>4. Knows(bs[j], SubSeq(w, 1, at[j] - 1))
    BY <2>1 DEF Restores
  <2>5. \A k \in 1..(at[j] - 1) : Alike(w[k], Front(w)[k])
    BY <1>1, <1>2, <2>2 DEF Alike
  <2>6. Knows(bs[j], SubSeq(Front(w), 1, at[j] - 1))
    BY <1>2, <2>3, <2>4, <2>5, KnowsPrefix
  <2> QED
    BY <1>6, <1>8, <2>6
<1> QED
  BY <1>5, <1>6, <1>7, <1>8, <1>9, <1>10, <1>11 DEF Restores
--------------------------------------------------------------------------------
(***************************************************************************)
(* The inductive invariant                                                 *)
(***************************************************************************)
\* What holds of the walk w, the context c, the backups bs and the number n of
\* nodes seen.
Sound(w, c, bs, n) ==
    /\ n \in Nat
    /\ IsWalk(w) /\ \A k \in DOMAIN w : w[k].id <= n
    /\ Knows(c, w)
    /\ bs \in Seq(Range(bs))
    /\ \E at : Restores(bs, w, at)

ContextInv == Sound(walk, ctx, backups, nodes)

\* Only details of frames changed, and perhaps a label was seen.
LEMMA SoundAlike ==
    ASSUME NEW w, NEW c, NEW bs, NEW n, Sound(w, c, bs, n),
           NEW v, AlikeWalks(w, v), NEW m \in Nat, n <= m
    PROVE  Sound(v, c, bs, m)
<1>1. IsWalk(w) /\ Len(w) \in Nat /\ DOMAIN w = 1..Len(w)
  BY DEF Sound, IsWalk
<1>2. IsWalk(v) /\ Len(v) = Len(w) /\ DOMAIN v = 1..Len(w) /\ Knows(c, v)
  <2>1. IsWalk(v) /\ Knows(c, v)
    BY <1>1, AlikeStanding, KnowsAlike DEF Sound
  <2> QED
    BY <1>1, <2>1 DEF AlikeWalks
<1>3. \A k \in 1..Len(w) : Alike(w[k], v[k])
  BY DEF AlikeWalks
<1>4. \A k \in DOMAIN v : v[k].id <= m
  <2> SUFFICES ASSUME NEW k \in DOMAIN v PROVE v[k].id <= m
    OBVIOUS
  <2>1. w[k].id <= n /\ w[k].id \in Nat /\ n \in Nat
    BY <1>1, <1>2 DEF Sound, IsWalk, IsFrame
  <2>2. v[k].id = w[k].id
    BY <1>2, <1>3 DEF Alike
  <2> QED
    BY <2>1, <2>2
<1>5. PICK at : Restores(bs, w, at)
  BY DEF Sound
<1>6. LambdasIn(v) = LambdasIn(w)
  BY <1>1, <1>2, <1>3 DEF LambdasIn, Alike
<1>7. Restores(bs, v, at)
  <2>1. \A l \in LambdasIn(w) :
           l <= Len(v) + 1 /\ \A k \in 1..(l - 1) : Alike(w[k], v[k])
    BY <1>1, <1>2, <1>3 DEF LambdasIn
  <2>2. Len(bs) \in Nat
    BY DEF Sound
  <2> QED
    BY <1>1, <1>2, <1>5, <1>6, <2>1, <2>2, RestoresKept
<1> QED
  BY <1>2, <1>4, <1>7 DEF Sound

\* A node that is no lambda was entered.
LEMMA SoundOpen ==
    ASSUME NEW w, NEW c, NEW bs, NEW n, Sound(w, c, bs, n),
           NEW f, IsFrame(f), f.kind # "Lambda", f.id = n + 1,
           NEW d, Knows(d, Append(w, f))
    PROVE  Sound(Append(w, f), d, bs, n + 1)
<1> DEFINE v == Append(w, f)
<1>1. n \in Nat /\ IsWalk(w) /\ \A k \in DOMAIN w : w[k].id < f.id
  <2>1. \A k \in DOMAIN w : w[k].id \in Nat /\ w[k].id <= n
    BY DEF Sound, IsWalk, IsFrame
  <2> QED
    BY <2>1 DEF Sound
<1>2. /\ IsWalk(v) /\ Len(v) = Len(w) + 1 /\ Len(w) \in Nat
      /\ \A k \in 1..Len(w) : v[k] = w[k]
      /\ v[Len(w) + 1] = f
  BY <1>1, WalkAfterOpen
<1>3. DOMAIN w = 1..Len(w) /\ DOMAIN v = 1..(Len(w) + 1)
  BY <1>1, <1>2 DEF IsWalk
<1> HIDE DEF v
<1>4. \A k : k \in DOMAIN v <=> k \in DOMAIN w \/ k = Len(w) + 1
  BY <1>2, <1>3
<1>5. \A k \in DOMAIN v : v[k].id <= n + 1
  <2> SUFFICES ASSUME NEW k \in DOMAIN v PROVE v[k].id <= n + 1
    OBVIOUS
  <2>1. CASE k \in DOMAIN w
    <3>1. w[k].id <= n /\ w[k].id \in Nat
      BY <2>1 DEF Sound, IsWalk, IsFrame
    <3> QED
      BY <1>1, <1>2, <1>3, <2>1, <3>1
  <2>2. CASE k = Len(w) + 1
    BY <1>1, <1>2, <2>2
  <2> QED
    BY <1>4, <2>1, <2>2
<1>6. PICK at : Restores(bs, w, at)
  BY DEF Sound
<1>7. LambdasIn(v) = LambdasIn(w)
  <2>1. \A k \in DOMAIN w : k \in DOMAIN v /\ v[k] = w[k]
    BY <1>2, <1>3, <1>4
  <2> QED
    BY <1>2, <1>4, <2>1 DEF LambdasIn
<1>8. Restores(bs, v, at)
  <2>1. \A l \in LambdasIn(w) :
           l <= Len(v) + 1 /\ \A k \in 1..(l - 1) : Alike(w[k], v[k])
    BY <1>2, <1>3 DEF LambdasIn, Alike
  <2>2. Len(bs) \in Nat
    BY DEF Sound
  <2> QED
    BY <1>1, <1>2, <1>6, <1>7, <2>1, <2>2, RestoresKept
<1> QED
  BY <1>1, <1>2, <1>5, <1>8 DEF Sound, v

\* The innermost node, which is no lambda, was left, or is being left.
LEMMA SoundLeave ==
    ASSUME NEW w, NEW c, NEW bs, NEW n, Sound(w, c, bs, n),
           w # <<>>, Last(w).kind # "Lambda",
           NEW v, IsWalk(v), \A k \in DOMAIN v : v[k].id <= n,
           Len(v) = Len(w) \/ Len(v) = Len(w) - 1,
           \A k \in 1..(Len(w) - 1) : Alike(w[k], v[k]),
           Len(v) = Len(w) => v[Len(w)].kind = Last(w).kind,
           NEW d, Knows(d, v)
    PROVE  Sound(v, d, bs, n)
<1>1. /\ Len(w) \in Nat \ {0} /\ DOMAIN w = 1..Len(w) /\ Last(w) = w[Len(w)]
      /\ IsWalk(w) /\ DOMAIN v = 1..Len(v)
  BY TopIsGreatest DEF Sound, IsWalk
<1>2. PICK at : Restores(bs, w, at)
  BY DEF Sound
<1>3. Len(w) \in Nat /\ Len(v) \in Nat
  <2>1. w \in Seq(Range(w)) /\ v \in Seq(Range(v))
    BY <1>1 DEF IsWalk
  <2> QED
    BY <2>1
<1>4. \A k : k # Len(w) => (k \in DOMAIN v <=> k \in 1..(Len(w) - 1))
                          /\ (k \in DOMAIN w <=> k \in 1..(Len(w) - 1))
  <2>1. \A k : k \in 1..Len(w) /\ k # Len(w) <=> k \in 1..(Len(w) - 1)
    BY <1>3
  <2>2. CASE Len(v) = Len(w)
    BY <1>1, <2>1, <2>2
  <2>3. CASE Len(v) = Len(w) - 1
    BY <1>1, <2>1, <2>3
  <2> QED
    BY <2>2, <2>3
<1>5. LambdasIn(v) = LambdasIn(w)
  <2>1. Len(w) \notin LambdasIn(w)
    BY <1>1 DEF LambdasIn
  <2>2. Len(w) \notin LambdasIn(v)
    <3>1. CASE Len(v) = Len(w)
      BY <1>1, <3>1 DEF LambdasIn
    <3>2. CASE Len(v) = Len(w) - 1
      <4>1. Len(w) \notin 1..(Len(w) - 1)
        BY <1>3
      <4> QED
        BY <1>1, <3>2, <4>1 DEF LambdasIn
    <3> QED
      BY <3>1, <3>2
  <2>3. \A k \in 1..(Len(w) - 1) : v[k].kind = w[k].kind
    BY DEF Alike
  <2>4. ASSUME NEW k, k # Len(w) PROVE k \in LambdasIn(v) <=> k \in LambdasIn(w)
    <3>1. k \in DOMAIN v <=> k \in DOMAIN w
      BY <1>4, <2>4
    <3>2. k \in DOMAIN v => v[k].kind = w[k].kind
      BY <1>4, <2>3, <2>4
    <3> QED
      BY <3>1, <3>2 DEF LambdasIn
  <2>5. LambdasIn(v) \subseteq LambdasIn(w)
    BY <2>2, <2>4
  <2>6. LambdasIn(w) \subseteq LambdasIn(v)
    BY <2>1, <2>4
  <2> QED
    BY <2>5, <2>6
<1>6. Restores(bs, v, at)
  <2>1. ASSUME NEW l \in LambdasIn(w)
        PROVE  l <= Len(v) + 1 /\ \A k \in 1..(l - 1) : Alike(w[k], v[k])
    <3>1. l \in 1..Len(w)
      BY <1>1 DEF LambdasIn
    <3>2. Len(w) \in Nat /\ Len(v) \in Nat /\ l <= Len(v) + 1
      <4>1. Len(w) <= Len(v) + 1
        BY <1>3
      <4> QED
        BY <1>3, <3>1, <4>1
    <3>3. \A k \in 1..(l - 1) : k \in 1..(Len(w) - 1)
      BY <3>1, <3>2
    <3> QED
      BY <3>2, <3>3
  <2>2. Len(bs) \in Nat
    BY DEF Sound
  <2> QED
    BY <1>1, <1>2, <1>5, <2>1, <2>2, RestoresKept
<1> QED
  BY <1>6 DEF Sound
--------------------------------------------------------------------------------
(***************************************************************************)
(* The steps of the traversal                                              *)
(***************************************************************************)
\* One frame of a walk changed in details.
LEMMA EditAlike ==
    ASSUME NEW w, IsWalk(w), NEW i \in 1..Len(w), NEW g, Alike(w[i], g),
           NEW v, v = [w EXCEPT ![i] = g]
    PROVE  AlikeWalks(w, v)
<1>1. /\ v \in Seq(Range(v)) /\ Len(v) = Len(w)
      /\ v[i] = g /\ \A k \in 1..Len(w) : k # i => v[k] = w[k]
  <2>1. w \in Seq(Range(w))
    BY DEF IsWalk
  <2> QED
    BY <2>1, EditFacts
<1> QED
  BY <1>1 DEF AlikeWalks, Alike

\* The innermost node has one more child.
LEMMA FilledAlike ==
    ASSUME IsWalk(walk)
    PROVE  AlikeWalks(walk, Filled)
<1>1. CASE walk = <<>>
  BY <1>1 DEF Filled, AlikeWalks, Alike, IsWalk
<1>2. CASE walk # <<>>
  <2> DEFINE g == [walk[Len(walk)] EXCEPT !.filled = "yes"]
  <2>1. Len(walk) \in 1..Len(walk) /\ IsFrame(walk[Len(walk)])
    BY <1>2, TopIsGreatest
  <2>2. Alike(walk[Len(walk)], g)
    BY <2>1 DEF Alike, IsFrame, FrameFields, NewFrame
  <2>3. Filled = [walk EXCEPT ![Len(walk)] = g]
    BY <1>2 DEF Filled
  <2> QED
    BY <2>1, <2>2, <2>3, EditAlike
<1> QED
  BY <1>1, <1>2

\* NewFrame() makes a frame.
LEMMA NewFrameFacts ==
    ASSUME nodes \in Nat, NEW kind, NEW part, part # "leaving"
    PROVE  /\ IsFrame(NewFrame(kind, part)) /\ NewFrame(kind, part).id = nodes + 1
           /\ NewFrame(kind, part).kind = kind /\ NewFrame(kind, part).part = part
           /\ ~NewFrame(kind, part).elseif
  BY DEF IsFrame, FrameFields, NewFrame

\* NewBlock() makes a frame.
LEMMA NewBlockFacts ==
    ASSUME nodes \in Nat, NEW kind, NEW part, part # "leaving", NEW type
    PROVE  /\ IsFrame(NewBlock(kind, part, type))
           /\ NewBlock(kind, part, type).id = nodes + 1
           /\ NewBlock(kind, part, type).kind = kind
           /\ NewBlock(kind, part, type).part = part
           /\ ~NewBlock(kind, part, type).elseif
  BY DEF NewBlock, NewFrame, IsFrame, FrameFields

\* A node that is on a stack is entered.
LEMMA OpenPush ==
    ASSUME ContextInv, NEW f, IsFrame(f), f.id = nodes + 1, Open(f),
           NEW stack \in Stacks, StandsOn(f, stack),
           ctx' = [ctx EXCEPT ![stack] = Append(@, nodes + 1)],
           backups' = backups
    PROVE  ContextInv'
<1>1. Sound(Filled, ctx, backups, nodes)
  <2>1. AlikeWalks(walk, Filled)
    BY FilledAlike DEF ContextInv, Sound
  <2>2. nodes \in Nat /\ nodes <= nodes
    BY DEF ContextInv, Sound
  <2> QED
    BY <2>1, <2>2, SoundAlike DEF ContextInv
<1>2. f.kind # "Lambda"
  BY DEF StandsOn, Stacks, KindsOn, Loops, Messengers
<1>3. /\ IsWalk(Filled) /\ Knows(ctx, Filled)
      /\ \A k \in DOMAIN Filled : Filled[k].id < f.id
  <2>1. \A k \in DOMAIN Filled : /\ Filled[k].id \in Nat /\ Filled[k].id <= nodes
                                 /\ nodes \in Nat
    BY <1>1 DEF Sound, IsWalk, IsFrame
  <2> QED
    BY <1>1, <2>1 DEF Sound
<1>4. Knows(ctx', Append(Filled, f))
  BY <1>3, KnowsPush
<1>5. Sound(Append(Filled, f), ctx', backups, nodes + 1)
  BY <1>1, <1>2, <1>4, SoundOpen
<1> QED
  BY <1>5 DEF ContextInv, Open

\* A node that is on no stack is entered.
LEMMA OpenPass ==
    ASSUME ContextInv, NEW f, IsFrame(f), f.id = nodes + 1, Open(f),
           f.kind # "Lambda", \A s \in Stacks : ~StandsOn(f, s),
           DOMAIN ctx' = DOMAIN ctx, \A s \in Stacks : ctx'[s] = ctx[s],
           DOMAIN ctx'.elseifs \subseteq Range(ctx'.ifs),
           backups' = backups
    PROVE  ContextInv'
<1>1. Sound(Filled, ctx, backups, nodes)
  <2>1. AlikeWalks(walk, Filled)
    BY FilledAlike DEF ContextInv, Sound
  <2>2. nodes \in Nat /\ nodes <= nodes
    BY DEF ContextInv, Sound
  <2> QED
    BY <2>1, <2>2, SoundAlike DEF ContextInv
<1>2. Knows(ctx', Append(Filled, f))
  <2>1. IsWalk(Filled) /\ Knows(ctx, Filled)
    BY <1>1 DEF Sound
  <2> QED
    BY <2>1, KnowsPass
<1>3. Sound(Append(Filled, f), ctx', backups, nodes + 1)
  BY <1>1, <1>2, SoundOpen
<1> QED
  BY <1>3 DEF ContextInv, Open

\* The innermost node changes in details only.
LEMMA EditTop ==
    ASSUME ContextInv, walk # <<>>, NEW g, Alike(Top, g),
           walk' = [walk EXCEPT ![Len(walk)] = g],
           ctx' = ctx, backups' = backups,
           nodes' = nodes \/ nodes' = nodes + 1
    PROVE  ContextInv'
<1>1. Top = walk[Len(walk)] /\ Len(walk) \in 1..Len(walk)
  BY TopIsGreatest DEF Top, ContextInv, Sound
<1>2. AlikeWalks(walk, walk')
  BY <1>1, EditAlike DEF ContextInv, Sound
<1>3. nodes \in Nat /\ nodes' \in Nat /\ nodes <= nodes'
  BY DEF ContextInv, Sound
<1>4. Sound(walk', ctx, backups, nodes')
  BY <1>2, <1>3, SoundAlike DEF ContextInv
<1> QED
  BY <1>4 DEF ContextInv

\* What Close does to the walk.
LEMMA CloseFacts ==
    ASSUME IsWalk(walk), walk # <<>>, Close
    PROVE  /\ AlikeWalks(Front(walk), walk') /\ IsWalk(walk')
           /\ Len(walk') = Len(walk) - 1
           /\ \A k \in 1..(Len(walk) - 1) : Alike(walk[k], walk'[k])
           /\ \A kinds : Standing(walk', kinds) = Standing(walk, kinds) \ {Top.id}
<1> DEFINE w == Front(walk)
<1>1. /\ IsWalk(w) /\ Len(w) = Len(walk) - 1
      /\ \A k \in 1..(Len(walk) - 1) : w[k] = walk[k]
      /\ \A kinds : Standing(w, kinds) = Standing(walk, kinds) \ {Top.id}
  BY WalkAfterClose DEF Top
<1> HIDE DEF w
<1>2. Len(walk) \in Nat \ {0}
  BY TopIsGreatest
<1>3. AlikeWalks(w, walk')
  <2>1. CASE Len(walk) > 1 /\ Top.kind \in Ifs /\ Top.part = "then"
    <3> DEFINE g == [w[Len(walk) - 1] EXCEPT !.filled = "dangling"]
    <3>1. Len(walk) - 1 \in 1..Len(w)
      BY <1>1, <1>2, <2>1
    <3>2. IsFrame(w[Len(walk) - 1])
      BY <1>1, <3>1 DEF IsWalk
    <3>3. Alike(w[Len(walk) - 1], g)
      BY <3>2 DEF Alike, IsFrame, FrameFields, NewFrame
    <3>4. walk' = [w EXCEPT ![Len(walk) - 1] = g]
      BY <2>1 DEF Close, w
    <3> QED
      BY <1>1, <3>1, <3>3, <3>4, EditAlike
  <2>2. CASE ~(Len(walk) > 1 /\ Top.kind \in Ifs /\ Top.part = "then")
    <3>1. walk' = w
      BY <2>2 DEF Close, w
    <3> QED
      BY <1>1, <3>1 DEF AlikeWalks, Alike, IsWalk
  <2> QED
    BY <2>1, <2>2
<1>4. /\ IsWalk(walk') /\ Len(walk') = Len(walk) - 1
      /\ \A kinds : Standing(walk', kinds) = Standing(walk, kinds) \ {Top.id}
  BY <1>1, <1>3, AlikeStanding DEF AlikeWalks
<1>5. \A k \in 1..(Len(walk) - 1) : Alike(walk[k], walk'[k])
  BY <1>1, <1>3 DEF AlikeWalks
<1> QED
  BY <1>3, <1>4, <1>5 DEF w

\* A stack that the innermost node is on is not empty.
LEMMA StackInUse ==
    ASSUME NEW w, IsWalk(w), w # <<>>, NEW c, Knows(c, w),
           NEW stack \in Stacks, StandsOn(Last(w), stack)
    PROVE  c[stack] # <<>> /\ Last(c[stack]) = Last(w).id
<1>1. Last(w).id \in Standing(w, KindsOn[stack])
  <2>1. Len(w) \in DOMAIN w /\ Last(w) = w[Len(w)]
    BY TopIsGreatest
  <2> QED
    BY <2>1 DEF Standing, StandsOn
<1>2. c[stack] \in Seq(Nat) /\ IsStackOf(c[stack], Standing(w, KindsOn[stack]))
  BY KindsApart DEF Knows, Follows
<1>3. \A x \in Standing(w, KindsOn[stack]) : x <= Last(w).id
  BY TopIsGreatest
<1> QED
  BY <1>1, <1>2, <1>3, StackPop

\* A node that is on a stack is left.
LEMMA ClosePop ==
    ASSUME ContextInv, walk # <<>>, Close, NEW stack \in Stacks,
           StandsOn(Top, stack), DOMAIN ctx' = DOMAIN ctx,
           ctx'[stack] = Front(ctx[stack]),
           \A s \in Stacks : s # stack => ctx'[s] = ctx[s],
           DOMAIN ctx'.elseifs \subseteq DOMAIN ctx.elseifs,
           stack = "ifs" => Last(ctx.ifs) \notin DOMAIN ctx'.elseifs,
           backups' = backups, nodes' = nodes
    PROVE  ContextInv'
<1>1. IsWalk(walk) /\ Knows(ctx, walk) /\ Top = Last(walk)
  BY DEF ContextInv, Sound, Top
<1>2. /\ IsWalk(walk') /\ Len(walk') = Len(walk) - 1
      /\ \A k \in 1..(Len(walk) - 1) : Alike(walk[k], walk'[k])
      /\ \A kinds : Standing(walk', kinds) = Standing(walk, kinds) \ {Last(walk).id}
  BY <1>1, CloseFacts
<1>3. Knows(ctx', walk')
  BY ZenonT(30), <1>1, <1>2, KnowsPop
<1>4. Last(walk).kind # "Lambda"
  BY <1>1 DEF StandsOn, Stacks, KindsOn, Loops, Messengers
<1>5. /\ Len(walk) \in Nat \ {0} /\ DOMAIN walk = 1..Len(walk)
      /\ DOMAIN walk' = 1..(Len(walk) - 1)
  <2>1. DOMAIN walk' = 1..Len(walk')
    BY <1>2 DEF IsWalk
  <2> QED
    BY <1>1, <1>2, <2>1, TopIsGreatest
<1>6. \A k \in DOMAIN walk' : walk'[k].id <= nodes
  <2>1. \A k \in 1..(Len(walk) - 1) : k \in DOMAIN walk
    BY <1>5
  <2> QED
    BY <1>2, <1>5, <2>1 DEF Alike, ContextInv, Sound
<1>7. Len(walk') # Len(walk)
  BY <1>2, <1>5
<1>8. Sound(walk', ctx', backups, nodes)
  BY <1>1, <1>2, <1>3, <1>4, <1>6, <1>7, SoundLeave DEF ContextInv
<1> QED
  BY <1>8 DEF ContextInv

\* A node that is on no stack is left.
LEMMA CloseSkip ==
    ASSUME ContextInv, walk # <<>>, Close, Top.kind # "Lambda",
           \A s \in Stacks : ~StandsOn(Top, s),
           ctx' = ctx, backups' = backups, nodes' = nodes
    PROVE  ContextInv'
<1>1. IsWalk(walk) /\ Knows(ctx, walk) /\ Top = Last(walk)
  BY DEF ContextInv, Sound, Top
<1>2. /\ IsWalk(walk') /\ Len(walk') = Len(walk) - 1
      /\ \A k \in 1..(Len(walk) - 1) : Alike(walk[k], walk'[k])
      /\ \A kinds : Standing(walk', kinds) = Standing(walk, kinds) \ {Last(walk).id}
  BY <1>1, CloseFacts
<1>3. Knows(ctx', walk')
  BY <1>1, <1>2, KnowsSkip
<1>4. /\ Len(walk) \in Nat \ {0} /\ DOMAIN walk = 1..Len(walk)
      /\ DOMAIN walk' = 1..(Len(walk) - 1)
  <2>1. DOMAIN walk' = 1..Len(walk')
    BY <1>2 DEF IsWalk
  <2> QED
    BY <1>1, <1>2, <2>1, TopIsGreatest
<1>5. \A k \in DOMAIN walk' : walk'[k].id <= nodes
  <2>1. \A k \in 1..(Len(walk) - 1) : k \in DOMAIN walk
    BY <1>4
  <2> QED
    BY <1>2, <1>4, <2>1 DEF Alike, ContextInv, Sound
<1>6. Len(walk') # Len(walk)
  BY <1>2, <1>4
<1>7. Sound(walk', ctx', backups, nodes)
  BY <1>1, <1>2, <1>3, <1>5, <1>6, SoundLeave DEF ContextInv
<1> QED
  BY <1>7 DEF ContextInv

\* A node that is on a stack is left, and stays on the walk for its messages.
LEMMA LeavePop ==
    ASSUME ContextInv, walk # <<>>, NEW stack \in Stacks, stack # "ifs",
           StandsOn(Top, stack),
           IsWalk(walk'), Len(walk') = Len(walk),
           \A k \in 1..(Len(walk) - 1) : Alike(walk[k], walk'[k]),
           walk'[Len(walk)].part = "leaving", walk'[Len(walk)].kind = Top.kind,
           walk'[Len(walk)].id = Top.id,
           DOMAIN ctx' = DOMAIN ctx, ctx'[stack] = Front(ctx[stack]),
           \A s \in Stacks : s # stack => ctx'[s] = ctx[s],
           DOMAIN ctx'.elseifs \subseteq DOMAIN ctx.elseifs,
           backups' = backups, nodes' = nodes
    PROVE  ContextInv'
<1>1. IsWalk(walk) /\ Knows(ctx, walk) /\ Top = Last(walk)
  BY DEF ContextInv, Sound, Top
<1>2. /\ Len(walk) \in Nat \ {0} /\ DOMAIN walk = 1..Len(walk)
      /\ Top = walk[Len(walk)] /\ DOMAIN walk' = 1..Len(walk)
  <2>1. DOMAIN walk' = 1..Len(walk')
    BY DEF IsWalk
  <2> QED
    BY <1>1, <2>1, TopIsGreatest
<1>3. ASSUME NEW kinds
      PROVE  Standing(walk', kinds) = Standing(walk, kinds) \ {Last(walk).id}
  <2>1. DOMAIN walk' \subseteq 1..Len(walk) /\ 1..(Len(walk) - 1) \subseteq DOMAIN walk'
    BY <1>2
  <2> QED
    BY <1>1, <2>1, StandingAfterLeave
<1>4. Knows(ctx', walk')
  BY ZenonT(30), <1>1, <1>3, KnowsPop
<1>5. \A k \in DOMAIN walk' : walk'[k].id <= nodes
  <2> SUFFICES ASSUME NEW k \in 1..Len(walk) PROVE walk'[k].id <= nodes
    BY <1>2
  <2>1. walk'[k].id = walk[k].id
    <3>1. k = Len(walk) \/ k \in 1..(Len(walk) - 1)
      <4>1. Len(walk) \in Nat
        BY <1>2
      <4> QED
        BY <4>1
    <3> QED
      BY <1>2, <3>1 DEF Alike
  <2> QED
    BY <1>2, <2>1 DEF ContextInv, Sound
<1>6. Last(walk).kind # "Lambda"
  BY <1>1 DEF StandsOn, Stacks, KindsOn, Loops, Messengers
<1>7. Sound(walk', ctx', backups, nodes)
  BY <1>1, <1>4, <1>5, <1>6, SoundLeave DEF ContextInv
<1> QED
  BY <1>7 DEF ContextInv

\* An expression with messages is left, and stays on the walk for them.
LEMMA StartLeaving ==
    ASSUME ContextInv, walk # <<>>, Top.kind \in Messengers, Top.part = "body",
           walk' = [walk EXCEPT ![Len(walk)].part = "leaving"],
           ctx' = [ctx EXCEPT !.calls = Front(@)],
           backups' = backups, nodes' = nodes
    PROVE  ContextInv'
<1> DEFINE n == Len(walk)
           g == [walk[n] EXCEPT !.part = "leaving"]
<1>1. IsWalk(walk) /\ Knows(ctx, walk) /\ Top = Last(walk)
  BY DEF ContextInv, Sound, Top
<1>2. /\ n \in Nat \ {0} /\ DOMAIN walk = 1..n /\ Top = walk[n]
      /\ IsFrame(Top)
  BY <1>1, TopIsGreatest
<1>3. n \in 1..n /\ walk' = [walk EXCEPT ![n] = g]
  BY <1>2
<1> HIDE DEF g
<1>4. /\ walk' \in Seq(Range(walk')) /\ Len(walk') = n /\ DOMAIN walk' = 1..n
      /\ walk'[n] = g
      /\ \A k \in 1..n : k # n => walk'[k] = walk[k]
  <2> DEFINE v == [walk EXCEPT ![n] = g]
  <2>1. walk \in Seq(Range(walk))
    BY <1>1 DEF IsWalk
  <2>2. /\ v \in Seq(Range(v)) /\ Len(v) = n /\ DOMAIN v = 1..n
        /\ v[n] = g
        /\ \A k \in 1..n : k # n => v[k] = walk[k]
    BY ZenonT(30), <1>3, <2>1, EditFacts
  <2> HIDE DEF v
  <2>3. walk' = v
    BY <1>3 DEF v
  <2> QED
    BY <2>2, <2>3
<1>5. g.id = Top.id /\ g.kind = Top.kind /\ g.part = "leaving" /\ IsFrame(g)
  BY <1>2 DEF IsFrame, FrameFields, Messengers, g
<1> HIDE DEF n
<1>6. \A k \in 1..n : walk'[k].id = walk[k].id /\ walk'[k].kind = walk[k].kind
                      /\ IsFrame(walk'[k])
  BY <1>1, <1>2, <1>4, <1>5 DEF IsWalk
<1>7. IsWalk(walk')
  <2>1. Ids(walk') = Ids(walk)
    BY <1>2, <1>4, <1>6 DEF Ids
  <2> QED
    BY <1>1, <1>4, <1>6, <2>1 DEF IsWalk
<1>8. \A k \in 1..(n - 1) : Alike(walk[k], walk'[k])
  <2>1. \A k \in 1..(n - 1) : k \in 1..n /\ k # n
    BY <1>2
  <2> QED
    BY <1>4, <2>1 DEF Alike
<1>9. StandsOn(Last(walk), "calls") /\ "calls" \in Stacks
  BY <1>1, <1>2 DEF StandsOn, KindsOn, Stacks, IsFrame, Messengers
<1>10. /\ DOMAIN ctx' = DOMAIN ctx /\ ctx'["calls"] = Front(ctx["calls"])
       /\ \A s \in Stacks : s # "calls" => ctx'[s] = ctx[s]
       /\ DOMAIN ctx'.elseifs \subseteq DOMAIN ctx.elseifs
  BY <1>1 DEF Knows, EmptyContext, Stacks
<1>11. /\ Len(walk') = Len(walk) /\ walk'[Len(walk)].part = "leaving"
       /\ walk'[Len(walk)].kind = Top.kind /\ walk'[Len(walk)].id = Top.id
       /\ \A k \in 1..(Len(walk) - 1) : Alike(walk[k], walk'[k])
  BY <1>4, <1>5, <1>8 DEF n
<1>12. StandsOn(Top, "calls")
  BY <1>1, <1>9
<1>13. "calls" # "ifs"
  OBVIOUS
<1> QED
  BY <1>7, <1>9, <1>10, <1>11, <1>12, <1>13, LeavePop

\* TraverseLambdaExpr() begins: the walk may also have changed in details, where
\* the message to the lambda joined a call.
LEMMA EnterLambdaKeeps ==
    ASSUME ContextInv, NEW u, AlikeWalks(walk, u),
           NEW f, IsFrame(f), f.id = nodes + 1, f.kind = "Lambda",
           walk' = Append(u, f), nodes' = nodes + 1, backups' = Append(backups, ctx),
           DOMAIN ctx' = DOMAIN ctx, \A s \in Stacks : ctx'[s] = ctx[s],
           ctx'.elseifs = ctx.elseifs
    PROVE  ContextInv'
<1> DEFINE v == Append(u, f)
           bs == Append(backups, ctx)
<1>1. nodes \in Nat /\ Sound(u, ctx, backups, nodes)
  <2>1. nodes \in Nat /\ nodes <= nodes
    BY DEF ContextInv, Sound
  <2> QED
    BY <2>1, SoundAlike DEF ContextInv
<1>2. /\ IsWalk(u) /\ Knows(ctx, u) /\ \A k \in DOMAIN u : u[k].id < f.id
  <2>1. \A k \in DOMAIN u : u[k].id \in Nat /\ u[k].id <= nodes
    BY <1>1 DEF Sound, IsWalk, IsFrame
  <2> QED
    BY <1>1, <2>1 DEF Sound
<1>3. /\ IsWalk(v) /\ Len(v) = Len(u) + 1
      /\ Len(u) \in Nat /\ \A k \in 1..Len(u) : v[k] = u[k]
      /\ v[Len(u) + 1] = f
  BY <1>2, WalkAfterOpen
<1>4. \A s \in Stacks : ~StandsOn(f, s)
  BY KindsApart DEF StandsOn
<1>5. Knows(ctx', v)
  <2>1. DOMAIN ctx'.elseifs \subseteq Range(ctx'.ifs)
    BY <1>2 DEF Knows, Follows, Stacks
  <2> QED
    BY <1>2, <1>4, <2>1, KnowsPass
<1>6. PICK at : Restores(backups, u, at)
  BY <1>1 DEF Sound
<1>7. bs \in Seq(Range(bs))
  <2>1. backups \in Seq(Range(backups) \cup {ctx})
    BY <1>1, SeqMonotonic DEF Sound
  <2>2. bs \in Seq(Range(backups) \cup {ctx})
    BY <2>1
  <2> QED
    BY <2>2, SeqOfRange
<1>8. Restores(bs, v, Append(at, Len(u) + 1))
  <2>1. backups \in Seq(Range(backups))
    BY <1>1 DEF Sound
  <2> QED
    BY <1>2, <1>6, <2>1, RestoresPush
<1>9. \A k \in DOMAIN v : v[k].id <= nodes + 1
  <2> SUFFICES ASSUME NEW k \in DOMAIN v PROVE v[k].id <= nodes + 1
    OBVIOUS
  <2>1. k \in 1..(Len(u) + 1) /\ DOMAIN u = 1..Len(u)
    BY <1>2, <1>3 DEF IsWalk
  <2>2. CASE k = Len(u) + 1
    BY <1>1, <1>3, <2>2
  <2>3. CASE k # Len(u) + 1
    <3>1. k \in 1..Len(u)
      BY <1>3, <2>1, <2>3
    <3>2. u[k].id \in Nat /\ u[k].id < f.id
      BY <1>2, <2>1, <3>1 DEF IsWalk, IsFrame
    <3> QED
      BY <1>1, <1>3, <3>1, <3>2
  <2> QED
    BY <2>2, <2>3
<1>10. Sound(v, ctx', bs, nodes + 1)
  BY <1>1, <1>3, <1>5, <1>7, <1>8, <1>9 DEF Sound
<1> QED
  BY <1>10 DEF ContextInv

\* TraverseLambdaExpr() ends.
LEMMA LeaveLambdaKeeps ==
    ASSUME ContextInv, walk # <<>>, Top.kind = "Lambda", Close,
           ctx' = Last(backups), backups' = Front(backups), nodes' = nodes
    PROVE  ContextInv'
<1>1. IsWalk(walk) /\ Top = Last(walk) /\ backups \in Seq(Range(backups))
  BY DEF ContextInv, Sound, Top
<1>2. PICK at : Restores(backups, walk, at)
  BY DEF ContextInv, Sound
<1>3. /\ backups # <<>> /\ Knows(Last(backups), Front(walk))
      /\ Restores(Front(backups), Front(walk), Front(at))
  BY <1>1, <1>2, RestoresPop
<1>4. /\ IsWalk(Front(walk)) /\ \A k \in DOMAIN Front(walk) : Front(walk)[k].id <= nodes
  <2>1. /\ Len(walk) \in Nat \ {0} /\ DOMAIN walk = 1..Len(walk)
    BY <1>1, TopIsGreatest
  <2>2. /\ IsWalk(Front(walk)) /\ DOMAIN Front(walk) = 1..(Len(walk) - 1)
        /\ \A k \in 1..(Len(walk) - 1) : Front(walk)[k] = walk[k]
    BY <1>1, WalkAfterClose
  <2>3. \A k \in 1..(Len(walk) - 1) : k \in DOMAIN walk
    BY <2>1
  <2> QED
    BY <2>2, <2>3 DEF ContextInv, Sound
<1>5. Front(backups) \in Seq(Range(Front(backups)))
  <2>1. Front(backups) \in Seq(Range(backups))
    BY <1>1, <1>3, PopFacts
  <2> QED
    BY <2>1, SeqOfRange
<1>6. nodes \in Nat /\ nodes <= nodes
  BY DEF ContextInv, Sound
<1>7. Sound(Front(walk), Last(backups), Front(backups), nodes)
  BY <1>3, <1>4, <1>5, <1>6 DEF Sound
<1>8. AlikeWalks(Front(walk), walk')
  BY <1>1, CloseFacts
<1>9. Sound(walk', Last(backups), Front(backups), nodes)
  BY <1>6, <1>7, <1>8, SoundAlike
<1> QED
  BY <1>9 DEF ContextInv
--------------------------------------------------------------------------------
(***************************************************************************)
(* Every action preserves the invariant                                    *)
(***************************************************************************)
\* What the invariant says of the context and of the innermost node.
LEMMA Here ==
    ASSUME ContextInv
    PROVE  /\ nodes \in Nat /\ IsWalk(walk) /\ Knows(ctx, walk)
           /\ DOMAIN ctx = DOMAIN EmptyContext /\ Stacks \subseteq DOMAIN ctx
           /\ "elseifs" \in DOMAIN ctx /\ "lambdas" \in DOMAIN ctx
           /\ DOMAIN ctx.elseifs \subseteq Range(ctx.ifs)
           /\ walk # <<>> => /\ Top = walk[Len(walk)] /\ IsFrame(Top)
                             /\ Len(walk) \in 1..Len(walk)
<1>1. nodes \in Nat /\ IsWalk(walk) /\ Knows(ctx, walk)
  BY DEF ContextInv, Sound
<1>2. /\ DOMAIN ctx = DOMAIN EmptyContext /\ Stacks \subseteq DOMAIN ctx
      /\ "elseifs" \in DOMAIN ctx /\ "lambdas" \in DOMAIN ctx
      /\ DOMAIN ctx.elseifs \subseteq Range(ctx.ifs)
  BY <1>1 DEF Knows, Follows, EmptyContext, Stacks
<1>3. walk # <<>> => /\ Top = walk[Len(walk)] /\ IsFrame(Top)
                     /\ Len(walk) \in 1..Len(walk)
  BY <1>1, TopIsGreatest DEF Top
<1> QED
  BY <1>1, <1>2, <1>3

\* An if is entered, or an else-if noted with the if it belongs to.
LEMMA EnterIfKeeps ==
    ASSUME ContextInv, EnterIf
    PROVE  ContextInv'
<1>1. nodes \in Nat /\ backups' = backups
  BY Here DEF EnterIf
<1>2. CASE IsElseIf
  <2> DEFINE f == [NewFrame("If", "cond") EXCEPT !.elseif = TRUE]
  <2>1. Open(f) /\ ctx' = EnterElseIfStmt(nodes + 1)
    BY <1>2 DEF EnterIf
  <2>2. IsFrame(f) /\ f.id = nodes + 1 /\ f.kind = "If" /\ f.elseif
    BY <1>1 DEF NewFrame, IsFrame, FrameFields
  <2> HIDE DEF f
  <2>3. \A s \in Stacks : ~StandsOn(f, s)
    BY <2>2 DEF StandsOn
  <2>4. ctx.ifs # <<>>
    BY <1>2 DEF IsElseIf, IsChildOf, CurrentElseIf, CurrentIf, NoStmt
  <2>5. CurrentIf = Last(ctx.ifs) /\ Last(ctx.ifs) \in Range(ctx.ifs)
    <3>1. ctx.ifs \in Seq(Nat)
      BY Here DEF Knows, Stacks
    <3>2. Len(ctx.ifs) \in DOMAIN ctx.ifs /\ Last(ctx.ifs) = ctx.ifs[Len(ctx.ifs)]
      BY <2>4, <3>1 DEF Last
    <3> QED
      BY <2>4, <3>2 DEF CurrentIf, Range
  <2>6. /\ DOMAIN ctx' = DOMAIN ctx /\ \A s \in Stacks : ctx'[s] = ctx[s]
        /\ DOMAIN ctx'.elseifs = DOMAIN ctx.elseifs \cup {CurrentIf}
    <3> DEFINE chain == IF CurrentIf \in DOMAIN ctx.elseifs
                        THEN ctx.elseifs[CurrentIf] ELSE <<>>
               noted == [i \in DOMAIN ctx.elseifs \cup {CurrentIf} |->
                           IF i = CurrentIf THEN Append(chain, nodes + 1)
                           ELSE ctx.elseifs[i]]
    <3>1. ctx' = [ctx EXCEPT !.elseifs = noted]
      BY <2>1 DEF EnterElseIfStmt
    <3>2. DOMAIN noted = DOMAIN ctx.elseifs \cup {CurrentIf}
      OBVIOUS
    <3> HIDE DEF noted
    <3>3. "elseifs" \in DOMAIN ctx /\ Stacks \subseteq DOMAIN ctx
      BY Here
    <3>4. DOMAIN ctx' = DOMAIN ctx /\ ctx'.elseifs = noted
      BY <3>1, <3>3
    <3>5. \A s \in Stacks : ctx'[s] = ctx[s]
      BY <3>1, <3>3 DEF Stacks
    <3> QED
      BY <3>2, <3>4, <3>5
  <2>7. DOMAIN ctx'.elseifs \subseteq Range(ctx'.ifs)
    BY <2>5, <2>6, Here DEF Stacks
  <2> QED
    BY <1>1, <2>1, <2>2, <2>3, <2>6, <2>7, OpenPass
<1>3. CASE ~IsElseIf
  <2> DEFINE f == NewBlock("If", "cond", "kIf")
  <2>1. Open(f) /\ ctx' = EnterIfStmt(nodes + 1)
    BY <1>3 DEF EnterIf
  <2>2. /\ IsFrame(f) /\ f.id = nodes + 1 /\ f.kind = "If" /\ ~f.elseif
        /\ f.part = "cond"
    BY <1>1, NewBlockFacts
  <2> HIDE DEF f
  <2>3. "ifs" \in Stacks /\ StandsOn(f, "ifs")
    BY <2>2 DEF StandsOn, KindsOn, Stacks
  <2>4. ctx' = [ctx EXCEPT !["ifs"] = Append(@, nodes + 1)]
    BY <2>1 DEF EnterIfStmt
  <2> QED
    BY <1>1, <2>1, <2>2, <2>3, <2>4, OpenPush
<1> QED
  BY <1>2, <1>3

\* A block statement on no stack the visitor reads is entered.
LEMMA EnterOffStack ==
    ASSUME ContextInv, NEW kind \in {"Try", "Switch", "ConstexprIf"}, NEW f,
           IsFrame(f), f.id = nodes + 1, f.kind = kind, Open(f),
           DOMAIN ctx' = DOMAIN ctx, \A s \in Stacks : ctx'[s] = ctx[s],
           ctx'.elseifs = ctx.elseifs, backups' = backups
    PROVE  ContextInv'
<1>1. \A s \in Stacks : ~StandsOn(f, s)
  BY KindsApart DEF StandsOn
<1>2. DOMAIN ctx'.elseifs \subseteq Range(ctx'.ifs)
  BY Here DEF Stacks
<1> QED
  BY <1>1, <1>2, OpenPass

\* An if constexpr is entered.
LEMMA EnterConstexprIfKeeps ==
    ASSUME ContextInv, EnterConstexprIf
    PROVE  ContextInv'
<1> DEFINE f == NewFrame("ConstexprIf", "cond")
<1>1. Open(f) /\ ctx' = ctx /\ backups' = backups
  BY DEF EnterConstexprIf
<1>2. IsFrame(f) /\ f.id = nodes + 1 /\ f.kind = "ConstexprIf"
  BY Here, NewFrameFacts
<1> QED
  BY <1>1, <1>2, EnterOffStack

\* A branch of an if is entered.
LEMMA EnterBranchKeeps ==
    ASSUME ContextInv, NEW b \in BOOLEAN, EnterThen(b) \/ EnterElse(b)
    PROVE  ContextInv'
<1> DEFINE n == Len(walk)
<1>1. /\ walk # <<>> /\ ctx' = ctx /\ backups' = backups /\ nodes' = nodes
      /\ Top.part \in {"cond", "then"}
  BY DEF EnterThen, EnterElse, IsTop
<1>2. n \in 1..n /\ Top = walk[n] /\ IsFrame(Top)
  BY <1>1, Here
<1>3. CASE EnterThen(b)
  <2> DEFINE g == [Top EXCEPT !.part = "then", !.braces = b, !.bare = ~b,
                              !.filled = "no"]
  <2>1. walk' = [walk EXCEPT ![n] = g]
    BY <1>2, <1>3 DEF EnterThen
  <2>2. Alike(Top, g)
    BY <1>1, <1>2 DEF Alike, IsFrame, FrameFields
  <2> QED
    BY <1>1, <2>1, <2>2, EditTop
<1>4. CASE EnterElse(b)
  <2> DEFINE g == [Top EXCEPT !.part = "else", !.braces = b, !.filled = "no",
                              !.split = Len(messages[Top.caller])]
  <2>1. walk' = [walk EXCEPT ![n] = g]
    BY <1>2, <1>4 DEF EnterElse
  <2>2. Alike(Top, g)
    BY <1>1, <1>2 DEF Alike, IsFrame, FrameFields
  <2> QED
    BY <1>1, <2>1, <2>2, EditTop
<1> QED
  BY <1>3, <1>4

\* An if is left and its else-ifs forgotten.
LEMMA LeaveIfKeeps ==
    ASSUME ContextInv, LeaveIf
    PROVE  ContextInv'
<1>1. /\ walk # <<>> /\ Close /\ backups' = backups /\ nodes' = nodes
      /\ Top.kind \in Ifs /\ Top.part # "leaving"
  BY DEF LeaveIf, IsTop, InBranch
<1>2. CASE Top.kind = "If" /\ ~Top.elseif
  <2>1. "ifs" \in Stacks /\ StandsOn(Top, "ifs")
    BY <1>1, <1>2 DEF StandsOn, Stacks, KindsOn
  <2>2. ctx.ifs # <<>> /\ CurrentIf = Last(ctx.ifs)
    <3>1. ctx["ifs"] # <<>>
      BY <1>1, <2>1, Here, StackInUse DEF Top
    <3> QED
      BY <3>1 DEF CurrentIf
  <2>3. ctx' = LeaveIfStmt
    BY <1>2 DEF LeaveIf
  <2>4. /\ DOMAIN ctx' = DOMAIN ctx /\ ctx'["ifs"] = Front(ctx["ifs"])
        /\ \A s \in Stacks : s # "ifs" => ctx'[s] = ctx[s]
        /\ DOMAIN ctx'.elseifs = DOMAIN ctx.elseifs \ {CurrentIf}
    BY <2>3, Here DEF LeaveIfStmt, Stacks
  <2>5. /\ DOMAIN ctx'.elseifs \subseteq DOMAIN ctx.elseifs
        /\ Last(ctx.ifs) \notin DOMAIN ctx'.elseifs
    BY <2>2, <2>4
  <2> QED
    BY <1>1, <2>1, <2>4, <2>5, ClosePop
<1>3. CASE ~(Top.kind = "If" /\ ~Top.elseif)
  <2>1. ctx' = ctx
    BY <1>3 DEF LeaveIf
  <2>2. \A s \in Stacks : ~StandsOn(Top, s)
    BY <1>1, <1>3, KindsApart DEF StandsOn, Ifs
  <2>3. Top.kind # "Lambda"
    BY <1>1 DEF Ifs
  <2> QED
    BY <1>1, <2>1, <2>2, <2>3, CloseSkip
<1> QED
  BY <1>2, <1>3

\* What OpenBlock() opens.
LEMMA OpenBlockFacts ==
    ASSUME ContextInv, NEW kind, NEW part, part # "leaving", OpenBlock(kind, part)
    PROVE  LET f == NewBlock(kind, part, TypeOf(kind))
           IN  /\ Open(f) /\ backups' = backups /\ IsFrame(f)
               /\ f.id = nodes + 1 /\ f.kind = kind /\ f.part = part /\ ~f.elseif
  BY Here, NewBlockFacts DEF OpenBlock

\* A loop is entered.
LEMMA EnterLoopKeeps ==
    ASSUME ContextInv, NEW kind \in Loops, EnterLoop(kind)
    PROVE  ContextInv'
<1>1. /\ OpenBlock(kind, "body") /\ ctx' = [ctx EXCEPT !["loops"] = Append(@, nodes + 1)]
  BY DEF EnterLoop
<1>2. "loops" \in Stacks /\ kind \in KindsOn["loops"]
  BY DEF Stacks, KindsOn
<1> DEFINE f == NewBlock(kind, "body", TypeOf(kind))
<1>3. /\ Open(f) /\ backups' = backups /\ IsFrame(f)
      /\ f.id = nodes + 1 /\ f.kind = kind /\ f.part = "body" /\ ~f.elseif
  BY <1>1, OpenBlockFacts
<1> HIDE DEF f
<1>4. StandsOn(f, "loops")
  BY <1>2, <1>3 DEF StandsOn
<1> QED
  BY <1>1, <1>2, <1>3, <1>4, OpenPush

\* A conditional operator is entered.
LEMMA EnterConditionalKeeps ==
    ASSUME ContextInv, EnterConditional
    PROVE  ContextInv'
<1>1. /\ OpenBlock("Conditional", "then")
      /\ ctx' = [ctx EXCEPT !["conditionals"] = Append(@, nodes + 1)]
  BY DEF EnterConditional
<1>2. "conditionals" \in Stacks /\ "Conditional" \in KindsOn["conditionals"]
  BY DEF Stacks, KindsOn
<1> DEFINE f == NewBlock("Conditional", "then", TypeOf("Conditional"))
<1>3. /\ Open(f) /\ backups' = backups /\ IsFrame(f)
      /\ f.id = nodes + 1 /\ f.kind = "Conditional" /\ f.part = "then" /\ ~f.elseif
  BY <1>1, OpenBlockFacts
<1> HIDE DEF f
<1>4. StandsOn(f, "conditionals")
  BY <1>2, <1>3 DEF StandsOn
<1> QED
  BY <1>1, <1>2, <1>3, <1>4, OpenPush

\* A try statement is entered.
LEMMA EnterTryKeeps ==
    ASSUME ContextInv, EnterTry
    PROVE  ContextInv'
<1>1. /\ OpenBlock("Try", "body")
      /\ ctx' = [ctx EXCEPT !.tries = Append(@, nodes + 1)]
  BY DEF EnterTry
<1>2. /\ DOMAIN ctx' = DOMAIN ctx /\ \A s \in Stacks : ctx'[s] = ctx[s]
      /\ ctx'.elseifs = ctx.elseifs
  BY <1>1, Here DEF Stacks
<1> QED
  BY <1>1, <1>2, OpenBlockFacts, EnterOffStack

\* A switch statement is entered.
LEMMA EnterSwitchKeeps ==
    ASSUME ContextInv, EnterSwitch
    PROVE  ContextInv'
<1>1. /\ OpenBlock("Switch", "cond")
      /\ ctx' = [ctx EXCEPT !.switches = Append(@, nodes + 1)]
  BY DEF EnterSwitch
<1>2. /\ DOMAIN ctx' = DOMAIN ctx /\ \A s \in Stacks : ctx'[s] = ctx[s]
      /\ ctx'.elseifs = ctx.elseifs
  BY <1>1, Here DEF Stacks
<1> QED
  BY <1>1, <1>2, OpenBlockFacts, EnterOffStack

\* Between the parts of a try, a switch or a conditional operator.
LEMMA NextPartKeeps ==
    ASSUME ContextInv, EnterCatch \/ EnterCase \/ EnterConditionalElse
    PROVE  ContextInv'
<1> DEFINE n == Len(walk)
<1>1. /\ walk # <<>> /\ ctx' = ctx /\ backups' = backups
      /\ nodes' = nodes \/ nodes' = nodes + 1
      /\ Top.kind \in {"Try", "Switch", "Conditional"}
      /\ \E part \in {"handler", "arm", "else"} :
            walk' = [walk EXCEPT ![n].part = part]
  BY DEF EnterCatch, EnterCase, EnterConditionalElse, IsTop
<1>2. PICK part \in {"handler", "arm", "else"} : walk' = [walk EXCEPT ![n].part = part]
  BY <1>1
<1>3. n \in 1..n /\ Top = walk[n] /\ IsFrame(Top)
  BY <1>1, Here
<1> DEFINE g == [Top EXCEPT !.part = part]
<1>4. walk' = [walk EXCEPT ![n] = g]
  BY <1>2, <1>3
<1>5. Alike(Top, g)
  BY <1>1, <1>3 DEF Alike, IsFrame, FrameFields, Messengers
<1> QED
  BY <1>1, <1>4, <1>5, EditTop

\* A block statement or a conditional operator is left.
LEMMA LeaveBlockKeeps ==
    ASSUME ContextInv, LeaveLoop \/ LeaveConditional \/ LeaveTry \/ LeaveSwitch
    PROVE  ContextInv'
<1>1. walk # <<>> /\ Close /\ backups' = backups /\ nodes' = nodes
  BY DEF LeaveLoop, LeaveConditional, LeaveTry, LeaveSwitch, CloseBlock, IsTop
<1>2. IsFrame(Top)
  BY <1>1, Here
<1>3. CASE LeaveLoop
  <2>1. Top.kind \in Loops /\ ctx' = [ctx EXCEPT !.loops = Front(@)]
    BY <1>3 DEF LeaveLoop, IsTop
  <2>2. "loops" \in Stacks /\ StandsOn(Top, "loops")
    BY <1>2, <2>1 DEF StandsOn, Stacks, KindsOn, IsFrame, Loops, Messengers
  <2>3. /\ DOMAIN ctx' = DOMAIN ctx /\ ctx'["loops"] = Front(ctx["loops"])
        /\ \A s \in Stacks : s # "loops" => ctx'[s] = ctx[s]
        /\ DOMAIN ctx'.elseifs \subseteq DOMAIN ctx.elseifs
    BY <2>1, Here DEF Stacks
  <2> QED
    BY <1>1, <2>2, <2>3, ClosePop
<1>4. CASE LeaveConditional
  <2>1. Top.kind = "Conditional" /\ ctx' = [ctx EXCEPT !.conditionals = Front(@)]
    BY <1>4 DEF LeaveConditional, IsTop
  <2>2. "conditionals" \in Stacks /\ StandsOn(Top, "conditionals")
    BY <1>2, <2>1 DEF StandsOn, Stacks, KindsOn, IsFrame, Messengers
  <2>3. /\ DOMAIN ctx' = DOMAIN ctx
        /\ ctx'["conditionals"] = Front(ctx["conditionals"])
        /\ \A s \in Stacks : s # "conditionals" => ctx'[s] = ctx[s]
        /\ DOMAIN ctx'.elseifs \subseteq DOMAIN ctx.elseifs
    BY <2>1, Here DEF Stacks
  <2> QED
    BY <1>1, <2>2, <2>3, ClosePop
<1>5. CASE LeaveTry \/ LeaveSwitch
  <2>1. Top.kind \in {"Try", "Switch"} /\ ctx' = ctx
    BY <1>5 DEF LeaveTry, LeaveSwitch, LeaveTryStmt, LeaveSwitchStmt, IsTop
  <2>2. \A s \in Stacks : ~StandsOn(Top, s)
    BY <2>1, KindsApart DEF StandsOn
  <2> QED
    BY <1>1, <2>1, <2>2, CloseSkip
<1> QED
  BY <1>3, <1>4, <1>5

\* A call or the like is entered, with or without a message.
LEMMA EnterMessengerKeeps ==
    ASSUME ContextInv, NEW kind \in Messengers, NEW r \in BOOLEAN, NEW i \in BOOLEAN,
           EnterMessenger(kind, r, i)
    PROVE  ContextInv'
<1>1. /\ ctx' = [ctx EXCEPT !["calls"] = Append(@, nodes + 1)]
      /\ backups' = backups /\ nodes \in Nat
  BY Here DEF EnterMessenger
<1>2. "calls" \in Stacks /\ kind \in KindsOn["calls"]
  BY DEF Stacks, KindsOn
<1>3. PICK f : /\ Open(f) /\ IsFrame(f) /\ f.id = nodes + 1 /\ f.kind = kind
               /\ f.part = "body" /\ ~f.elseif
  <2>1. CASE r
    <3> DEFINE p == Pending(TypeOf(kind), i)
               f == [NewFrame(kind, "body") EXCEPT !.pending = <<p>>]
    <3>1. Open(f)
      BY <2>1 DEF EnterMessenger
    <3>2. /\ IsFrame(f) /\ f.id = nodes + 1 /\ f.kind = kind
          /\ f.part = "body" /\ ~f.elseif
      BY <1>1 DEF NewFrame, IsFrame, FrameFields
    <3> QED
      BY <3>1, <3>2
  <2>2. CASE ~r
    <3>1. Open(NewFrame(kind, "body"))
      BY <2>2 DEF EnterMessenger
    <3> QED
      BY <1>1, <3>1, NewFrameFacts
  <2> QED
    BY <2>1, <2>2
<1>4. StandsOn(f, "calls")
  BY <1>2, <1>3 DEF StandsOn
<1> QED
  BY <1>1, <1>2, <1>3, <1>4, OpenPush

\* A call or the like is left; its messages may be waiting.
LEMMA LeaveMessengerKeeps ==
    ASSUME ContextInv, LeaveMessenger
    PROVE  ContextInv'
<1>1. /\ walk # <<>> /\ Top.kind \in Messengers /\ Top.part = "body"
      /\ ctx' = [ctx EXCEPT !.calls = Front(@)]
      /\ backups' = backups /\ nodes' = nodes
  BY DEF LeaveMessenger, IsTop
<1>2. CASE Top.pending = <<>>
  <2>1. Close
    BY <1>2 DEF LeaveMessenger
  <2>2. "calls" \in Stacks /\ StandsOn(Top, "calls")
    BY <1>1, Here DEF StandsOn, Stacks, KindsOn, IsFrame, Messengers
  <2>3. /\ DOMAIN ctx' = DOMAIN ctx /\ ctx'["calls"] = Front(ctx["calls"])
        /\ \A s \in Stacks : s # "calls" => ctx'[s] = ctx[s]
        /\ DOMAIN ctx'.elseifs \subseteq DOMAIN ctx.elseifs
    BY <1>1, Here DEF Stacks
  <2> QED
    BY <1>1, <2>1, <2>2, <2>3, ClosePop
<1>3. CASE Top.pending # <<>>
  <2>1. walk' = [walk EXCEPT ![Len(walk)].part = "leaving"]
    BY <1>3 DEF LeaveMessenger
  <2> QED
    BY <1>1, <2>1, StartLeaving
<1> QED
  BY <1>2, <1>3

\* A message is taken from an expression that was left.
LEMMA PopMessageKeeps ==
    ASSUME ContextInv, PopMessage
    PROVE  ContextInv'
<1> DEFINE n == Len(walk)
<1>1. /\ walk # <<>> /\ Top.kind \in Messengers /\ Top.part = "leaving"
      /\ ctx' = ctx /\ backups' = backups /\ nodes' = nodes
  BY DEF PopMessage, IsTop
<1>2. n \in 1..n /\ Top = walk[n] /\ IsFrame(Top)
  BY <1>1, Here
<1>3. CASE Len(Top.pending) = 1
  <2>1. Close
    BY <1>3 DEF PopMessage
  <2>2. Top.kind # "Lambda" /\ \A s \in Stacks : ~StandsOn(Top, s)
    BY <1>1 DEF Messengers, StandsOn
  <2> QED
    BY <1>1, <2>1, <2>2, CloseSkip
<1>4. CASE Len(Top.pending) # 1
  <2> DEFINE g == [Top EXCEPT !.pending = Tail(@)]
  <2>1. walk' = [walk EXCEPT ![n] = g]
    BY <1>2, <1>4 DEF PopMessage
  <2>2. Alike(Top, g)
    BY <1>1, <1>2 DEF Alike, IsFrame, FrameFields
  <2> QED
    BY <1>1, <2>1, <2>2, EditTop
<1> QED
  BY <1>3, <1>4

\* No frame of a walk is changed at a place beyond it.
LEMMA NoEdit ==
    ASSUME NEW S, NEW w \in Seq(S), NEW i, i \notin 1..Len(w), NEW g
    PROVE  [w EXCEPT ![i] = g] = w
<1>1. w = [k \in 1..Len(w) |-> w[k]] /\ DOMAIN w = 1..Len(w)
  OBVIOUS
<1>2. [w EXCEPT ![i] = g] = [k \in 1..Len(w) |-> w[k]]
  BY <1>1
<1> QED
  BY <1>1, <1>2

\* A lambda is entered, whether or not a call takes a message to it.
LEMMA EnterAnyLambdaKeeps ==
    ASSUME ContextInv, NEW i \in BOOLEAN, NEW p \in BOOLEAN, EnterLambda(i, p)
    PROVE  ContextInv'
<1> DEFINE f == NewFrame("Lambda", "body")
<1>1. nodes' = nodes + 1 /\ backups' = Append(backups, ctx)
  BY DEF EnterLambda
<1>2. /\ DOMAIN ctx' = DOMAIN ctx /\ \A s \in Stacks : ctx'[s] = ctx[s]
      /\ ctx'.elseifs = ctx.elseifs
  <2>1. ctx' = IF i THEN [ctx EXCEPT !.lambdas = Append(@, lambdas + 1)] ELSE ctx
    BY DEF EnterLambda
  <2>2. CASE i
    BY <2>1, <2>2, Here DEF Stacks
  <2>3. CASE ~i
    BY <2>1, <2>3
  <2> QED
    BY <2>2, <2>3
<1>3. IsFrame(f) /\ f.id = nodes + 1 /\ f.kind = "Lambda"
  BY Here, NewFrameFacts
<1>4. IsWalk(walk) /\ IsWalk(Filled) /\ AlikeWalks(walk, Filled)
  BY Here, FilledAlike, AlikeStanding
<1>5. PICK u : AlikeWalks(walk, u) /\ walk' = Append(u, f)
  <2>1. CASE walk' = Append(Filled, f)
    BY <1>4, <2>1
  <2>2. CASE walk' # Append(Filled, f)
    <3> DEFINE call == IF ctx.calls = <<>> THEN 0 ELSE FrameOf(Last(ctx.calls))
               u == [Filled EXCEPT ![call].pending =
                        Append(@, Pending("kCall", TRUE))]
    <3>1. walk' = Append(u, f)
      BY <2>2 DEF EnterLambda
    <3> HIDE DEF call
    <3>2. CASE call \in 1..Len(Filled)
      <4> DEFINE g == [Filled[call] EXCEPT !.pending =
                         Append(@, Pending("kCall", TRUE))]
      <4>1. IsFrame(Filled[call])
        BY <1>4, <3>2 DEF IsWalk
      <4>2. Alike(Filled[call], g)
        BY <4>1 DEF Alike, IsFrame, FrameFields
      <4>3. u = [Filled EXCEPT ![call] = g]
        OBVIOUS
      <4> HIDE DEF g, u
      <4>4. AlikeWalks(Filled, u)
        BY <1>4, <3>2, <4>2, <4>3, EditAlike
      <4>5. AlikeWalks(walk, u)
        BY <1>4, <4>4 DEF AlikeWalks, Alike
      <4> QED
        BY <3>1, <4>5
    <3>3. CASE call \notin 1..Len(Filled)
      <4>1. u = Filled
        <5> DEFINE g == [Filled[call] EXCEPT !.pending =
                           Append(@, Pending("kCall", TRUE))]
        <5>1. Filled \in Seq(Range(Filled))
          BY <1>4 DEF IsWalk
        <5>2. u = [Filled EXCEPT ![call] = g]
          OBVIOUS
        <5> HIDE DEF g, u
        <5> QED
          BY <3>3, <5>1, <5>2, NoEdit
      <4> QED
        BY <1>4, <3>1, <4>1
    <3> QED
      BY <3>2, <3>3
  <2> QED
    BY <2>1, <2>2
<1> HIDE DEF f
<1> QED
  BY <1>1, <1>2, <1>3, <1>5, EnterLambdaKeeps

--------------------------------------------------------------------------------
(***************************************************************************)
(* The theorems                                                            *)
(***************************************************************************)
\* The invariant holds before anything was traversed.
LEMMA ContextInvInit ==
    ASSUME Init
    PROVE  ContextInv
<1>1. walk = <<>> /\ backups = <<>> /\ ctx = EmptyContext /\ nodes = 0
  BY DEF Init
<1>2. IsWalk(walk) /\ DOMAIN walk = {} /\ backups \in Seq(Range(backups))
  <2>1. <<>> \in Seq(Range(<<>>))
    BY EmptySeq
  <2>2. DOMAIN <<>> = {}
    <3>1. <<>> \in Seq(Nat) /\ Len(<<>>) = 0
      BY EmptySeq
    <3>2. DOMAIN <<>> = 1..Len(<<>>)
      BY <3>1, LenProperties
    <3> QED
      BY <3>1, <3>2
  <2> QED
    BY <1>1, <2>1, <2>2 DEF IsWalk, Ascending, Ids
<1>3. IsStackOf(<<>>, {})
  BY DEF IsStackOf, Ascending, Range
<1>4. \A kinds : Standing(walk, kinds) = {}
  BY <1>2 DEF Standing
<1>5. Knows(ctx, walk)
  <2>1. \A s \in Stacks : ctx[s] = <<>>
    BY <1>1 DEF EmptyContext, Stacks
  <2>2. DOMAIN ctx.elseifs = {}
    BY <1>1 DEF EmptyContext
  <2>3. <<>> \in Seq(Nat)
    BY EmptySeq
  <2>4. Follows(ctx, walk)
    BY <1>3, <1>4, <2>1, <2>2, KindsApart DEF Follows
  <2>5. DOMAIN ctx = DOMAIN EmptyContext
    BY <1>1
  <2>6. \A s \in Stacks : ctx[s] \in Seq(Nat)
    BY <2>1, <2>3
  <2> QED
    BY <2>4, <2>5, <2>6 DEF Knows
<1>6. Restores(backups, walk, <<>>)
  <2>1. LambdasIn(walk) = {} /\ Len(backups) = 0 /\ <<>> \in Seq(Nat) /\ Len(<<>>) = 0
    BY <1>1, <1>2 DEF LambdasIn
  <2> QED
    BY <1>3, <2>1 DEF Restores
<1> QED
  BY <1>1, <1>2, <1>5, <1>6 DEF ContextInv, Sound

\* The invariant is inductive.
LEMMA ContextInvNext ==
    ASSUME ContextInv, [Next]_vars
    PROVE  ContextInv'
<1>1. CASE EnterIf
  BY <1>1, EnterIfKeeps
<1>2. CASE EnterConstexprIf
  BY <1>2, EnterConstexprIfKeeps
<1>3. CASE LeaveIf
  BY <1>3, LeaveIfKeeps
<1>4. CASE \E b \in BOOLEAN : EnterThen(b) \/ EnterElse(b)
  BY <1>4, EnterBranchKeeps
<1>5. CASE \E kind \in Loops : EnterLoop(kind)
  BY <1>5, EnterLoopKeeps
<1>6. CASE LeaveLoop \/ LeaveConditional \/ LeaveTry \/ LeaveSwitch
  BY <1>6, LeaveBlockKeeps
<1>7. CASE EnterTry
  BY <1>7, EnterTryKeeps
<1>8. CASE EnterCatch \/ EnterCase \/ EnterConditionalElse
  BY <1>8, NextPartKeeps
<1>9. CASE EnterSwitch
  BY <1>9, EnterSwitchKeeps
<1>10. CASE EnterConditional
  BY <1>10, EnterConditionalKeeps
<1>11. CASE \E kind \in Messengers, r, i \in BOOLEAN : EnterMessenger(kind, r, i)
  BY <1>11, EnterMessengerKeeps
<1>12. CASE LeaveMessenger
  BY <1>12, LeaveMessengerKeeps
<1>13. CASE PopMessage
  BY <1>13, PopMessageKeeps
<1>14. CASE \E i, p \in BOOLEAN : EnterLambda(i, p)
  BY <1>14, EnterAnyLambdaKeeps
<1>15. CASE LeaveLambda
  <2>1. /\ walk # <<>> /\ Top.kind = "Lambda" /\ Close
        /\ ctx' = Last(backups) /\ backups' = Front(backups) /\ nodes' = nodes
    BY <1>15 DEF LeaveLambda, IsTop
  <2> QED
    BY <2>1, LeaveLambdaKeeps
<1>16. CASE Finish \/ UNCHANGED vars
  <2>1. walk' = walk /\ ctx' = ctx /\ backups' = backups /\ nodes' = nodes
    BY <1>16 DEF Finish, vars
  <2> QED
    BY <2>1 DEF ContextInv
<1> QED
  BY <1>1, <1>2, <1>3, <1>4, <1>5, <1>6, <1>7, <1>8, <1>9, <1>10, <1>11, <1>12,
     <1>13, <1>14, <1>15, <1>16 DEF Next

\* The context and its backups follow the traversal, whatever the syntax tree.
THEOREM ContextInvariance == Spec => []ContextInv
<1>1. Init => ContextInv
  BY ContextInvInit
<1>2. ContextInv /\ [Next]_vars => ContextInv'
  BY ContextInvNext
<1> QED
  BY <1>1, <1>2, PTL DEF Spec

\* At every point of a traversal current_ifstmt() and its like see exactly the
\* statements around that point, in the order of their nesting; after a lambda
\* they see what they saw before it.
THEOREM ContextIsExact == Spec => []ContextFollowsWalk
<1>1. ContextInv => ContextFollowsWalk
  BY DEF ContextInv, Sound, IsWalk, Knows, ContextFollowsWalk
<1> QED
  BY <1>1, ContextInvariance, PTL
--------------------------------------------------------------------------------
(***************************************************************************)
(* Messages and where they are                                             *)
(***************************************************************************)
Entry == [type : BeginTypes \cup EndTypes \cup PlainTypes \cup {"kCase"},
          at : Nat, included : BOOLEAN]

\* The types of the messages that wait for their expression to be left.
Waited == {"kCall", "kReturn", "kCoReturn", "kCoYield", "kCoAwait"}

\* The statements and expressions that begin a block of the activity.
IsBlock(f) ==
    f.kind \in Loops \cup {"Try", "Switch", "Conditional"} \/ (f.kind = "If" /\ ~f.elseif)

\* The statements that begin a block know where, and messages wait under
\* expressions only.
SoundFrame(f) ==
    /\ f.caller \in Activity /\ f.begin \in Nat
    /\ IsBlock(f) <=> f.begin # 0
    /\ f.begin # 0 => f.block \in BeginTypes
    /\ f.pending \in Seq(Range(f.pending))
    /\ f.kind \notin Messengers => f.pending = <<>>
    /\ \A i, j \in DOMAIN f.pending : f.pending[i] = f.pending[j] => i = j

\* OwnBlockStands of SequenceModel, for the activities together ...
BlocksStand(w, ms) ==
    /\ \A k \in DOMAIN w : w[k].begin # 0 =>
          /\ w[k].begin \in DOMAIN ms[w[k].caller]
          /\ ms[w[k].caller][w[k].begin].type = w[k].block
    /\ \A j, k \in DOMAIN w :
          j < k /\ w[j].begin # 0 /\ w[k].begin # 0 /\ w[j].caller = w[k].caller
              => w[j].begin < w[k].begin

\* ... and ClosedBlocksHoldWork.
ClosedHoldWork(w, ms) ==
    \A a \in Activity : \A i \in DOMAIN ms[a] :
        ms[a][i].type \in BeginTypes =>
            \/ \E k \in DOMAIN w : w[k].caller = a /\ w[k].begin = i
            \/ \E j \in DOMAIN ms[a] : j > i /\ ms[a][j].type \in Work

\* A message waits under a frame, or stands in the list of its activity.
WaitsAt(w, p, k) == p \in Range(w[k].pending)
StandsAt(ms, p, i) == i \in DOMAIN ms[p.from] /\ ms[p.from][i] = p.message

\* A pushed message is in one place, one that is work in some; and whatever
\* waits or stands was pushed.
Placed(w, ms, s) ==
    /\ \A a \in Activity : \A i \in DOMAIN ms[a] :
          ms[a][i].type \in Waited => [from |-> a, message |-> ms[a][i]] \in s
    /\ \A k \in DOMAIN w : Range(w[k].pending) \subseteq s
    /\ \A p \in s :
          /\ \A j, k \in DOMAIN w : WaitsAt(w, p, j) /\ WaitsAt(w, p, k) => j = k
          /\ \A i, j : StandsAt(ms, p, i) /\ StandsAt(ms, p, j) => i = j
          /\ \A k \in DOMAIN w : \A i : ~(WaitsAt(w, p, k) /\ StandsAt(ms, p, i))
          /\ IsWork(p) => \/ \E k \in DOMAIN w : WaitsAt(w, p, k)
                          \/ \E i : StandsAt(ms, p, i)

\* The messages pushed so far carry the numbers of nodes entered so far.
Pushed(s, n) ==
    \A p \in s : /\ p \in [from : Activity, message : Entry]
                 /\ p.message.type \in Waited /\ p.message.at <= n

\* What holds of the walk w, the messages ms, the messages s pushed so far and
\* the number n of nodes seen.
Tidy(w, ms, s, n) ==
    /\ w \in Seq(Range(w)) /\ n \in Nat
    /\ ms \in [Activity -> Seq(Entry)]
    /\ \A k \in DOMAIN w : SoundFrame(w[k])
    /\ BlocksStand(w, ms) /\ ClosedHoldWork(w, ms)
    /\ Placed(w, ms, s) /\ Pushed(s, n)

\* Frames that are the same to blocks and messages.
SameRole(f, g) ==
    /\ g.kind = f.kind /\ g.elseif = f.elseif /\ g.caller = f.caller
    /\ g.begin = f.begin /\ g.block = f.block /\ g.pending = f.pending

\* A frame is sound by its role.
LEMMA RoleFacts ==
    ASSUME NEW f, NEW g, SameRole(f, g), SoundFrame(f)
    PROVE  SoundFrame(g)
  BY DEF SameRole, SoundFrame, IsBlock

\* v is w, perhaps with other details, and n frames more.
Extends(v, w, n) ==
    /\ w \in Seq(Range(w)) /\ v \in Seq(Range(v)) /\ Len(v) = Len(w) + n
    /\ \A k \in 1..Len(w) : SameRole(w[k], v[k])

\* Details of frames do not matter.
LEMMA TidyAlike ==
    ASSUME NEW w, NEW ms, NEW s, NEW n, Tidy(w, ms, s, n),
           NEW v, Extends(v, w, 0), NEW m \in Nat, n <= m
    PROVE  Tidy(v, ms, s, m)
<1>1. /\ v \in Seq(Range(v)) /\ Len(w) \in Nat
      /\ DOMAIN w = 1..Len(w) /\ DOMAIN v = 1..Len(w)
  BY DEF Extends
<1>2. \A k \in 1..Len(w) : SameRole(w[k], v[k])
  BY DEF Extends
<1>3. \A k \in DOMAIN v : SoundFrame(v[k])
  BY <1>1, <1>2, RoleFacts DEF Tidy
<1>4. BlocksStand(v, ms)
  BY <1>1, <1>2 DEF Tidy, SameRole, BlocksStand
<1>5. ClosedHoldWork(v, ms)
  BY <1>1, <1>2 DEF Tidy, SameRole, ClosedHoldWork
<1>6. Placed(v, ms, s)
  BY <1>1, <1>2 DEF Tidy, SameRole, Placed, WaitsAt
<1>7. Pushed(s, m) /\ m \in Nat
  BY DEF Tidy, Pushed, Entry
<1> QED
  BY <1>1, <1>3, <1>4, <1>5, <1>6, <1>7 DEF Tidy

\* A frame that begins no block and under which nothing waits.
Idle(f) == f.begin = 0 /\ f.pending = <<>>

\* A walk with one frame more, which is idle.
LEMMA IdleFrame ==
    ASSUME NEW w, NEW v, Extends(v, w, 1), Idle(v[Len(w) + 1])
    PROVE  /\ DOMAIN w = 1..Len(w) /\ Len(w) \in Nat /\ DOMAIN v = 1..(Len(w) + 1)
           /\ \A k \in DOMAIN w : k \in DOMAIN v /\ SameRole(w[k], v[k])
           /\ \A k \in DOMAIN v : k \in DOMAIN w \/ (k = Len(w) + 1 /\ Idle(v[k]))
           /\ \A p : ~WaitsAt(v, p, Len(w) + 1)
<1>1. /\ DOMAIN w = 1..Len(w) /\ Len(w) \in Nat /\ DOMAIN v = 1..(Len(w) + 1)
      /\ \A k \in 1..Len(w) : SameRole(w[k], v[k])
  BY DEF Extends
<1>2. \A p : ~WaitsAt(v, p, Len(w) + 1)
  BY DEF WaitsAt, Range, Idle
<1> QED
  BY <1>1, <1>2

\* Entering an idle frame.
LEMMA TidyOpen ==
    ASSUME NEW w, NEW ms, NEW s, NEW n, Tidy(w, ms, s, n),
           NEW v, Extends(v, w, 1), Idle(v[Len(w) + 1]), SoundFrame(v[Len(w) + 1])
    PROVE  Tidy(v, ms, s, n)
<1>1. /\ DOMAIN w = 1..Len(w) /\ Len(w) \in Nat /\ DOMAIN v = 1..(Len(w) + 1)
      /\ \A k \in DOMAIN w : k \in DOMAIN v /\ SameRole(w[k], v[k])
      /\ \A k \in DOMAIN v : k \in DOMAIN w \/ (k = Len(w) + 1 /\ Idle(v[k]))
      /\ \A p : ~WaitsAt(v, p, Len(w) + 1)
  BY IdleFrame
<1>2. \A k \in DOMAIN v : SoundFrame(v[k])
  <2>1. \A k \in DOMAIN w : SoundFrame(v[k])
    BY <1>1, RoleFacts DEF Tidy
  <2> QED
    BY <1>1, <2>1
<1>3. BlocksStand(v, ms)
  BY ZenonT(30), <1>1 DEF Tidy, SameRole, BlocksStand, Idle
<1>4. ClosedHoldWork(v, ms)
  <2> SUFFICES ASSUME NEW a \in Activity, NEW i \in DOMAIN ms[a],
                      NEW k \in DOMAIN w, w[k].caller = a, w[k].begin = i
               PROVE  \E j \in DOMAIN v : v[j].caller = a /\ v[j].begin = i
    BY DEF Tidy, ClosedHoldWork
  <2> QED
    BY <1>1 DEF SameRole
<1>5. \A p : \A k \in DOMAIN v : WaitsAt(v, p, k) => k \in DOMAIN w /\ WaitsAt(w, p, k)
  BY <1>1 DEF SameRole, WaitsAt
<1>6. \A p : \A k \in DOMAIN w : WaitsAt(w, p, k) => k \in DOMAIN v /\ WaitsAt(v, p, k)
  BY <1>1 DEF SameRole, WaitsAt
<1>7. Placed(v, ms, s)
  <2>1. \A k \in DOMAIN v : Range(v[k].pending) \subseteq s
    BY <1>5 DEF Tidy, Placed, WaitsAt
  <2> QED
    BY <1>5, <1>6, <2>1 DEF Tidy, Placed
<1> QED
  BY <1>2, <1>3, <1>4, <1>7 DEF Tidy, Extends

\* Leaving an idle frame.
LEMMA TidyClose ==
    ASSUME NEW v, NEW ms, NEW s, NEW n, Tidy(v, ms, s, n),
           NEW w, Extends(v, w, 1), Idle(v[Len(w) + 1])
    PROVE  Tidy(w, ms, s, n)
<1>1. /\ DOMAIN w = 1..Len(w) /\ Len(w) \in Nat /\ DOMAIN v = 1..(Len(w) + 1)
      /\ \A k \in DOMAIN w : k \in DOMAIN v /\ SameRole(w[k], v[k])
      /\ \A k \in DOMAIN v : k \in DOMAIN w \/ (k = Len(w) + 1 /\ Idle(v[k]))
      /\ \A p : ~WaitsAt(v, p, Len(w) + 1)
  BY IdleFrame
<1>2. \A k \in DOMAIN w : SoundFrame(w[k])
  <2>1. \A k \in DOMAIN w : k \in DOMAIN v /\ SameRole(v[k], w[k])
    BY <1>1 DEF SameRole
  <2>2. \A k \in DOMAIN v : SoundFrame(v[k])
    BY DEF Tidy
  <2> QED
    BY ONLY <2>1, <2>2, RoleFacts
<1>3. BlocksStand(w, ms)
  BY SMTT(30), <1>1 DEF Tidy, SameRole, BlocksStand
<1>4. ClosedHoldWork(w, ms)
  <2> SUFFICES ASSUME NEW a \in Activity, NEW i \in DOMAIN ms[a],
                      ms[a][i].type \in BeginTypes,
                      NEW k \in DOMAIN v, v[k].caller = a, v[k].begin = i
               PROVE  \E j \in DOMAIN w : w[j].caller = a /\ w[j].begin = i
    BY DEF Tidy, ClosedHoldWork
  <2>1. i # 0
    <3>1. ms[a] \in Seq(Entry)
      BY DEF Tidy
    <3> QED
      BY <3>1
  <2> QED
    BY <1>1, <2>1 DEF Idle, SameRole
<1>5. \A p : \A k \in DOMAIN v : WaitsAt(v, p, k) => k \in DOMAIN w /\ WaitsAt(w, p, k)
  BY <1>1 DEF SameRole, WaitsAt
<1>6. \A p : \A k \in DOMAIN w : WaitsAt(w, p, k) => k \in DOMAIN v /\ WaitsAt(v, p, k)
  BY <1>1 DEF SameRole, WaitsAt
<1>7. Placed(w, ms, s)
  <2>1. \A k \in DOMAIN w : Range(w[k].pending) \subseteq s
    BY <1>6 DEF Tidy, Placed, WaitsAt
  <2> QED
    BY <1>5, <1>6, <2>1 DEF Tidy, Placed
<1> QED
  BY <1>2, <1>3, <1>4, <1>7 DEF Tidy, Extends

\* Messages of one activity and those of the others.
LEMMA PutFacts ==
    ASSUME NEW ms \in [Activity -> Seq(Entry)], NEW a \in Activity, NEW q \in Seq(Entry)
    PROVE  LET ns == [ms EXCEPT ![a] = q]
           IN  /\ ns \in [Activity -> Seq(Entry)]
               /\ ns[a] = q /\ \A b \in Activity : b # a => ns[b] = ms[b]
  OBVIOUS

\* Nothing that waits comes or moves, and no work goes.
SameWork(ms, ns) ==
    \A a \in Activity :
        /\ \A i \in DOMAIN ns[a] :
              ns[a][i].type \in Waited => i \in DOMAIN ms[a] /\ ms[a][i] = ns[a][i]
        /\ \A i \in DOMAIN ms[a] :
              ms[a][i].type \in Work => i \in DOMAIN ns[a] /\ ns[a][i] = ms[a][i]

\* The other messages do not matter for the places of those that wait.
LEMMA PlacedStays ==
    ASSUME NEW w, NEW ms, NEW s, NEW n, Placed(w, ms, s), Pushed(s, n),
           NEW ns, SameWork(ms, ns)
    PROVE  Placed(w, ns, s)
<1>1. ASSUME NEW p \in s, NEW i, StandsAt(ns, p, i) PROVE StandsAt(ms, p, i)
  BY <1>1 DEF SameWork, StandsAt, Pushed
<1>2. ASSUME NEW p \in s, NEW i, StandsAt(ms, p, i), IsWork(p) PROVE StandsAt(ns, p, i)
  BY <1>2 DEF SameWork, StandsAt, Pushed, IsWork, Work
<1>3. \A a \in Activity : \A i \in DOMAIN ns[a] :
          ns[a][i].type \in Waited => [from |-> a, message |-> ns[a][i]] \in s
  BY DEF SameWork, Placed
<1> QED
  BY <1>1, <1>2, <1>3 DEF Placed

\* Types that tell whether a message begins a block, ends one, waits or is work.
LEMMA TypesApart ==
    /\ Work \subseteq Waited /\ BeginTypes \cap (Waited \cup EndTypes) = {}
    /\ EndTypes \cap Waited = {}
    /\ \A t \in BeginTypes : EndOf(t) \in EndTypes
  BY DEF Work, Waited, BeginTypes, EndTypes, EndOf

\* What Append() does to one activity.
LEMMA AppendedTo ==
    ASSUME NEW ms \in [Activity -> Seq(Entry)], NEW a \in Activity, NEW m \in Entry
    PROVE  LET ns == [ms EXCEPT ![a] = Append(@, m)]
           IN  /\ ns \in [Activity -> Seq(Entry)]
               /\ DOMAIN ms[a] = 1..Len(ms[a]) /\ Len(ms[a]) \in Nat
               /\ DOMAIN ns[a] = 1..(Len(ms[a]) + 1)
               /\ \A i \in 1..Len(ms[a]) : ns[a][i] = ms[a][i]
               /\ ns[a][Len(ms[a]) + 1] = m
               /\ \A b \in Activity : b # a => ns[b] = ms[b]
<1>1. ms[a] \in Seq(Entry)
  OBVIOUS
<1>2. Append(ms[a], m) \in Seq(Entry)
  BY <1>1
<1> QED
  BY <1>1, <1>2, PushFacts, PutFacts

\* Any message but the beginning of a block leaves the blocks as they are.
LEMMA BlocksStay ==
    ASSUME NEW w, NEW ms \in [Activity -> Seq(Entry)], BlocksStand(w, ms),
           ClosedHoldWork(w, ms), \A k \in DOMAIN w : SoundFrame(w[k]),
           NEW a \in Activity, NEW m \in Entry, m.type \notin BeginTypes
    PROVE  LET ns == [ms EXCEPT ![a] = Append(@, m)]
           IN  BlocksStand(w, ns) /\ ClosedHoldWork(w, ns)
<1> DEFINE ns == [ms EXCEPT ![a] = Append(@, m)]
<1>1. /\ ns \in [Activity -> Seq(Entry)]
      /\ DOMAIN ms[a] = 1..Len(ms[a]) /\ Len(ms[a]) \in Nat
      /\ DOMAIN ns[a] = 1..(Len(ms[a]) + 1)
      /\ \A i \in 1..Len(ms[a]) : ns[a][i] = ms[a][i]
      /\ ns[a][Len(ms[a]) + 1] = m
      /\ \A b \in Activity : b # a => ns[b] = ms[b]
  BY AppendedTo
<1> HIDE DEF ns
<1>2. \A b \in Activity : \A i \in DOMAIN ms[b] : i \in DOMAIN ns[b] /\ ns[b][i] = ms[b][i]
  <2> SUFFICES ASSUME NEW b \in Activity, NEW i \in DOMAIN ms[b]
               PROVE  i \in DOMAIN ns[b] /\ ns[b][i] = ms[b][i]
    OBVIOUS
  <2>1. CASE b = a
    BY <1>1, <2>1
  <2> QED
    BY <1>1, <2>1
<1>3. \A b \in Activity : \A i \in DOMAIN ns[b] :
          (i \in DOMAIN ms[b] /\ ns[b][i] = ms[b][i]) \/ ns[b][i] = m
  <2> SUFFICES ASSUME NEW b \in Activity, NEW i \in DOMAIN ns[b]
               PROVE  (i \in DOMAIN ms[b] /\ ns[b][i] = ms[b][i]) \/ ns[b][i] = m
    OBVIOUS
  <2>1. CASE b = a
    BY <1>1, <2>1
  <2> QED
    BY <1>1, <2>1
<1>4. BlocksStand(w, ns)
  BY <1>2 DEF BlocksStand, SoundFrame
<1>5. ClosedHoldWork(w, ns)
  <2> SUFFICES ASSUME NEW b \in Activity, NEW i \in DOMAIN ns[b], ns[b][i].type \in BeginTypes
               PROVE  \/ \E k \in DOMAIN w : w[k].caller = b /\ w[k].begin = i
                      \/ \E j \in DOMAIN ns[b] : j > i /\ ns[b][j].type \in Work
    BY DEF ClosedHoldWork
  <2>1. i \in DOMAIN ms[b] /\ ms[b][i].type \in BeginTypes
    BY <1>3
  <2> QED
    BY <1>2, <2>1 DEF ClosedHoldWork
<1> QED
  BY <1>4, <1>5 DEF ns

\* Any message but the beginning of a block, or one that has waited, is recorded.
LEMMA TidyRecord ==
    ASSUME NEW w, NEW ms, NEW s, NEW n, Tidy(w, ms, s, n),
           NEW a \in Activity, NEW m \in Entry, m.type \notin BeginTypes \cup Waited
    PROVE  Tidy(w, [ms EXCEPT ![a] = Append(@, m)], s, n)
<1> DEFINE ns == [ms EXCEPT ![a] = Append(@, m)]
<1>1. BlocksStand(w, ns) /\ ClosedHoldWork(w, ns)
  BY BlocksStay DEF Tidy
<1>2. /\ ns \in [Activity -> Seq(Entry)]
      /\ DOMAIN ms[a] = 1..Len(ms[a]) /\ Len(ms[a]) \in Nat
      /\ DOMAIN ns[a] = 1..(Len(ms[a]) + 1)
      /\ \A i \in 1..Len(ms[a]) : ns[a][i] = ms[a][i]
      /\ ns[a][Len(ms[a]) + 1] = m
      /\ \A b \in Activity : b # a => ns[b] = ms[b]
  BY AppendedTo DEF Tidy
<1> HIDE DEF ns
<1>3. \A b \in Activity : \A i \in DOMAIN ns[b] :
          (i \in DOMAIN ms[b] /\ ns[b][i] = ms[b][i]) \/ ns[b][i] = m
  BY <1>2
<1>4. \A b \in Activity : \A i \in DOMAIN ms[b] : i \in DOMAIN ns[b] /\ ns[b][i] = ms[b][i]
  BY ONLY <1>2
<1>5. SameWork(ms, ns)
  BY <1>3, <1>4 DEF SameWork
<1>6. Placed(w, ns, s)
  BY <1>5, PlacedStays DEF Tidy
<1> QED
  BY <1>1, <1>2, <1>6 DEF Tidy, ns

\* A block is entered: its frame knows where the message is that begins it.
LEMMA TidyBegin ==
    ASSUME NEW w, NEW ms, NEW s, NEW n, Tidy(w, ms, s, n),
           NEW v, Extends(v, w, 1), NEW f, f = v[Len(w) + 1], SoundFrame(f),
           f.pending = <<>>, f.begin = Len(ms[f.caller]) + 1,
           NEW m \in Entry, m.type = f.block, m.type \in BeginTypes
    PROVE  Tidy(v, [ms EXCEPT ![f.caller] = Append(@, m)], s, n)
<1> DEFINE a == f.caller
           ns == [ms EXCEPT ![a] = Append(@, m)]
<1>1. a \in Activity /\ ms \in [Activity -> Seq(Entry)]
  BY DEF SoundFrame, Tidy
<1>2. /\ ns \in [Activity -> Seq(Entry)]
      /\ DOMAIN ms[a] = 1..Len(ms[a]) /\ Len(ms[a]) \in Nat
      /\ DOMAIN ns[a] = 1..(Len(ms[a]) + 1)
      /\ \A i \in 1..Len(ms[a]) : ns[a][i] = ms[a][i]
      /\ ns[a][Len(ms[a]) + 1] = m
      /\ \A b \in Activity : b # a => ns[b] = ms[b]
  BY <1>1, AppendedTo
<1>3. f.begin = Len(ms[a]) + 1 /\ f.block = m.type
  OBVIOUS
<1> HIDE DEF ns, a
<1>4. \A b \in Activity : \A i \in DOMAIN ms[b] : i \in DOMAIN ns[b] /\ ns[b][i] = ms[b][i]
  BY SMTT(30), <1>2
<1>5. \A b \in Activity : \A i \in DOMAIN ns[b] :
          \/ i \in DOMAIN ms[b] /\ ns[b][i] = ms[b][i]
          \/ b = a /\ i = Len(ms[a]) + 1 /\ ns[b][i] = m
  BY <1>2
<1>6. /\ DOMAIN w = 1..Len(w) /\ Len(w) \in Nat /\ DOMAIN v = 1..(Len(w) + 1)
      /\ \A k \in DOMAIN w : SameRole(w[k], v[k])
  BY DEF Extends
<1>7. \A k \in DOMAIN v : k \in DOMAIN w \/ (k = Len(w) + 1 /\ v[k] = f)
  BY <1>6
<1>8. \A k \in DOMAIN v : SoundFrame(v[k])
  <2>1. \A k \in DOMAIN w : SoundFrame(v[k])
    BY <1>6, RoleFacts DEF Tidy
  <2> QED
    BY <1>7, <2>1
<1>9. BlocksStand(v, ns)
  <2>1. ASSUME NEW k \in DOMAIN v, v[k].begin # 0
        PROVE  /\ v[k].begin \in DOMAIN ns[v[k].caller]
               /\ ns[v[k].caller][v[k].begin].type = v[k].block
    <3>1. CASE k \in DOMAIN w
      <4>1. /\ w[k].caller \in Activity /\ w[k].begin \in DOMAIN ms[w[k].caller]
            /\ ms[w[k].caller][w[k].begin].type = w[k].block
        BY <1>6, <2>1, <3>1 DEF Tidy, BlocksStand, SameRole, SoundFrame
      <4> QED
        BY <1>4, <1>6, <3>1, <4>1 DEF SameRole
    <3>2. CASE k = Len(w) + 1 /\ v[k] = f
      BY <1>2, <1>3, <3>2 DEF a
    <3> QED
      BY <1>7, <3>1, <3>2
  <2>2. ASSUME NEW j \in DOMAIN v, NEW k \in DOMAIN v, j < k, v[j].begin # 0,
               v[k].begin # 0, v[j].caller = v[k].caller
        PROVE  v[j].begin < v[k].begin
    <3>1. j \in DOMAIN w /\ SameRole(w[j], v[j])
      BY <1>6, <2>2
    <3>2. CASE k \in DOMAIN w
      BY <1>6, <2>2, <3>1, <3>2 DEF Tidy, BlocksStand, SameRole
    <3>3. CASE k = Len(w) + 1 /\ v[k] = f
      <4>1. w[j].begin \in DOMAIN ms[w[j].caller] /\ w[j].caller = a
        BY <2>2, <3>1, <3>3 DEF Tidy, BlocksStand, SameRole, a
      <4>2. v[j].begin \in 1..Len(ms[a]) /\ v[k].begin = Len(ms[a]) + 1
        BY <1>2, <1>3, <3>1, <3>3, <4>1 DEF SameRole
      <4> QED
        BY <1>2, <4>2
    <3> QED
      BY <1>7, <3>2, <3>3
  <2> QED
    BY <2>1, <2>2 DEF BlocksStand
<1>10. ClosedHoldWork(v, ns)
  <2> SUFFICES ASSUME NEW b \in Activity, NEW i \in DOMAIN ns[b], ns[b][i].type \in BeginTypes
               PROVE  \/ \E k \in DOMAIN v : v[k].caller = b /\ v[k].begin = i
                      \/ \E j \in DOMAIN ns[b] : j > i /\ ns[b][j].type \in Work
    BY DEF ClosedHoldWork
  <2>1. CASE i \in DOMAIN ms[b] /\ ns[b][i] = ms[b][i]
    <3>1. \/ \E k \in DOMAIN w : w[k].caller = b /\ w[k].begin = i
          \/ \E j \in DOMAIN ms[b] : j > i /\ ms[b][j].type \in Work
      BY <2>1 DEF Tidy, ClosedHoldWork
    <3>2. \A k \in DOMAIN w : k \in DOMAIN v
      BY <1>6
    <3> QED
      BY <1>4, <1>6, <3>1, <3>2 DEF SameRole
  <2>2. CASE b = a /\ i = Len(ms[a]) + 1
    <3>1. Len(w) + 1 \in DOMAIN v /\ v[Len(w) + 1] = f
      BY <1>6
    <3> QED
      BY <1>3, <2>2, <3>1 DEF a
  <2> QED
    BY <1>5, <2>1, <2>2
<1>11. SameWork(ms, ns)
  BY <1>4, <1>5, TypesApart DEF SameWork
<1>12. Placed(v, ns, s)
  <2>1. Placed(w, ns, s)
    BY <1>11, PlacedStays DEF Tidy
  <2>2. \A p : \A k \in DOMAIN v : WaitsAt(v, p, k) => k \in DOMAIN w /\ WaitsAt(w, p, k)
    <3>1. \A p : \A k \in DOMAIN w : WaitsAt(v, p, k) => WaitsAt(w, p, k)
      BY <1>6 DEF SameRole, WaitsAt
    <3>2. ASSUME NEW k, v[k] = f PROVE \A p : ~WaitsAt(v, p, k)
      BY <3>2 DEF WaitsAt, Range
    <3> QED
      BY <1>7, <3>1, <3>2
  <2>3. \A p : \A k \in DOMAIN w : WaitsAt(w, p, k) => k \in DOMAIN v /\ WaitsAt(v, p, k)
    BY <1>6 DEF SameRole, WaitsAt
  <2>4. \A k \in DOMAIN v : Range(v[k].pending) \subseteq s
    BY <2>1, <2>2 DEF Placed, WaitsAt
  <2> QED
    BY <2>1, <2>2, <2>3, <2>4 DEF Placed
<1> QED
  BY <1>2, <1>8, <1>9, <1>10, <1>12 DEF Tidy, Extends, ns, a

\* Folding a list of messages at b, the beginning of a block behind which every
\* beginning of a block is followed by work.
LEMMA FoldFacts ==
    ASSUME NEW ms \in Seq(Entry), NEW b \in DOMAIN ms, NEW t \in BeginTypes,
           ms[b].type = t, NEW m \in Entry,
           \A i \in DOMAIN ms : i > b /\ ms[i].type \in BeginTypes =>
               \E j \in DOMAIN ms : j > i /\ ms[j].type \in Work
    PROVE  \/ /\ FoldOrEnd(ms, t, m) = Append(ms, m)
              /\ \E j \in DOMAIN ms : j > b /\ ms[j].type \in Work
           \/ /\ FoldOrEnd(ms, t, m) = SubSeq(ms, 1, b - 1)
              /\ \A j \in DOMAIN ms : j >= b => ms[j].type \notin Work
<1> DEFINE found == FoundEmpty(ms, t)
<1>1. DOMAIN ms = 1..Len(ms) /\ Len(ms) \in Nat
  OBVIOUS
<1>2. found \subseteq {b}
  <2> SUFFICES ASSUME NEW i \in found PROVE i = b
    OBVIOUS
  <2>1. /\ i \in DOMAIN ms /\ ms[i].type = t
        /\ \A j \in DOMAIN ms : j > i => ms[j].type \notin Work \cup {t}
    BY DEF FoundEmpty
  <2>2. ~(i > b)
    BY <2>1
  <2>3. ~(b > i)
    BY <2>1
  <2> QED
    BY <1>1, <2>1, <2>2, <2>3
<1>3. CASE found = {}
  <2>1. FoldOrEnd(ms, t, m) = Append(ms, m)
    BY <1>3 DEF FoldOrEnd
  <2>2. PICK j \in DOMAIN ms : j > b /\ ms[j].type \in Work \cup {t}
    BY <1>3 DEF FoundEmpty
  <2>3. CASE ms[j].type = t
    <3>1. PICK l \in DOMAIN ms : l > j /\ ms[l].type \in Work
      BY <2>2, <2>3
    <3> QED
      BY <1>1, <2>1, <2>2, <3>1
  <2> QED
    BY <2>1, <2>2, <2>3
<1>4. CASE found # {}
  <2>1. found = {b}
    BY <1>2, <1>4
  <2>2. (CHOOSE i \in found : TRUE) = b
    BY <2>1
  <2>3. FoldOrEnd(ms, t, m) = SubSeq(ms, 1, b - 1)
    BY <1>4, <2>2 DEF FoldOrEnd
  <2>4. \A j \in DOMAIN ms : j > b => ms[j].type \notin Work
    BY <2>1 DEF FoundEmpty
  <2>5. ms[b].type \notin Work
    BY TypesApart
  <2> QED
    BY <1>1, <2>3, <2>4, <2>5
<1> QED
  BY <1>3, <1>4

\* A block is left and ended, or erased from where it begins.
LEMMA TidyEnd ==
    ASSUME NEW v, NEW ms, NEW s, NEW n, Tidy(v, ms, s, n),
           NEW w, Extends(v, w, 1), NEW f, f = v[Len(w) + 1], f.begin # 0,
           f.pending = <<>>, NEW m \in Entry, m.type \in EndTypes
    PROVE  Tidy(w, [ms EXCEPT ![f.caller] = FoldOrEnd(@, f.block, m)], s, n)
<1> DEFINE a == f.caller
           b == f.begin
           q == ms[a]
           r == FoldOrEnd(q, f.block, m)
           ns == [ms EXCEPT ![a] = r]
<1>1. /\ DOMAIN w = 1..Len(w) /\ Len(w) \in Nat /\ DOMAIN v = 1..(Len(w) + 1)
      /\ \A k \in DOMAIN w : SameRole(w[k], v[k])
  BY DEF Extends
<1>2. \A k \in DOMAIN v : k \in DOMAIN w \/ (k = Len(w) + 1 /\ v[k] = f)
  BY <1>1
<1>3. Len(w) + 1 \in DOMAIN v /\ SoundFrame(f)
  BY <1>1 DEF Tidy
<1>4. a \in Activity /\ q \in Seq(Entry) /\ b \in Nat /\ f.block \in BeginTypes
  BY <1>3 DEF SoundFrame, Tidy
<1>5. b \in DOMAIN q /\ q[b].type = f.block
  BY <1>3 DEF Tidy, BlocksStand
<1>6. \A k \in DOMAIN w : v[k].caller = a /\ v[k].begin # 0 => v[k].begin < b
  <2> SUFFICES ASSUME NEW k \in DOMAIN w, v[k].caller = a, v[k].begin # 0
               PROVE  v[k].begin < b
    OBVIOUS
  <2>1. k \in DOMAIN v /\ k < Len(w) + 1
    BY <1>1
  <2> QED
    BY <1>3, <2>1 DEF Tidy, BlocksStand
<1>7. \A i \in DOMAIN q : i > b /\ q[i].type \in BeginTypes =>
          \E j \in DOMAIN q : j > i /\ q[j].type \in Work
  <2> SUFFICES ASSUME NEW i \in DOMAIN q, i > b, q[i].type \in BeginTypes,
                      NEW k \in DOMAIN v, v[k].caller = a, v[k].begin = i
               PROVE  FALSE
    BY <1>4 DEF Tidy, ClosedHoldWork
  <2>1. i # 0 /\ i \in Nat
    BY <1>4
  <2>2. k \notin DOMAIN w
    BY <1>4, <1>6, <2>1
  <2> QED
    BY <1>2, <1>4, <2>1, <2>2
<1>8. \/ /\ r = Append(q, m)
         /\ \E j \in DOMAIN q : j > b /\ q[j].type \in Work
      \/ /\ r = SubSeq(q, 1, b - 1)
         /\ \A j \in DOMAIN q : j >= b => q[j].type \notin Work
  BY <1>4, <1>5, <1>7, FoldFacts
<1>9. DOMAIN q = 1..Len(q) /\ Len(q) \in Nat /\ b \in 1..Len(q)
  BY <1>4, <1>5
<1>10. /\ r \in Seq(Entry)
       /\ \A i \in DOMAIN q : i < b => i \in DOMAIN r
       /\ \A i \in DOMAIN r : \/ i \in DOMAIN q /\ r[i] = q[i]
                              \/ r[i] = m
       /\ \A i \in DOMAIN q : i \in DOMAIN r => r[i] = q[i]
       /\ \A i \in DOMAIN q : q[i].type \in Work => i \in DOMAIN r
       /\ b \in DOMAIN r => \E j \in DOMAIN q : j > b /\ q[j].type \in Work
  <2>1. CASE r = Append(q, m) /\ \E j \in DOMAIN q : j > b /\ q[j].type \in Work
    <3> HIDE DEF r, q, b
    <3>1. /\ r \in Seq(Entry) /\ DOMAIN r = 1..(Len(q) + 1)
          /\ \A i \in 1..Len(q) : r[i] = q[i]
          /\ r[Len(q) + 1] = m
      BY <1>4, <2>1, PushFacts
    <3> QED
      BY <1>9, <2>1, <3>1
  <2>2. CASE r = SubSeq(q, 1, b - 1) /\ \A j \in DOMAIN q : j >= b => q[j].type \notin Work
    <3> HIDE DEF r, q, b
    <3>1. /\ r \in Seq(Entry) /\ DOMAIN r = 1..(b - 1)
          /\ \A i \in 1..(b - 1) : r[i] = q[i]
      BY <1>4, <1>9, <2>2
    <3> QED
      BY <1>9, <2>2, <3>1
  <2> QED
    BY <1>8, <2>1, <2>2
<1>11. ns \in [Activity -> Seq(Entry)] /\ ns[a] = r /\ \A c \in Activity : c # a => ns[c] = ms[c]
  BY <1>4, <1>10, PutFacts DEF Tidy
<1>12. f.begin = b /\ f.caller = a /\ q = ms[a]
  OBVIOUS
<1> HIDE DEF a, b, q, r, ns
<1>13. \A k \in DOMAIN w : SoundFrame(w[k])
  <2>1. \A k \in DOMAIN w : k \in DOMAIN v /\ SameRole(v[k], w[k])
    BY <1>1 DEF SameRole
  <2>2. \A k \in DOMAIN v : SoundFrame(v[k])
    BY DEF Tidy
  <2> QED
    BY ONLY <2>1, <2>2, RoleFacts
<1>14. BlocksStand(w, ns)
  <2>1. ASSUME NEW k \in DOMAIN w, w[k].begin # 0
        PROVE  /\ w[k].begin \in DOMAIN ns[w[k].caller]
               /\ ns[w[k].caller][w[k].begin].type = w[k].block
    <3>1. /\ w[k].caller \in Activity /\ w[k].begin \in DOMAIN ms[w[k].caller]
          /\ ms[w[k].caller][w[k].begin].type = w[k].block
      BY <1>1, <1>13, <2>1 DEF Tidy, BlocksStand, SameRole, SoundFrame
    <3>2. CASE w[k].caller = a
      BY <1>1, <1>6, <1>10, <1>11, <1>12, <2>1, <3>1, <3>2 DEF SameRole
    <3> QED
      BY <1>11, <3>1, <3>2
  <2>2. \A j, k \in DOMAIN w :
          j < k /\ w[j].begin # 0 /\ w[k].begin # 0 /\ w[j].caller = w[k].caller
              => w[j].begin < w[k].begin
    BY <1>1 DEF Tidy, BlocksStand, SameRole
  <2> QED
    BY <2>1, <2>2 DEF BlocksStand
<1>15. ClosedHoldWork(w, ns)
  <2> SUFFICES ASSUME NEW c \in Activity, NEW i \in DOMAIN ns[c], ns[c][i].type \in BeginTypes
               PROVE  \/ \E k \in DOMAIN w : w[k].caller = c /\ w[k].begin = i
                      \/ \E j \in DOMAIN ns[c] : j > i /\ ns[c][j].type \in Work
    BY DEF ClosedHoldWork
  <2>1. i \in DOMAIN ms[c] /\ ms[c][i] = ns[c][i]
    BY <1>10, <1>11, <1>12, TypesApart
  <2>2. ASSUME NEW j \in DOMAIN ms[c], j > i, ms[c][j].type \in Work
        PROVE  \E l \in DOMAIN ns[c] : l > i /\ ns[c][l].type \in Work
    BY <1>10, <1>11, <1>12, <2>2
  <2>3. ASSUME NEW k \in DOMAIN v, v[k].caller = c, v[k].begin = i, k \notin DOMAIN w
        PROVE  \E l \in DOMAIN ns[c] : l > i /\ ns[c][l].type \in Work
    <3>1. c = a /\ i = b
      BY <1>2, <1>12, <2>3
    <3> QED
      BY <1>10, <1>11, <1>12, <2>2, <3>1
  <2>4. \A k \in DOMAIN v : k \in DOMAIN w =>
            w[k].caller = v[k].caller /\ w[k].begin = v[k].begin
    BY <1>1 DEF SameRole
  <2>5. \/ \E k \in DOMAIN v : v[k].caller = c /\ v[k].begin = i
        \/ \E j \in DOMAIN ms[c] : j > i /\ ms[c][j].type \in Work
    BY <2>1 DEF Tidy, ClosedHoldWork
  <2> QED
    BY ONLY <2>2, <2>3, <2>4, <2>5
<1>16. SameWork(ms, ns)
  BY <1>10, <1>11, <1>12, TypesApart DEF SameWork
<1>17. Placed(w, ns, s)
  <2>1. Placed(v, ns, s)
    BY <1>16, PlacedStays DEF Tidy
  <2>2. \A p : \A k \in DOMAIN v : WaitsAt(v, p, k) => k \in DOMAIN w /\ WaitsAt(w, p, k)
    <3>1. \A p : \A k \in DOMAIN w : WaitsAt(v, p, k) => WaitsAt(w, p, k)
      BY <1>1 DEF SameRole, WaitsAt
    <3>2. ASSUME NEW k, v[k] = f PROVE \A p : ~WaitsAt(v, p, k)
      BY <3>2 DEF WaitsAt, Range
    <3> QED
      BY <1>2, <3>1, <3>2
  <2>3. \A p : \A k \in DOMAIN w : WaitsAt(w, p, k) => k \in DOMAIN v /\ WaitsAt(v, p, k)
    BY <1>1 DEF SameRole, WaitsAt
  <2>4. \A k \in DOMAIN w : Range(w[k].pending) \subseteq s
    BY <2>1, <2>3 DEF Placed, WaitsAt
  <2> QED
    BY <2>1, <2>2, <2>3, <2>4 DEF Placed
<1> QED
  BY <1>11, <1>13, <1>14, <1>15, <1>17 DEF Tidy, Extends, ns, a, r, q

\* v is w but for what waits under frame k, which becomes q.
Requeued(v, w, k, q) ==
    /\ w \in Seq(Range(w)) /\ v \in Seq(Range(v)) /\ Len(v) = Len(w)
    /\ k \in 1..Len(w) /\ v[k].pending = q
    /\ \A j \in 1..Len(w) :
          /\ v[j].kind = w[j].kind /\ v[j].elseif = w[j].elseif
          /\ v[j].caller = w[j].caller /\ v[j].begin = w[j].begin
          /\ v[j].block = w[j].block
          /\ j # k => v[j].pending = w[j].pending

\* Blocks do not depend on what waits.
LEMMA RequeuedBlocks ==
    ASSUME NEW w, NEW v, NEW k, NEW q, Requeued(v, w, k, q),
           NEW ms \in [Activity -> Seq(Entry)], BlocksStand(w, ms), ClosedHoldWork(w, ms)
    PROVE  BlocksStand(v, ms) /\ ClosedHoldWork(v, ms)
<1>1. DOMAIN w = 1..Len(w) /\ DOMAIN v = 1..Len(w)
  BY DEF Requeued
<1>2. DOMAIN v = DOMAIN w
  BY <1>1
<1>3. \A j \in DOMAIN w : /\ v[j].caller = w[j].caller /\ v[j].begin = w[j].begin
                         /\ v[j].block = w[j].block
  BY <1>1 DEF Requeued
<1>4. BlocksStand(v, ms)
  BY <1>2, <1>3 DEF BlocksStand
<1>5. ClosedHoldWork(v, ms)
  <2> SUFFICES ASSUME NEW a \in Activity, NEW i \in DOMAIN ms[a],
                      NEW j \in DOMAIN w, w[j].caller = a, w[j].begin = i
               PROVE  \E l \in DOMAIN v : v[l].caller = a /\ v[l].begin = i
    BY DEF ClosedHoldWork
  <2> QED
    BY <1>2, <1>3
<1> QED
  BY <1>4, <1>5

\* The frames stay sound if the messages that wait stay different.
LEMMA RequeuedFrames ==
    ASSUME NEW w, NEW v, NEW k, NEW q, Requeued(v, w, k, q),
           \A j \in DOMAIN w : SoundFrame(w[j]), w[k].kind \in Messengers,
           q \in Seq(Range(q)), \A i, j \in DOMAIN q : q[i] = q[j] => i = j
    PROVE  \A j \in DOMAIN v : SoundFrame(v[j])
<1> SUFFICES ASSUME NEW j \in DOMAIN v PROVE SoundFrame(v[j])
  OBVIOUS
<1>1. /\ j \in 1..Len(w) /\ j \in DOMAIN w /\ SoundFrame(w[j])
  BY DEF Requeued
<1>2. /\ v[j].kind = w[j].kind /\ v[j].elseif = w[j].elseif
      /\ v[j].caller = w[j].caller /\ v[j].begin = w[j].begin
      /\ v[j].block = w[j].block /\ (j # k => v[j].pending = w[j].pending)
      /\ v[k].pending = q
  BY <1>1 DEF Requeued
<1>3. CASE j # k
  <2>1. SameRole(w[j], v[j])
    BY <1>2, <1>3 DEF SameRole
  <2> QED
    BY <1>1, <2>1, RoleFacts
<1>4. CASE j = k
  <2>1. v[j].pending = q /\ v[j].kind \in Messengers
    BY <1>2, <1>4
  <2>2. /\ v[j].caller \in Activity /\ v[j].begin \in Nat
        /\ IsBlock(v[j]) <=> v[j].begin # 0
        /\ v[j].begin # 0 => v[j].block \in BeginTypes
    BY <1>1, <1>2 DEF SoundFrame, IsBlock
  <2> QED
    BY <2>1, <2>2 DEF SoundFrame
<1> QED
  BY <1>3, <1>4

\* What waits after a message was added.
LEMMA AppendRange ==
    ASSUME NEW q, q \in Seq(Range(q)), NEW p
    PROVE  LET r == Append(q, p)
           IN  /\ r \in Seq(Range(r)) /\ Range(r) = Range(q) \cup {p}
               /\ p \notin Range(q) /\ (\A i, j \in DOMAIN q : q[i] = q[j] => i = j)
                    => \A i, j \in DOMAIN r : r[i] = r[j] => i = j
<1> DEFINE r == Append(q, p)
<1>1. q \in Seq(Range(q) \cup {p}) /\ p \in Range(q) \cup {p}
  BY SeqMonotonic
<1>2. /\ r \in Seq(Range(q) \cup {p}) /\ Len(q) \in Nat /\ Len(r) = Len(q) + 1
      /\ DOMAIN q = 1..Len(q) /\ DOMAIN r = 1..(Len(q) + 1)
      /\ \A i \in 1..Len(q) : r[i] = q[i]
      /\ r[Len(q) + 1] = p
  BY <1>1, PushFacts
<1> HIDE DEF r
<1>3. r \in Seq(Range(r))
  BY <1>2, SeqOfRange
<1>4. Range(r) = Range(q) \cup {p}
  BY <1>2 DEF Range
<1>5. ASSUME p \notin Range(q), \A i, j \in DOMAIN q : q[i] = q[j] => i = j,
             NEW i \in DOMAIN r, NEW j \in DOMAIN r, r[i] = r[j]
      PROVE  i = j
  <2>1. \A l \in 1..Len(q) : q[l] # p
    BY <1>2, <1>5 DEF Range
  <2> QED
    BY <1>2, <1>5, <2>1
<1> QED
  BY <1>3, <1>4, <1>5 DEF r

\* A message is pushed under an expression that is being visited.
LEMMA TidyWait ==
    ASSUME NEW w, NEW ms, NEW s, NEW n, Tidy(w, ms, s, n),
           NEW p \in [from : Activity, message : Entry], p.message.type \in Waited,
           p.message.at = n + 1,
           NEW v, NEW k, Requeued(v, w, k, Append(w[k].pending, p)), w[k].kind \in Messengers
    PROVE  Tidy(v, ms, s \cup {p}, n + 1)
<1>1. n \in Nat /\ k \in DOMAIN w /\ SoundFrame(w[k])
  BY DEF Tidy, Requeued
<1>2. \A x \in s : x.message # p.message
  BY <1>1 DEF Tidy, Pushed, Entry
<1>3. \A j \in DOMAIN w : ~WaitsAt(w, p, j)
  BY <1>2 DEF Tidy, Placed, WaitsAt
<1>4. \A i : ~StandsAt(ms, p, i)
  <2> SUFFICES ASSUME NEW i, StandsAt(ms, p, i) PROVE FALSE
    OBVIOUS
  <2>1. [from |-> p.from, message |-> ms[p.from][i]] \in s
    BY DEF StandsAt, Tidy, Placed
  <2>2. [from |-> p.from, message |-> ms[p.from][i]].message = p.message
    BY DEF StandsAt
  <2> QED
    BY <1>2, <2>1, <2>2
<1> DEFINE q == Append(w[k].pending, p)
<1>5. /\ q \in Seq(Range(q)) /\ Range(q) = Range(w[k].pending) \cup {p}
      /\ \A i, j \in DOMAIN q : q[i] = q[j] => i = j
  BY <1>1, <1>3, AppendRange DEF SoundFrame, WaitsAt
<1> HIDE DEF q
<1>6. Requeued(v, w, k, q)
  BY DEF q
<1>7. \A j \in DOMAIN v : SoundFrame(v[j])
  BY <1>5, <1>6, RequeuedFrames DEF Tidy
<1>8. BlocksStand(v, ms) /\ ClosedHoldWork(v, ms)
  BY <1>6, RequeuedBlocks DEF Tidy
<1>9. DOMAIN v = DOMAIN w
  BY <1>6 DEF Requeued
<1>10. /\ Range(v[k].pending) = Range(w[k].pending) \cup {p}
       /\ \A j \in DOMAIN w : j # k => v[j].pending = w[j].pending
  <2>1. DOMAIN w = 1..Len(w)
    BY <1>6 DEF Requeued
  <2> QED
    BY <1>5, <1>6, <2>1 DEF Requeued
<1>11. \A x : \A j \in DOMAIN w : WaitsAt(v, x, j) <=> WaitsAt(w, x, j) \/ (x = p /\ j = k)
  BY <1>10 DEF WaitsAt
<1>12. Placed(v, ms, s \cup {p})
  <2>1. \A a \in Activity : \A i \in DOMAIN ms[a] :
          ms[a][i].type \in Waited => [from |-> a, message |-> ms[a][i]] \in s \cup {p}
    BY DEF Tidy, Placed
  <2>2. \A j \in DOMAIN v : Range(v[j].pending) \subseteq s \cup {p}
    BY <1>9, <1>10 DEF Tidy, Placed
  <2>3. p \notin s
    BY <1>2
  <2>4. ASSUME NEW x \in s
        PROVE  /\ \A i, j \in DOMAIN v : WaitsAt(v, x, i) /\ WaitsAt(v, x, j) => i = j
               /\ \A i, j : StandsAt(ms, x, i) /\ StandsAt(ms, x, j) => i = j
               /\ \A j \in DOMAIN v : \A i : ~(WaitsAt(v, x, j) /\ StandsAt(ms, x, i))
               /\ IsWork(x) => \/ \E j \in DOMAIN v : WaitsAt(v, x, j)
                               \/ \E i : StandsAt(ms, x, i)
    <3>1. \A j \in DOMAIN v : j \in DOMAIN w /\ (WaitsAt(v, x, j) <=> WaitsAt(w, x, j))
      BY <1>9, <1>11, <2>3
    <3> QED
      BY <1>9, <3>1 DEF Tidy, Placed
  <2>5. /\ \A i, j \in DOMAIN v : WaitsAt(v, p, i) /\ WaitsAt(v, p, j) => i = j
        /\ \E j \in DOMAIN v : WaitsAt(v, p, j)
    BY <1>1, <1>3, <1>9, <1>11
  <2> QED
    BY <1>4, <2>1, <2>2, <2>4, <2>5 DEF Placed
<1>13. Pushed(s \cup {p}, n + 1)
  BY <1>1 DEF Tidy, Pushed, Entry
<1> QED
  BY <1>1, <1>6, <1>7, <1>8, <1>12, <1>13 DEF Tidy, Requeued

\* What waits after the first message was taken.
LEMMA TailRange ==
    ASSUME NEW q, q \in Seq(Range(q)), q # <<>>,
           \A i, j \in DOMAIN q : q[i] = q[j] => i = j
    PROVE  LET r == Tail(q)
           IN  /\ r \in Seq(Range(r)) /\ Range(r) = Range(q) \ {Head(q)}
               /\ Head(q) \in Range(q) /\ Len(r) = Len(q) - 1
               /\ \A i, j \in DOMAIN r : r[i] = r[j] => i = j
<1> DEFINE r == Tail(q)
<1>1. /\ Len(q) \in Nat \ {0} /\ DOMAIN q = 1..Len(q)
      /\ r \in Seq(Range(q)) /\ Len(r) = Len(q) - 1 /\ DOMAIN r = 1..(Len(q) - 1)
      /\ \A i \in 1..(Len(q) - 1) : r[i] = q[i + 1]
      /\ Head(q) = q[1]
  OBVIOUS
<1> HIDE DEF r
<1>2. r \in Seq(Range(r))
  BY <1>1, SeqOfRange
<1>3. ASSUME NEW x \in Range(r) PROVE x \in Range(q) \ {Head(q)}
  <2>1. PICK i \in 1..(Len(q) - 1) : x = r[i]
    BY <1>1, <1>3 DEF Range
  <2>2. i + 1 \in DOMAIN q /\ 1 \in DOMAIN q /\ i + 1 # 1 /\ x = q[i + 1]
    BY <1>1, <2>1
  <2> QED
    BY <1>1, <2>2 DEF Range
<1>4. ASSUME NEW x \in Range(q) \ {Head(q)} PROVE x \in Range(r)
  <2>1. PICK i \in 1..Len(q) : x = q[i]
    BY <1>1, <1>4 DEF Range
  <2>2. i # 1
    BY <1>1, <1>4, <2>1
  <2>3. i - 1 \in 1..(Len(q) - 1) /\ (i - 1) + 1 = i
    BY <1>1, <2>1, <2>2
  <2>4. i - 1 \in DOMAIN r /\ r[i - 1] = x
    BY <1>1, <2>1, <2>3
  <2> QED
    BY <2>4 DEF Range
<1>5. Head(q) \in Range(q)
  BY <1>1 DEF Range
<1>6. ASSUME NEW i \in DOMAIN r, NEW j \in DOMAIN r, r[i] = r[j] PROVE i = j
  <2>1. i + 1 \in DOMAIN q /\ j + 1 \in DOMAIN q /\ q[i + 1] = q[j + 1]
    BY <1>1, <1>6
  <2>2. i + 1 = j + 1
    BY <2>1
  <2> QED
    BY <1>1, <1>6, <2>2
<1> QED
  BY <1>1, <1>2, <1>3, <1>4, <1>5, <1>6 DEF r

\* The first message that waits is recorded in the activity it came from.
LEMMA TidyDeliver ==
    ASSUME NEW w, NEW ms, NEW s, NEW n, Tidy(w, ms, s, n),
           NEW v, NEW k, w[k].pending # <<>>, w[k].kind \in Messengers,
           NEW r, r = Tail(w[k].pending), Requeued(v, w, k, r),
           NEW p, p = Head(w[k].pending)
    PROVE  Tidy(v, [ms EXCEPT ![p.from] = Append(@, p.message)], s, n)
<1> DEFINE q == w[k].pending
           a == p.from
           m == p.message
           ns == [ms EXCEPT ![a] = Append(@, m)]
<1> HIDE DEF ns
<1>1. k \in DOMAIN w /\ SoundFrame(w[k])
  BY DEF Tidy, Requeued
<1>2. /\ r \in Seq(Range(r)) /\ Range(r) = Range(q) \ {p} /\ p \in Range(q)
      /\ \A i, j \in DOMAIN r : r[i] = r[j] => i = j
  BY <1>1, TailRange DEF SoundFrame
<1>3. p \in s /\ WaitsAt(w, p, k)
  BY <1>1, <1>2 DEF Tidy, Placed, WaitsAt
<1>4. /\ p \in [from : Activity, message : Entry] /\ m.type \in Waited
      /\ a \in Activity /\ m \in Entry /\ p = [from |-> a, message |-> m]
  BY <1>3 DEF Tidy, Pushed
<1>5. m.type \notin BeginTypes
  BY <1>4, TypesApart
<1>6. /\ ns \in [Activity -> Seq(Entry)]
      /\ DOMAIN ms[a] = 1..Len(ms[a]) /\ Len(ms[a]) \in Nat
      /\ DOMAIN ns[a] = 1..(Len(ms[a]) + 1)
      /\ \A i \in 1..Len(ms[a]) : ns[a][i] = ms[a][i]
      /\ ns[a][Len(ms[a]) + 1] = m
      /\ \A b \in Activity : b # a => ns[b] = ms[b]
  <2>1. ms \in [Activity -> Seq(Entry)]
    BY DEF Tidy
  <2> QED
    BY ONLY <1>4, <2>1, AppendedTo DEF ns
<1>7. \A j \in DOMAIN v : SoundFrame(v[j])
  <2>1. \A j \in DOMAIN w : SoundFrame(w[j])
    BY DEF Tidy
  <2>2. /\ r \in Seq(Range(r)) /\ \A i, j \in DOMAIN r : r[i] = r[j] => i = j
    BY <1>2
  <2>3. Requeued(v, w, k, r) /\ w[k].kind \in Messengers
    OBVIOUS
  <2> HIDE DEF m, a, q
  <2> QED
    BY ONLY <2>1, <2>2, <2>3, RequeuedFrames
<1>8. BlocksStand(w, ns) /\ ClosedHoldWork(w, ns)
  BY <1>4, <1>5, BlocksStay DEF Tidy, ns
<1>9. BlocksStand(v, ns) /\ ClosedHoldWork(v, ns)
  BY ONLY SMTT(30), <1>6, <1>8, Requeued(v, w, k, r), RequeuedBlocks
<1>10. DOMAIN w = 1..Len(w) /\ DOMAIN v = 1..Len(w)
  BY DEF Requeued
<1>11. /\ Range(v[k].pending) = Range(w[k].pending) \ {p}
       /\ \A j \in DOMAIN w : j # k => v[j].pending = w[j].pending
  BY <1>2, <1>10 DEF Requeued
<1>12. \A x : \A j \in DOMAIN w : WaitsAt(v, x, j) <=> WaitsAt(w, x, j) /\ ~(x = p /\ j = k)
  BY <1>11 DEF WaitsAt
<1>13. ASSUME NEW x \in s, NEW i
       PROVE  StandsAt(ns, x, i) <=> StandsAt(ms, x, i) \/ (x = p /\ i = Len(ms[a]) + 1)
  <2>1. x.from \in Activity /\ x = [from |-> x.from, message |-> x.message]
    BY DEF Tidy, Pushed
  <2>2. CASE x.from # a
    BY <1>4, <1>6, <2>1, <2>2 DEF StandsAt
  <2>3. CASE x.from = a
    <3>1. x.message = m <=> x = p
      BY <1>4, <2>1, <2>3
    <3>2. CASE i \in 1..Len(ms[a])
      BY ONLY SMTT(30), <1>6, <2>3, <3>2 DEF StandsAt
    <3>3. CASE i = Len(ms[a]) + 1
      <4> DEFINE l == Len(ms[a])
      <4>1. l \in Nat /\ DOMAIN ns[a] = 1..(l + 1) /\ DOMAIN ms[a] = 1..l /\ ns[a][l + 1] = m
        BY <1>6
      <4> HIDE DEF l
      <4>2. l + 1 \in DOMAIN ns[a] /\ l + 1 \notin DOMAIN ms[a]
        BY <4>1
      <4>3. i = l + 1
        BY <3>3 DEF l
      <4> QED
        BY <2>3, <3>1, <4>1, <4>2, <4>3 DEF StandsAt, l
    <3>4. CASE i \notin 1..Len(ms[a]) /\ i # Len(ms[a]) + 1
      <4>1. i \notin DOMAIN ns[a] /\ i \notin DOMAIN ms[a]
        BY ONLY SMTT(30), <1>6, <3>4
      <4> QED
        BY <2>3, <3>4, <4>1 DEF StandsAt
    <3> QED
      BY <3>2, <3>3, <3>4
  <2> QED
    BY <2>2, <2>3
<1>14. /\ \A j \in DOMAIN w : WaitsAt(w, p, j) => j = k
       /\ \A i : ~StandsAt(ms, p, i)
  BY <1>1, <1>3 DEF Tidy, Placed
<1>15. Placed(v, ns, s)
  <2>1. ASSUME NEW b \in Activity, NEW i \in DOMAIN ns[b], ns[b][i].type \in Waited
        PROVE  [from |-> b, message |-> ns[b][i]] \in s
    <3>5. \A c \in Activity : \A j \in DOMAIN ms[c] :
              ms[c][j].type \in Waited => [from |-> c, message |-> ms[c][j]] \in s
      BY DEF Tidy, Placed
    <3>1. CASE b # a
      BY ONLY <1>6, <2>1, <3>1, <3>5
    <3>2. CASE b = a /\ i \in 1..Len(ms[a])
      BY ONLY <1>6, <2>1, <3>2, <3>5
    <3>3. CASE b = a /\ i = Len(ms[a]) + 1
      BY ONLY <1>3, <1>4, <1>6, <3>3
    <3>4. ASSUME b = a PROVE i \in 1..Len(ms[a]) \/ i = Len(ms[a]) + 1
      <4>1. i \in 1..(Len(ms[a]) + 1)
        BY <1>6, <2>1, <3>4
      <4> QED
        BY ONLY SMTT(30), <1>6, <4>1
    <3> QED
      BY <3>1, <3>2, <3>3, <3>4
  <2>2. \A j \in DOMAIN v : Range(v[j].pending) \subseteq s
    BY <1>10, <1>12 DEF Tidy, Placed, WaitsAt
  <2>3. ASSUME NEW x \in s, x # p
        PROVE  /\ \A i, j \in DOMAIN v : WaitsAt(v, x, i) /\ WaitsAt(v, x, j) => i = j
               /\ \A i, j : StandsAt(ns, x, i) /\ StandsAt(ns, x, j) => i = j
               /\ \A j \in DOMAIN v : \A i : ~(WaitsAt(v, x, j) /\ StandsAt(ns, x, i))
               /\ IsWork(x) => \/ \E j \in DOMAIN v : WaitsAt(v, x, j)
                               \/ \E i : StandsAt(ns, x, i)
    <3>1. \A j \in DOMAIN v : j \in DOMAIN w /\ (WaitsAt(v, x, j) <=> WaitsAt(w, x, j))
      BY <1>10, <1>12, <2>3
    <3>2. \A i : StandsAt(ns, x, i) <=> StandsAt(ms, x, i)
      BY <1>13, <2>3
    <3>3. DOMAIN v = DOMAIN w
      BY <1>10
    <3> QED
      BY <3>1, <3>2, <3>3 DEF Tidy, Placed
  <2>4. /\ \A j \in DOMAIN v : ~WaitsAt(v, p, j)
        /\ \A i : StandsAt(ns, p, i) <=> i = Len(ms[a]) + 1
    <3>1. \A j \in DOMAIN v : ~WaitsAt(v, p, j)
      BY <1>10, <1>12, <1>14
    <3>2. \A i : StandsAt(ns, p, i) <=> i = Len(ms[a]) + 1
      BY <1>3, <1>13, <1>14
    <3> QED
      BY <3>1, <3>2
  <2>5. ASSUME NEW x \in s
        PROVE  /\ \A i, j \in DOMAIN v : WaitsAt(v, x, i) /\ WaitsAt(v, x, j) => i = j
               /\ \A i, j : StandsAt(ns, x, i) /\ StandsAt(ns, x, j) => i = j
               /\ \A j \in DOMAIN v : \A i : ~(WaitsAt(v, x, j) /\ StandsAt(ns, x, i))
               /\ IsWork(x) => \/ \E j \in DOMAIN v : WaitsAt(v, x, j)
                               \/ \E i : StandsAt(ns, x, i)
    <3>1. CASE x = p
      <4>1. StandsAt(ns, p, Len(ms[a]) + 1)
        BY <2>4
      <4>2. \A i, j : StandsAt(ns, p, i) /\ StandsAt(ns, p, j) => i = j
        BY <2>4
      <4> QED
        BY <2>4, <3>1, <4>1, <4>2
    <3> QED
      BY <2>3, <3>1
  <2> QED
    BY <2>1, <2>2, <2>5 DEF Placed
<1>16. v \in Seq(Range(v)) /\ n \in Nat /\ Pushed(s, n) /\ ns \in [Activity -> Seq(Entry)]
  BY <1>6 DEF Tidy, Requeued
<1>17. Tidy(v, ns, s, n)
  BY ONLY <1>7, <1>9, <1>15, <1>16 DEF Tidy
<1> QED
  BY ONLY <1>17 DEF ns
--------------------------------------------------------------------------------
(***************************************************************************)
(* The callers                                                             *)
(***************************************************************************)
\* The lambdas of a context are activities.
Sane(c) == c.lambdas \in Seq(Activity)

CallersInv ==
    /\ lambdas \in 0..MaxLambdas
    /\ Sane(ctx) /\ \A j \in DOMAIN backups : Sane(backups[j])

\* The caller is an activity.
LEMMA CallerIsActivity ==
    ASSUME CallersInv
    PROVE  CallerId \in Activity
<1>1. Function \in Activity
  BY VisitorAssumption DEF Function, Activity
<1>2. ctx.lambdas # <<>> => Last(ctx.lambdas) \in Activity
  BY PopFacts DEF CallersInv, Sane
<1> QED
  BY <1>1, <1>2 DEF CallerId

\* No statement but a lambda changes the lambdas of the context.
LEMMA CallersNext ==
    ASSUME ContextInv, CallersInv, [Next]_vars
    PROVE  CallersInv'
<1>1. "lambdas" \in DOMAIN ctx
  BY Here
<1>2. ASSUME ctx'.lambdas = ctx.lambdas, backups' = backups, lambdas' = lambdas
      PROVE  CallersInv'
  BY <1>2 DEF CallersInv, Sane
<1>3. CASE EnterIf
  <2>1. EnterElseIfStmt(nodes + 1).lambdas = ctx.lambdas
    BY <1>1 DEF EnterElseIfStmt
  <2>2. EnterIfStmt(nodes + 1).lambdas = ctx.lambdas
    BY <1>1 DEF EnterIfStmt
  <2> QED
    BY <1>2, <1>3, <2>1, <2>2 DEF EnterIf
<1>4. CASE LeaveIf
  <2>1. LeaveIfStmt.lambdas = ctx.lambdas
    BY <1>1 DEF LeaveIfStmt
  <2> QED
    BY <1>2, <1>4, <2>1 DEF LeaveIf
<1>5. CASE EnterConstexprIf \/ EnterCatch \/ EnterCase \/ EnterConditionalElse \/ PopMessage
  BY <1>2, <1>5 DEF EnterConstexprIf, EnterCatch, EnterCase, EnterConditionalElse, PopMessage
<1>6. CASE \E b \in BOOLEAN : EnterThen(b) \/ EnterElse(b)
  BY <1>2, <1>6 DEF EnterThen, EnterElse
<1>7. CASE \E kind \in Loops : EnterLoop(kind)
  BY <1>1, <1>2, <1>7 DEF EnterLoop, OpenBlock
<1>8. CASE LeaveLoop \/ LeaveConditional
  BY <1>1, <1>2, <1>8 DEF LeaveLoop, LeaveConditional, CloseBlock
<1>9. CASE EnterTry \/ EnterSwitch \/ EnterConditional
  BY <1>1, <1>2, <1>9 DEF EnterTry, EnterSwitch, EnterConditional, OpenBlock
<1>10. CASE LeaveTry \/ LeaveSwitch
  BY <1>2, <1>10 DEF LeaveTry, LeaveSwitch, LeaveTryStmt, LeaveSwitchStmt, CloseBlock
<1>11. CASE \E kind \in Messengers, r, i \in BOOLEAN : EnterMessenger(kind, r, i)
  BY <1>1, <1>2, <1>11 DEF EnterMessenger
<1>12. CASE LeaveMessenger
  BY <1>1, <1>2, <1>12 DEF LeaveMessenger
<1>13. CASE \E i, p \in BOOLEAN : EnterLambda(i, p)
  <2>1. PICK i \in BOOLEAN, p \in BOOLEAN : EnterLambda(i, p)
    BY <1>13
  <2>2. lambdas' = lambdas + 1 /\ lambdas < MaxLambdas /\ backups' = Append(backups, ctx)
    BY <2>1 DEF EnterLambda
  <2>3. lambdas + 1 \in Activity /\ lambdas' \in 0..MaxLambdas
    BY <2>2, VisitorAssumption DEF Activity, CallersInv
  <2>4. Sane(ctx')
    <3>1. CASE i
      <4>1. ctx' = [ctx EXCEPT !.lambdas = Append(@, lambdas + 1)]
        BY <2>1, <3>1 DEF EnterLambda
      <4>2. ctx'.lambdas = Append(ctx.lambdas, lambdas + 1)
        BY <1>1, <4>1
      <4> QED
        BY <2>3, <4>2, PushFacts DEF Sane, CallersInv
    <3>2. CASE ~i
      <4>1. ctx' = ctx
        BY <2>1, <3>2 DEF EnterLambda
      <4> QED
        BY <4>1 DEF Sane, CallersInv
    <3> QED
      BY <3>1, <3>2
  <2>5. \A j \in DOMAIN backups' : Sane(backups'[j])
    <3>1. backups \in Seq(Range(backups) \cup {ctx})
      BY SeqMonotonic DEF ContextInv, Sound
    <3>2. /\ DOMAIN backups = 1..Len(backups) /\ Len(backups) \in Nat
          /\ DOMAIN backups' = 1..(Len(backups) + 1)
          /\ \A j \in 1..Len(backups) : backups'[j] = backups[j]
          /\ backups'[Len(backups) + 1] = ctx
      BY <2>2, <3>1, PushFacts
    <3> QED
      BY <3>2 DEF CallersInv
  <2>6. (\A j \in DOMAIN backups : Sane(backups[j]))'
    BY <2>5 DEF Sane
  <2>7. Sane(ctx)'
    BY <2>4 DEF Sane
  <2> QED
    BY <2>3, <2>6, <2>7 DEF CallersInv
<1>14. CASE LeaveLambda
  <2>1. /\ walk # <<>> /\ Last(walk).kind = "Lambda" /\ lambdas' = lambdas
        /\ ctx' = Last(backups) /\ backups' = Front(backups)
    BY <1>14 DEF LeaveLambda, IsTop, Top
  <2>2. backups # <<>> /\ backups \in Seq(Range(backups))
    BY <2>1, RestoresPop DEF ContextInv, Sound
  <2>3. /\ Len(backups) \in Nat \ {0} /\ DOMAIN backups = 1..Len(backups)
        /\ DOMAIN backups' = 1..(Len(backups) - 1)
        /\ \A j \in 1..(Len(backups) - 1) : backups'[j] = backups[j]
        /\ ctx' = backups[Len(backups)]
    BY <2>1, <2>2, PopFacts
  <2>4. Sane(ctx)' /\ (\A j \in DOMAIN backups : Sane(backups[j]))'
    BY <2>3 DEF CallersInv, Sane
  <2> QED
    BY <2>1, <2>4 DEF CallersInv
<1>15. CASE Finish \/ UNCHANGED vars
  BY <1>2, <1>15 DEF Finish, vars
<1> QED
  BY <1>3, <1>4, <1>5, <1>6, <1>7, <1>8, <1>9, <1>10, <1>11, <1>12, <1>13, <1>14,
     <1>15 DEF Next
--------------------------------------------------------------------------------
(***************************************************************************)
(* What the steps do to the frames and the messages                        *)
(***************************************************************************)
\* One frame of a walk changed in details.
LEMMA EditRole ==
    ASSUME NEW w, IsWalk(w), NEW i \in 1..Len(w), NEW g, SameRole(w[i], g),
           NEW v, v = [w EXCEPT ![i] = g]
    PROVE  Extends(v, w, 0)
<1>1. /\ v \in Seq(Range(v)) /\ Len(v) = Len(w) /\ w \in Seq(Range(w))
      /\ v[i] = g /\ \A k \in 1..Len(w) : k # i => v[k] = w[k]
  <2>1. w \in Seq(Range(w))
    BY DEF IsWalk
  <2> QED
    BY <2>1, EditFacts
<1>2. Len(w) \in Nat
  BY <1>1
<1> QED
  BY <1>1, <1>2 DEF Extends, SameRole

\* The innermost node has one more child.
LEMMA FilledRole ==
    ASSUME IsWalk(walk)
    PROVE  Extends(Filled, walk, 0)
<1>1. CASE walk = <<>>
  BY <1>1 DEF Filled, Extends, SameRole, IsWalk
<1>2. CASE walk # <<>>
  <2> DEFINE g == [walk[Len(walk)] EXCEPT !.filled = "yes"]
  <2>1. Len(walk) \in 1..Len(walk) /\ IsFrame(walk[Len(walk)])
    BY <1>2, TopIsGreatest
  <2>2. SameRole(walk[Len(walk)], g)
    BY <2>1 DEF SameRole, IsFrame, FrameFields
  <2>3. Filled = [walk EXCEPT ![Len(walk)] = g]
    BY <1>2 DEF Filled
  <2> QED
    BY <2>1, <2>2, <2>3, EditRole
<1> QED
  BY <1>1, <1>2

\* A frame is put on top.
LEMMA AppendRole ==
    ASSUME NEW w, NEW u, Extends(u, w, 0), NEW f
    PROVE  Extends(Append(u, f), w, 1) /\ Append(u, f)[Len(w) + 1] = f
<1> DEFINE v == Append(u, f)
<1>1. u \in Seq(Range(u) \cup {f}) /\ f \in Range(u) \cup {f}
  BY SeqMonotonic DEF Extends
<1>2. /\ v \in Seq(Range(u) \cup {f}) /\ Len(u) \in Nat /\ Len(v) = Len(u) + 1
      /\ \A i \in 1..Len(u) : v[i] = u[i]
      /\ v[Len(u) + 1] = f
  BY <1>1, PushFacts
<1> HIDE DEF v
<1>3. v \in Seq(Range(v))
  BY <1>2, SeqOfRange
<1>4. Len(u) = Len(w)
  BY <1>2 DEF Extends
<1>5. Extends(v, w, 1)
  BY <1>2, <1>3, <1>4 DEF Extends
<1> QED
  BY <1>2, <1>4, <1>5 DEF v

\* The innermost node was left.
LEMMA CloseRole ==
    ASSUME IsWalk(walk), walk # <<>>, Close
    PROVE  Extends(walk, walk', 1) /\ walk[Len(walk') + 1] = Top
<1> DEFINE w == Front(walk)
<1>1. /\ IsWalk(w) /\ Len(w) = Len(walk) - 1
      /\ \A k \in 1..(Len(walk) - 1) : w[k] = walk[k]
  BY WalkAfterClose
<1> HIDE DEF w
<1>2. Len(walk) \in Nat \ {0} /\ Top = walk[Len(walk)]
  BY TopIsGreatest DEF Top
<1>3. Extends(walk', w, 0)
  <2>1. CASE Len(walk) > 1 /\ Top.kind \in Ifs /\ Top.part = "then"
    <3> DEFINE g == [w[Len(walk) - 1] EXCEPT !.filled = "dangling"]
    <3>1. Len(walk) - 1 \in 1..Len(w)
      BY <1>1, <1>2, <2>1
    <3>2. IsFrame(w[Len(walk) - 1])
      BY <1>1, <3>1 DEF IsWalk
    <3>3. SameRole(w[Len(walk) - 1], g)
      BY <3>2 DEF SameRole, IsFrame, FrameFields
    <3>4. walk' = [w EXCEPT ![Len(walk) - 1] = g]
      BY <2>1 DEF Close, w
    <3> QED
      BY <1>1, <3>1, <3>3, <3>4, EditRole
  <2>2. CASE ~(Len(walk) > 1 /\ Top.kind \in Ifs /\ Top.part = "then")
    <3>1. walk' = w
      BY <2>2 DEF Close, w
    <3> QED
      BY <1>1, <1>2, <3>1 DEF Extends, SameRole, IsWalk
  <2> QED
    BY <2>1, <2>2
<1>4. /\ walk' \in Seq(Range(walk')) /\ Len(walk') = Len(walk) - 1
      /\ \A k \in 1..(Len(walk) - 1) : SameRole(w[k], walk'[k])
  BY <1>1, <1>2, <1>3 DEF Extends
<1>5. walk \in Seq(Range(walk)) /\ Len(walk) = Len(walk') + 1
  BY <1>2, <1>4 DEF IsWalk
<1>6. \A k \in 1..Len(walk') : SameRole(walk'[k], walk[k])
  BY <1>1, <1>4 DEF SameRole
<1> QED
  BY <1>2, <1>4, <1>5, <1>6 DEF Extends

\* Messages the visitor makes itself.
LEMMA MsgFacts ==
    ASSUME NEW t \in BeginTypes \cup EndTypes \cup PlainTypes \cup {"kCase"}, NEW n \in Nat
    PROVE  Msg(t, n) \in Entry /\ Msg(t, n).type = t
  BY DEF Msg, Entry

\* A node that begins no block.
LEMMA NewFrameRole ==
    ASSUME CallerId \in Activity, NEW part,
           NEW kind \in {"ConstexprIf", "Lambda"} \cup Messengers
    PROVE  SoundFrame(NewFrame(kind, part)) /\ Idle(NewFrame(kind, part))
<1> DEFINE f == NewFrame(kind, part)
<1>1. /\ f.caller = CallerId /\ f.begin = 0 /\ f.pending = <<>> /\ f.kind = kind
  BY DEF NewFrame
<1> HIDE DEF f
<1>2. ~IsBlock(f)
  BY <1>1 DEF IsBlock, Loops, Messengers
<1>3. <<>> \in Seq(Range(<<>>)) /\ DOMAIN <<>> = {}
  BY EmptySeq
<1> QED
  BY <1>1, <1>2, <1>3 DEF SoundFrame, Idle, f

\* A node that begins a block.
LEMMA NewBlockRole ==
    ASSUME CallerId \in Activity, messages \in [Activity -> Seq(Entry)], NEW part,
           NEW kind \in Loops \cup {"Try", "Switch", "Conditional", "If"},
           NEW t \in BeginTypes
    PROVE  LET f == NewBlock(kind, part, t)
           IN  /\ SoundFrame(f) /\ f.pending = <<>> /\ f.block = t
               /\ f.caller = CallerId /\ f.begin = Len(messages[CallerId]) + 1
<1> DEFINE f == NewBlock(kind, part, t)
<1>1. /\ f.caller = CallerId /\ f.begin = Len(messages[CallerId]) + 1
      /\ f.pending = <<>> /\ f.kind = kind /\ f.block = t /\ f.elseif = FALSE
  BY DEF NewBlock, NewFrame
<1> HIDE DEF f
<1>2. Len(messages[CallerId]) \in Nat
  <2>1. messages[CallerId] \in Seq(Entry)
    OBVIOUS
  <2> QED
    BY <2>1
<1>3. f.begin \in Nat /\ f.begin # 0
  BY <1>1, <1>2
<1>4. IsBlock(f) /\ f.kind \notin Messengers
  BY <1>1 DEF IsBlock, Loops, Messengers
<1>5. <<>> \in Seq(Range(<<>>)) /\ DOMAIN <<>> = {}
  BY EmptySeq
<1> QED
  BY <1>1, <1>3, <1>4, <1>5 DEF SoundFrame, f
--------------------------------------------------------------------------------
(***************************************************************************)
(* Every action keeps messages and blocks tidy                             *)
(***************************************************************************)
\* Of the state.
TidyInv == Tidy(walk, messages, seen, nodes)

\* What the invariant says of the innermost node.
LEMMA TidyHere ==
    ASSUME ContextInv, TidyInv
    PROVE  /\ nodes \in Nat /\ IsWalk(walk) /\ messages \in [Activity -> Seq(Entry)]
           /\ walk # <<>> => /\ Top = walk[Len(walk)] /\ IsFrame(Top) /\ SoundFrame(Top)
                             /\ Len(walk) \in 1..Len(walk) /\ Top.id \in Nat
<1>1. /\ nodes \in Nat /\ IsWalk(walk)
      /\ walk # <<>> => /\ Top = walk[Len(walk)] /\ IsFrame(Top)
                        /\ Len(walk) \in 1..Len(walk)
  BY Here
<1>2. walk # <<>> => Len(walk) \in DOMAIN walk
  BY <1>1 DEF IsWalk
<1>3. messages \in [Activity -> Seq(Entry)] /\ \A k \in DOMAIN walk : SoundFrame(walk[k])
  BY DEF TidyInv, Tidy
<1> QED
  BY <1>1, <1>2, <1>3 DEF IsFrame

\* The innermost node changed in details only, and perhaps a label was seen.
LEMMA TidyEdit ==
    ASSUME ContextInv, TidyInv, walk # <<>>, NEW g, SameRole(Top, g),
           walk' = [walk EXCEPT ![Len(walk)] = g],
           nodes' = nodes \/ nodes' = nodes + 1
    PROVE  Tidy(walk', messages, seen, nodes')
<1>1. Extends(walk', walk, 0)
  BY TidyHere, EditRole
<1>2. nodes \in Nat /\ nodes' \in Nat /\ nodes <= nodes'
  BY TidyHere
<1> QED
  BY <1>1, <1>2, TidyAlike DEF TidyInv

\* A node that begins no block was entered.
LEMMA TidyEnter ==
    ASSUME ContextInv, TidyInv, NEW f, SoundFrame(f), Idle(f), Open(f)
    PROVE  Tidy(walk', messages, seen, nodes')
<1>1. nodes \in Nat /\ nodes' = nodes + 1 /\ nodes' \in Nat /\ nodes <= nodes'
  BY TidyHere DEF Open
<1>2. Tidy(walk, messages, seen, nodes')
  <2>1. Extends(walk, walk, 0)
    BY TidyHere DEF Extends, SameRole, IsWalk
  <2> QED
    BY <1>1, <2>1, TidyAlike DEF TidyInv
<1>3. Extends(walk', walk, 1) /\ walk'[Len(walk) + 1] = f
  BY TidyHere, FilledRole, AppendRole DEF Open
<1> QED
  BY <1>2, <1>3, TidyOpen

\* A message that neither begins a block nor has waited is recorded.
LEMMA TidyPut ==
    ASSUME NEW w, NEW s, NEW n, Tidy(w, messages, s, n),
           NEW a \in Activity, NEW m \in Entry, m.type \notin BeginTypes \cup Waited
    PROVE  Tidy(w, Put(a, m), s, n)
  BY TidyRecord DEF Put

\* A block is entered.
LEMMA TidyOpenBlock ==
    ASSUME ContextInv, CallersInv, TidyInv, NEW t \in BeginTypes, NEW part,
           NEW kind \in Loops \cup {"Try", "Switch", "Conditional", "If"},
           Open(NewBlock(kind, part, t)),
           messages' = Put(CallerId, Msg(t, nodes + 1)), seen' = seen
    PROVE  TidyInv'
<1> DEFINE f == NewBlock(kind, part, t)
           m == Msg(t, nodes + 1)
<1>1. nodes \in Nat /\ nodes' = nodes + 1 /\ nodes' \in Nat /\ nodes <= nodes'
  BY TidyHere DEF Open
<1>2. Tidy(walk, messages, seen, nodes')
  <2>1. Extends(walk, walk, 0)
    BY TidyHere DEF Extends, SameRole, IsWalk
  <2> QED
    BY <1>1, <2>1, TidyAlike DEF TidyInv
<1>3. Extends(walk', walk, 1) /\ walk'[Len(walk) + 1] = f
  BY TidyHere, FilledRole, AppendRole DEF Open
<1>4. /\ SoundFrame(f) /\ f.pending = <<>> /\ f.block = t
      /\ f.caller = CallerId /\ f.begin = Len(messages[CallerId]) + 1
  BY TidyHere, CallerIsActivity, NewBlockRole
<1>5. m \in Entry /\ m.type = t
  BY <1>1, MsgFacts
<1>6. messages' = [messages EXCEPT ![f.caller] = Append(@, m)]
  BY <1>4 DEF Put
<1> HIDE DEF f, m
<1>7. /\ f = walk'[Len(walk) + 1] /\ f.begin = Len(messages[f.caller]) + 1
      /\ m.type = f.block /\ m.type \in BeginTypes
  BY <1>3, <1>4, <1>5
<1>8. Tidy(walk', messages', seen, nodes')
  BY <1>2, <1>3, <1>4, <1>5, <1>6, <1>7, TidyBegin
<1> QED
  BY <1>8 DEF TidyInv

\* A block is left.
LEMMA TidyCloseBlock ==
    ASSUME ContextInv, TidyInv, walk # <<>>, IsBlock(Top),
           EndBlock(Top), Close, nodes' = nodes, seen' = seen
    PROVE  TidyInv'
<1> DEFINE m == Msg(EndOf(Top.block), Top.id)
<1>1. /\ SoundFrame(Top) /\ Top.id \in Nat /\ IsWalk(walk)
  BY TidyHere
<1>2. Top.begin # 0 /\ Top.block \in BeginTypes /\ Top.pending = <<>>
  BY <1>1 DEF SoundFrame, IsBlock, Loops, Messengers
<1>3. m \in Entry /\ m.type \in EndTypes
  BY <1>1, <1>2, TypesApart, MsgFacts
<1>4. Extends(walk, walk', 1) /\ Top = walk[Len(walk') + 1]
  BY <1>1, CloseRole
<1>5. messages' = [messages EXCEPT ![Top.caller] = FoldOrEnd(@, Top.block, m)]
  BY DEF EndBlock
<1> HIDE DEF m
<1>6. Tidy(walk', messages', seen, nodes)
  BY <1>2, <1>3, <1>4, <1>5, TidyEnd DEF TidyInv
<1> QED
  BY <1>6 DEF TidyInv

\* A node that begins no block, and under which nothing waits, is left.
LEMMA TidyLeave ==
    ASSUME ContextInv, TidyInv, walk # <<>>, Idle(Top), Close, nodes' = nodes,
           messages' = messages, seen' = seen
    PROVE  TidyInv'
<1>1. Extends(walk, walk', 1) /\ Top = walk[Len(walk') + 1]
  BY TidyHere, CloseRole
<1>2. Tidy(walk', messages, seen, nodes)
  BY <1>1, TidyClose DEF TidyInv
<1> QED
  BY <1>2 DEF TidyInv

\* An if statement or an else-if is entered.
LEMMA EnterIfTidy ==
    ASSUME ContextInv, CallersInv, TidyInv, EnterIf
    PROVE  TidyInv'
<1>1. seen' = seen /\ nodes \in Nat /\ CallerId \in Activity
  BY TidyHere, CallerIsActivity DEF EnterIf
<1>2. CASE IsElseIf
  <2> DEFINE f == [NewFrame("If", "cond") EXCEPT !.elseif = TRUE]
             m == Msg("kElseIf", nodes + 1)
  <2>1. Open(f) /\ messages' = Put(CallerId, m)
    BY <1>2 DEF EnterIf
  <2>2. /\ f.caller = CallerId /\ f.begin = 0 /\ f.pending = <<>> /\ f.kind = "If"
        /\ f.elseif = TRUE
    BY DEF NewFrame
  <2>3. m \in Entry /\ m.type \notin BeginTypes \cup Waited
    <3>1. "kElseIf" \in PlainTypes /\ "kElseIf" \notin BeginTypes \cup Waited
      BY DEF PlainTypes, BeginTypes, Waited
    <3> QED
      BY <1>1, <3>1, MsgFacts
  <2> HIDE DEF f, m
  <2>4. SoundFrame(f) /\ Idle(f)
    <3>1. ~IsBlock(f)
      BY <2>2 DEF IsBlock, Loops
    <3>2. <<>> \in Seq(Range(<<>>)) /\ DOMAIN <<>> = {}
      BY EmptySeq
    <3> QED
      BY <1>1, <2>2, <3>1, <3>2 DEF SoundFrame, Idle
  <2>5. Tidy(walk', messages, seen, nodes')
    BY <2>1, <2>4, TidyEnter
  <2>6. Tidy(walk', messages', seen, nodes')
    BY <1>1, <2>1, <2>3, <2>5, TidyPut
  <2> QED
    BY <1>1, <2>6 DEF TidyInv
<1>3. CASE ~IsElseIf
  <2>1. /\ Open(NewBlock("If", "cond", "kIf"))
        /\ messages' = Put(CallerId, Msg("kIf", nodes + 1))
    BY <1>3 DEF EnterIf
  <2>2. "kIf" \in BeginTypes
    BY DEF BeginTypes
  <2> QED
    BY <1>1, <2>1, <2>2, TidyOpenBlock
<1> QED
  BY <1>2, <1>3

\* A loop, a try, a switch or a conditional operator is entered.
LEMMA OpenBlockTidy ==
    ASSUME ContextInv, CallersInv, TidyInv, NEW part,
           NEW kind \in Loops \cup {"Try", "Switch", "Conditional"}, OpenBlock(kind, part)
    PROVE  TidyInv'
<1>1. TypeOf(kind) \in BeginTypes
  BY DEF TypeOf, BeginTypes, Loops
<1> QED
  BY <1>1, TidyOpenBlock DEF OpenBlock

\* A branch of an if is entered.
LEMMA EnterBranchTidy ==
    ASSUME ContextInv, CallersInv, TidyInv, NEW b \in BOOLEAN, EnterThen(b) \/ EnterElse(b)
    PROVE  TidyInv'
<1> DEFINE n == Len(walk)
<1>1. walk # <<>> /\ nodes' = nodes /\ seen' = seen
  BY DEF EnterThen, EnterElse, IsTop
<1>2. n \in 1..n /\ Top = walk[n] /\ IsFrame(Top) /\ Top.id \in Nat
  BY <1>1, TidyHere
<1>3. CASE EnterThen(b)
  <2> DEFINE g == [Top EXCEPT !.part = "then", !.braces = b, !.bare = ~b,
                              !.filled = "no"]
  <2>1. walk' = [walk EXCEPT ![n] = g] /\ messages' = messages
    BY <1>2, <1>3 DEF EnterThen
  <2>2. SameRole(Top, g)
    BY <1>2 DEF SameRole, IsFrame, FrameFields
  <2>3. Tidy(walk', messages, seen, nodes')
    BY <1>1, <2>1, <2>2, TidyEdit
  <2> QED
    BY <1>1, <2>1, <2>3 DEF TidyInv
<1>4. CASE EnterElse(b)
  <2> DEFINE g == [Top EXCEPT !.part = "else", !.braces = b, !.filled = "no",
                              !.split = Len(messages[Top.caller])]
  <2>1. walk' = [walk EXCEPT ![n] = g]
    BY <1>2, <1>4 DEF EnterElse
  <2>2. SameRole(Top, g)
    BY <1>2 DEF SameRole, IsFrame, FrameFields
  <2>3. Tidy(walk', messages, seen, nodes')
    BY <1>1, <2>1, <2>2, TidyEdit
  <2>4. messages' = messages \/ messages' = Put(CallerId, Msg("kElse", Top.id))
    BY <1>4 DEF EnterElse, ElseMessage
  <2>5. /\ Msg("kElse", Top.id) \in Entry
        /\ Msg("kElse", Top.id).type \notin BeginTypes \cup Waited
    <3>1. "kElse" \in PlainTypes /\ "kElse" \notin BeginTypes \cup Waited
      BY DEF PlainTypes, BeginTypes, Waited
    <3> QED
      BY <1>2, <3>1, MsgFacts
  <2>6. Tidy(walk', messages', seen, nodes')
    BY <2>3, <2>4, <2>5, TidyPut, CallerIsActivity
  <2> QED
    BY <1>1, <2>6 DEF TidyInv
<1> QED
  BY <1>3, <1>4

\* Between the parts of a try, a switch or a conditional operator.
LEMMA NextPartTidy ==
    ASSUME ContextInv, CallersInv, TidyInv, EnterCatch \/ EnterCase \/ EnterConditionalElse
    PROVE  TidyInv'
<1> DEFINE n == Len(walk)
<1>1. /\ walk # <<>> /\ seen' = seen /\ (nodes' = nodes \/ nodes' = nodes + 1)
      /\ \E part : walk' = [walk EXCEPT ![n].part = part]
  BY DEF EnterCatch, EnterCase, EnterConditionalElse, IsTop
<1>2. /\ n \in 1..n /\ Top = walk[n] /\ IsFrame(Top) /\ SoundFrame(Top)
      /\ Top.id \in Nat /\ nodes \in Nat /\ CallerId \in Activity
      /\ messages \in [Activity -> Seq(Entry)]
  BY <1>1, TidyHere, CallerIsActivity
<1>3. PICK part : walk' = [walk EXCEPT ![n].part = part]
  BY <1>1
<1> DEFINE g == [Top EXCEPT !.part = part]
<1>4. walk' = [walk EXCEPT ![n] = g]
  BY <1>2, <1>3
<1>5. SameRole(Top, g)
  BY <1>2 DEF SameRole, IsFrame, FrameFields
<1>6. Tidy(walk', messages, seen, nodes')
  BY <1>1, <1>4, <1>5, TidyEdit
<1>7. CASE EnterCatch
  <2>1. "kCatch" \in PlainTypes /\ "kCatch" \notin BeginTypes \cup Waited
    BY DEF PlainTypes, BeginTypes, Waited
  <2>2. /\ Msg("kCatch", nodes + 1) \in Entry
        /\ Msg("kCatch", nodes + 1).type \notin BeginTypes \cup Waited
    BY <1>2, <2>1, MsgFacts
  <2>3. messages' = messages \/ messages' = Put(CallerId, Msg("kCatch", nodes + 1))
    BY <1>7 DEF EnterCatch
  <2>4. Tidy(walk', messages', seen, nodes')
    BY <1>2, <1>6, <2>2, <2>3, TidyPut
  <2> QED
    BY <1>1, <2>4 DEF TidyInv
<1>8. CASE EnterCase
  <2> DEFINE m == Msg("kCase", nodes + 1)
  <2>1. "kCase" \notin BeginTypes \cup Waited
    BY DEF BeginTypes, Waited
  <2>2. m \in Entry /\ m.type \notin BeginTypes \cup Waited
    BY <1>2, <2>1, MsgFacts
  <2>3. messages' = messages \/ messages' = Put(CallerId, m)
    <3>1. [messages EXCEPT ![CallerId] = @] = messages
      BY <1>2
    <3> QED
      BY <1>8, <3>1 DEF EnterCase, AddCaseTo, Put
  <2>4. Tidy(walk', messages', seen, nodes')
    BY <1>2, <1>6, <2>2, <2>3, TidyPut
  <2> QED
    BY <1>1, <2>4 DEF TidyInv
<1>9. CASE EnterConditionalElse
  <2>1. "kConditionalElse" \in PlainTypes /\ "kConditionalElse" \notin BeginTypes \cup Waited
    BY DEF PlainTypes, BeginTypes, Waited
  <2>2. /\ Msg("kConditionalElse", Top.id) \in Entry
        /\ Msg("kConditionalElse", Top.id).type \notin BeginTypes \cup Waited
    BY <1>2, <2>1, MsgFacts
  <2>3. messages' = Put(Top.caller, Msg("kConditionalElse", Top.id)) /\ Top.caller \in Activity
    BY <1>2, <1>9 DEF EnterConditionalElse, SoundFrame
  <2>4. Tidy(walk', messages', seen, nodes')
    BY <1>6, <2>2, <2>3, TidyPut
  <2> QED
    BY <1>1, <2>4 DEF TidyInv
<1> QED
  BY <1>7, <1>8, <1>9

\* An if is left; only one that began a block ends it.
LEMMA LeaveIfTidy ==
    ASSUME ContextInv, CallersInv, TidyInv, LeaveIf
    PROVE  TidyInv'
<1>1. walk # <<>> /\ Top.kind \in Ifs /\ Close /\ nodes' = nodes /\ seen' = seen
  BY DEF LeaveIf, IsTop
<1>2. CASE Top.kind = "If" /\ ~Top.elseif
  <2>1. EndBlock(Top) /\ IsBlock(Top)
    BY <1>2 DEF LeaveIf, IsBlock
  <2> QED
    BY <1>1, <2>1, TidyCloseBlock
<1>3. CASE ~(Top.kind = "If" /\ ~Top.elseif)
  <2>1. messages' = messages
    BY <1>3 DEF LeaveIf
  <2>2. ~IsBlock(Top) /\ Top.kind \notin Messengers
    BY <1>1, <1>3 DEF IsBlock, Ifs, Loops, Messengers
  <2>3. Idle(Top)
    BY <1>1, <2>2, TidyHere DEF SoundFrame, Idle
  <2> QED
    BY <1>1, <2>1, <2>3, TidyLeave
<1> QED
  BY <1>2, <1>3

\* Another block is left.
LEMMA LeaveBlockTidy ==
    ASSUME ContextInv, CallersInv, TidyInv,
           LeaveLoop \/ LeaveConditional \/ LeaveTry \/ LeaveSwitch
    PROVE  TidyInv'
<1>1. /\ walk # <<>> /\ Top.kind \in Loops \cup {"Try", "Switch", "Conditional"}
      /\ CloseBlock
  BY DEF LeaveLoop, LeaveConditional, LeaveTry, LeaveSwitch, IsTop
<1>2. IsBlock(Top)
  BY <1>1 DEF IsBlock
<1> QED
  BY <1>1, <1>2, TidyCloseBlock DEF CloseBlock

\* An if constexpr is entered.
LEMMA EnterConstexprIfTidy ==
    ASSUME ContextInv, CallersInv, TidyInv, EnterConstexprIf
    PROVE  TidyInv'
<1> DEFINE f == NewFrame("ConstexprIf", "cond")
<1>1. Open(f) /\ messages' = messages /\ seen' = seen
  BY DEF EnterConstexprIf
<1>2. SoundFrame(f) /\ Idle(f)
  BY CallerIsActivity, NewFrameRole
<1> HIDE DEF f
<1>3. Tidy(walk', messages, seen, nodes')
  BY <1>1, <1>2, TidyEnter
<1> QED
  BY <1>1, <1>3 DEF TidyInv
\* A message that waits is one of the function or of a lambda.
LEMMA PendingFacts ==
    ASSUME CallersInv, nodes \in Nat, NEW t \in Waited, NEW i \in BOOLEAN
    PROVE  /\ Pending(t, i) \in [from : Activity, message : Entry]
           /\ Pending(t, i).message.type \in Waited
           /\ Pending(t, i).message.at = nodes + 1
<1> DEFINE m == [type |-> t, at |-> nodes + 1, included |-> i]
<1>1. t \in PlainTypes
  BY DEF PlainTypes, Waited
<1>2. m \in Entry
  BY <1>1 DEF Entry
<1>3. Pending(t, i) = [from |-> CallerId, message |-> m]
  BY DEF Pending
<1>4. m.type = t /\ m.at = nodes + 1
  OBVIOUS
<1> HIDE DEF m
<1> QED
  BY <1>2, <1>3, <1>4, CallerIsActivity

\* A call or the like is entered, with or without a message.
LEMMA EnterMessengerTidy ==
    ASSUME ContextInv, CallersInv, TidyInv, NEW kind \in Messengers,
           NEW r \in BOOLEAN, NEW i \in BOOLEAN, EnterMessenger(kind, r, i)
    PROVE  TidyInv'
<1> DEFINE n == Len(walk) + 1
           g == NewFrame(kind, "body")
           u == Append(Filled, g)
<1>1. messages' = messages /\ nodes \in Nat
  BY TidyHere DEF EnterMessenger
<1>2. SoundFrame(g) /\ Idle(g)
  BY CallerIsActivity, NewFrameRole
<1>3. CASE ~r
  <2>1. Open(g) /\ seen' = seen
    BY <1>3 DEF EnterMessenger
  <2> HIDE DEF g
  <2>2. Tidy(walk', messages, seen, nodes')
    BY <1>2, <2>1, TidyEnter
  <2> QED
    BY <1>1, <2>1, <2>2 DEF TidyInv
<1>4. CASE r
  <2> DEFINE p == Pending(TypeOf(kind), i)
             f == [g EXCEPT !.pending = <<p>>]
  <2>1. walk' = Append(Filled, f) /\ nodes' = nodes + 1 /\ seen' = seen \cup {p}
    BY <1>4 DEF EnterMessenger, Open, Keep
  <2>2. TypeOf(kind) \in Waited
    BY DEF TypeOf, Waited, Messengers
  <2>3. /\ p \in [from : Activity, message : Entry] /\ p.message.type \in Waited
        /\ p.message.at = nodes + 1
    BY <1>1, <2>2, PendingFacts
  <2>4. /\ f.kind = g.kind /\ f.elseif = g.elseif /\ f.caller = g.caller
        /\ f.begin = g.begin /\ f.block = g.block /\ f.pending = Append(g.pending, p)
        /\ g.kind = kind
    BY DEF NewFrame
  <2> HIDE DEF g, f, p
  <2>5. Extends(Filled, walk, 0)
    BY TidyHere, FilledRole
  <2>6. Extends(u, walk, 1) /\ u[n] = g
    BY <2>5, AppendRole
  <2>7. Extends(walk', walk, 1) /\ walk'[n] = f
    BY <2>1, <2>5, AppendRole
  <2> HIDE DEF u
  <2>8. Tidy(u, messages, seen, nodes)
    BY <1>2, <2>6, TidyOpen DEF TidyInv
  <2>9. Requeued(walk', u, n, Append(u[n].pending, p))
    <3>1. /\ Len(walk) \in Nat /\ Len(u) = n /\ Len(walk') = n
          /\ u \in Seq(Range(u)) /\ walk' \in Seq(Range(walk'))
      BY <2>6, <2>7 DEF Extends
    <3>2. \A j \in 1..n : j \in 1..Len(walk) \/ j = n
      BY <3>1
    <3>3. \A j \in 1..Len(walk) : SameRole(walk[j], u[j]) /\ SameRole(walk[j], walk'[j])
      BY <2>6, <2>7 DEF Extends
    <3>4. n \in 1..n
      BY <3>1
    <3> HIDE DEF n
    <3> QED
      BY <2>4, <2>6, <2>7, <3>1, <3>2, <3>3, <3>4 DEF Requeued, SameRole
  <2>10. u[n].kind \in Messengers
    BY <2>4, <2>6
  <2>11. Tidy(walk', messages, seen \cup {p}, nodes + 1)
    BY <2>3, <2>8, <2>9, <2>10, TidyWait
  <2> QED
    BY <1>1, <2>1, <2>11 DEF TidyInv
<1> QED
  BY <1>3, <1>4

\* A call or the like is left, and its messages with it if there are any.
LEMMA LeaveMessengerTidy ==
    ASSUME ContextInv, CallersInv, TidyInv, LeaveMessenger
    PROVE  TidyInv'
<1>1. /\ walk # <<>> /\ Top.kind \in Messengers
      /\ messages' = messages /\ nodes' = nodes /\ seen' = seen
  BY DEF LeaveMessenger, IsTop
<1>2. Top = walk[Len(walk)] /\ IsFrame(Top) /\ SoundFrame(Top)
  BY <1>1, TidyHere
<1>3. CASE Top.pending = <<>>
  <2>1. Close
    BY <1>3 DEF LeaveMessenger
  <2>2. Idle(Top)
    BY <1>1, <1>2, <1>3 DEF SoundFrame, IsBlock, Idle, Loops, Messengers
  <2> QED
    BY <1>1, <2>1, <2>2, TidyLeave
<1>4. CASE Top.pending # <<>>
  <2> DEFINE g == [Top EXCEPT !.part = "leaving"]
  <2>1. walk' = [walk EXCEPT ![Len(walk)] = g]
    BY <1>2, <1>4 DEF LeaveMessenger
  <2>2. SameRole(Top, g)
    BY <1>2 DEF SameRole, IsFrame, FrameFields
  <2>3. Tidy(walk', messages, seen, nodes')
    BY <1>1, <2>1, <2>2, TidyEdit
  <2> QED
    BY <1>1, <2>3 DEF TidyInv
<1> QED
  BY <1>3, <1>4

\* The messages under a frame were changed.
LEMMA EditRequeued ==
    ASSUME NEW w, IsWalk(w), NEW k \in 1..Len(w), NEW q, NEW v,
           v = [w EXCEPT ![k].pending = q]
    PROVE  Requeued(v, w, k, q)
<1> DEFINE g == [w[k] EXCEPT !.pending = q]
<1>1. w \in Seq(Range(w)) /\ IsFrame(w[k])
  BY DEF IsWalk
<1>2. v = [w EXCEPT ![k] = g]
  OBVIOUS
<1>3. /\ g.kind = w[k].kind /\ g.elseif = w[k].elseif /\ g.caller = w[k].caller
      /\ g.begin = w[k].begin /\ g.block = w[k].block /\ g.pending = q
  BY <1>1 DEF IsFrame, FrameFields
<1> HIDE DEF g
<1>4. /\ v \in Seq(Range(v)) /\ Len(v) = Len(w)
      /\ v[k] = g /\ \A j \in 1..Len(w) : j # k => v[j] = w[j]
  <2>1. k \in 1..Len(w)
    OBVIOUS
  <2> QED
    BY ONLY <1>1, <1>2, <2>1, EditFacts
<1> QED
  BY <1>1, <1>3, <1>4 DEF Requeued

\* A message is taken from an expression that was left.
LEMMA PopMessageTidy ==
    ASSUME ContextInv, CallersInv, TidyInv, PopMessage, \A k \in DOMAIN walk :
             walk[k].part = "leaving" => walk[k].pending # <<>>
    PROVE  TidyInv'
<1> DEFINE k == Len(walk)
           p == Head(Top.pending)
           r == Tail(Top.pending)
           v == [walk EXCEPT ![k].pending = r]
<1>1. /\ walk # <<>> /\ Top.kind \in Messengers /\ Top.part = "leaving"
      /\ nodes' = nodes /\ seen' = seen
      /\ messages' = [messages EXCEPT ![p.from] = Append(@, p.message)]
  BY DEF PopMessage, IsTop, Put
<1>2. /\ k \in 1..k /\ Top = walk[k] /\ IsWalk(walk) /\ SoundFrame(Top)
  BY <1>1, TidyHere
<1>3. k \in DOMAIN walk
  BY <1>2 DEF IsWalk
<1>4. Top.pending # <<>>
  BY <1>1, <1>2, <1>3
<1>5. Requeued(v, walk, k, r)
  BY <1>2, EditRequeued
<1>6. Tidy(v, messages', seen, nodes)
  <2> HIDE DEF v, r
  <2>1. /\ walk[k].pending # <<>> /\ walk[k].kind \in Messengers
        /\ r = Tail(walk[k].pending) /\ p = Head(walk[k].pending)
    BY <1>1, <1>2, <1>4 DEF r
  <2> HIDE DEF p, k
  <2> QED
    BY <1>1, <1>5, <2>1, TidyDeliver DEF TidyInv
<1>7. CASE Len(Top.pending) # 1
  <2>1. walk' = [walk EXCEPT ![k] = [walk[k] EXCEPT !.pending = Tail(@)]]
    BY <1>7 DEF PopMessage
  <2>2. walk' = v
    BY <1>2, <2>1
  <2> QED
    BY <1>1, <1>6, <2>2 DEF TidyInv
<1>8. CASE Len(Top.pending) = 1
  <2>1. Close
    BY <1>8 DEF PopMessage
  <2>2. Extends(walk, walk', 1) /\ walk[Len(walk') + 1] = Top
    BY <1>1, <1>2, <2>1, CloseRole
  <2>3. r = <<>>
    <3> DEFINE q == Top.pending
    <3>1. q \in Seq(Range(q)) /\ Len(q) = 1 /\ r = Tail(q)
      BY <1>2, <1>8 DEF SoundFrame
    <3> HIDE DEF q, r
    <3>2. Tail(q) \in Seq(Range(q)) /\ Len(Tail(q)) = 0
      BY <3>1
    <3> QED
      BY <3>1, <3>2, EmptySeq
  <2> HIDE DEF v, r, p
  <2>4. Extends(v, walk', 1) /\ Idle(v[Len(walk') + 1])
    <3>1. /\ Len(walk') \in Nat /\ k = Len(walk') + 1
          /\ walk' \in Seq(Range(walk')) /\ v \in Seq(Range(v)) /\ Len(v) = k
      BY <1>5, <2>2 DEF Extends, Requeued
    <3>2. \A j \in 1..Len(walk') : SameRole(walk'[j], walk[j])
      BY <2>2 DEF Extends
    <3>3. ASSUME NEW j \in 1..Len(walk') PROVE SameRole(walk'[j], v[j])
      <4>1. j \in 1..k /\ j # k
        BY <3>1
      <4> QED
        BY <1>5, <3>2, <4>1 DEF Requeued, SameRole
    <3>4. v[k].pending = <<>> /\ v[k].begin = Top.begin
      BY <1>2, <1>5, <2>3 DEF Requeued
    <3>5. Top.begin = 0
      BY <1>1, <1>2 DEF SoundFrame, IsBlock, Loops, Messengers
    <3> QED
      BY <3>1, <3>3, <3>4, <3>5 DEF Extends, Idle
  <2>5. Tidy(walk', messages', seen, nodes)
    BY <1>6, <2>4, TidyClose
  <2> QED
    BY <1>1, <2>5 DEF TidyInv
<1> QED
  BY <1>7, <1>8

\* An expression that is being left has messages left.
StillWaits(f) == f.part = "leaving" => f.pending # <<>>

Waiting(w) == \A k \in DOMAIN w : StillWaits(w[k])

\* A frame is put on a walk.
LEMMA WaitingAppend ==
    ASSUME NEW u, u \in Seq(Range(u)), Waiting(u), NEW f, StillWaits(f)
    PROVE  Waiting(Append(u, f))
<1> DEFINE v == Append(u, f)
<1>1. u \in Seq(Range(u) \cup {f}) /\ f \in Range(u) \cup {f}
  BY SeqMonotonic
<1>2. /\ DOMAIN u = 1..Len(u) /\ Len(u) \in Nat /\ DOMAIN v = 1..(Len(u) + 1)
      /\ \A i \in 1..Len(u) : v[i] = u[i]
      /\ v[Len(u) + 1] = f
  BY <1>1, PushFacts
<1> HIDE DEF v
<1>3. Waiting(v)
  BY <1>2 DEF Waiting
<1> QED
  BY <1>3 DEF v

\* A frame of a walk changed.
LEMMA WaitingEdit ==
    ASSUME NEW w, IsWalk(w), Waiting(w), NEW i \in 1..Len(w), NEW g, StillWaits(g),
           NEW v, v = [w EXCEPT ![i] = g]
    PROVE  Waiting(v) /\ v \in Seq(Range(v))
<1>1. w \in Seq(Range(w)) /\ DOMAIN w = 1..Len(w)
  BY DEF IsWalk
<1>2. /\ v \in Seq(Range(v)) /\ DOMAIN v = 1..Len(w)
      /\ v[i] = g /\ \A k \in 1..Len(w) : k # i => v[k] = w[k]
  BY <1>1, EditFacts
<1> QED
  BY <1>1, <1>2 DEF Waiting

\* Details of frames do not matter.
LEMMA WaitingAlike ==
    ASSUME NEW w, Waiting(w), NEW v, DOMAIN v \subseteq DOMAIN w,
           \A k \in DOMAIN v : Alike(w[k], v[k]) /\ v[k].pending = w[k].pending
    PROVE  Waiting(v)
  BY DEF Waiting, StillWaits, Alike

\* The innermost node has one more child.
LEMMA WaitingFilled ==
    ASSUME IsWalk(walk), Waiting(walk)
    PROVE  Waiting(Filled) /\ IsWalk(Filled)
<1>1. Extends(Filled, walk, 0) /\ AlikeWalks(walk, Filled)
  BY FilledRole, FilledAlike
<1>2. DOMAIN Filled = 1..Len(walk) /\ DOMAIN walk = 1..Len(walk)
  BY <1>1 DEF AlikeWalks, IsWalk
<1>3. \A k \in DOMAIN Filled : Alike(walk[k], Filled[k]) /\ Filled[k].pending = walk[k].pending
  BY <1>1, <1>2 DEF AlikeWalks, Extends, SameRole
<1> QED
  BY <1>1, <1>2, <1>3, WaitingAlike, AlikeStanding

\* The innermost node was left.
LEMMA WaitingClose ==
    ASSUME IsWalk(walk), walk # <<>>, Waiting(walk), Close
    PROVE  Waiting(walk')
<1>1. Extends(walk, walk', 1) /\ IsWalk(walk') /\ Len(walk') = Len(walk) - 1
  BY CloseRole, CloseFacts
<1>2. \A k \in 1..(Len(walk) - 1) : Alike(walk[k], walk'[k])
  BY CloseFacts
<1>3. /\ DOMAIN walk = 1..Len(walk) /\ Len(walk) \in Nat
      /\ DOMAIN walk' = 1..(Len(walk) - 1)
  BY <1>1 DEF Extends
<1>4. DOMAIN walk' \subseteq DOMAIN walk
  BY <1>3
<1>5. \A k \in DOMAIN walk' : SameRole(walk'[k], walk[k])
  BY <1>1, <1>3 DEF Extends
<1> QED
  BY <1>2, <1>3, <1>4, <1>5, WaitingAlike DEF SameRole

\* What is being left has a message to leave, whatever the step.
LEMMA WaitingNext ==
    ASSUME ContextInv, ~final => TidyInv, Waiting(walk), [Next]_vars
    PROVE  Waiting(walk')
<1>1. /\ IsWalk(walk) /\ IsWalk(Filled) /\ Waiting(Filled)
      /\ walk # <<>> => /\ Top = walk[Len(walk)] /\ IsFrame(Top)
                        /\ Len(walk) \in 1..Len(walk)
  BY Here, WaitingFilled
<1>2. ASSUME NEW f, Open(f), f.part # "leaving" PROVE Waiting(walk')
  BY <1>1, <1>2, WaitingAppend DEF Open, StillWaits, IsWalk
<1>3. ASSUME walk # <<>>, Close PROVE Waiting(walk')
  BY <1>1, <1>3, WaitingClose
<1>4. ASSUME walk # <<>>, NEW g, walk' = [walk EXCEPT ![Len(walk)] = g], StillWaits(g)
      PROVE  Waiting(walk')
  BY <1>1, <1>4, WaitingEdit
<1>5. CASE EnterIf
  <2>1. [NewFrame("If", "cond") EXCEPT !.elseif = TRUE].part = "cond"
    BY DEF NewFrame
  <2>2. NewBlock("If", "cond", "kIf").part = "cond"
    BY DEF NewBlock, NewFrame
  <2> QED
    BY <1>2, <1>5, <2>1, <2>2 DEF EnterIf
<1>6. CASE EnterConstexprIf
  <2>1. NewFrame("ConstexprIf", "cond").part = "cond"
    BY DEF NewFrame
  <2> QED
    BY <1>2, <1>6, <2>1 DEF EnterConstexprIf
<1>7. CASE LeaveIf \/ LeaveLoop \/ LeaveConditional \/ LeaveTry \/ LeaveSwitch \/ LeaveLambda
  BY <1>3, <1>7 DEF LeaveIf, LeaveLoop, LeaveConditional, LeaveTry, LeaveSwitch, LeaveLambda,
     CloseBlock, IsTop
<1>8. ASSUME NEW kind, NEW part, NEW t, Open(NewBlock(kind, part, t)), part # "leaving"
      PROVE  Waiting(walk')
  <2>1. NewBlock(kind, part, t).part = part
    BY DEF NewBlock, NewFrame
  <2> QED
    BY <1>2, <1>8, <2>1
<1>9. CASE (\E kind \in Loops : EnterLoop(kind)) \/ EnterTry \/ EnterSwitch \/ EnterConditional
  BY <1>8, <1>9 DEF EnterLoop, EnterTry, EnterSwitch, EnterConditional, OpenBlock
<1>10. CASE EnterCatch \/ EnterCase \/ EnterConditionalElse
  <2>1. PICK part \in {"handler", "arm", "else"} :
             walk # <<>> /\ walk' = [walk EXCEPT ![Len(walk)].part = part]
    BY <1>10 DEF EnterCatch, EnterCase, EnterConditionalElse, IsTop
  <2> DEFINE g == [Top EXCEPT !.part = part]
  <2>2. walk' = [walk EXCEPT ![Len(walk)] = g] /\ g.part = part
    BY <1>1, <2>1 DEF IsFrame, FrameFields
  <2> HIDE DEF g
  <2> QED
    BY <1>4, <2>1, <2>2 DEF StillWaits
<1>11. CASE \E b \in BOOLEAN : EnterThen(b) \/ EnterElse(b)
  <2>1. PICK b \in BOOLEAN : EnterThen(b) \/ EnterElse(b)
    BY <1>11
  <2>2. walk # <<>>
    BY <2>1 DEF EnterThen, EnterElse, IsTop
  <2>3. CASE EnterThen(b)
    <3> DEFINE g == [Top EXCEPT !.part = "then", !.braces = b, !.bare = ~b,
                                !.filled = "no"]
    <3>1. walk' = [walk EXCEPT ![Len(walk)] = g]
      BY <1>1, <2>2, <2>3 DEF EnterThen
    <3>2. StillWaits(g)
      BY <1>1, <2>2 DEF StillWaits, IsFrame, FrameFields
    <3> QED
      BY <1>4, <2>2, <3>1, <3>2
  <2>4. CASE EnterElse(b)
    <3> DEFINE g == [Top EXCEPT !.part = "else", !.braces = b, !.filled = "no",
                                !.split = Len(messages[Top.caller])]
    <3>1. walk' = [walk EXCEPT ![Len(walk)] = g]
      BY <1>1, <2>2, <2>4 DEF EnterElse
    <3>2. StillWaits(g)
      BY <1>1, <2>2 DEF StillWaits, IsFrame, FrameFields
    <3> QED
      BY <1>4, <2>2, <3>1, <3>2
  <2> QED
    BY <2>1, <2>3, <2>4
<1>12. CASE \E kind \in Messengers, r, i \in BOOLEAN : EnterMessenger(kind, r, i)
  <2>1. PICK kind \in Messengers, r \in BOOLEAN, i \in BOOLEAN : EnterMessenger(kind, r, i)
    BY <1>12
  <2> DEFINE f == [NewFrame(kind, "body") EXCEPT !.pending = <<Pending(TypeOf(kind), i)>>]
  <2>2. Open(f) \/ Open(NewFrame(kind, "body"))
    BY <2>1 DEF EnterMessenger
  <2>3. f.part = "body" /\ NewFrame(kind, "body").part = "body"
    BY DEF NewFrame
  <2> HIDE DEF f
  <2> QED
    BY <1>2, <2>2, <2>3
<1>13. CASE LeaveMessenger
  <2>1. walk # <<>> /\ IsFrame(Top)
    BY <1>1, <1>13 DEF LeaveMessenger, IsTop
  <2>2. CASE Top.pending = <<>>
    BY <1>3, <1>13, <2>1, <2>2 DEF LeaveMessenger
  <2>3. CASE Top.pending # <<>>
    <3> DEFINE g == [Top EXCEPT !.part = "leaving"]
    <3>1. walk' = [walk EXCEPT ![Len(walk)] = g]
      BY <1>1, <1>13, <2>1, <2>3 DEF LeaveMessenger
    <3>2. StillWaits(g)
      BY <2>1, <2>3 DEF StillWaits, IsFrame, FrameFields
    <3> QED
      BY <1>4, <2>1, <3>1, <3>2
  <2> QED
    BY <2>2, <2>3
<1>14. CASE PopMessage
  <2>1. walk # <<>> /\ IsFrame(Top)
    BY <1>1, <1>14 DEF PopMessage, IsTop
  <2>2. CASE Len(Top.pending) = 1
    BY <1>3, <1>14, <2>1, <2>2 DEF PopMessage
  <2>3. CASE Len(Top.pending) # 1
    <3> DEFINE g == [Top EXCEPT !.pending = Tail(@)]
    <3>1. walk' = [walk EXCEPT ![Len(walk)] = g]
      BY <1>1, <1>14, <2>1, <2>3 DEF PopMessage
    <3>2. Top.pending # <<>> /\ Top.pending \in Seq(Range(Top.pending))
      <4>1. Top.part = "leaving" /\ ~final
        BY <1>14 DEF PopMessage
      <4>2. SoundFrame(Top)
        BY <2>1, <4>1, TidyHere
      <4>3. Len(walk) \in DOMAIN walk
        BY <1>1, <2>1 DEF IsWalk
      <4> QED
        BY <1>1, <2>1, <4>1, <4>2, <4>3 DEF Waiting, StillWaits, SoundFrame
    <3>3. StillWaits(g)
      <4> DEFINE q == Top.pending
      <4>1. g.pending = Tail(q)
        BY <2>1 DEF IsFrame, FrameFields
      <4> HIDE DEF q, g
      <4>2. q \in Seq(Range(q)) /\ q # <<>> /\ Len(q) # 1
        BY <2>3, <3>2 DEF q
      <4>3. Len(Tail(q)) = Len(q) - 1 /\ Len(q) \in Nat \ {0, 1}
        BY <4>2
      <4>4. Tail(q) # <<>>
        <5>1. Len(<<>>) = 0
          BY EmptySeq
        <5>2. Len(Tail(q)) # 0
          BY <4>3
        <5> QED
          BY ONLY <5>1, <5>2
      <4> QED
        BY <4>1, <4>4 DEF StillWaits
    <3> QED
      BY <1>4, <2>1, <3>1, <3>3
  <2> QED
    BY <2>2, <2>3
<1>15. CASE \E i, p \in BOOLEAN : EnterLambda(i, p)
  <2>1. PICK i \in BOOLEAN, p \in BOOLEAN : EnterLambda(i, p)
    BY <1>15
  <2> DEFINE f == NewFrame("Lambda", "body")
             x == Pending("kCall", TRUE)
             call == IF ctx.calls = <<>> THEN 0 ELSE FrameOf(Last(ctx.calls))
             u == [Filled EXCEPT ![call].pending = Append(@, x)]
  <2>2. StillWaits(f)
    BY DEF StillWaits, NewFrame
  <2>3. walk' = Append(Filled, f) \/ walk' = Append(u, f)
    BY <2>1 DEF EnterLambda
  <2> HIDE DEF f, call, x
  <2>4. Waiting(u) /\ u \in Seq(Range(u))
    <3> DEFINE g == [Filled[call] EXCEPT !.pending = Append(@, x)]
    <3>1. u = [Filled EXCEPT ![call] = g]
      OBVIOUS
    <3>2. CASE call \in 1..Len(Filled)
      <4>1. IsFrame(Filled[call]) /\ call \in DOMAIN Filled
        BY <1>1, <3>2 DEF IsWalk
      <4>2. Tidy(Filled, messages, seen, nodes)
        <5>1. Extends(Filled, walk, 0) /\ TidyInv /\ nodes \in Nat
          BY <1>1, <2>1, FilledRole, Here DEF EnterLambda, CanOpen
        <5> QED
          BY <5>1, TidyAlike DEF TidyInv
      <4>3. Filled[call].pending \in Seq(Range(Filled[call].pending))
        BY <4>1, <4>2 DEF Tidy, SoundFrame
      <4>4. Append(Filled[call].pending, x) # <<>>
        BY <4>3
      <4>5. StillWaits(g)
        BY <4>1, <4>4 DEF StillWaits, IsFrame, FrameFields
      <4> HIDE DEF g, u
      <4> QED
        BY <1>1, <3>1, <3>2, <4>5, WaitingEdit
    <3>3. CASE call \notin 1..Len(Filled)
      <4>1. Filled \in Seq(Range(Filled))
        BY <1>1 DEF IsWalk
      <4> HIDE DEF g, u
      <4>2. u = Filled
        BY <3>1, <3>3, <4>1, NoEdit
      <4> QED
        BY <1>1, <4>1, <4>2
    <3> QED
      BY <3>2, <3>3
  <2> QED
    BY <1>1, <2>2, <2>3, <2>4, WaitingAppend DEF IsWalk
<1>16. CASE Finish \/ UNCHANGED vars
  BY <1>16 DEF Finish, vars
<1> QED
  BY <1>5, <1>6, <1>7, <1>9, <1>10, <1>11, <1>12, <1>13, <1>14, <1>15, <1>16 DEF Next

\* A call that the context knows is a frame of the walk.
LEMMA FrameOfCall ==
    ASSUME ContextInv, ctx.calls # <<>>
    PROVE  FrameOf(Last(ctx.calls)) \in DOMAIN walk
<1>1. Knows(ctx, walk)
  BY Here
<1>2. /\ ctx["calls"] \in Seq(Nat) /\ Range(ctx["calls"]) = Standing(walk, KindsOn["calls"])
  BY <1>1, KindsApart DEF Knows, Follows, IsStackOf, Stacks
<1>3. Last(ctx.calls) \in Range(ctx.calls)
  <2> DEFINE s == ctx.calls
  <2>1. s \in Seq(Nat) /\ s # <<>>
    BY <1>2
  <2> HIDE DEF s
  <2>2. Len(s) \in DOMAIN s /\ Last(s) = s[Len(s)]
    <3>1. Len(s) \in Nat \ {0} /\ DOMAIN s = 1..Len(s) /\ Last(s) = s[Len(s)]
      BY <2>1, PopFacts
    <3> QED
      BY <3>1
  <2>3. Last(s) \in Range(s)
    BY <2>2 DEF Range
  <2> QED
    BY <2>3 DEF s
<1>4. \E k \in DOMAIN walk : walk[k].id = Last(ctx.calls)
  BY <1>2, <1>3 DEF Standing
<1> QED
  BY <1>4 DEF FrameOf

\* A lambda is entered, whether or not a call takes a message to it.
LEMMA EnterLambdaTidy ==
    ASSUME ContextInv, CallersInv, TidyInv, NEW i \in BOOLEAN, NEW b \in BOOLEAN,
           EnterLambda(i, b)
    PROVE  TidyInv'
<1> DEFINE f == NewFrame("Lambda", "body")
           p == Pending("kCall", TRUE)
           call == IF ctx.calls = <<>> THEN 0 ELSE FrameOf(Last(ctx.calls))
           u == [Filled EXCEPT ![call].pending = Append(@, p)]
<1>1. messages' = messages /\ nodes' = nodes + 1 /\ nodes \in Nat /\ IsWalk(walk)
  BY TidyHere DEF EnterLambda
<1>2. SoundFrame(f) /\ Idle(f)
  BY CallerIsActivity, NewFrameRole
<1>3. Extends(Filled, walk, 0) /\ IsWalk(Filled)
  BY <1>1, FilledRole, FilledAlike, AlikeStanding
<1>4. CASE walk' = Append(Filled, f) /\ seen' = seen
  <2>1. Open(f)
    BY <1>1, <1>4 DEF Open
  <2> HIDE DEF f
  <2>2. Tidy(walk', messages, seen, nodes')
    BY <1>2, <2>1, TidyEnter
  <2> QED
    BY <1>1, <1>4, <2>2 DEF TidyInv
<1>5. CASE /\ call # 0 /\ walk[call].kind = "Call" /\ seen' = seen \cup {p}
           /\ walk' = Append(u, f)
  <2>1. call \in DOMAIN walk
    BY <1>5, FrameOfCall
  <2>2. /\ p \in [from : Activity, message : Entry] /\ p.message.type \in Waited
        /\ p.message.at = nodes + 1
    <3>1. "kCall" \in Waited
      BY DEF Waited
    <3> QED
      BY <1>1, <3>1, PendingFacts
  <2> HIDE DEF f, p, call
  <2>3. DOMAIN walk = 1..Len(walk) /\ call \in 1..Len(Filled) /\ Len(Filled) = Len(walk)
    BY <1>1, <1>3, <2>1 DEF Extends, IsWalk
  <2>4. Filled[call].kind \in Messengers
    BY <1>3, <1>5, <2>3 DEF Extends, SameRole, Messengers
  <2>5. Tidy(Filled, messages, seen, nodes)
    BY <1>1, <1>3, TidyAlike DEF TidyInv
  <2>6. Requeued(u, Filled, call, Append(Filled[call].pending, p))
    <3>1. u = [Filled EXCEPT ![call].pending = Append(Filled[call].pending, p)]
      OBVIOUS
    <3> HIDE DEF u
    <3> QED
      BY <1>3, <2>3, <3>1, EditRequeued
  <2> HIDE DEF u
  <2>7. Tidy(u, messages, seen \cup {p}, nodes + 1)
    BY <2>2, <2>4, <2>5, <2>6, TidyWait
  <2>8. Extends(u, u, 0)
    <3>1. u \in Seq(Range(u)) /\ Len(u) \in Nat
      BY <2>6 DEF Requeued
    <3> QED
      BY <3>1 DEF Extends, SameRole
  <2>9. Extends(walk', u, 1) /\ walk'[Len(u) + 1] = f
    BY <1>5, <2>8, AppendRole
  <2>10. Tidy(walk', messages, seen \cup {p}, nodes + 1)
    BY <1>2, <2>7, <2>9, TidyOpen
  <2> QED
    BY <1>1, <1>5, <2>10 DEF TidyInv
<1> QED
  BY <1>4, <1>5 DEF EnterLambda, Keep

\* A lambda is left.
LEMMA LeaveLambdaTidy ==
    ASSUME ContextInv, CallersInv, TidyInv, LeaveLambda
    PROVE  TidyInv'
<1>1. /\ walk # <<>> /\ Top.kind = "Lambda" /\ Close
      /\ messages' = messages /\ nodes' = nodes /\ seen' = seen
  BY DEF LeaveLambda, IsTop
<1>2. ~IsBlock(Top) /\ Top.kind \notin Messengers
  BY <1>1 DEF IsBlock, Loops, Messengers
<1>3. Idle(Top)
  BY <1>1, <1>2, TidyHere DEF SoundFrame, Idle
<1> QED
  BY <1>1, <1>3, TidyLeave

--------------------------------------------------------------------------------
(***************************************************************************)
(* The theorems about the messages                                         *)
(***************************************************************************)
\* The invariant: until the end, when the lists are pruned.
PlacesInv ==
    /\ ContextInv /\ CallersInv /\ Waiting(walk)
    /\ ~final => TidyInv

\* It holds before anything was traversed.
LEMMA PlacesInvInit ==
    ASSUME Init
    PROVE  PlacesInv
<1>1. /\ walk = <<>> /\ backups = <<>> /\ ctx = EmptyContext /\ nodes = 0 /\ lambdas = 0
      /\ messages = [a \in Activity |-> <<>>] /\ seen = {}
  BY DEF Init
<1>2. DOMAIN <<>> = {} /\ \A S : <<>> \in Seq(S)
  <2>1. <<>> \in Seq(Nat) /\ Len(<<>>) = 0 /\ \A S : <<>> \in Seq(S)
    BY EmptySeq
  <2>2. DOMAIN <<>> = 1..Len(<<>>)
    BY <2>1, LenProperties
  <2> QED
    BY <2>1, <2>2
<1>3. CallersInv
  BY <1>1, <1>2, VisitorAssumption DEF CallersInv, Sane, EmptyContext
<1>4. Waiting(walk)
  BY <1>1, <1>2 DEF Waiting
<1>5. TidyInv
  <2>1. messages \in [Activity -> Seq(Entry)] /\ \A a \in Activity : DOMAIN messages[a] = {}
    BY <1>1, <1>2
  <2>2. BlocksStand(walk, messages) /\ ClosedHoldWork(walk, messages)
    BY <1>1, <1>2, <2>1 DEF BlocksStand, ClosedHoldWork
  <2>3. Placed(walk, messages, seen) /\ Pushed(seen, nodes)
    BY <1>1, <1>2, <2>1 DEF Placed, Pushed
  <2> QED
    BY <1>1, <1>2, <2>1, <2>2, <2>3 DEF TidyInv, Tidy
<1> QED
  BY <1>3, <1>4, <1>5, ContextInvInit DEF PlacesInv

\* It is inductive.
LEMMA PlacesInvNext ==
    ASSUME PlacesInv, [Next]_vars
    PROVE  PlacesInv'
<1>1. ContextInv' /\ CallersInv' /\ Waiting(walk)'
  <2>1. Waiting(walk')
    BY WaitingNext DEF PlacesInv
  <2> QED
    BY <2>1, ContextInvNext, CallersNext DEF PlacesInv, Waiting, StillWaits
<1>2. ContextInv /\ CallersInv /\ Waiting(walk)
  BY DEF PlacesInv
<1>3. ASSUME ~final, ~final' PROVE TidyInv'
  <2> USE <1>2
  <2>1. TidyInv
    BY <1>3 DEF PlacesInv
  <2>2. CASE EnterIf
    BY <2>1, <2>2, EnterIfTidy
  <2>3. CASE EnterConstexprIf
    BY <2>1, <2>3, EnterConstexprIfTidy
  <2>4. CASE LeaveIf
    BY <2>1, <2>4, LeaveIfTidy
  <2>5. CASE \E b \in BOOLEAN : EnterThen(b) \/ EnterElse(b)
    BY <2>1, <2>5, EnterBranchTidy
  <2>6. CASE (\E kind \in Loops : EnterLoop(kind)) \/ EnterTry \/ EnterSwitch \/ EnterConditional
    <3>1. ASSUME NEW kind \in Loops, EnterLoop(kind) PROVE TidyInv'
      BY <2>1, <3>1, OpenBlockTidy DEF EnterLoop
    <3>2. CASE EnterTry
      BY <2>1, <3>2, OpenBlockTidy DEF EnterTry
    <3>3. CASE EnterSwitch
      BY <2>1, <3>3, OpenBlockTidy DEF EnterSwitch
    <3>4. CASE EnterConditional
      BY <2>1, <3>4, OpenBlockTidy DEF EnterConditional
    <3> QED
      BY <2>6, <3>1, <3>2, <3>3, <3>4
  <2>7. CASE LeaveLoop \/ LeaveConditional \/ LeaveTry \/ LeaveSwitch
    BY <2>1, <2>7, LeaveBlockTidy
  <2>8. CASE EnterCatch \/ EnterCase \/ EnterConditionalElse
    BY <2>1, <2>8, NextPartTidy
  <2>9. CASE \E kind \in Messengers, r, i \in BOOLEAN : EnterMessenger(kind, r, i)
    BY <2>1, <2>9, EnterMessengerTidy
  <2>10. CASE LeaveMessenger
    BY <2>1, <2>10, LeaveMessengerTidy
  <2>11. CASE PopMessage
    BY <2>1, <2>11, PopMessageTidy DEF Waiting, StillWaits
  <2>12. CASE \E i, p \in BOOLEAN : EnterLambda(i, p)
    BY <2>1, <2>12, EnterLambdaTidy
  <2>13. CASE LeaveLambda
    BY <2>1, <2>13, LeaveLambdaTidy
  <2>14. CASE Finish
    BY <1>3, <2>14 DEF Finish
  <2>15. CASE UNCHANGED vars
    BY <2>1, <2>15 DEF TidyInv, vars
  <2> QED
    BY <2>2, <2>3, <2>4, <2>5, <2>6, <2>7, <2>8, <2>9, <2>10, <2>11, <2>12, <2>13,
       <2>14, <2>15 DEF Next
<1>4. final => final'
  <2> SUFFICES ASSUME final PROVE final' = final
    OBVIOUS
  <2> QED
    BY DEF Next, vars, EnterIf, EnterConstexprIf, LeaveIf, EnterThen, EnterElse, EnterLoop,
       LeaveLoop, EnterTry, EnterCatch, LeaveTry, EnterSwitch, EnterCase, LeaveSwitch,
       EnterConditional, EnterConditionalElse, LeaveConditional, EnterMessenger,
       LeaveMessenger, PopMessage, EnterLambda, LeaveLambda, Finish, OpenBlock, CloseBlock
<1> QED
  BY <1>1, <1>3, <1>4 DEF PlacesInv

\* Counting the places of one message.
LEMMA OneOrNone ==
    ASSUME NEW S, \A i, j \in S : i = j
    PROVE  /\ S = {} => Cardinality(S) = 0
           /\ S # {} => Cardinality(S) = 1
<1>1. CASE S = {}
  BY <1>1, FS_EmptySet
<1>2. CASE S # {}
  <2>1. PICK x \in S : TRUE
    BY <1>2
  <2>2. S = {x}
    BY <2>1
  <2>3. Cardinality({x}) = 1
    BY FS_Singleton
  <2> QED
    BY <1>2, <2>2, <2>3
<1> QED
  BY <1>1, <1>2

\* The messages, their blocks and what waits are tidy, whatever the syntax tree.
THEOREM PlacesInvariance == Spec => []PlacesInv
<1>1. Init => PlacesInv
  BY PlacesInvInit
<1>2. PlacesInv /\ [Next]_vars => PlacesInv'
  BY PlacesInvNext
<1> QED
  BY <1>1, <1>2, PTL DEF Spec

\* A message pushed for an expression waits under it or is recorded in the
\* activity of its caller, once and in one of the two; and what is recorded of
\* calls and returns was pushed. Folding an empty block loses none of them.
THEOREM OnePlace == Spec => []EachMessageInOnePlace
<1>1. ASSUME PlacesInv PROVE EachMessageInOnePlace
  <2> SUFFICES ASSUME ~final
               PROVE  /\ \A p \in seen : Places(p) = 1 \/ (~IsWork(p) /\ Places(p) = 0)
                      /\ \A a \in Activity : \A k \in DOMAIN messages[a] :
                            messages[a][k].type \in {"kCall", "kReturn", "kCoReturn"}
                                => [from |-> a, message |-> messages[a][k]] \in seen
    BY DEF EachMessageInOnePlace
  <2>1. Placed(walk, messages, seen)
    BY <1>1 DEF PlacesInv, TidyInv, Tidy
  <2>2. ASSUME NEW p \in seen
        PROVE  Places(p) = 1 \/ (~IsWork(p) /\ Places(p) = 0)
    <3> DEFINE S == {k \in DOMAIN messages[p.from] : messages[p.from][k] = p.message}
               W == {k \in DOMAIN walk : p \in Range(walk[k].pending)}
    <3>1. \A i, j \in S : i = j
      BY <2>1 DEF Placed, StandsAt
    <3>2. \A i, j \in W : i = j
      BY <2>1 DEF Placed, WaitsAt
    <3>3. S = {} \/ W = {}
      BY <2>1 DEF Placed, StandsAt, WaitsAt
    <3>4. IsWork(p) => S # {} \/ W # {}
      BY <2>1 DEF Placed, StandsAt, WaitsAt
    <3>5. Places(p) = Cardinality(S) + Cardinality(W)
      BY DEF Places
    <3> HIDE DEF S, W
    <3>6. /\ S = {} => Cardinality(S) = 0
          /\ S # {} => Cardinality(S) = 1
          /\ W = {} => Cardinality(W) = 0
          /\ W # {} => Cardinality(W) = 1
      BY <3>1, <3>2, OneOrNone
    <3> QED
      BY <3>3, <3>4, <3>5, <3>6
  <2>3. \A a \in Activity : \A k \in DOMAIN messages[a] :
            messages[a][k].type \in {"kCall", "kReturn", "kCoReturn"}
                => [from |-> a, message |-> messages[a][k]] \in seen
    BY <2>1 DEF Placed, Waited
  <2> QED
    BY <2>2, <2>3
<1> QED
  BY <1>1, PlacesInvariance, PTL

--------------------------------------------------------------------------------
(***************************************************************************)
(* Branches: what the context knows of the ifs of a walk                   *)
(***************************************************************************)
\* An if whose next branch, or whose single statement in a branch without braces,
\* is still told apart: no else-if was noted in it.
Clean(f) ==
    /\ f.kind = "If"
    /\ \/ f.part = "cond"
       \/ f.part = "then" /\ ~f.bare
       \/ f.part = "else" /\ ~f.bare /\ (f.braces \/ f.filled = "no")

\* The if that an else-if with number n belongs to, of those on the stack.
IsBase(ids, b, n) == b \in ids /\ b < n /\ \A c \in ids : c < n => c <= b

\* caller_id() in a context.
CallerOf(c) == IF c.lambdas = <<>> THEN Function ELSE Last(c.lambdas)

\* What a context recalls of the first m - 1 nodes of a walk: which ifs have no
\* else-if, which else-if is the last one of its if, and who calls.
Recalls(c, w, m) ==
    /\ \A i \in DOMAIN c.elseifs : c.elseifs[i] \in Seq(Nat)
    /\ \A k \in DOMAIN w : k < m /\ Clean(w[k]) /\ ~w[k].elseif
                               => w[k].id \notin DOMAIN c.elseifs
    /\ \A k \in DOMAIN w : k < m /\ w[k].elseif
                               => \E b : IsBase(Range(c.ifs), b, w[k].id)
    /\ \A k \in DOMAIN w : k < m /\ Clean(w[k]) /\ w[k].elseif =>
          \A b : IsBase(Range(c.ifs), b, w[k].id) =>
                    b \in DOMAIN c.elseifs /\ Last(c.elseifs[b]) = w[k].id
    /\ \A k \in DOMAIN w : k + 1 = m /\ w[k].kind # "Lambda"
                               => w[k].caller = CallerOf(c)

\* Each backup recalls the walk up to its lambda.
Backed(bs, w, at) ==
    /\ at \in Seq(Nat) /\ Len(at) = Len(bs)
    /\ IsStackOf(at, LambdasIn(w))
    /\ \A j \in 1..Len(bs) : Recalls(bs[j], w, at[j])

\* How the frames of a walk fit together.
Shaped(w) ==
    /\ \A k \in DOMAIN w : w[k].id # 0
    /\ \A k \in DOMAIN w : w[k].kind \in Ifs /\ w[k].part = "then"
                               => (w[k].bare <=> ~w[k].braces)
    /\ \A k \in DOMAIN w : k < Len(w) => w[k].filled # "no"
    /\ \A j, k \in DOMAIN w : k = j + 1 /\ w[j].kind # "Lambda"
                               => w[k].caller = w[j].caller

\* The moves of a traversal. A node below the innermost one stays as it is, and
\* has a child.
Stays(f, g) ==
    /\ g.kind = f.kind /\ g.id = f.id /\ g.caller = f.caller /\ g.elseif = f.elseif
    /\ g.part = f.part /\ g.braces = f.braces /\ g.bare = f.bare
    /\ g.split = f.split /\ g.begin = f.begin /\ g.filled # "no"

\* The node f is entered ...
Entering(w, v, f) ==
    /\ Len(w) \in Nat /\ Len(v) = Len(w) + 1
    /\ DOMAIN w = 1..Len(w) /\ DOMAIN v = 1..(Len(w) + 1)
    /\ \A k \in 1..Len(w) : Stays(w[k], v[k])
    /\ v[Len(w) + 1] = f

\* ... the innermost one goes on as g ...
Turning(w, v, g) ==
    /\ Len(w) \in Nat \ {0} /\ Len(v) = Len(w)
    /\ DOMAIN w = 1..Len(w) /\ DOMAIN v = 1..Len(w)
    /\ \A k \in 1..Len(w) : k # Len(w) => v[k] = w[k]
    /\ v[Len(w)] = g
    /\ g.kind = w[Len(w)].kind /\ g.id = w[Len(w)].id /\ g.caller = w[Len(w)].caller
    /\ g.elseif = w[Len(w)].elseif /\ g.begin = w[Len(w)].begin

\* ... or is left.
Leaving(w, v) ==
    /\ Len(w) \in Nat \ {0} /\ Len(v) = Len(w) - 1
    /\ DOMAIN w = 1..Len(w) /\ DOMAIN v = 1..(Len(w) - 1)
    /\ \A k \in 1..(Len(w) - 1) : Stays(w[k], v[k])

\* What is the same node to the context.
Known(f, g) ==
    /\ g.kind = f.kind /\ g.id = f.id /\ g.caller = f.caller /\ g.elseif = f.elseif
    /\ Clean(g) => Clean(f)

\* A node that stays is the same to the context.
LEMMA StaysKnown ==
    ASSUME NEW f, NEW g, Stays(f, g)
    PROVE  Known(f, g)
  BY DEF Stays, Known, Clean

\* The frames fit together after a node was entered ...
LEMMA ShapedEntering ==
    ASSUME NEW w, Shaped(w), NEW v, NEW f, Entering(w, v, f), f.id # 0,
           ~(f.kind \in Ifs /\ f.part = "then"),
           w # <<>> /\ w[Len(w)].kind # "Lambda" => f.caller = w[Len(w)].caller
    PROVE  Shaped(v)
<1>1. \A k \in DOMAIN v : k \in 1..Len(w) \/ k = Len(w) + 1
  BY DEF Entering
<1>2. \A k \in DOMAIN v : k # Len(w) + 1 => k \in DOMAIN w /\ Stays(w[k], v[k])
  BY <1>1 DEF Entering
<1>3. \A k \in DOMAIN v : k < Len(v) => k # Len(w) + 1
  BY DEF Entering
<1>4. \A k \in DOMAIN v : v[k].id # 0
  BY <1>1, <1>2 DEF Shaped, Stays, Entering
<1>5. \A k \in DOMAIN v : v[k].kind \in Ifs /\ v[k].part = "then"
                               => (v[k].bare <=> ~v[k].braces)
  BY <1>1, <1>2 DEF Shaped, Stays, Entering
<1>6. \A k \in DOMAIN v : k < Len(v) => v[k].filled # "no"
  BY <1>2, <1>3 DEF Stays
<1>7. ASSUME NEW j \in DOMAIN v, NEW k \in DOMAIN v, k = j + 1, v[j].kind # "Lambda"
      PROVE  v[k].caller = v[j].caller
  <2>1. j \in 1..Len(w) /\ j # Len(w) + 1 /\ Stays(w[j], v[j]) /\ j \in DOMAIN w
    BY <1>7, <1>2 DEF Entering
  <2>2. CASE k \in 1..Len(w)
    <3>1. Stays(w[k], v[k]) /\ k \in DOMAIN w
      BY <2>2 DEF Entering
    <3> QED
      BY <1>7, <2>1, <3>1 DEF Shaped, Stays
  <2>3. CASE k = Len(w) + 1
    <3>1. j = Len(w) /\ Len(w) # 0
      BY <1>7, <2>1, <2>3 DEF Entering
    <3>2. w # <<>>
      BY <3>1
    <3> QED
      BY <1>7, <2>1, <2>3, <3>1, <3>2 DEF Stays, Entering
  <2> QED
    BY <1>1, <2>2, <2>3
<1> QED
  BY <1>4, <1>5, <1>6, <1>7 DEF Shaped

\* The nodes after the innermost one went on.
LEMMA TurningFacts ==
    ASSUME NEW w, NEW v, NEW g, Turning(w, v, g)
    PROVE  /\ Len(w) \in DOMAIN w /\ DOMAIN v = DOMAIN w
           /\ \A k \in DOMAIN v : /\ k \in DOMAIN w /\ k < Len(w) + 1
                                  /\ k < Len(w) \/ k = Len(w)
                                  /\ k < Len(w) => v[k] = w[k]
           /\ v[Len(w)] = g
<1>1. Len(w) \in Nat \ {0} /\ DOMAIN w = 1..Len(w) /\ DOMAIN v = DOMAIN w
  BY DEF Turning
<1>2. Len(w) \in DOMAIN w
  BY <1>1
<1>3. ASSUME NEW k \in DOMAIN v
      PROVE  /\ k \in DOMAIN w /\ k < Len(w) + 1
             /\ k < Len(w) \/ k = Len(w)
             /\ k < Len(w) => v[k] = w[k]
  <2>1. k \in 1..Len(w) /\ k \in DOMAIN w
    BY <1>1
  <2>2. k < Len(w) + 1 /\ (k < Len(w) \/ k = Len(w)) /\ (k < Len(w) => k # Len(w))
    BY <1>1, <2>1
  <2> QED
    BY <2>1, <2>2 DEF Turning
<1> QED
  BY <1>1, <1>2, <1>3 DEF Turning

\* ... when the innermost one went on ...
LEMMA ShapedTurning ==
    ASSUME NEW w, Shaped(w), NEW v, NEW g, Turning(w, v, g),
           g.kind \in Ifs /\ g.part = "then" => (g.bare <=> ~g.braces)
    PROVE  Shaped(v)
<1>1. ASSUME NEW k \in DOMAIN v
      PROVE  v[k].id = w[k].id /\ v[k].kind = w[k].kind /\ v[k].caller = w[k].caller
  <2>1. CASE k = Len(w)
    BY <2>1 DEF Turning
  <2>2. CASE k < Len(w)
    BY <2>2, TurningFacts
  <2> QED
    BY <2>1, <2>2, TurningFacts
<1>2. \A k \in DOMAIN v : v[k].kind \in Ifs /\ v[k].part = "then"
                               => (v[k].bare <=> ~v[k].braces)
  BY TurningFacts DEF Shaped
<1>3. \A k \in DOMAIN v : k < Len(v) => v[k].filled # "no"
  <2>1. Len(v) = Len(w)
    BY DEF Turning
  <2> QED
    BY <2>1, TurningFacts DEF Shaped
<1> QED
  BY <1>1, <1>2, <1>3, TurningFacts DEF Shaped

\* ... and when it was left.
LEMMA ShapedLeaving ==
    ASSUME NEW w, Shaped(w), NEW v, Leaving(w, v)
    PROVE  Shaped(v)
<1>1. \A k \in DOMAIN v : k \in DOMAIN w /\ Stays(w[k], v[k])
  BY DEF Leaving
<1> QED
  BY <1>1 DEF Shaped, Stays

--------------------------------------------------------------------------------
(***************************************************************************)
(* What the context recalls after each move                                *)
(***************************************************************************)
\* Nothing the context recalls has changed.
LEMMA RecallsKept ==
    ASSUME NEW c, NEW w, NEW m, Recalls(c, w, m), NEW d, NEW v, NEW p,
           \A k \in DOMAIN v : k < p => k \in DOMAIN w /\ k < m /\ Known(w[k], v[k]),
           d.ifs = c.ifs, d.elseifs = c.elseifs,
           \A k \in DOMAIN v : k + 1 = p /\ v[k].kind # "Lambda"
                                    => v[k].caller = CallerOf(d)
    PROVE  Recalls(d, v, p)
<1>1. \A i \in DOMAIN d.elseifs : d.elseifs[i] \in Seq(Nat)
  BY DEF Recalls
<1>2. \A k \in DOMAIN v : k < p /\ Clean(v[k]) /\ ~v[k].elseif
                               => v[k].id \notin DOMAIN d.elseifs
  BY DEF Recalls, Known
<1>3. \A k \in DOMAIN v : k < p /\ v[k].elseif
                               => \E b : IsBase(Range(d.ifs), b, v[k].id)
  BY DEF Recalls, Known
<1>4. \A k \in DOMAIN v : k < p /\ Clean(v[k]) /\ v[k].elseif =>
          \A b : IsBase(Range(d.ifs), b, v[k].id) =>
                    b \in DOMAIN d.elseifs /\ Last(d.elseifs[b]) = v[k].id
  BY DEF Recalls, Known
<1> QED
  BY <1>1, <1>2, <1>3, <1>4 DEF Recalls

\* A backup still recalls what it did.
LEMMA RecallsStill ==
    ASSUME NEW c, NEW w, NEW m, Recalls(c, w, m), NEW v,
           \A k \in DOMAIN v : k < m => k \in DOMAIN w /\ Known(w[k], v[k]),
           \A k \in DOMAIN v : k + 1 = m => k < m
    PROVE  Recalls(c, v, m)
<1>1. \A k \in DOMAIN v : k + 1 = m /\ v[k].kind # "Lambda"
                               => v[k].caller = CallerOf(c)
  BY DEF Recalls, Known
<1> QED
  BY <1>1, RecallsKept

\* A node that is no if was entered.
LEMMA RecallsEntering ==
    ASSUME NEW w, NEW c, Recalls(c, w, Len(w) + 1), NEW v, NEW f, Entering(w, v, f),
           f.kind # "If", ~f.elseif, f.kind # "Lambda" => f.caller = CallerOf(c),
           NEW d, d.ifs = c.ifs, d.elseifs = c.elseifs,
           f.kind # "Lambda" => d.lambdas = c.lambdas
    PROVE  Recalls(d, v, Len(v) + 1)
<1>1. ASSUME NEW k \in DOMAIN v
      PROVE  \/ k \in DOMAIN w /\ k < Len(w) + 1 /\ k + 1 # Len(v) + 1 /\ Known(w[k], v[k])
             \/ k = Len(w) + 1 /\ v[k] = f
  <2>1. Len(w) \in Nat /\ k \in Int /\ (k \in 1..Len(w) \/ k = Len(w) + 1)
    BY DEF Entering
  <2>2. CASE k \in 1..Len(w)
    <3>1. Stays(w[k], v[k]) /\ k \in DOMAIN w /\ Len(v) = Len(w) + 1
      BY <2>2 DEF Entering
    <3> QED
      BY <2>1, <2>2, <3>1, StaysKnown
  <2>3. CASE k = Len(w) + 1
    BY <2>3 DEF Entering
  <2> QED
    BY <2>1, <2>2, <2>3
<1>2. ~Clean(f) /\ ~f.elseif
  BY DEF Clean
<1>3. \A i \in DOMAIN d.elseifs : d.elseifs[i] \in Seq(Nat)
  BY DEF Recalls
<1>4. \A k \in DOMAIN v : Clean(v[k]) /\ ~v[k].elseif => v[k].id \notin DOMAIN d.elseifs
  BY <1>1, <1>2 DEF Recalls, Known
<1>5. \A k \in DOMAIN v : v[k].elseif => \E b : IsBase(Range(d.ifs), b, v[k].id)
  BY <1>1, <1>2 DEF Recalls, Known
<1>6. \A k \in DOMAIN v : Clean(v[k]) /\ v[k].elseif =>
          \A b : IsBase(Range(d.ifs), b, v[k].id) =>
                    b \in DOMAIN d.elseifs /\ Last(d.elseifs[b]) = v[k].id
  BY <1>1, <1>2 DEF Recalls, Known
<1>7. \A k \in DOMAIN v : k + 1 = Len(v) + 1 /\ v[k].kind # "Lambda"
                               => v[k].caller = CallerOf(d)
  BY <1>1 DEF CallerOf
<1> QED
  BY <1>3, <1>4, <1>5, <1>6, <1>7 DEF Recalls

\* The innermost node goes on.
LEMMA RecallsTurning ==
    ASSUME NEW w, NEW c, Recalls(c, w, Len(w) + 1), NEW v, NEW g, Turning(w, v, g),
           Clean(g) => Clean(w[Len(w)]),
           NEW d, d.ifs = c.ifs, d.elseifs = c.elseifs, d.lambdas = c.lambdas
    PROVE  Recalls(d, v, Len(v) + 1)
<1>1. ASSUME NEW k \in DOMAIN v
      PROVE  k \in DOMAIN w /\ k < Len(w) + 1 /\ Known(w[k], v[k])
  <2>1. k \in DOMAIN w /\ k < Len(w) + 1 /\ (k < Len(w) \/ k = Len(w))
    BY TurningFacts
  <2>2. CASE k = Len(w)
    BY <2>1, <2>2 DEF Turning, Known
  <2>3. CASE k < Len(w)
    <3>1. v[k] = w[k]
      BY <2>3, TurningFacts
    <3> QED
      BY <2>1, <3>1 DEF Known
  <2> QED
    BY <2>1, <2>2, <2>3
<1>2. Len(v) = Len(w) /\ CallerOf(d) = CallerOf(c)
  BY DEF Turning, CallerOf
<1>3. \A k \in DOMAIN v : k + 1 = Len(v) + 1 /\ v[k].kind # "Lambda"
                               => v[k].caller = CallerOf(d)
  BY <1>1, <1>2 DEF Recalls, Known
<1> QED
  BY <1>1, <1>2, <1>3, RecallsKept

\* The caller is the same after a node that is no lambda was left.
LEMMA CalledLeaving ==
    ASSUME NEW w, Shaped(w), NEW c, Recalls(c, w, Len(w) + 1), NEW v, Leaving(w, v),
           w[Len(w)].kind # "Lambda", NEW d, d.lambdas = c.lambdas
    PROVE  \A k \in DOMAIN v : k + 1 = Len(v) + 1 /\ v[k].kind # "Lambda"
                                   => v[k].caller = CallerOf(d)
<1> SUFFICES ASSUME NEW k \in DOMAIN v, k + 1 = Len(v) + 1, v[k].kind # "Lambda"
             PROVE  v[k].caller = CallerOf(d)
  OBVIOUS
<1>1. Len(w) \in DOMAIN w /\ k \in DOMAIN w /\ Len(w) = k + 1 /\ Stays(w[k], v[k])
  BY DEF Leaving
<1>2. w[Len(w)].caller = CallerOf(c)
  BY <1>1 DEF Recalls
<1>3. w[Len(w)].caller = w[k].caller
  BY <1>1 DEF Shaped, Stays
<1> QED
  BY <1>1, <1>2, <1>3 DEF Stays, CallerOf

\* A node was left that is neither a lambda nor an if the context has entered.
LEMMA RecallsLeaving ==
    ASSUME NEW w, Shaped(w), NEW c, Recalls(c, w, Len(w) + 1), NEW v, Leaving(w, v),
           w[Len(w)].kind # "Lambda", NEW d, d.ifs = c.ifs, d.elseifs = c.elseifs,
           d.lambdas = c.lambdas
    PROVE  Recalls(d, v, Len(v) + 1)
<1>1. ASSUME NEW k \in DOMAIN v
      PROVE  k \in DOMAIN w /\ k < Len(w) + 1 /\ Known(w[k], v[k])
  <2>1. k \in DOMAIN w /\ k < Len(w) + 1 /\ Stays(w[k], v[k])
    BY DEF Leaving
  <2> QED
    BY <2>1, StaysKnown
<1> QED
  BY <1>1, CalledLeaving, RecallsKept

\* The top of a stack is the greatest number on it.
LEMMA StackTop ==
    ASSUME NEW s \in Seq(Nat), NEW ids, IsStackOf(s, ids), s # <<>>
    PROVE  /\ Last(s) \in ids /\ Last(s) \in Nat
           /\ \A x \in ids : x \in Nat /\ x <= Last(s)
<1>1. Len(s) \in Nat \ {0} /\ DOMAIN s = 1..Len(s) /\ Last(s) = s[Len(s)]
  BY PopFacts
<1>2. Len(s) \in DOMAIN s /\ \A i \in DOMAIN s : s[i] \in Nat
  BY <1>1
<1>3. Last(s) \in ids
  BY <1>1, <1>2 DEF IsStackOf, Range
<1>4. ASSUME NEW x \in ids PROVE x \in Nat /\ x <= Last(s)
  <2>1. PICK i \in DOMAIN s : x = s[i]
    BY DEF IsStackOf, Range
  <2>2. i < Len(s) \/ i = Len(s)
    BY <1>1
  <2>3. CASE i < Len(s)
    <3>1. s[i] < s[Len(s)]
      BY <1>2, <2>3 DEF IsStackOf, Ascending
    <3> QED
      BY <1>1, <1>2, <2>1, <3>1
  <2> QED
    BY <1>1, <1>2, <2>1, <2>2, <2>3
<1> QED
  BY <1>1, <1>2, <1>3, <1>4

\* Nodes further in have greater numbers.
LEMMA IdsApart ==
    ASSUME NEW w, IsWalk(w), NEW j \in DOMAIN w, NEW k \in DOMAIN w
    PROVE  /\ w[j].id \in Nat /\ w[k].id \in Nat
           /\ j < k => w[j].id < w[k].id
           /\ w[j].id = w[k].id => j = k
           /\ w[j].id < w[k].id => j < k
<1>1. DOMAIN w = 1..Len(w) /\ Len(w) \in Nat
  BY DEF IsWalk
<1>2. w[j].id \in Nat /\ w[k].id \in Nat
  BY DEF IsWalk, IsFrame
<1>3. /\ j < k => w[j].id < w[k].id
      /\ k < j => w[k].id < w[j].id
  BY DEF IsWalk, Ascending, Ids
<1> QED
  BY <1>1, <1>2, <1>3

\* The ifs of the context.
LEMMA IfsFacts ==
    ASSUME ContextInv
    PROVE  /\ ctx.ifs \in Seq(Nat) /\ IsStackOf(ctx.ifs, Range(ctx.ifs))
           /\ DOMAIN ctx.elseifs \subseteq Range(ctx.ifs)
           /\ Range(ctx.ifs) = Standing(walk, {"If"})
           /\ \A x \in Range(ctx.ifs) : /\ x \in Nat /\ x <= nodes
                                        /\ \E k \in DOMAIN walk :
                                              walk[k].id = x /\ ~walk[k].elseif
           /\ ctx.ifs # <<>> => /\ CurrentIf = Last(ctx.ifs) /\ CurrentIf \in Range(ctx.ifs)
                                /\ \A x \in Range(ctx.ifs) : x <= CurrentIf
           /\ ctx.ifs = <<>> => CurrentIf = NoStmt
<1>1. /\ Knows(ctx, walk) /\ DOMAIN ctx.elseifs \subseteq Range(ctx.ifs)
  BY Here
<1>2. /\ ctx["ifs"] \in Seq(Nat) /\ IsStackOf(ctx["ifs"], Standing(walk, KindsOn["ifs"]))
      /\ KindsOn["ifs"] = {"If"}
  BY <1>1, KindsApart DEF Knows, Follows, Stacks, KindsOn
<1>3. Range(ctx.ifs) = Standing(walk, {"If"}) /\ IsStackOf(ctx.ifs, Range(ctx.ifs))
  BY <1>2 DEF IsStackOf
<1>4. ASSUME NEW x \in Range(ctx.ifs)
      PROVE  /\ x \in Nat /\ x <= nodes
             /\ \E k \in DOMAIN walk : walk[k].id = x /\ ~walk[k].elseif
  <2>1. PICK k \in DOMAIN walk : x = walk[k].id /\ ~walk[k].elseif
    BY <1>3 DEF Standing
  <2>2. walk[k].id <= nodes /\ walk[k].id \in Nat
    BY DEF ContextInv, Sound, IsWalk, IsFrame
  <2> QED
    BY <2>1, <2>2
<1>5. ctx.ifs # <<>> => /\ CurrentIf = Last(ctx.ifs) /\ CurrentIf \in Range(ctx.ifs)
                        /\ \A x \in Range(ctx.ifs) : x <= CurrentIf
  BY <1>2, <1>3, StackTop DEF CurrentIf
<1> QED
  BY <1>1, <1>2, <1>3, <1>4, <1>5 DEF CurrentIf

\* The if that is innermost in the walk is the current one.
LEMMA CurrentIfIsTop ==
    ASSUME ContextInv, walk # <<>>, Top.kind = "If", ~Top.elseif
    PROVE  ctx.ifs # <<>> /\ CurrentIf = Top.id
<1>1. IsWalk(walk) /\ Top = Last(walk) /\ Top = walk[Len(walk)] /\ IsFrame(Top)
  BY Here DEF Top
<1>2. Len(walk) \in DOMAIN walk
  BY <1>1, TopIsGreatest
<1>3. Top.part # "leaving"
  BY <1>1 DEF IsFrame, Messengers
<1>4. Top.id \in Standing(walk, {"If"})
  BY <1>1, <1>2, <1>3 DEF Standing
<1>5. \A x \in Standing(walk, {"If"}) : x \in Nat /\ x <= Top.id
  BY <1>1, TopIsGreatest
<1>6. ctx.ifs # <<>>
  <2>1. Range(<<>>) = {}
    BY EmptySeq DEF Range
  <2> QED
    BY <1>4, <2>1, IfsFacts
<1>7. CurrentIf \in Nat /\ CurrentIf <= Top.id /\ Top.id <= CurrentIf /\ Top.id \in Nat
  BY <1>4, <1>5, <1>6, IfsFacts
<1> QED
  BY <1>6, <1>7

\* The context knows which statement an else of the innermost node belongs to.
LEMMA CurrentIsTop ==
    ASSUME ContextInv, Shaped(walk), Recalls(ctx, walk, Len(walk) + 1), walk # <<>>,
           Clean(Top)
    PROVE  /\ ~Top.elseif => CurrentIf = Top.id /\ CurrentElseIf = NoStmt
           /\ Top.elseif => CurrentElseIf = Top.id
           /\ Top.id # NoStmt
<1>1. /\ IsWalk(walk) /\ Top = Last(walk) /\ Top = walk[Len(walk)] /\ IsFrame(Top)
      /\ Top.kind = "If" /\ Top.id \in Nat
  BY Here DEF Top, Clean, IsFrame
<1>2. Len(walk) \in DOMAIN walk /\ Len(walk) < Len(walk) + 1
  BY <1>1, TopIsGreatest
<1>3. Top.id # NoStmt
  BY <1>1, <1>2 DEF Shaped, NoStmt
<1>4. CASE ~Top.elseif
  <2>1. CurrentIf = Top.id
    BY <1>1, <1>4, CurrentIfIsTop
  <2>2. Top.id \notin DOMAIN ctx.elseifs
    BY <1>1, <1>2, <1>4 DEF Recalls
  <2> QED
    BY <1>3, <1>4, <2>1, <2>2 DEF CurrentElseIf
<1>5. CASE Top.elseif
  <2>1. PICK b : IsBase(Range(ctx.ifs), b, Top.id)
    BY <1>1, <1>2, <1>5 DEF Recalls
  <2>2. b \in DOMAIN ctx.elseifs /\ Last(ctx.elseifs[b]) = Top.id
    BY <1>1, <1>2, <1>5, <2>1 DEF Recalls
  <2>3. ctx.ifs # <<>>
    <3>1. Range(<<>>) = {}
      BY EmptySeq DEF Range
    <3> QED
      BY <2>1, <3>1 DEF IsBase
  <2>4. CurrentIf \in Range(ctx.ifs) /\ CurrentIf \in Nat /\ b <= CurrentIf /\ b \in Nat
    BY <2>1, <2>3, IfsFacts DEF IsBase
  <2>5. PICK k \in DOMAIN walk : walk[k].id = CurrentIf /\ ~walk[k].elseif
    BY <2>4, IfsFacts
  <2>6. CurrentIf < Top.id /\ CurrentIf # NoStmt
    <3>1. k # Len(walk) /\ DOMAIN walk = 1..Len(walk) /\ Len(walk) \in Nat
      BY <1>1, <1>5, <2>5, TopIsGreatest
    <3>2. k < Len(walk)
      BY <3>1
    <3>3. walk[k].id < walk[Len(walk)].id
      BY <1>1, <1>2, <3>2, IdsApart
    <3> QED
      BY <1>1, <2>5, <3>3 DEF Shaped, NoStmt
  <2>7. b = CurrentIf
    <3>1. CurrentIf <= b
      BY <2>1, <2>4, <2>6 DEF IsBase
    <3> QED
      BY <2>4, <3>1
  <2> QED
    BY <1>3, <1>5, <2>2, <2>6, <2>7 DEF CurrentElseIf
<1> QED
  BY <1>3, <1>4, <1>5

\* The context enters an if.
LEMMA RecallsIf ==
    ASSUME ContextInv, Recalls(ctx, walk, Len(walk) + 1),
           NEW v, NEW f, Entering(walk, v, f), f.id = nodes + 1, ~f.elseif,
           f.caller = CallerId, NEW d, d = EnterIfStmt(nodes + 1)
    PROVE  Recalls(d, v, Len(v) + 1)
<1>1. /\ d.ifs = Append(ctx.ifs, nodes + 1) /\ d.elseifs = ctx.elseifs
      /\ d.lambdas = ctx.lambdas /\ nodes \in Nat /\ IsWalk(walk)
  BY Here DEF EnterIfStmt, EmptyContext, Stacks
<1>2. Range(d.ifs) = Range(ctx.ifs) \cup {nodes + 1}
  <2>1. \A x \in Range(ctx.ifs) : x < nodes + 1
    BY <1>1, IfsFacts
  <2> QED
    <3>1. ctx.ifs \in Seq(Nat) /\ IsStackOf(ctx.ifs, Range(ctx.ifs)) /\ nodes + 1 \in Nat
      BY <1>1, IfsFacts
    <3>2. IsStackOf(Append(ctx.ifs, nodes + 1), Range(ctx.ifs) \cup {nodes + 1})
      BY <2>1, <3>1, StackPush
    <3> QED
      BY <1>1, <3>2 DEF IsStackOf
<1>3. ASSUME NEW k \in DOMAIN v
      PROVE  \/ /\ k \in DOMAIN walk /\ k < Len(walk) + 1 /\ k + 1 # Len(v) + 1
                /\ Known(walk[k], v[k]) /\ v[k].id < nodes + 1 /\ v[k].id \in Nat
             \/ k = Len(walk) + 1 /\ v[k] = f
  <2>1. Len(walk) \in Nat /\ (k \in 1..Len(walk) \/ k = Len(walk) + 1)
    BY DEF Entering
  <2>2. CASE k \in 1..Len(walk)
    <3>1. Stays(walk[k], v[k]) /\ k \in DOMAIN walk /\ Len(v) = Len(walk) + 1
      BY <2>2 DEF Entering
    <3>2. walk[k].id \in Nat /\ walk[k].id <= nodes /\ v[k].id = walk[k].id
      BY <3>1 DEF ContextInv, Sound, IsWalk, IsFrame, Stays
    <3>3. k < Len(walk) + 1 /\ k + 1 # Len(walk) + 2
      BY <2>1, <2>2
    <3> QED
      BY <1>1, <2>1, <3>1, <3>2, <3>3, StaysKnown
  <2>3. CASE k = Len(walk) + 1
    BY <2>3 DEF Entering
  <2> QED
    BY <2>1, <2>2, <2>3
<1>4. \A n \in Nat : n < nodes + 1 =>
          \A b : IsBase(Range(d.ifs), b, n) <=> IsBase(Range(ctx.ifs), b, n)
  <2> SUFFICES ASSUME NEW n \in Nat, n < nodes + 1, NEW b
               PROVE  IsBase(Range(d.ifs), b, n) <=> IsBase(Range(ctx.ifs), b, n)
    OBVIOUS
  <2>1. ~(nodes + 1 < n) /\ \A x \in Range(ctx.ifs) : x \in Nat
    BY <1>1, IfsFacts
  <2> QED
    BY <1>2, <2>1 DEF IsBase
<1>5. nodes + 1 \notin DOMAIN ctx.elseifs
  BY <1>1, IfsFacts
<1>6. \A i \in DOMAIN d.elseifs : d.elseifs[i] \in Seq(Nat)
  BY <1>1 DEF Recalls
<1>7. \A k \in DOMAIN v : Clean(v[k]) /\ ~v[k].elseif => v[k].id \notin DOMAIN d.elseifs
  BY <1>1, <1>3, <1>5 DEF Recalls, Known
<1>8. \A k \in DOMAIN v : v[k].elseif => \E b : IsBase(Range(d.ifs), b, v[k].id)
  BY <1>3, <1>4 DEF Recalls, Known
<1>9. \A k \in DOMAIN v : Clean(v[k]) /\ v[k].elseif =>
          \A b : IsBase(Range(d.ifs), b, v[k].id) =>
                    b \in DOMAIN d.elseifs /\ Last(d.elseifs[b]) = v[k].id
  BY <1>1, <1>3, <1>4 DEF Recalls, Known
<1>10. \A k \in DOMAIN v : k + 1 = Len(v) + 1 /\ v[k].kind # "Lambda"
                               => v[k].caller = CallerOf(d)
  BY <1>1, <1>3 DEF CallerOf, CallerId
<1> QED
  BY <1>6, <1>7, <1>8, <1>9, <1>10 DEF Recalls

\* The context notes an else-if with the if it belongs to.
LEMMA RecallsElseIf ==
    ASSUME ContextInv, Shaped(walk), Recalls(ctx, walk, Len(walk) + 1), IsElseIf,
           NEW v, NEW f, Entering(walk, v, f), f.id = nodes + 1, f.elseif,
           f.caller = CallerId, NEW d, d = EnterElseIfStmt(nodes + 1)
    PROVE  Recalls(d, v, Len(v) + 1)
<1> DEFINE chain == IF CurrentIf \in DOMAIN ctx.elseifs
                    THEN ctx.elseifs[CurrentIf] ELSE <<>>
           noted == [i \in DOMAIN ctx.elseifs \cup {CurrentIf} |->
                       IF i = CurrentIf THEN Append(chain, nodes + 1) ELSE ctx.elseifs[i]]
<1>1. /\ d.ifs = ctx.ifs /\ d.elseifs = noted
      /\ d.lambdas = ctx.lambdas /\ nodes \in Nat /\ IsWalk(walk)
  BY Here DEF EnterElseIfStmt, EmptyContext, Stacks
<1>2. /\ DOMAIN d.elseifs = DOMAIN ctx.elseifs \cup {CurrentIf}
      /\ d.elseifs[CurrentIf] = Append(chain, nodes + 1)
      /\ \A i \in DOMAIN ctx.elseifs : i # CurrentIf => d.elseifs[i] = ctx.elseifs[i]
  BY <1>1
<1>3. chain \in Seq(Nat)
  <2>1. <<>> \in Seq(Nat)
    BY EmptySeq
  <2> QED
    BY <2>1 DEF Recalls
<1> HIDE DEF chain, noted
<1>4. Append(chain, nodes + 1) \in Seq(Nat) /\ Last(Append(chain, nodes + 1)) = nodes + 1
  <2>1. nodes + 1 \in Nat
    BY <1>1
  <2>2. /\ Append(chain, nodes + 1) \in Seq(Nat)
        /\ Len(Append(chain, nodes + 1)) = Len(chain) + 1
        /\ Append(chain, nodes + 1)[Len(chain) + 1] = nodes + 1
    BY <1>3, <2>1, PushFacts
  <2> QED
    BY <2>2 DEF Last
<1>5. /\ walk # <<>> /\ InBranch(Top) /\ ~Top.braces /\ Top = walk[Len(walk)]
      /\ Len(walk) \in 1..Len(walk)
      /\ \/ Top.id = CurrentIf
         \/ Top.id = CurrentElseIf /\ CurrentElseIf # NoStmt
  BY Here DEF IsElseIf, IsChildOf
<1>6. ctx.ifs # <<>> /\ CurrentIf \in Range(ctx.ifs) /\ CurrentIf \in Nat
      /\ CurrentIf < nodes + 1 /\ \A x \in Range(ctx.ifs) : x <= CurrentIf /\ x \in Nat
  <2>1. CurrentIf # NoStmt
    BY DEF IsElseIf, IsChildOf, CurrentElseIf
  <2>2. ctx.ifs # <<>>
    BY <2>1, IfsFacts
  <2> QED
    BY <1>1, <2>2, IfsFacts
<1>7. ASSUME NEW k \in DOMAIN v
      PROVE  \/ /\ k \in DOMAIN walk /\ k < Len(walk) + 1 /\ k + 1 # Len(v) + 1
                /\ Known(walk[k], v[k]) /\ Stays(walk[k], v[k])
             \/ k = Len(walk) + 1 /\ v[k] = f
  <2>1. Len(walk) \in Nat /\ (k \in 1..Len(walk) \/ k = Len(walk) + 1)
    BY DEF Entering
  <2>2. CASE k \in 1..Len(walk)
    <3>1. Stays(walk[k], v[k]) /\ k \in DOMAIN walk /\ Len(v) = Len(walk) + 1
      BY <2>2 DEF Entering
    <3>2. k < Len(walk) + 1 /\ k + 1 # Len(walk) + 2
      BY <2>1, <2>2
    <3> QED
      BY <2>1, <3>1, <3>2, StaysKnown
  <2>3. CASE k = Len(walk) + 1
    BY <2>3 DEF Entering
  <2> QED
    BY <2>1, <2>2, <2>3
<1>8. ASSUME NEW k \in DOMAIN walk, Stays(walk[k], v[k]), Clean(v[k]), walk[k].id = Top.id
      PROVE  FALSE
  <2>1. k = Len(walk) /\ Len(walk) \in DOMAIN walk
    <3>1. Len(walk) \in DOMAIN walk
      BY <1>1, <1>5, TopIsGreatest
    <3> QED
      BY <1>1, <1>5, <1>8, <3>1, IdsApart
  <2>2. v[k].part = Top.part /\ v[k].braces = Top.braces /\ v[k].bare = Top.bare
        /\ v[k].filled # "no"
    BY <1>5, <1>8, <2>1 DEF Stays
  <2>3. Top.part = "then" => Top.bare
    BY <1>5, <2>1 DEF Shaped, InBranch
  <2> QED
    BY <1>5, <1>8, <2>2, <2>3 DEF Clean, InBranch
<1>9. \A i \in DOMAIN d.elseifs : d.elseifs[i] \in Seq(Nat)
  BY <1>2, <1>4 DEF Recalls
<1>10. ASSUME NEW k \in DOMAIN v, Clean(v[k]), ~v[k].elseif
       PROVE  v[k].id \notin DOMAIN d.elseifs
  <2>1. k \in DOMAIN walk /\ k < Len(walk) + 1 /\ Known(walk[k], v[k]) /\ Stays(walk[k], v[k])
    BY <1>7, <1>10
  <2>2. v[k].id \notin DOMAIN ctx.elseifs
    BY <1>10, <2>1 DEF Recalls, Known
  <2>3. v[k].id # CurrentIf
    <3> SUFFICES ASSUME v[k].id = CurrentIf PROVE FALSE
      OBVIOUS
    <3>1. CASE Top.id = CurrentIf
      BY <1>8, <1>10, <2>1, <3>1 DEF Known
    <3>2. CASE CurrentElseIf # NoStmt
      BY <2>2, <3>2 DEF CurrentElseIf
    <3> QED
      BY <1>5, <3>1, <3>2
  <2> QED
    BY <1>2, <2>2, <2>3
<1>11. IsBase(Range(ctx.ifs), CurrentIf, nodes + 1)
  BY <1>6 DEF IsBase
<1>12. \A k \in DOMAIN v : v[k].elseif => \E b : IsBase(Range(d.ifs), b, v[k].id)
  BY <1>1, <1>7, <1>11 DEF Recalls, Known
<1>13. ASSUME NEW k \in DOMAIN v, Clean(v[k]), v[k].elseif,
              NEW b, IsBase(Range(d.ifs), b, v[k].id)
       PROVE  b \in DOMAIN d.elseifs /\ Last(d.elseifs[b]) = v[k].id
  <2>1. CASE k = Len(walk) + 1 /\ v[k] = f
    <3>1. IsBase(Range(ctx.ifs), b, nodes + 1)
      BY <1>1, <1>13, <2>1
    <3>2. b \in Nat /\ b <= CurrentIf /\ CurrentIf <= b
      BY <1>6, <3>1 DEF IsBase
    <3>3. b = CurrentIf
      BY <1>6, <3>2
    <3> QED
      BY <1>2, <1>4, <2>1, <3>3
  <2>2. CASE k \in DOMAIN walk /\ k < Len(walk) + 1 /\ Known(walk[k], v[k])
             /\ Stays(walk[k], v[k])
    <3>1. b \in DOMAIN ctx.elseifs /\ Last(ctx.elseifs[b]) = v[k].id
          /\ v[k].id = walk[k].id
      BY <1>1, <1>13, <2>2 DEF Recalls, Known
    <3>2. b # CurrentIf
      <4> SUFFICES ASSUME b = CurrentIf PROVE FALSE
        OBVIOUS
      <4>1. CASE Top.id = CurrentIf
        <5>1. b < walk[k].id
          BY <1>13, <3>1 DEF IsBase
        <5>2. Len(walk) \in DOMAIN walk /\ walk[Len(walk)].id < walk[k].id
          BY <1>1, <1>5, <4>1, <5>1, TopIsGreatest
        <5>3. Len(walk) < k /\ DOMAIN walk = 1..Len(walk)
          BY <1>1, <2>2, <5>2, IdsApart DEF IsWalk
        <5> QED
          BY <1>5, <2>2, <5>3
      <4>2. CASE Top.id = CurrentElseIf /\ CurrentElseIf # NoStmt
        <5>1. CurrentElseIf = Last(ctx.elseifs[CurrentIf])
          BY <4>2 DEF CurrentElseIf
        <5> QED
          BY <1>8, <1>13, <2>2, <3>1, <4>2, <5>1
      <4> QED
        BY <1>5, <4>1, <4>2
    <3> QED
      BY <1>2, <3>1, <3>2
  <2> QED
    BY <1>7, <2>1, <2>2
<1>14. \A k \in DOMAIN v : k + 1 = Len(v) + 1 /\ v[k].kind # "Lambda"
                               => v[k].caller = CallerOf(d)
  BY <1>1, <1>7 DEF CallerOf, CallerId
<1> QED
  BY <1>9, <1>10, <1>12, <1>13, <1>14 DEF Recalls

\* The context leaves an if.
LEMMA RecallsLeaveIf ==
    ASSUME ContextInv, Shaped(walk), Recalls(ctx, walk, Len(walk) + 1), walk # <<>>,
           Top.kind = "If", ~Top.elseif, NEW v, Leaving(walk, v), NEW d, d = LeaveIfStmt
    PROVE  Recalls(d, v, Len(v) + 1)
<1>1. /\ IsWalk(walk) /\ Top = walk[Len(walk)] /\ Len(walk) \in DOMAIN walk
      /\ ctx.ifs # <<>> /\ CurrentIf = Top.id
  BY Here, TopIsGreatest, CurrentIfIsTop
<1> DEFINE left == [i \in DOMAIN ctx.elseifs \ {CurrentIf} |-> ctx.elseifs[i]]
<1>2. d.ifs = Front(ctx.ifs) /\ d.elseifs = left /\ d.lambdas = ctx.lambdas
  BY Here DEF LeaveIfStmt, EmptyContext, Stacks
<1>3. /\ DOMAIN d.elseifs = DOMAIN ctx.elseifs \ {Top.id}
      /\ \A i \in DOMAIN d.elseifs : d.elseifs[i] = ctx.elseifs[i]
  BY <1>1, <1>2
<1> HIDE DEF left
<1>4. Range(d.ifs) = Range(ctx.ifs) \ {Top.id}
  <2>1. /\ ctx.ifs \in Seq(Nat) /\ IsStackOf(ctx.ifs, Range(ctx.ifs))
        /\ Top.id \in Range(ctx.ifs) /\ \A x \in Range(ctx.ifs) : x <= Top.id
    BY <1>1, IfsFacts
  <2>2. IsStackOf(Front(ctx.ifs), Range(ctx.ifs) \ {Top.id})
    BY <2>1, StackPop
  <2> QED
    BY <1>2, <2>2 DEF IsStackOf
<1>5. ASSUME NEW k \in DOMAIN v
      PROVE  /\ k \in DOMAIN walk /\ k < Len(walk) + 1 /\ Known(walk[k], v[k])
             /\ v[k].id < Top.id /\ v[k].id \in Nat /\ Top.id \in Nat
  <2>1. k \in DOMAIN walk /\ k < Len(walk) /\ k < Len(walk) + 1 /\ Stays(walk[k], v[k])
    BY DEF Leaving
  <2>2. /\ walk[k].id < walk[Len(walk)].id /\ walk[k].id \in Nat
        /\ walk[Len(walk)].id \in Nat
    BY <1>1, <2>1, IdsApart
  <2> QED
    BY <1>1, <2>1, <2>2, StaysKnown DEF Stays
<1>6. ASSUME NEW k \in DOMAIN v, NEW b
      PROVE  IsBase(Range(d.ifs), b, v[k].id) <=> IsBase(Range(ctx.ifs), b, v[k].id)
  <2>1. v[k].id < Top.id /\ v[k].id \in Nat /\ Top.id \in Nat
    BY <1>5
  <2>2. ~(Top.id < v[k].id)
    BY <2>1
  <2> QED
    BY <1>4, <2>2 DEF IsBase
<1>7. \A i \in DOMAIN d.elseifs : d.elseifs[i] \in Seq(Nat)
  BY <1>3 DEF Recalls
<1>8. \A k \in DOMAIN v : Clean(v[k]) /\ ~v[k].elseif => v[k].id \notin DOMAIN d.elseifs
  BY <1>3, <1>5 DEF Recalls, Known
<1>9. \A k \in DOMAIN v : v[k].elseif => \E b : IsBase(Range(d.ifs), b, v[k].id)
  BY <1>5, <1>6 DEF Recalls, Known
<1>10. ASSUME NEW k \in DOMAIN v, Clean(v[k]), v[k].elseif,
              NEW b, IsBase(Range(d.ifs), b, v[k].id)
       PROVE  b \in DOMAIN d.elseifs /\ Last(d.elseifs[b]) = v[k].id
  <2>1. IsBase(Range(ctx.ifs), b, v[k].id)
    BY <1>6, <1>10
  <2>2. b \in DOMAIN ctx.elseifs /\ Last(ctx.elseifs[b]) = v[k].id
    BY <1>5, <1>10, <2>1 DEF Recalls, Known
  <2>3. b # Top.id
    BY <1>4, <1>10 DEF IsBase
  <2> QED
    BY <1>3, <2>2, <2>3
<1>11. \A k \in DOMAIN v : k + 1 = Len(v) + 1 /\ v[k].kind # "Lambda"
                               => v[k].caller = CallerOf(d)
  BY <1>1, <1>2, CalledLeaving
<1> QED
  BY <1>7, <1>8, <1>9, <1>10, <1>11 DEF Recalls

\* Nothing the backups recall has changed.
LEMMA BackedKept ==
    ASSUME NEW bs, NEW w, NEW at, Backed(bs, w, at), NEW v, Len(bs) \in Nat,
           DOMAIN w = 1..Len(w), Len(w) \in Nat, DOMAIN v \subseteq Nat \ {0},
           LambdasIn(v) = LambdasIn(w),
           \A k \in DOMAIN v : k \in DOMAIN w => Known(w[k], v[k])
    PROVE  Backed(bs, v, at)
<1>1. ASSUME NEW j \in 1..Len(bs) PROVE Recalls(bs[j], v, at[j])
  <2>1. at[j] \in LambdasIn(w)
    BY DEF Backed, IsStackOf, Range
  <2>2. at[j] \in 1..Len(w)
    BY <2>1 DEF LambdasIn
  <2>3. \A k \in DOMAIN v : k < at[j] => k \in DOMAIN w
    BY <2>2
  <2>4. \A k \in DOMAIN v : k + 1 = at[j] => k < at[j]
    BY <2>2
  <2>5. Recalls(bs[j], w, at[j])
    BY DEF Backed
  <2> QED
    BY <2>3, <2>4, <2>5, RecallsStill
<1> QED
  BY <1>1 DEF Backed

\* TraverseLambdaExpr() has saved the context.
LEMMA BackedPush ==
    ASSUME NEW w, NEW v, NEW f, Entering(w, v, f), f.kind = "Lambda",
           NEW S, NEW bs \in Seq(S), NEW at, Backed(bs, w, at),
           NEW c, Recalls(c, w, Len(w) + 1)
    PROVE  Backed(Append(bs, c), v, Append(at, Len(w) + 1))
<1> DEFINE cs == Append(bs, c)
           ats == Append(at, Len(w) + 1)
<1>1. /\ Len(bs) \in Nat /\ Len(cs) = Len(bs) + 1
      /\ \A j \in 1..Len(bs) : cs[j] = bs[j]
      /\ cs[Len(bs) + 1] = c
  <2>1. bs \in Seq(S \cup {c})
    BY SeqMonotonic
  <2> QED
    BY <2>1, PushFacts
<1>2. /\ at \in Seq(Nat) /\ Len(at) = Len(bs) /\ IsStackOf(at, LambdasIn(w))
      /\ Len(w) + 1 \in Nat /\ Len(w) \in Nat
  BY DEF Backed, Entering
<1>3. /\ ats \in Seq(Nat) /\ Len(ats) = Len(bs) + 1
      /\ \A j \in 1..Len(bs) : ats[j] = at[j]
      /\ ats[Len(bs) + 1] = Len(w) + 1
  BY <1>2, PushFacts
<1>4. IsStackOf(ats, LambdasIn(w) \cup {Len(w) + 1})
  <2>1. \A m \in LambdasIn(w) : m < Len(w) + 1
    BY <1>2 DEF LambdasIn, Entering
  <2> QED
    BY <1>2, <2>1, StackPush
<1> HIDE DEF cs, ats
<1>5. ASSUME NEW k \in DOMAIN v
      PROVE  \/ k \in DOMAIN w /\ k \in 1..Len(w) /\ Known(w[k], v[k])
             \/ k = Len(w) + 1 /\ v[k] = f
  <2>1. k \in 1..Len(w) \/ k = Len(w) + 1
    BY DEF Entering
  <2> QED
    BY <2>1, StaysKnown DEF Entering
<1>6. LambdasIn(v) = LambdasIn(w) \cup {Len(w) + 1}
  <2>1. \A k \in DOMAIN w : k \in DOMAIN v /\ v[k].kind = w[k].kind
    BY DEF Entering, Stays
  <2>2. Len(w) + 1 \in DOMAIN v /\ v[Len(w) + 1] = f
    BY DEF Entering
  <2>3. LambdasIn(w) \cup {Len(w) + 1} \subseteq LambdasIn(v)
    BY <2>1, <2>2 DEF LambdasIn
  <2>4. LambdasIn(v) \subseteq LambdasIn(w) \cup {Len(w) + 1}
    BY <1>5, <2>1 DEF LambdasIn
  <2> QED
    BY <2>3, <2>4
<1>7. ASSUME NEW j \in 1..(Len(bs) + 1) PROVE Recalls(cs[j], v, ats[j])
  <2>1. j \in 1..Len(bs) \/ j = Len(bs) + 1
    BY <1>1
  <2>2. CASE j \in 1..Len(bs)
    <3>1. at[j] \in LambdasIn(w)
      BY <1>2, <2>2 DEF IsStackOf, Range
    <3>2. at[j] \in 1..Len(w)
      BY <3>1 DEF LambdasIn, Entering
    <3>3. \A k \in DOMAIN v : k < at[j] => k \in DOMAIN w /\ Known(w[k], v[k])
      BY <1>2, <1>5, <3>2
    <3>4. \A k \in DOMAIN v : k + 1 = at[j] => k < at[j]
      BY <1>2, <1>5, <3>2
    <3>5. Recalls(bs[j], w, at[j])
      BY <2>2 DEF Backed
    <3> QED
      BY <1>1, <1>3, <2>2, <3>3, <3>4, <3>5, RecallsStill
  <2>3. CASE j = Len(bs) + 1
    <3>1. \A k \in DOMAIN v : k < Len(w) + 1 => k \in DOMAIN w /\ Known(w[k], v[k])
      BY <1>2, <1>5
    <3>2. \A k \in DOMAIN v : k + 1 = Len(w) + 1 => k < Len(w) + 1
      BY <1>2, <1>5
    <3> QED
      BY <1>1, <1>3, <2>3, <3>1, <3>2, RecallsStill
  <2> QED
    BY <2>1, <2>2, <2>3
<1> QED
  BY <1>1, <1>3, <1>4, <1>6, <1>7 DEF Backed, cs, ats

\* TraverseLambdaExpr() puts the context back.
LEMMA BackedPop ==
    ASSUME NEW w, NEW v, Leaving(w, v), w[Len(w)].kind = "Lambda",
           NEW S, NEW bs \in Seq(S), NEW at, Backed(bs, w, at)
    PROVE  /\ bs # <<>> /\ Recalls(Last(bs), v, Len(v) + 1)
           /\ Backed(Front(bs), v, Front(at))
<1>1. /\ Len(w) \in Nat \ {0} /\ DOMAIN w = 1..Len(w) /\ Len(v) + 1 = Len(w)
      /\ DOMAIN v = 1..(Len(w) - 1) /\ Len(w) \in DOMAIN w
  BY DEF Leaving
<1>2. /\ at \in Seq(Nat) /\ Len(at) = Len(bs) /\ IsStackOf(at, LambdasIn(w))
  BY DEF Backed
<1>3. Len(w) \in LambdasIn(w) /\ \A m \in LambdasIn(w) : m <= Len(w)
  BY <1>1 DEF LambdasIn
<1>4. /\ at # <<>> /\ Last(at) = Len(w) /\ Front(at) \in Seq(Nat)
      /\ IsStackOf(Front(at), LambdasIn(w) \ {Len(w)})
  BY <1>2, <1>3, StackPop
<1>5. /\ Len(at) \in Nat \ {0} /\ Len(Front(at)) = Len(at) - 1 /\ Last(at) = at[Len(at)]
      /\ \A j \in 1..(Len(at) - 1) : Front(at)[j] = at[j]
  BY <1>2, <1>4, PopFacts
<1>6. bs # <<>>
  BY <1>2, <1>5
<1>7. /\ Len(Front(bs)) = Len(at) - 1 /\ Last(bs) = bs[Len(at)]
      /\ \A j \in 1..(Len(at) - 1) : Front(bs)[j] = bs[j]
  BY <1>2, <1>6, PopFacts
<1>8. \A k \in DOMAIN v : k \in DOMAIN w /\ k < Len(w) /\ Known(w[k], v[k])
                          /\ v[k].kind = w[k].kind
  <2> SUFFICES ASSUME NEW k \in DOMAIN v
               PROVE  /\ k \in DOMAIN w /\ k < Len(w) /\ Known(w[k], v[k])
                      /\ v[k].kind = w[k].kind
    OBVIOUS
  <2>1. k \in 1..(Len(w) - 1) /\ k \in DOMAIN w /\ k < Len(w) /\ Stays(w[k], v[k])
    BY <1>1 DEF Leaving
  <2> QED
    BY <2>1, StaysKnown DEF Stays
<1>9. Recalls(Last(bs), v, Len(v) + 1)
  <2>1. Recalls(Last(bs), w, Len(w))
    BY <1>2, <1>4, <1>5, <1>7 DEF Backed
  <2>2. \A k \in DOMAIN v : k + 1 = Len(w) => k < Len(w)
    BY <1>8
  <2>3. Recalls(Last(bs), v, Len(w))
    BY <1>8, <2>1, <2>2, RecallsStill
  <2> QED
    BY <1>1, <2>3
<1>10. LambdasIn(v) = LambdasIn(w) \ {Len(w)}
  <2>1. \A k : k \in DOMAIN v <=> k \in DOMAIN w /\ k # Len(w)
    BY <1>1
  <2> QED
    BY <1>8, <2>1 DEF LambdasIn
<1>11. ASSUME NEW j \in 1..(Len(at) - 1) PROVE Recalls(Front(bs)[j], v, Front(at)[j])
  <2>1. j \in 1..Len(bs) /\ j \in 1..Len(at)
    BY <1>2, <1>5
  <2>2. at[j] \in 1..Len(w)
    <3>1. at[j] \in LambdasIn(w)
      BY <1>2, <2>1 DEF IsStackOf, Range
    <3> QED
      BY <1>1, <3>1 DEF LambdasIn
  <2>3. Recalls(bs[j], w, at[j])
    BY <2>1 DEF Backed
  <2>4. \A k \in DOMAIN v : k + 1 = at[j] => k < at[j]
    BY <1>1, <2>2
  <2>5. Recalls(bs[j], v, at[j])
    BY <1>8, <2>3, <2>4, RecallsStill
  <2> QED
    BY <1>5, <1>7, <2>5
<1> QED
  BY <1>4, <1>5, <1>6, <1>7, <1>9, <1>10, <1>11 DEF Backed

--------------------------------------------------------------------------------
(***************************************************************************)
(* What is recorded in an else is set apart                                *)
(***************************************************************************)
\* An else that is in braces or an if of its own, after a then in braces.
Marked(w, k) ==
    /\ w[k].kind = "If" /\ w[k].part = "else" /\ ~w[k].bare
    /\ w[k].braces \/ (k + 1 \in DOMAIN w /\ w[k + 1].kind = "If")

\* Its first message is there.
IsSetApart(ms, f) ==
    /\ f.split + 1 \in DOMAIN ms[f.caller]
    /\ ms[f.caller][f.split + 1].type \in {"kElse", "kElseIf"}

\* The blocks inside of a marked else begin after its mark; so folding them leaves
\* it. In an else without braces nothing is recorded before its statement.
Divided(w, ms) ==
    /\ \A k \in DOMAIN w : Marked(w, k) => IsSetApart(ms, w[k])
    /\ \A j, k \in DOMAIN w :
          Marked(w, j) /\ j < k /\ w[k].begin # 0 /\ w[k].caller = w[j].caller
              => w[j].split + 1 < w[k].begin
    /\ \A k \in DOMAIN w :
          w[k].kind = "If" /\ w[k].part = "else" /\ ~w[k].braces /\ w[k].filled = "no"
              => w[k].split = Len(ms[w[k].caller])

\* Messages are appended.
Grows(ms, ns) ==
    \A a \in Activity : \A i \in DOMAIN ms[a] : i \in DOMAIN ns[a] /\ ns[a][i] = ms[a][i]

\* Messages were appended, some ifs have got to an else with its mark, and some
\* blocks begin at the end.
LEMMA DividedGrow ==
    ASSUME NEW w, NEW ms \in [Activity -> Seq(Entry)], Divided(w, ms),
           \A k \in DOMAIN w : w[k].caller \in Activity,
           NEW ns, Grows(ms, ns), NEW v,
           \A k \in DOMAIN v : Marked(v, k) =>
              \/ /\ k \in DOMAIN w /\ Marked(w, k)
                 /\ v[k].split = w[k].split /\ v[k].caller = w[k].caller
              \/ /\ IsSetApart(ns, v[k])
                 /\ \A i \in DOMAIN v : k < i => v[i].begin = 0,
           \A k \in DOMAIN v : v[k].begin # 0 =>
              \/ /\ k \in DOMAIN w
                 /\ v[k].begin = w[k].begin /\ v[k].caller = w[k].caller
              \/ v[k].begin = Len(ms[v[k].caller]) + 1,
           \A k \in DOMAIN v :
              v[k].kind = "If" /\ v[k].part = "else" /\ ~v[k].braces /\ v[k].filled = "no"
                  => v[k].split = Len(ns[v[k].caller])
    PROVE  Divided(v, ns)
<1>1. ASSUME NEW k \in DOMAIN v, Marked(v, k) PROVE IsSetApart(ns, v[k])
  <2>1. CASE /\ k \in DOMAIN w /\ Marked(w, k)
             /\ v[k].split = w[k].split /\ v[k].caller = w[k].caller
    <3>1. IsSetApart(ms, w[k]) /\ w[k].caller \in Activity
      BY <2>1 DEF Divided
    <3> QED
      BY <2>1, <3>1 DEF IsSetApart, Grows
  <2> QED
    BY <1>1, <2>1
<1>2. ASSUME NEW j \in DOMAIN v, NEW k \in DOMAIN v, Marked(v, j), j < k,
             v[k].begin # 0, v[k].caller = v[j].caller
      PROVE  v[j].split + 1 < v[k].begin
  <2>1. /\ j \in DOMAIN w /\ Marked(w, j)
        /\ v[j].split = w[j].split /\ v[j].caller = w[j].caller
    BY <1>2
  <2>2. CASE /\ k \in DOMAIN w
             /\ v[k].begin = w[k].begin /\ v[k].caller = w[k].caller
    BY <1>2, <2>1, <2>2 DEF Divided
  <2>3. CASE v[k].begin = Len(ms[v[k].caller]) + 1
    <3>1. IsSetApart(ms, w[j]) /\ w[j].caller \in Activity
      BY <2>1 DEF Divided
    <3>2. ms[w[j].caller] \in Seq(Entry)
      BY <3>1
    <3>3. w[j].split + 1 \in 1..Len(ms[w[j].caller]) /\ Len(ms[w[j].caller]) \in Nat
      BY <3>1, <3>2 DEF IsSetApart
    <3>4. w[j].split + 1 < Len(ms[w[j].caller]) + 1
      BY <3>3
    <3> QED
      BY <1>2, <2>1, <2>3, <3>4
  <2> QED
    BY <1>2, <2>2, <2>3
<1> QED
  BY <1>1, <1>2 DEF Divided

\* A node was entered; an if that is the else of the innermost one has marked it.
LEMMA DividedEntering ==
    ASSUME NEW w, NEW ms \in [Activity -> Seq(Entry)], Divided(w, ms),
           \A k \in DOMAIN w : w[k].caller \in Activity,
           NEW ns, Grows(ms, ns), NEW v, NEW f, Entering(w, v, f), f.part # "else",
           f.begin = 0 \/ f.begin = Len(ms[f.caller]) + 1,
           \/ f.kind # "If"
           \/ Len(w) = 0
           \/ ~(/\ w[Len(w)].kind = "If" /\ w[Len(w)].part = "else"
                /\ ~w[Len(w)].bare /\ ~w[Len(w)].braces)
           \/ f.begin = 0 /\ IsSetApart(ns, w[Len(w)])
    PROVE  Divided(v, ns)
<1>1. /\ Len(w) \in Nat /\ DOMAIN w = 1..Len(w) /\ DOMAIN v = 1..(Len(w) + 1)
      /\ v[Len(w) + 1] = f
  BY DEF Entering
<1>2. ASSUME NEW k \in DOMAIN v
      PROVE  \/ k \in DOMAIN w /\ k \in 1..Len(w) /\ k # Len(w) + 1 /\ Stays(w[k], v[k])
             \/ k = Len(w) + 1 /\ v[k] = f
  <2>1. (k \in 1..Len(w) /\ k # Len(w) + 1) \/ k = Len(w) + 1
    BY <1>1
  <2> QED
    BY <1>1, <2>1 DEF Entering
<1>3. ASSUME NEW k \in DOMAIN v, Marked(v, k)
      PROVE  \/ /\ k \in DOMAIN w /\ Marked(w, k)
                /\ v[k].split = w[k].split /\ v[k].caller = w[k].caller
             \/ /\ IsSetApart(ns, v[k])
                /\ \A i \in DOMAIN v : k < i => v[i].begin = 0
  <2>1. k \in DOMAIN w /\ k \in 1..Len(w) /\ Stays(w[k], v[k])
    BY <1>2, <1>3 DEF Marked
  <2>2. CASE v[k].braces \/ k # Len(w)
    <3>1. w[k].braces \/ (k + 1 \in DOMAIN w /\ w[k + 1].kind = "If")
      <4>1. CASE v[k].braces
        BY <2>1, <4>1 DEF Stays
      <4>2. CASE ~v[k].braces
        <5>1. k + 1 \in DOMAIN v /\ v[k + 1].kind = "If" /\ k # Len(w)
          BY <1>3, <2>2, <4>2 DEF Marked
        <5>2. k + 1 # Len(w) + 1
          BY <1>1, <2>1, <5>1
        <5> QED
          BY <1>2, <5>1, <5>2 DEF Stays
      <4> QED
        BY <4>1, <4>2
    <3> QED
      BY <1>3, <2>1, <3>1 DEF Marked, Stays
  <2>3. CASE ~v[k].braces /\ k = Len(w)
    <3>1. f.kind = "If" /\ Len(w) # 0
      BY <1>1, <1>3, <2>1, <2>3 DEF Marked
    <3>2. f.begin = 0 /\ IsSetApart(ns, w[Len(w)])
      BY <1>3, <2>1, <2>3, <3>1 DEF Marked, Stays
    <3>3. IsSetApart(ns, v[k])
      BY <2>1, <2>3, <3>2 DEF IsSetApart, Stays
    <3>4. \A i \in DOMAIN v : k < i => i = Len(w) + 1
      BY <1>1, <2>3
    <3> QED
      BY <1>1, <3>2, <3>3, <3>4
  <2> QED
    BY <2>2, <2>3
<1>4. \A k \in DOMAIN v : v[k].begin # 0 =>
              \/ /\ k \in DOMAIN w
                 /\ v[k].begin = w[k].begin /\ v[k].caller = w[k].caller
              \/ v[k].begin = Len(ms[v[k].caller]) + 1
  BY <1>2 DEF Stays
<1>5. \A k \in DOMAIN v :
          v[k].kind = "If" /\ v[k].part = "else" /\ ~v[k].braces /\ v[k].filled = "no"
              => v[k].split = Len(ns[v[k].caller])
  BY <1>2 DEF Stays
<1> QED
  BY <1>3, <1>4, <1>5, DividedGrow

\* The innermost node goes on; when it gets to its else, with a mark or nothing.
LEMMA DividedTurning ==
    ASSUME NEW w, Shaped(w), NEW ms \in [Activity -> Seq(Entry)], Divided(w, ms),
           \A k \in DOMAIN w : w[k].caller \in Activity,
           NEW ns, Grows(ms, ns), NEW v, NEW g, Turning(w, v, g),
           g.kind = "If" /\ g.part = "else" =>
               /\ g.braces /\ ~g.bare => IsSetApart(ns, g)
               /\ ~g.braces => g.split = Len(ns[g.caller])
    PROVE  Divided(v, ns)
<1>1. /\ Len(w) \in Nat \ {0} /\ DOMAIN w = 1..Len(w) /\ DOMAIN v = DOMAIN w
      /\ v[Len(w)] = g /\ g.begin = w[Len(w)].begin /\ g.caller = w[Len(w)].caller
      /\ g.kind = w[Len(w)].kind /\ Len(w) \in DOMAIN w
  <2>1. Len(w) \in DOMAIN w /\ DOMAIN v = DOMAIN w /\ v[Len(w)] = g
    BY TurningFacts
  <2> QED
    BY <2>1 DEF Turning
<1>2. ASSUME NEW k \in DOMAIN v
      PROVE  \/ k < Len(w) /\ v[k] = w[k]
             \/ k = Len(w) /\ v[k] = g
  BY <1>1, TurningFacts
<1>3. \A k \in DOMAIN v : v[k].kind = w[k].kind
  BY <1>1, <1>2
<1>4. ASSUME NEW k \in DOMAIN v, Marked(v, k)
      PROVE  \/ /\ k \in DOMAIN w /\ Marked(w, k)
                /\ v[k].split = w[k].split /\ v[k].caller = w[k].caller
             \/ /\ IsSetApart(ns, v[k])
                /\ \A i \in DOMAIN v : k < i => v[i].begin = 0
  <2>1. CASE k < Len(w) /\ v[k] = w[k]
    BY <1>1, <1>3, <1>4, <2>1 DEF Marked
  <2>2. CASE k = Len(w) /\ v[k] = g
    <3>1. k + 1 \notin DOMAIN v /\ \A i \in DOMAIN v : ~(k < i)
      BY <1>1, <2>2
    <3>2. IsSetApart(ns, g)
      BY <1>4, <2>2, <3>1 DEF Marked
    <3> QED
      BY <2>2, <3>1, <3>2
  <2> QED
    BY <1>2, <2>1, <2>2
<1>5. \A k \in DOMAIN v : v[k].begin # 0 =>
              \/ /\ k \in DOMAIN w
                 /\ v[k].begin = w[k].begin /\ v[k].caller = w[k].caller
              \/ v[k].begin = Len(ms[v[k].caller]) + 1
  BY <1>1, <1>2
<1>6. \A k \in DOMAIN v :
          v[k].kind = "If" /\ v[k].part = "else" /\ ~v[k].braces /\ v[k].filled = "no"
              => v[k].split = Len(ns[v[k].caller])
  BY <1>1, <1>2 DEF Shaped
<1> QED
  BY <1>4, <1>5, <1>6, DividedGrow

\* The nodes after the innermost one was left.
LEMMA MarkedLeaving ==
    ASSUME NEW w, NEW v, Leaving(w, v), NEW k \in DOMAIN v
    PROVE  /\ k \in DOMAIN w /\ Len(w) \in DOMAIN w /\ k < Len(w) /\ Stays(w[k], v[k])
           /\ Marked(v, k) => Marked(w, k)
<1>1. /\ k \in DOMAIN w /\ Len(w) \in DOMAIN w /\ k < Len(w) /\ Stays(w[k], v[k])
  BY DEF Leaving
<1>2. k + 1 \in DOMAIN v => k + 1 \in DOMAIN w /\ Stays(w[k + 1], v[k + 1])
  BY DEF Leaving
<1> QED
  BY <1>1, <1>2 DEF Marked, Stays

\* The innermost node was left, and nothing was erased.
LEMMA DividedLeaving ==
    ASSUME NEW w, NEW ms \in [Activity -> Seq(Entry)], Divided(w, ms),
           \A k \in DOMAIN w : w[k].caller \in Activity,
           NEW ns, Grows(ms, ns), NEW v, Leaving(w, v)
    PROVE  Divided(v, ns)
<1>1. \A k \in DOMAIN v : Marked(v, k) =>
              /\ k \in DOMAIN w /\ Marked(w, k)
              /\ v[k].split = w[k].split /\ v[k].caller = w[k].caller
  BY MarkedLeaving DEF Stays
<1>2. \A k \in DOMAIN v : /\ k \in DOMAIN w
                          /\ v[k].begin = w[k].begin /\ v[k].caller = w[k].caller
                          /\ v[k].filled # "no"
  BY MarkedLeaving DEF Stays
<1> QED
  BY <1>1, <1>2, DividedGrow

\* The innermost node was left, and its block erased.
LEMMA DividedCut ==
    ASSUME NEW w, NEW ms \in [Activity -> Seq(Entry)], Divided(w, ms),
           \A k \in DOMAIN w : w[k].caller \in Activity, NEW v, Leaving(w, v),
           NEW f, f = w[Len(w)], f.begin \in DOMAIN ms[f.caller],
           NEW ns, ns = [ms EXCEPT ![f.caller] = SubSeq(@, 1, f.begin - 1)]
    PROVE  Divided(v, ns)
<1>1. ASSUME NEW k \in DOMAIN v, Marked(v, k) PROVE IsSetApart(ns, v[k])
  <2>1. /\ k \in DOMAIN w /\ Marked(w, k) /\ k < Len(w) /\ Stays(w[k], v[k])
        /\ Len(w) \in DOMAIN w
    BY <1>1, MarkedLeaving
  <2>2. IsSetApart(ms, w[k]) /\ w[k].caller \in Activity /\ f.caller \in Activity
    BY <2>1 DEF Divided
  <2>3. CASE w[k].caller # f.caller
    <3>1. ns[w[k].caller] = ms[w[k].caller]
      BY <2>2, <2>3
    <3> QED
      BY <2>1, <2>2, <3>1 DEF IsSetApart, Stays
  <2>4. CASE w[k].caller = f.caller
    <3> DEFINE q == ms[f.caller]
               i == w[k].split + 1
               b == f.begin
    <3>1. q \in Seq(Entry) /\ ns[f.caller] = SubSeq(q, 1, b - 1)
      BY <2>2
    <3>2. b \in DOMAIN q /\ i \in DOMAIN q /\ q[i].type \in {"kElse", "kElseIf"}
      BY <2>2, <2>4 DEF IsSetApart
    <3>3. i < b
      <4>1. f.begin # 0
        BY <3>1, <3>2
      <4> QED
        BY <2>1, <2>4, <4>1 DEF Divided
    <3> HIDE DEF q, i, b
    <3>4. i \in DOMAIN SubSeq(q, 1, b - 1) /\ SubSeq(q, 1, b - 1)[i] = q[i]
      <4>1. DOMAIN q = 1..Len(q) /\ Len(q) \in Nat /\ i \in 1..(b - 1) /\ b - 1 \in 0..Len(q)
        BY <3>1, <3>2, <3>3
      <4>2. /\ DOMAIN SubSeq(q, 1, b - 1) = 1..(b - 1)
            /\ \A x \in 1..(b - 1) : SubSeq(q, 1, b - 1)[x] = q[x]
        BY <3>1, <4>1
      <4> QED
        BY <4>1, <4>2
    <3> QED
      BY <2>1, <2>4, <3>1, <3>2, <3>4 DEF IsSetApart, Stays, i
  <2> QED
    BY <2>3, <2>4
<1>2. ASSUME NEW j \in DOMAIN v, NEW k \in DOMAIN v, Marked(v, j), j < k,
             v[k].begin # 0, v[k].caller = v[j].caller
      PROVE  v[j].split + 1 < v[k].begin
  <2>1. j \in DOMAIN w /\ Marked(w, j) /\ Stays(w[j], v[j])
    BY <1>2, MarkedLeaving
  <2>2. k \in DOMAIN w /\ Stays(w[k], v[k])
    BY MarkedLeaving
  <2> QED
    BY <1>2, <2>1, <2>2 DEF Divided, Stays
<1>3. \A k \in DOMAIN v : v[k].filled # "no"
  BY MarkedLeaving DEF Stays
<1> QED
  BY <1>1, <1>2, <1>3 DEF Divided

--------------------------------------------------------------------------------
(***************************************************************************)
(* The steps as moves                                                      *)
(***************************************************************************)
\* Not the last one.
LEMMA Below ==
    ASSUME NEW n \in Nat, NEW k \in 1..n, k # n
    PROVE  k < n
  OBVIOUS

\* A frame is put on top of a walk whose nodes have stayed.
LEMMA AppendEnters ==
    ASSUME NEW w, w \in Seq(Range(w)), NEW u, u \in Seq(Range(u)), Len(u) = Len(w),
           \A k \in 1..Len(w) : Stays(w[k], u[k]), NEW f
    PROVE  Entering(w, Append(u, f), f)
<1> DEFINE v == Append(u, f)
<1>1. u \in Seq(Range(u) \cup {f}) /\ f \in Range(u) \cup {f}
  BY SeqMonotonic
<1>2. /\ v \in Seq(Range(u) \cup {f}) /\ Len(u) \in Nat /\ Len(v) = Len(u) + 1
      /\ DOMAIN v = 1..(Len(u) + 1)
      /\ \A i \in 1..Len(u) : v[i] = u[i]
      /\ v[Len(u) + 1] = f
  BY <1>1, PushFacts
<1> HIDE DEF v
<1>3. DOMAIN w = 1..Len(w)
  OBVIOUS
<1> QED
  BY <1>2, <1>3 DEF Entering, v

\* The nodes that stand have a child, and the innermost one gets one.
LEMMA FilledStays ==
    ASSUME IsWalk(walk), Shaped(walk)
    PROVE  /\ Filled \in Seq(Range(Filled)) /\ Len(Filled) = Len(walk)
           /\ \A k \in 1..Len(walk) : Stays(walk[k], Filled[k])
           /\ walk \in Seq(Range(walk)) /\ DOMAIN walk = 1..Len(walk) /\ Len(walk) \in Nat
<1>1. walk \in Seq(Range(walk)) /\ DOMAIN walk = 1..Len(walk) /\ Len(walk) \in Nat
  BY DEF IsWalk
<1>2. CASE walk = <<>>
  BY <1>1, <1>2 DEF Filled
<1>3. CASE walk # <<>>
  <2> DEFINE g == [walk[Len(walk)] EXCEPT !.filled = "yes"]
  <2>1. Len(walk) \in 1..Len(walk) /\ IsFrame(walk[Len(walk)])
    BY <1>3, TopIsGreatest
  <2>2. Stays(walk[Len(walk)], g)
    BY <2>1 DEF Stays, IsFrame, FrameFields
  <2>3. Filled = [walk EXCEPT ![Len(walk)] = g]
    BY <1>3 DEF Filled
  <2> HIDE DEF g
  <2>4. /\ Filled \in Seq(Range(Filled)) /\ Len(Filled) = Len(walk)
        /\ Filled[Len(walk)] = g
        /\ \A k \in 1..Len(walk) : k # Len(walk) => Filled[k] = walk[k]
    BY <1>1, <2>1, <2>3, EditFacts
  <2>5. ASSUME NEW k \in 1..Len(walk), k # Len(walk) PROVE Stays(walk[k], Filled[k])
    <3>1. k \in DOMAIN walk /\ Filled[k] = walk[k]
      BY <1>1, <2>4, <2>5
    <3>2. k < Len(walk)
      BY <1>1, <2>5, Below
    <3> QED
      BY <3>1, <3>2 DEF Shaped, Stays
  <2> QED
    BY <1>1, <2>2, <2>4, <2>5
<1> QED
  BY <1>2, <1>3

\* Open.
LEMMA OpenEnters ==
    ASSUME IsWalk(walk), Shaped(walk), NEW f, Open(f)
    PROVE  Entering(walk, walk', f)
  BY FilledStays, AppendEnters DEF Open

\* The innermost node goes on.
LEMMA TopTurns ==
    ASSUME IsWalk(walk), walk # <<>>, NEW g, walk' = [walk EXCEPT ![Len(walk)] = g],
           g.kind = Top.kind, g.id = Top.id, g.caller = Top.caller,
           g.elseif = Top.elseif, g.begin = Top.begin
    PROVE  Turning(walk, walk', g)
<1>1. /\ Len(walk) \in 1..Len(walk) /\ Top = walk[Len(walk)]
      /\ walk \in Seq(Range(walk)) /\ DOMAIN walk = 1..Len(walk) /\ Len(walk) \in Nat \ {0}
  BY TopIsGreatest DEF Top, IsWalk
<1>2. /\ Len(walk') = Len(walk) /\ DOMAIN walk' = 1..Len(walk) /\ walk'[Len(walk)] = g
      /\ \A k \in 1..Len(walk) : k # Len(walk) => walk'[k] = walk[k]
  BY <1>1, EditFacts
<1> QED
  BY <1>1, <1>2 DEF Turning

\* Close.
LEMMA CloseLeaves ==
    ASSUME IsWalk(walk), Shaped(walk), walk # <<>>, Close
    PROVE  Leaving(walk, walk')
<1> DEFINE w == Front(walk)
<1>1. /\ IsWalk(w) /\ Len(w) = Len(walk) - 1
      /\ \A k \in 1..(Len(walk) - 1) : w[k] = walk[k]
  BY WalkAfterClose
<1> HIDE DEF w
<1>2. /\ Len(walk) \in Nat \ {0} /\ DOMAIN walk = 1..Len(walk)
      /\ w \in Seq(Range(w)) /\ DOMAIN w = 1..Len(w)
  BY <1>1, TopIsGreatest DEF IsWalk
<1>3. \A k \in 1..(Len(walk) - 1) : Stays(walk[k], w[k]) /\ IsFrame(w[k])
  <2> SUFFICES ASSUME NEW k \in 1..(Len(walk) - 1)
               PROVE  Stays(walk[k], w[k]) /\ IsFrame(w[k])
    OBVIOUS
  <2>1. k \in DOMAIN walk /\ k < Len(walk) /\ w[k] = walk[k]
    BY <1>1, <1>2
  <2> QED
    BY <2>1 DEF Shaped, Stays, IsWalk
<1>4. CASE Len(walk) > 1 /\ Top.kind \in Ifs /\ Top.part = "then"
  <2> DEFINE i == Len(walk) - 1
             g == [w[i] EXCEPT !.filled = "dangling"]
  <2>1. i \in 1..Len(w) /\ i \in 1..(Len(walk) - 1)
    BY <1>1, <1>2, <1>4
  <2>2. Stays(walk[i], w[i]) /\ IsFrame(w[i])
    BY <1>3, <2>1
  <2>3. Stays(walk[i], g)
    BY <2>2 DEF Stays, IsFrame, FrameFields
  <2>4. walk' = [w EXCEPT ![i] = g]
    BY <1>4 DEF Close, w
  <2> HIDE DEF g, i
  <2>5. /\ Len(walk') = Len(w) /\ DOMAIN walk' = 1..Len(w) /\ walk'[i] = g
        /\ \A k \in 1..Len(w) : k # i => walk'[k] = w[k]
    BY <1>2, <2>1, <2>4, EditFacts
  <2> QED
    BY <1>1, <1>2, <1>3, <2>3, <2>5 DEF Leaving
<1>5. CASE ~(Len(walk) > 1 /\ Top.kind \in Ifs /\ Top.part = "then")
  <2>1. walk' = w
    BY <1>5 DEF Close, w
  <2> QED
    BY <1>1, <1>2, <1>3, <2>1 DEF Leaving
<1> QED
  BY <1>4, <1>5

\* A message is recorded.
LEMMA PutGrows ==
    ASSUME messages \in [Activity -> Seq(Entry)], NEW a \in Activity, NEW m \in Entry
    PROVE  Grows(messages, Put(a, m))
<1> DEFINE ns == [messages EXCEPT ![a] = Append(@, m)]
<1>1. /\ DOMAIN messages[a] = 1..Len(messages[a]) /\ Len(messages[a]) \in Nat
      /\ DOMAIN ns[a] = 1..(Len(messages[a]) + 1)
      /\ \A i \in 1..Len(messages[a]) : ns[a][i] = messages[a][i]
      /\ \A b \in Activity : b # a => ns[b] = messages[b]
  BY AppendedTo
<1>2. Put(a, m) = ns
  BY DEF Put
<1> HIDE DEF ns
<1>3. DOMAIN messages[a] \subseteq DOMAIN ns[a]
  BY <1>1
<1> QED
  BY <1>1, <1>2, <1>3 DEF Grows

--------------------------------------------------------------------------------
(***************************************************************************)
(* The invariant about the branches                                        *)
(***************************************************************************)
ElseInv ==
    /\ Shaped(walk)
    /\ Recalls(ctx, walk, Len(walk) + 1)
    /\ \E at : Backed(backups, walk, at)
    /\ Divided(walk, messages)

\* What the invariants say of the state.
LEMMA ElseHere ==
    ASSUME PlacesInv, ElseInv, ~final
    PROVE  /\ ContextInv /\ CallersInv /\ TidyInv /\ IsWalk(walk) /\ nodes \in Nat
           /\ messages \in [Activity -> Seq(Entry)]
           /\ \A k \in DOMAIN walk : SoundFrame(walk[k]) /\ walk[k].caller \in Activity
           /\ DOMAIN walk = 1..Len(walk) /\ Len(walk) \in Nat
           /\ backups \in Seq(Range(backups)) /\ CallerOf(ctx) = CallerId
           /\ CallerId \in Activity
           /\ walk # <<>> => /\ Top = walk[Len(walk)] /\ Len(walk) \in DOMAIN walk
                             /\ IsFrame(Top) /\ SoundFrame(Top) /\ Top.id # 0
                             /\ Top.kind # "Lambda" => Top.caller = CallerId
<1>1. ContextInv /\ CallersInv /\ TidyInv
  BY DEF PlacesInv
<1>2. /\ IsWalk(walk) /\ nodes \in Nat /\ messages \in [Activity -> Seq(Entry)]
      /\ walk # <<>> => Top = walk[Len(walk)] /\ IsFrame(Top) /\ Len(walk) \in 1..Len(walk)
  BY <1>1, TidyHere
<1>3. /\ DOMAIN walk = 1..Len(walk) /\ Len(walk) \in Nat
      /\ backups \in Seq(Range(backups))
  BY <1>1, <1>2 DEF IsWalk, ContextInv, Sound
<1>4. \A k \in DOMAIN walk : SoundFrame(walk[k]) /\ walk[k].caller \in Activity
  BY <1>1 DEF TidyInv, Tidy, SoundFrame
<1>5. CallerOf(ctx) = CallerId /\ CallerId \in Activity
  BY <1>1, CallerIsActivity DEF CallerOf, CallerId
<1>6. ASSUME walk # <<>>
      PROVE  /\ Len(walk) \in DOMAIN walk /\ SoundFrame(Top) /\ Top.id # 0
             /\ Top.kind # "Lambda" => Top.caller = CallerId
  <2>1. Len(walk) \in DOMAIN walk /\ Top = walk[Len(walk)]
    BY <1>2, <1>3, <1>6
  <2>2. Top.id # 0 /\ SoundFrame(Top)
    BY <1>4, <2>1 DEF ElseInv, Shaped
  <2>3. Top.kind # "Lambda" => Top.caller = CallerId
    BY <1>5, <2>1 DEF ElseInv, Recalls
  <2> QED
    BY <2>1, <2>2, <2>3
<1> QED
  BY <1>1, <1>2, <1>3, <1>4, <1>5, <1>6

\* A node that is no lambda was entered.
LEMMA ElseEntering ==
    ASSUME PlacesInv, ElseInv, ~final, NEW f, Open(f), f.id = nodes + 1,
           f.part # "else", ~(f.kind \in Ifs /\ f.part = "then"),
           f.caller = CallerId, f.kind # "Lambda",
           Recalls(ctx', walk', Len(walk') + 1), backups' = backups,
           Grows(messages, messages'),
           f.begin = 0 \/ f.begin = Len(messages[CallerId]) + 1,
           \/ f.kind # "If"
           \/ walk = <<>>
           \/ ~(Top.kind = "If" /\ Top.part = "else" /\ ~Top.bare /\ ~Top.braces)
           \/ f.begin = 0 /\ IsSetApart(messages', Top)
    PROVE  ElseInv'
<1> USE ElseHere
<1>1. Entering(walk, walk', f)
  BY OpenEnters DEF ElseInv
<1>2. f.id # 0
  BY ElseHere
<1>3. Shaped(walk')
  <2>1. walk # <<>> /\ walk[Len(walk)].kind # "Lambda" => f.caller = walk[Len(walk)].caller
    BY ElseHere
  <2> QED
    BY ONLY <1>1, <1>2, <2>1, ElseInv, ShapedEntering,
       ~(f.kind \in Ifs /\ f.part = "then")
       DEF ElseInv
<1>4. \E at : Backed(backups, walk', at)
  <2>1. PICK at : Backed(backups, walk, at)
    BY DEF ElseInv
  <2>2. DOMAIN walk' \subseteq Nat \ {0} /\ Len(backups) \in Nat
    BY <1>1 DEF Entering
  <2>3. \A k \in DOMAIN walk' : \/ k \in DOMAIN walk /\ Stays(walk[k], walk'[k])
                                \/ k = Len(walk) + 1 /\ k \notin DOMAIN walk /\ walk'[k] = f
    BY <1>1 DEF Entering
  <2>4. \A k \in DOMAIN walk : k \in DOMAIN walk' /\ walk'[k].kind = walk[k].kind
    BY <1>1 DEF Entering, Stays
  <2>5. LambdasIn(walk') = LambdasIn(walk)
    BY <2>3, <2>4 DEF LambdasIn
  <2>6. \A k \in DOMAIN walk' : k \in DOMAIN walk => Known(walk[k], walk'[k])
    BY <2>3, StaysKnown
  <2>7. Backed(backups, walk', at)
    BY <2>1, <2>2, <2>5, <2>6, BackedKept
  <2> QED
    BY <2>7
<1>5. Divided(walk', messages')
  <2>1. Divided(walk, messages) /\ \A k \in DOMAIN walk : walk[k].caller \in Activity
    BY DEF ElseInv
  <2>2. f.part # "else" /\ (f.begin = 0 \/ f.begin = Len(messages[f.caller]) + 1)
    OBVIOUS
  <2>3. \/ f.kind # "If"
        \/ Len(walk) = 0
        \/ ~(/\ walk[Len(walk)].kind = "If" /\ walk[Len(walk)].part = "else"
             /\ ~walk[Len(walk)].bare /\ ~walk[Len(walk)].braces)
        \/ f.begin = 0 /\ IsSetApart(messages', walk[Len(walk)])
    <3>1. walk = <<>> => Len(walk) = 0
      BY EmptySeq
    <3> QED
      BY <3>1
  <2>4. messages \in [Activity -> Seq(Entry)]
    OBVIOUS
  <2> QED
    BY ONLY <1>1, <2>1, <2>2, <2>3, <2>4, Grows(messages, messages'), DividedEntering
<1> QED
  BY <1>3, <1>4, <1>5 DEF ElseInv

\* The innermost node went on.
LEMMA ElseTurning ==
    ASSUME PlacesInv, ElseInv, ~final, walk # <<>>,
           NEW g, walk' = [walk EXCEPT ![Len(walk)] = g],
           g.kind = Top.kind, g.id = Top.id, g.caller = Top.caller,
           g.elseif = Top.elseif, g.begin = Top.begin, Clean(g) => Clean(Top),
           g.kind \in Ifs /\ g.part = "then" => (g.bare <=> ~g.braces),
           ctx'.ifs = ctx.ifs, ctx'.elseifs = ctx.elseifs, ctx'.lambdas = ctx.lambdas,
           backups' = backups, Grows(messages, messages'),
           g.kind = "If" /\ g.part = "else" =>
               /\ g.braces /\ ~g.bare => IsSetApart(messages', g)
               /\ ~g.braces => g.split = Len(messages'[g.caller])
    PROVE  ElseInv'
<1> USE ElseHere
<1>1. Turning(walk, walk', g)
  BY TopTurns
<1>2. Shaped(walk')
  BY <1>1, ShapedTurning DEF ElseInv
<1>3. Clean(g) => Clean(walk[Len(walk)])
  OBVIOUS
<1>4. Recalls(ctx', walk', Len(walk') + 1)
  BY <1>1, <1>3, RecallsTurning DEF ElseInv
<1>5. \E at : Backed(backups, walk', at)
  <2>1. PICK at : Backed(backups, walk, at)
    BY DEF ElseInv
  <2>2. DOMAIN walk' = DOMAIN walk /\ Len(backups) \in Nat
    BY <1>1, TurningFacts
  <2>3. \A k \in DOMAIN walk' : Known(walk[k], walk'[k]) /\ walk'[k].kind = walk[k].kind
    <3> SUFFICES ASSUME NEW k \in DOMAIN walk'
                 PROVE  Known(walk[k], walk'[k]) /\ walk'[k].kind = walk[k].kind
      OBVIOUS
    <3>1. CASE k = Len(walk)
      BY <1>1, <1>3, <3>1 DEF Turning, Known
    <3>2. CASE k < Len(walk)
      <4>1. walk'[k] = walk[k]
        BY <1>1, <3>2, TurningFacts
      <4> QED
        BY <4>1 DEF Known
    <3> QED
      BY <1>1, <3>1, <3>2, TurningFacts
  <2>4. LambdasIn(walk') = LambdasIn(walk)
    BY <2>2, <2>3 DEF LambdasIn
  <2>5. DOMAIN walk' \subseteq Nat \ {0} /\ DOMAIN walk = 1..Len(walk) /\ Len(walk) \in Nat
    <3>1. DOMAIN walk = 1..Len(walk) /\ Len(walk) \in Nat /\ DOMAIN walk' = DOMAIN walk
      BY <2>2
    <3> QED
      BY ONLY <3>1
  <2>6. \A k \in DOMAIN walk' : k \in DOMAIN walk => Known(walk[k], walk'[k])
    BY <2>3
  <2>7. Backed(backups, walk', at)
    BY ONLY <2>1, <2>2, <2>4, <2>5, <2>6, BackedKept
  <2> QED
    BY <2>7
<1>6. Divided(walk', messages')
  <2>1. Shaped(walk) /\ Divided(walk, messages) /\ messages \in [Activity -> Seq(Entry)]
        /\ \A k \in DOMAIN walk : walk[k].caller \in Activity
    BY DEF ElseInv
  <2> QED
    BY <1>1, <2>1, DividedTurning
<1> QED
  BY <1>2, <1>4, <1>5, <1>6 DEF ElseInv

\* The innermost node, no lambda, was left.
LEMMA ElseLeaving ==
    ASSUME PlacesInv, ElseInv, ~final, walk # <<>>, Top.kind # "Lambda", Close,
           Recalls(ctx', walk', Len(walk') + 1), backups' = backups,
           Divided(walk', messages')
    PROVE  ElseInv'
<1> USE ElseHere
<1>1. Leaving(walk, walk')
  BY CloseLeaves DEF ElseInv
<1>2. Shaped(walk')
  BY <1>1, ShapedLeaving DEF ElseInv
<1>3. \E at : Backed(backups, walk', at)
  <2>1. PICK at : Backed(backups, walk, at)
    BY DEF ElseInv
  <2>2. DOMAIN walk' \subseteq Nat \ {0} /\ Len(backups) \in Nat
    BY <1>1 DEF Leaving
  <2>3. \A k \in DOMAIN walk' : k \in DOMAIN walk /\ Stays(walk[k], walk'[k])
    BY <1>1 DEF Leaving
  <2>4. \A k \in DOMAIN walk : k \in DOMAIN walk' \/ k = Len(walk)
    BY <1>1 DEF Leaving
  <2>5. LambdasIn(walk') = LambdasIn(walk)
    BY <2>3, <2>4 DEF LambdasIn, Stays
  <2>6. \A k \in DOMAIN walk' : k \in DOMAIN walk => Known(walk[k], walk'[k])
    BY <2>3, StaysKnown
  <2>7. Backed(backups, walk', at)
    BY <2>1, <2>2, <2>5, <2>6, BackedKept
  <2> QED
    BY <2>7
<1> QED
  BY <1>2, <1>3 DEF ElseInv

\* Nothing is recorded.
LEMMA NothingGrows ==
    ASSUME messages' = messages
    PROVE  Grows(messages, messages')
  BY DEF Grows

\* The parts of the context that tell the ifs apart.
SameIfs(c, d) == d.ifs = c.ifs /\ d.elseifs = c.elseifs /\ d.lambdas = c.lambdas

\* The other stacks do not matter.
LEMMA OtherStacks ==
    ASSUME ContextInv, NEW s
    PROVE  /\ SameIfs(ctx, ctx)
           /\ SameIfs(ctx, [ctx EXCEPT !.loops = s])
           /\ SameIfs(ctx, [ctx EXCEPT !.tries = s])
           /\ SameIfs(ctx, [ctx EXCEPT !.switches = s])
           /\ SameIfs(ctx, [ctx EXCEPT !.conditionals = s])
           /\ SameIfs(ctx, [ctx EXCEPT !.calls = s])
<1>1. "ifs" \in DOMAIN ctx /\ "elseifs" \in DOMAIN ctx /\ "lambdas" \in DOMAIN ctx
  BY Here DEF Stacks
<1> QED
  BY <1>1 DEF SameIfs

\* A node that is neither an if nor a lambda was entered.
LEMMA ElseOpening ==
    ASSUME PlacesInv, ElseInv, ~final, NEW f, Open(f), f.id = nodes + 1, f.caller = CallerId,
           f.kind \notin {"If", "Lambda"}, ~f.elseif, f.part # "else",
           ~(f.kind \in Ifs /\ f.part = "then"), SameIfs(ctx, ctx'), backups' = backups,
           Grows(messages, messages'), f.begin = 0 \/ f.begin = Len(messages[CallerId]) + 1
    PROVE  ElseInv'
<1>1. Entering(walk, walk', f)
  BY ElseHere, OpenEnters DEF ElseInv
<1>2. Recalls(ctx', walk', Len(walk') + 1)
  <2>1. f.caller = CallerOf(ctx)
    BY ElseHere
  <2> QED
    BY <1>1, <2>1, RecallsEntering DEF ElseInv, SameIfs
<1> QED
  BY <1>2, ElseEntering

--------------------------------------------------------------------------------
(***************************************************************************)
(* Every action keeps the branches told apart                              *)
(***************************************************************************)
\* A block is entered.
LEMMA OpenBlockElse ==
    ASSUME PlacesInv, ElseInv, ~final, NEW part, part # "else",
           NEW kind \in Loops \cup {"Try", "Switch", "Conditional"}, OpenBlock(kind, part),
           SameIfs(ctx, ctx')
    PROVE  ElseInv'
<1> DEFINE f == NewBlock(kind, part, TypeOf(kind))
           m == Msg(TypeOf(kind), nodes + 1)
<1>1. Open(f) /\ messages' = Put(CallerId, m) /\ backups' = backups
  BY DEF OpenBlock
<1>2. /\ f.id = nodes + 1 /\ f.caller = CallerId /\ f.kind = kind /\ f.part = part
      /\ f.elseif = FALSE /\ f.begin = Len(messages[CallerId]) + 1
  BY DEF NewBlock, NewFrame
<1>3. m \in Entry
  <2>1. TypeOf(kind) \in BeginTypes
    BY DEF TypeOf, BeginTypes, Loops
  <2>2. nodes + 1 \in Nat
    BY ElseHere
  <2> QED
    BY <2>1, <2>2, MsgFacts
<1>4. kind \notin {"If", "Lambda"} /\ kind \notin Ifs
  BY DEF Loops, Ifs
<1> HIDE DEF f, m
<1>5. Grows(messages, messages')
  BY <1>1, <1>3, ElseHere, PutGrows
<1> QED
  BY <1>1, <1>2, <1>4, <1>5, ElseOpening

\* An else-if is entered where an if is expected that is the else of the innermost
\* one; it is the mark.
LEMMA EnterIfElse ==
    ASSUME PlacesInv, ElseInv, EnterIf
    PROVE  ElseInv'
<1>1. ~final /\ Fits("If") /\ backups' = backups
  BY DEF EnterIf, CanOpen
<1> USE <1>1
<1>2. ASSUME walk # <<>>, Top.kind = "If", Top.part = "else", ~Top.bare, ~Top.braces
      PROVE  /\ Clean(Top) /\ IsElseIf /\ Top.split = Len(messages[CallerId])
             /\ Top.caller = CallerId
  <2>1. Top.filled = "no"
    BY <1>2 DEF Fits, Ifs, InBranch, Loops, Messengers, Exprs
  <2>2. Clean(Top)
    BY <1>2, <2>1 DEF Clean
  <2>3. /\ ~Top.elseif => CurrentIf = Top.id
        /\ Top.elseif => CurrentElseIf = Top.id
        /\ Top.id # NoStmt
    BY <1>2, <2>2, ElseHere, CurrentIsTop DEF ElseInv
  <2>4. InBranch(Top)
    BY <1>2 DEF InBranch, Ifs
  <2>5. IsElseIf
    BY <1>2, <2>3, <2>4 DEF IsElseIf, IsChildOf
  <2>6. Top.caller = CallerId /\ Top = walk[Len(walk)] /\ Len(walk) \in DOMAIN walk
    BY <1>2, ElseHere
  <2>7. Top.split = Len(messages[Top.caller])
    BY <1>2, <2>1, <2>6 DEF ElseInv, Divided
  <2> QED
    BY <2>2, <2>5, <2>6, <2>7
<1>3. CASE IsElseIf
  <2> DEFINE f == [NewFrame("If", "cond") EXCEPT !.elseif = TRUE]
             m == Msg("kElseIf", nodes + 1)
  <2>1. Open(f) /\ messages' = Put(CallerId, m) /\ ctx' = EnterElseIfStmt(nodes + 1)
    BY <1>3 DEF EnterIf
  <2>2. /\ f.caller = CallerId /\ f.begin = 0 /\ f.kind = "If" /\ f.elseif = TRUE
        /\ f.id = nodes + 1 /\ f.part = "cond"
    BY DEF NewFrame
  <2>3. m \in Entry /\ m.type = "kElseIf"
    <3>1. "kElseIf" \in PlainTypes
      BY DEF PlainTypes
    <3>2. nodes + 1 \in Nat
      BY ElseHere
    <3> QED
      BY <3>1, <3>2, MsgFacts
  <2> HIDE DEF f, m
  <2>4. Grows(messages, messages')
    BY <2>1, <2>3, ElseHere, PutGrows
  <2>5. Entering(walk, walk', f)
    BY <2>1, ElseHere, OpenEnters DEF ElseInv
  <2>6. Recalls(ctx', walk', Len(walk') + 1)
    BY <1>3, <2>1, <2>2, <2>5, ElseHere, RecallsElseIf DEF ElseInv
  <2>7. ASSUME walk # <<>>, Top.kind = "If", Top.part = "else", ~Top.bare, ~Top.braces
        PROVE  IsSetApart(messages', Top)
    <3>1. Top.split = Len(messages[CallerId]) /\ Top.caller = CallerId
      BY <1>2, <2>7
    <3>2. messages' = [messages EXCEPT ![CallerId] = Append(@, m)]
      BY <2>1 DEF Put
    <3>3. CallerId \in Activity /\ messages \in [Activity -> Seq(Entry)]
      BY ElseHere
    <3>4. /\ DOMAIN messages'[CallerId] = 1..(Len(messages[CallerId]) + 1)
          /\ messages'[CallerId][Len(messages[CallerId]) + 1] = m
          /\ Len(messages[CallerId]) \in Nat
      BY <2>3, <3>2, <3>3, AppendedTo
    <3> QED
      BY <2>3, <3>1, <3>4 DEF IsSetApart
  <2>8. f.part # "else" /\ ~(f.kind \in Ifs /\ f.part = "then") /\ f.kind # "Lambda"
    BY <2>2
  <2> QED
    BY <2>1, <2>2, <2>4, <2>6, <2>7, <2>8, ElseEntering
<1>4. CASE ~IsElseIf
  <2> DEFINE f == NewBlock("If", "cond", "kIf")
             m == Msg("kIf", nodes + 1)
  <2>1. Open(f) /\ messages' = Put(CallerId, m) /\ ctx' = EnterIfStmt(nodes + 1)
    BY <1>4 DEF EnterIf
  <2>2. /\ f.caller = CallerId /\ f.begin = Len(messages[CallerId]) + 1 /\ f.kind = "If"
        /\ f.elseif = FALSE /\ f.id = nodes + 1 /\ f.part = "cond"
    BY DEF NewBlock, NewFrame
  <2>3. m \in Entry
    <3>1. "kIf" \in BeginTypes
      BY DEF BeginTypes
    <3>2. nodes + 1 \in Nat
      BY ElseHere
    <3> QED
      BY <3>1, <3>2, MsgFacts
  <2> HIDE DEF f, m
  <2>4. Grows(messages, messages')
    BY <2>1, <2>3, ElseHere, PutGrows
  <2>5. Entering(walk, walk', f)
    BY <2>1, ElseHere, OpenEnters DEF ElseInv
  <2>6. Recalls(ctx', walk', Len(walk') + 1)
    BY <2>1, <2>2, <2>5, ElseHere, RecallsIf DEF ElseInv
  <2>7. walk = <<>> \/ ~(Top.kind = "If" /\ Top.part = "else" /\ ~Top.bare /\ ~Top.braces)
    BY <1>2, <1>4
  <2>8. f.part # "else" /\ ~(f.kind \in Ifs /\ f.part = "then") /\ f.kind # "Lambda"
    BY <2>2
  <2> QED
    BY <2>1, <2>2, <2>4, <2>6, <2>7, <2>8, ElseEntering
<1> QED
  BY <1>3, <1>4

\* An if constexpr is entered.
LEMMA EnterConstexprIfElse ==
    ASSUME PlacesInv, ElseInv, EnterConstexprIf
    PROVE  ElseInv'
<1> DEFINE f == NewFrame("ConstexprIf", "cond")
<1>1. /\ ~final /\ Open(f) /\ messages' = messages /\ ctx' = ctx /\ backups' = backups
  BY DEF EnterConstexprIf, CanOpen
<1>2. /\ f.caller = CallerId /\ f.begin = 0 /\ f.kind = "ConstexprIf"
      /\ f.elseif = FALSE /\ f.id = nodes + 1 /\ f.part = "cond"
  BY DEF NewFrame
<1> HIDE DEF f
<1>3. SameIfs(ctx, ctx') /\ Grows(messages, messages')
  BY <1>1, NothingGrows DEF SameIfs
<1>4. f.part # "else" /\ ~(f.kind \in Ifs /\ f.part = "then")
      /\ f.kind \notin {"If", "Lambda"} /\ ~f.elseif
  BY <1>2
<1> QED
  BY <1>1, <1>2, <1>3, <1>4, ElseOpening

\* A branch of an if is entered; an else in braces gets its mark.
LEMMA EnterBranchElse ==
    ASSUME PlacesInv, ElseInv, NEW b \in BOOLEAN, EnterThen(b) \/ EnterElse(b)
    PROVE  ElseInv'
<1>1. ~final /\ walk # <<>> /\ Top.kind \in Ifs /\ ctx' = ctx /\ backups' = backups
  BY DEF EnterThen, EnterElse, IsTop
<1>2. /\ Top = walk[Len(walk)] /\ IsFrame(Top) /\ Top.id \in Nat /\ Top.caller = CallerId
  BY <1>1, ElseHere DEF Ifs, IsFrame
<1>3. CASE EnterThen(b)
  <2> DEFINE g == [Top EXCEPT !.part = "then", !.braces = b, !.bare = ~b,
                              !.filled = "no"]
  <2>1. walk' = [walk EXCEPT ![Len(walk)] = g] /\ messages' = messages
    BY <1>2, <1>3 DEF EnterThen
  <2>2. /\ g.kind = Top.kind /\ g.id = Top.id /\ g.caller = Top.caller
        /\ g.elseif = Top.elseif /\ g.begin = Top.begin
        /\ g.part = "then" /\ g.braces = b /\ g.bare = ~b
    BY <1>2 DEF IsFrame, FrameFields
  <2> HIDE DEF g
  <2>3. Clean(g) => Clean(Top)
    BY <1>3, <2>2 DEF Clean, EnterThen
  <2>4. g.part # "else" /\ (g.bare <=> ~g.braces)
    BY <2>2
  <2>5. Grows(messages, messages')
    BY <2>1, NothingGrows
  <2>6. ctx'.ifs = ctx.ifs /\ ctx'.elseifs = ctx.elseifs /\ ctx'.lambdas = ctx.lambdas
    BY <1>1
  <2> QED
    BY ONLY PlacesInv, ElseInv, <1>1, <2>1, <2>2, <2>3, <2>4, <2>5, <2>6, ElseTurning
<1>4. CASE EnterElse(b)
  <2> DEFINE g == [Top EXCEPT !.part = "else", !.braces = b, !.filled = "no",
                              !.split = Len(messages[Top.caller])]
  <2>1. walk' = [walk EXCEPT ![Len(walk)] = g]
    BY <1>2, <1>4 DEF EnterElse
  <2>2. /\ g.kind = Top.kind /\ g.id = Top.id /\ g.caller = Top.caller
        /\ g.elseif = Top.elseif /\ g.begin = Top.begin
        /\ g.part = "else" /\ g.braces = b /\ g.bare = Top.bare
        /\ g.split = Len(messages[Top.caller])
    BY <1>2 DEF IsFrame, FrameFields
  <2> HIDE DEF g
  <2>3. Top.part = "then"
    BY <1>4 DEF EnterElse
  <2>4. Clean(g) => Clean(Top)
    BY <2>2, <2>3 DEF Clean
  <2>5. messages' = messages \/ messages' = Put(CallerId, Msg("kElse", Top.id))
    BY <1>4 DEF EnterElse, ElseMessage
  <2> DEFINE m == Msg("kElse", Top.id)
  <2>6. m \in Entry /\ m.type = "kElse"
    <3>1. "kElse" \in PlainTypes
      BY DEF PlainTypes
    <3> QED
      BY <1>2, <3>1, MsgFacts
  <2> HIDE DEF m
  <2>7. Grows(messages, messages')
    BY <1>1, <2>5, <2>6, ElseHere, PutGrows, NothingGrows DEF m
  <2>8. ASSUME g.kind = "If", g.braces, ~g.bare PROVE IsSetApart(messages', g)
    <3>1. Clean(Top)
      BY <2>2, <2>3, <2>8 DEF Clean
    <3>2. /\ ~Top.elseif => CurrentIf = Top.id /\ CurrentElseIf = NoStmt
          /\ Top.elseif => CurrentElseIf = Top.id
          /\ Top.id # NoStmt
      BY <1>1, <3>1, ElseHere, CurrentIsTop DEF ElseInv
    <3>3. messages' = [messages EXCEPT ![CallerId] = Append(@, m)]
      BY <1>4, <2>2, <2>8, <3>2 DEF EnterElse, ElseMessage, Put, m
    <3>4. CallerId \in Activity /\ messages \in [Activity -> Seq(Entry)]
      BY <1>1, ElseHere
    <3>5. /\ DOMAIN messages'[CallerId] = 1..(Len(messages[CallerId]) + 1)
          /\ messages'[CallerId][Len(messages[CallerId]) + 1] = m
          /\ Len(messages[CallerId]) \in Nat
      BY <2>6, <3>3, <3>4, AppendedTo
    <3> QED
      BY <1>2, <2>2, <2>6, <3>5 DEF IsSetApart
  <2>9. ASSUME ~g.braces PROVE g.split = Len(messages'[g.caller])
    BY <1>4, <2>2, <2>9 DEF EnterElse
  <2>10. ctx'.ifs = ctx.ifs /\ ctx'.elseifs = ctx.elseifs /\ ctx'.lambdas = ctx.lambdas
    BY <1>1
  <2>11. ~(g.kind \in Ifs /\ g.part = "then")
    BY <2>2
  <2> QED
    BY ONLY PlacesInv, ElseInv, <1>1, <2>1, <2>2, <2>4, <2>7, <2>8, <2>9, <2>10, <2>11,
       ElseTurning
<1> QED
  BY <1>3, <1>4

\* A block is left: its end is recorded, or it is erased with all of it.
LEMMA DividedEnd ==
    ASSUME PlacesInv, ElseInv, ~final, walk # <<>>, IsBlock(Top), EndBlock(Top), Close
    PROVE  Divided(walk', messages')
<1> DEFINE l == Len(walk)
           a == Top.caller
           b == Top.begin
           q == messages[a]
           m == Msg(EndOf(Top.block), Top.id)
           r == FoldOrEnd(q, Top.block, m)
<1>1. /\ Top = walk[l] /\ l \in DOMAIN walk /\ DOMAIN walk = 1..l /\ l \in Nat
      /\ IsFrame(Top) /\ SoundFrame(Top)
      /\ TidyInv /\ messages \in [Activity -> Seq(Entry)]
      /\ \A k \in DOMAIN walk : walk[k].caller \in Activity
  BY ElseHere
<1>2. /\ a \in Activity /\ b \in Nat /\ b # 0 /\ Top.block \in BeginTypes /\ q \in Seq(Entry)
  BY <1>1 DEF SoundFrame
<1>3. b \in DOMAIN q /\ q[b].type = Top.block
  BY <1>1, <1>2 DEF TidyInv, Tidy, BlocksStand
<1>4. \A i \in DOMAIN q : i > b /\ q[i].type \in BeginTypes =>
          \E j \in DOMAIN q : j > i /\ q[j].type \in Work
  <2> SUFFICES ASSUME NEW i \in DOMAIN q, i > b, q[i].type \in BeginTypes,
                      NEW k \in DOMAIN walk, walk[k].caller = a, walk[k].begin = i
               PROVE  FALSE
    BY <1>1, <1>2 DEF TidyInv, Tidy, ClosedHoldWork
  <2>1. i # 0 /\ i \in Nat
    BY <1>2
  <2>2. CASE k = l
    BY <1>1, <1>2, <2>1, <2>2
  <2>3. CASE k # l
    <3>1. k < l
      BY <1>1, <2>3, Below
    <3>2. walk[k].begin < walk[l].begin
      BY <1>1, <1>2, <2>1, <3>1 DEF TidyInv, Tidy, BlocksStand
    <3> QED
      BY <1>1, <1>2, <2>1, <3>2
  <2> QED
    BY <2>2, <2>3
<1>5. m \in Entry
  <2>1. EndOf(Top.block) \in EndTypes /\ Top.id \in Nat
    BY <1>1, <1>2, TypesApart DEF IsFrame
  <2> QED
    BY <2>1, MsgFacts
<1>6. messages' = [messages EXCEPT ![a] = r]
  BY DEF EndBlock
<1>7. r = Append(q, m) \/ r = SubSeq(q, 1, b - 1)
  BY <1>2, <1>3, <1>4, <1>5, FoldFacts
<1>8. Leaving(walk, walk') /\ Divided(walk, messages)
  BY ElseHere, CloseLeaves DEF ElseInv
<1>9. CASE r = Append(q, m)
  <2>1. messages' = Put(a, m)
    BY <1>6, <1>9 DEF Put
  <2> HIDE DEF m
  <2>2. Grows(messages, messages')
    BY <1>1, <1>2, <1>5, <2>1, PutGrows
  <2> QED
    BY <1>1, <1>8, <2>2, DividedLeaving
<1>10. CASE r = SubSeq(q, 1, b - 1)
  <2>1. messages' = [messages EXCEPT ![Top.caller] = SubSeq(@, 1, Top.begin - 1)]
    BY <1>6, <1>10
  <2>2. Top.begin \in DOMAIN messages[Top.caller] /\ Top = walk[Len(walk)]
    BY <1>1, <1>3
  <2> HIDE DEF r, q, a, b, m
  <2> QED
    BY <1>1, <1>8, <2>1, <2>2, DividedCut
<1> QED
  BY <1>7, <1>9, <1>10

\* An if is left.
LEMMA LeaveIfElse ==
    ASSUME PlacesInv, ElseInv, LeaveIf
    PROVE  ElseInv'
<1>1. ~final /\ walk # <<>> /\ Top.kind \in Ifs /\ Close /\ backups' = backups
  BY DEF LeaveIf, IsTop
<1>2. /\ Top = walk[Len(walk)] /\ Leaving(walk, walk') /\ Top.kind # "Lambda" /\ ContextInv
      /\ messages \in [Activity -> Seq(Entry)]
      /\ \A k \in DOMAIN walk : walk[k].caller \in Activity
  BY <1>1, ElseHere, CloseLeaves DEF ElseInv, Ifs
<1>3. CASE Top.kind = "If" /\ ~Top.elseif
  <2>1. EndBlock(Top) /\ IsBlock(Top) /\ ctx' = LeaveIfStmt
    BY <1>3 DEF LeaveIf, IsBlock
  <2>2. Recalls(ctx', walk', Len(walk') + 1)
    BY <1>1, <1>2, <1>3, <2>1, RecallsLeaveIf DEF ElseInv
  <2>3. Divided(walk', messages')
    BY <1>1, <2>1, DividedEnd
  <2> QED
    BY <1>1, <1>2, <2>2, <2>3, ElseLeaving
<1>4. CASE ~(Top.kind = "If" /\ ~Top.elseif)
  <2>1. messages' = messages /\ ctx' = ctx
    BY <1>4 DEF LeaveIf
  <2>2. Recalls(ctx', walk', Len(walk') + 1)
    BY <1>2, <2>1, RecallsLeaving DEF ElseInv
  <2>3. Divided(walk', messages')
    BY <1>2, <2>1, NothingGrows, DividedLeaving DEF ElseInv
  <2> QED
    BY <1>1, <1>2, <2>2, <2>3, ElseLeaving
<1> QED
  BY <1>3, <1>4

\* Another node is left that is no lambda.
LEMMA ElseClosing ==
    ASSUME PlacesInv, ElseInv, ~final, walk # <<>>, Top.kind \notin {"If", "Lambda"}, Close,
           SameIfs(ctx, ctx'), backups' = backups,
           Grows(messages, messages') \/ (IsBlock(Top) /\ EndBlock(Top))
    PROVE  ElseInv'
<1>1. /\ Top = walk[Len(walk)] /\ Leaving(walk, walk')
      /\ messages \in [Activity -> Seq(Entry)]
      /\ \A k \in DOMAIN walk : walk[k].caller \in Activity
  BY ElseHere, CloseLeaves DEF ElseInv
<1>2. Recalls(ctx', walk', Len(walk') + 1)
  BY <1>1, RecallsLeaving DEF ElseInv, SameIfs
<1>3. Divided(walk', messages')
  BY <1>1, DividedEnd, DividedLeaving DEF ElseInv
<1> QED
  BY <1>2, <1>3, ElseLeaving

\* Another block is left.
LEMMA LeaveBlockElse ==
    ASSUME PlacesInv, ElseInv, LeaveLoop \/ LeaveConditional \/ LeaveTry \/ LeaveSwitch
    PROVE  ElseInv'
<1>1. /\ ~final /\ walk # <<>> /\ Top.kind \in Loops \cup {"Try", "Switch", "Conditional"}
      /\ EndBlock(Top) /\ Close /\ backups' = backups
  BY DEF LeaveLoop, LeaveConditional, LeaveTry, LeaveSwitch, IsTop, CloseBlock
<1>2. IsBlock(Top) /\ Top.kind \notin {"If", "Lambda"}
  BY <1>1 DEF IsBlock, Loops
<1>3. SameIfs(ctx, ctx')
  BY <1>1, ElseHere, OtherStacks
     DEF LeaveLoop, LeaveConditional, LeaveTry, LeaveSwitch, LeaveTryStmt, LeaveSwitchStmt
<1> QED
  BY <1>1, <1>2, <1>3, ElseClosing

\* Between the parts of a try, a switch or a conditional operator.
LEMMA NextPartElse ==
    ASSUME PlacesInv, ElseInv, EnterCatch \/ EnterCase \/ EnterConditionalElse
    PROVE  ElseInv'
<1>1. /\ ~final /\ walk # <<>> /\ Top.kind \in {"Try", "Switch", "Conditional"}
      /\ ctx' = ctx /\ backups' = backups
      /\ \E part : walk' = [walk EXCEPT ![Len(walk)].part = part]
  BY DEF EnterCatch, EnterCase, EnterConditionalElse, IsTop
<1>2. /\ Top = walk[Len(walk)] /\ IsFrame(Top) /\ SoundFrame(Top) /\ Top.id \in Nat
      /\ nodes + 1 \in Nat /\ CallerId \in Activity /\ messages \in [Activity -> Seq(Entry)]
  BY <1>1, ElseHere DEF IsFrame
<1>3. PICK part : walk' = [walk EXCEPT ![Len(walk)].part = part]
  BY <1>1
<1> DEFINE g == [Top EXCEPT !.part = part]
<1>4. walk' = [walk EXCEPT ![Len(walk)] = g]
  BY <1>2, <1>3
<1>5. /\ g.kind = Top.kind /\ g.id = Top.id /\ g.caller = Top.caller
      /\ g.elseif = Top.elseif /\ g.begin = Top.begin
  BY <1>2 DEF IsFrame, FrameFields
<1> HIDE DEF g
<1>6. g.kind \notin Ifs /\ g.kind # "If" /\ ~Clean(g)
  BY <1>1, <1>5 DEF Ifs, Clean
<1>7. Grows(messages, messages')
  <2>1. CASE EnterCatch
    <3>1. "kCatch" \in PlainTypes
      BY DEF PlainTypes
    <3>2. Msg("kCatch", nodes + 1) \in Entry
      BY <1>2, <3>1, MsgFacts
    <3>3. messages' = messages \/ messages' = Put(CallerId, Msg("kCatch", nodes + 1))
      BY <2>1 DEF EnterCatch
    <3> QED
      BY <1>2, <3>2, <3>3, PutGrows, NothingGrows
  <2>2. CASE EnterCase
    <3> DEFINE m == Msg("kCase", nodes + 1)
    <3>1. m \in Entry
      BY <1>2, MsgFacts
    <3>2. messages' = messages \/ messages' = Put(CallerId, m)
      <4>1. [messages EXCEPT ![CallerId] = @] = messages
        BY <1>2
      <4> QED
        BY <2>2, <4>1 DEF EnterCase, AddCaseTo, Put
    <3> HIDE DEF m
    <3> QED
      BY <1>2, <3>1, <3>2, PutGrows, NothingGrows
  <2>3. CASE EnterConditionalElse
    <3>1. "kConditionalElse" \in PlainTypes
      BY DEF PlainTypes
    <3>2. Msg("kConditionalElse", Top.id) \in Entry
      BY <1>2, <3>1, MsgFacts
    <3>3. messages' = Put(Top.caller, Msg("kConditionalElse", Top.id)) /\ Top.caller \in Activity
      BY <1>2, <2>3 DEF EnterConditionalElse, SoundFrame
    <3> QED
      BY <1>2, <3>2, <3>3, PutGrows
  <2> QED
    BY <2>1, <2>2, <2>3
<1>8. ctx'.ifs = ctx.ifs /\ ctx'.elseifs = ctx.elseifs /\ ctx'.lambdas = ctx.lambdas
  BY <1>1
<1> QED
  BY ONLY PlacesInv, ElseInv, <1>1, <1>4, <1>5, <1>6, <1>7, <1>8, ElseTurning

\* A call or the like is entered.
LEMMA EnterMessengerElse ==
    ASSUME PlacesInv, ElseInv, NEW kind \in Messengers, NEW r \in BOOLEAN, NEW i \in BOOLEAN,
           EnterMessenger(kind, r, i)
    PROVE  ElseInv'
<1> DEFINE g == NewFrame(kind, "body")
           h == [g EXCEPT !.pending = <<Pending(TypeOf(kind), i)>>]
<1>1. /\ ~final /\ messages' = messages /\ backups' = backups
      /\ ctx' = [ctx EXCEPT !.calls = Append(@, nodes + 1)]
      /\ Open(g) \/ Open(h)
  BY DEF EnterMessenger, CanOpen
<1>2. \A f \in {g, h} : /\ f.caller = CallerId /\ f.begin = 0 /\ f.kind = kind
                        /\ f.elseif = FALSE /\ f.id = nodes + 1 /\ f.part = "body"
  <2>1. /\ g.caller = CallerId /\ g.begin = 0 /\ g.kind = kind
        /\ g.elseif = FALSE /\ g.id = nodes + 1 /\ g.part = "body"
    BY DEF NewFrame
  <2>2. /\ h.caller = CallerId /\ h.begin = 0 /\ h.kind = kind
        /\ h.elseif = FALSE /\ h.id = nodes + 1 /\ h.part = "body"
    BY DEF NewFrame
  <2> HIDE DEF g, h
  <2> QED
    BY <2>1, <2>2
<1> HIDE DEF g, h
<1>3. SameIfs(ctx, ctx') /\ Grows(messages, messages')
  BY <1>1, ElseHere, OtherStacks, NothingGrows
<1>4. kind \notin {"If", "Lambda"} /\ kind \notin Ifs
  BY DEF Messengers, Ifs
<1>5. PICK f \in {g, h} : Open(f)
  BY <1>1
<1>6. f.part # "else" /\ ~(f.kind \in Ifs /\ f.part = "then")
      /\ f.kind \notin {"If", "Lambda"} /\ ~f.elseif
      /\ f.id = nodes + 1 /\ f.caller = CallerId /\ f.begin = 0
  BY <1>2, <1>4
<1> QED
  BY ONLY PlacesInv, ElseInv, <1>1, <1>3, <1>5, <1>6, ElseOpening

\* It is left.
LEMMA LeaveMessengerElse ==
    ASSUME PlacesInv, ElseInv, LeaveMessenger
    PROVE  ElseInv'
<1>1. /\ ~final /\ walk # <<>> /\ Top.kind \in Messengers /\ messages' = messages
      /\ backups' = backups /\ ctx' = [ctx EXCEPT !.calls = Front(@)]
  BY DEF LeaveMessenger, IsTop
<1>2. /\ Top = walk[Len(walk)] /\ IsFrame(Top)
      /\ SameIfs(ctx, ctx') /\ Grows(messages, messages')
  BY <1>1, ElseHere, OtherStacks, NothingGrows
<1>3. CASE Top.pending = <<>>
  <2>1. Close /\ Top.kind \notin {"If", "Lambda"}
    BY <1>1, <1>3 DEF LeaveMessenger, Messengers
  <2> QED
    BY <1>1, <1>2, <2>1, ElseClosing
<1>4. CASE Top.pending # <<>>
  <2> DEFINE g == [Top EXCEPT !.part = "leaving"]
  <2>1. walk' = [walk EXCEPT ![Len(walk)] = g]
    BY <1>2, <1>4 DEF LeaveMessenger
  <2>2. /\ g.kind = Top.kind /\ g.id = Top.id /\ g.caller = Top.caller
        /\ g.elseif = Top.elseif /\ g.begin = Top.begin
    BY <1>2 DEF IsFrame, FrameFields
  <2> HIDE DEF g
  <2>3. g.kind \notin Ifs /\ g.kind # "If" /\ ~Clean(g)
    BY <1>1, <2>2 DEF Ifs, Clean, Messengers
  <2>4. ctx'.ifs = ctx.ifs /\ ctx'.elseifs = ctx.elseifs /\ ctx'.lambdas = ctx.lambdas
    BY <1>2 DEF SameIfs
  <2> QED
    BY ONLY PlacesInv, ElseInv, <1>1, <1>2, <2>1, <2>2, <2>3, <2>4, ElseTurning
<1> QED
  BY <1>3, <1>4

\* One of its messages is recorded.
LEMMA PopMessageElse ==
    ASSUME PlacesInv, ElseInv, PopMessage
    PROVE  ElseInv'
<1> DEFINE p == Head(Top.pending)
<1>1. /\ ~final /\ walk # <<>> /\ Top.kind \in Messengers /\ Top.part = "leaving"
      /\ messages' = Put(p.from, p.message) /\ backups' = backups /\ ctx' = ctx
  BY DEF PopMessage, IsTop
<1>2. /\ Top = walk[Len(walk)] /\ IsFrame(Top) /\ SoundFrame(Top)
      /\ Len(walk) \in DOMAIN walk /\ SameIfs(ctx, ctx')
      /\ TidyInv /\ messages \in [Activity -> Seq(Entry)]
  BY <1>1, ElseHere DEF SameIfs
<1>3. p \in [from : Activity, message : Entry]
  <2> DEFINE q == Top.pending
  <2>1. q \in Seq(Range(q)) /\ q # <<>>
    BY <1>1, <1>2 DEF PlacesInv, Waiting, StillWaits, SoundFrame
  <2>2. Range(q) \subseteq seen
    BY <1>2 DEF TidyInv, Tidy, Placed
  <2> HIDE DEF q
  <2>3. Head(q) \in Range(q)
    BY <2>1
  <2>4. Head(q) \in seen
    BY <2>2, <2>3
  <2> QED
    BY <1>2, <2>4 DEF TidyInv, Tidy, Pushed, q
<1>4. Grows(messages, messages')
  <2> HIDE DEF p
  <2>1. p.from \in Activity /\ p.message \in Entry
    BY <1>3
  <2> QED
    BY <1>1, <1>2, <2>1, PutGrows
<1>5. CASE Len(Top.pending) = 1
  <2>1. Close /\ Top.kind \notin {"If", "Lambda"}
    BY <1>1, <1>5 DEF PopMessage, Messengers
  <2> QED
    BY <1>1, <1>2, <1>4, <2>1, ElseClosing
<1>6. CASE Len(Top.pending) # 1
  <2> DEFINE g == [Top EXCEPT !.pending = Tail(@)]
  <2>1. walk' = [walk EXCEPT ![Len(walk)] = g]
    BY <1>2, <1>6 DEF PopMessage
  <2>2. /\ g.kind = Top.kind /\ g.id = Top.id /\ g.caller = Top.caller
        /\ g.elseif = Top.elseif /\ g.begin = Top.begin
    BY <1>2 DEF IsFrame, FrameFields
  <2> HIDE DEF g
  <2>3. g.kind \notin Ifs /\ g.kind # "If" /\ ~Clean(g)
    BY <1>1, <2>2 DEF Ifs, Clean, Messengers
  <2>4. ctx'.ifs = ctx.ifs /\ ctx'.elseifs = ctx.elseifs /\ ctx'.lambdas = ctx.lambdas
    BY <1>2 DEF SameIfs
  <2> QED
    BY ONLY PlacesInv, ElseInv, <1>1, <1>2, <1>4, <2>1, <2>2, <2>3, <2>4, ElseTurning
<1> QED
  BY <1>5, <1>6

\* A lambda is entered, whether or not a call takes a message to it.
LEMMA EnterLambdaElse ==
    ASSUME PlacesInv, ElseInv, NEW i \in BOOLEAN, NEW b \in BOOLEAN, EnterLambda(i, b)
    PROVE  ElseInv'
<1> DEFINE f == NewFrame("Lambda", "body")
           p == Pending("kCall", TRUE)
           call == IF ctx.calls = <<>> THEN 0 ELSE FrameOf(Last(ctx.calls))
           u == [Filled EXCEPT ![call].pending = Append(@, p)]
<1>1. /\ ~final /\ messages' = messages /\ nodes' = nodes + 1
      /\ backups' = Append(backups, ctx)
      /\ ctx' = IF i THEN [ctx EXCEPT !.lambdas = Append(@, lambdas + 1)] ELSE ctx
      /\ \/ walk' = Append(Filled, f)
         \/ call # 0 /\ walk[call].kind = "Call" /\ walk' = Append(u, f)
  BY DEF EnterLambda, CanOpen
<1>2. /\ f.caller = CallerId /\ f.begin = 0 /\ f.kind = "Lambda"
      /\ f.elseif = FALSE /\ f.id = nodes + 1 /\ f.part = "body"
  BY DEF NewFrame
<1>3. /\ IsWalk(walk) /\ Shaped(walk) /\ ContextInv /\ nodes \in Nat
      /\ backups \in Seq(Range(backups))
      /\ messages \in [Activity -> Seq(Entry)]
      /\ \A k \in DOMAIN walk : walk[k].caller \in Activity
      /\ walk # <<>> /\ walk[Len(walk)].kind # "Lambda" => walk[Len(walk)].caller = CallerId
  BY <1>1, ElseHere DEF ElseInv
<1>4. /\ walk \in Seq(Range(walk)) /\ Filled \in Seq(Range(Filled))
      /\ Len(Filled) = Len(walk) /\ DOMAIN walk = 1..Len(walk)
      /\ \A k \in 1..Len(walk) : Stays(walk[k], Filled[k])
  BY <1>3, FilledStays
<1> HIDE DEF f
<1>5. Entering(walk, walk', f)
  <2>1. CASE walk' = Append(Filled, f)
    BY <1>4, <2>1, AppendEnters
  <2>2. CASE call # 0 /\ walk[call].kind = "Call" /\ walk' = Append(u, f)
    <3> DEFINE g == [Filled[call] EXCEPT !.pending = Append(@, p)]
    <3>1. call \in DOMAIN walk
      BY <1>3, <2>2, FrameOfCall
    <3>2. call \in 1..Len(Filled) /\ Stays(walk[call], Filled[call]) /\ IsFrame(Filled[call])
      <4>1. IsWalk(Filled) /\ DOMAIN Filled = 1..Len(Filled)
        BY <1>3, <1>4, FilledAlike, AlikeStanding
      <4>2. call \in 1..Len(walk) /\ call \in DOMAIN Filled
        BY <1>4, <3>1, <4>1
      <4> HIDE DEF call
      <4> QED
        BY <1>4, <4>1, <4>2 DEF IsWalk
    <3>3. u = [Filled EXCEPT ![call] = g]
      OBVIOUS
    <3> HIDE DEF call, p
    <3>4. Stays(walk[call], g)
      BY <3>2 DEF Stays, IsFrame, FrameFields
    <3> HIDE DEF g, u
    <3>5. /\ u \in Seq(Range(u)) /\ Len(u) = Len(Filled) /\ u[call] = g
          /\ \A k \in 1..Len(Filled) : k # call => u[k] = Filled[k]
      BY <1>4, <3>2, <3>3, EditFacts
    <3>6. \A k \in 1..Len(walk) : Stays(walk[k], u[k])
      BY <1>4, <3>4, <3>5
    <3> QED
      BY <1>4, <2>2, <3>5, <3>6, AppendEnters
  <2> HIDE DEF u, call
  <2> QED
    BY <1>1, <2>1, <2>2
<1> HIDE DEF u, call, p
<1>6. Shaped(walk')
  <2>1. f.id # 0 /\ ~(f.kind \in Ifs /\ f.part = "then")
    BY <1>2, <1>3
  <2>2. walk # <<>> /\ walk[Len(walk)].kind # "Lambda" => f.caller = walk[Len(walk)].caller
    BY <1>2, <1>3
  <2> QED
    BY <1>3, <1>5, <2>1, <2>2, ShapedEntering
<1>7. Recalls(ctx', walk', Len(walk') + 1)
  <2>1. ctx'.ifs = ctx.ifs /\ ctx'.elseifs = ctx.elseifs
    <3>1. "ifs" \in DOMAIN ctx /\ "elseifs" \in DOMAIN ctx
      BY <1>3, Here DEF Stacks
    <3> QED
      BY <1>1, <3>1
  <2> QED
    BY <1>2, <1>5, <2>1, RecallsEntering DEF ElseInv
<1>8. \E at : Backed(backups', walk', at)
  <2>1. PICK at : Backed(backups, walk, at)
    BY DEF ElseInv
  <2>2. Backed(Append(backups, ctx), walk', Append(at, Len(walk) + 1))
    BY <1>2, <1>3, <1>5, <2>1, BackedPush DEF ElseInv
  <2> QED
    BY <1>1, <2>2
<1>9. Divided(walk', messages')
  <2>1. Divided(walk, messages) /\ Grows(messages, messages')
    BY <1>1, NothingGrows DEF ElseInv
  <2>2. f.part # "else" /\ f.begin = 0 /\ f.kind # "If"
    BY <1>2
  <2> QED
    BY <1>3, <1>5, <2>1, <2>2, DividedEntering
<1> QED
  BY <1>6, <1>7, <1>8, <1>9 DEF ElseInv

\* A lambda is left, and the context is what it was.
LEMMA LeaveLambdaElse ==
    ASSUME PlacesInv, ElseInv, LeaveLambda
    PROVE  ElseInv'
<1>1. /\ ~final /\ walk # <<>> /\ Top.kind = "Lambda" /\ Close /\ messages' = messages
      /\ ctx' = Last(backups) /\ backups' = Front(backups)
  BY DEF LeaveLambda, IsTop
<1>2. /\ Top = walk[Len(walk)] /\ Leaving(walk, walk') /\ backups \in Seq(Range(backups))
      /\ messages \in [Activity -> Seq(Entry)]
      /\ \A k \in DOMAIN walk : walk[k].caller \in Activity
      /\ Shaped(walk) /\ Divided(walk, messages)
  BY <1>1, ElseHere, CloseLeaves DEF ElseInv
<1>3. Shaped(walk')
  BY <1>2, ShapedLeaving
<1>4. PICK at : Backed(backups, walk, at)
  BY DEF ElseInv
<1>5. /\ Recalls(Last(backups), walk', Len(walk') + 1)
      /\ Backed(Front(backups), walk', Front(at))
  BY <1>1, <1>2, <1>4, BackedPop
<1>6. Recalls(ctx', walk', Len(walk') + 1) /\ Backed(backups', walk', Front(at))
  BY <1>1, <1>5
<1>7. Divided(walk', messages')
  BY <1>1, <1>2, NothingGrows, DividedLeaving
<1> QED
  BY <1>3, <1>6, <1>7 DEF ElseInv

--------------------------------------------------------------------------------
(***************************************************************************)
(* The theorems about the branches                                         *)
(***************************************************************************)
\* It holds before anything was traversed.
LEMMA ElseInvInit ==
    ASSUME Init
    PROVE  ElseInv
<1>1. walk = <<>> /\ backups = <<>> /\ ctx = EmptyContext
  BY DEF Init
<1>2. DOMAIN <<>> = {} /\ <<>> \in Seq(Nat) /\ Len(<<>>) = 0
  <2>1. <<>> \in Seq(Nat) /\ Len(<<>>) = 0
    BY EmptySeq
  <2>2. DOMAIN <<>> = 1..Len(<<>>)
    BY <2>1, LenProperties
  <2> QED
    BY <2>1, <2>2
<1>3. Shaped(walk) /\ Divided(walk, messages)
  BY <1>1, <1>2 DEF Shaped, Divided
<1>4. Recalls(ctx, walk, Len(walk) + 1)
  BY <1>1, <1>2 DEF Recalls, EmptyContext
<1>5. Backed(backups, walk, <<>>)
  <2>1. LambdasIn(walk) = {} /\ Range(<<>>) = {}
    BY <1>1, <1>2 DEF LambdasIn, Range
  <2>2. IsStackOf(<<>>, {})
    BY <1>2, <2>1 DEF IsStackOf, Ascending
  <2>3. 1..Len(backups) = {}
    BY <1>1, <1>2
  <2> QED
    BY <1>1, <1>2, <2>1, <2>2, <2>3 DEF Backed
<1> QED
  BY <1>3, <1>4, <1>5 DEF ElseInv

\* It is inductive, given where the messages are.
LEMMA ElseInvNext ==
    ASSUME PlacesInv, ElseInv, [Next]_vars
    PROVE  ElseInv'
<1>1. CASE EnterIf
  BY <1>1, EnterIfElse
<1>2. CASE EnterConstexprIf
  BY <1>2, EnterConstexprIfElse
<1>3. CASE LeaveIf
  BY <1>3, LeaveIfElse
<1>4. CASE \E b \in BOOLEAN : EnterThen(b) \/ EnterElse(b)
  BY <1>4, EnterBranchElse
<1>5. CASE (\E kind \in Loops : EnterLoop(kind)) \/ EnterTry \/ EnterSwitch \/ EnterConditional
  <2>1. PICK kind \in Loops \cup {"Try", "Switch", "Conditional"},
             part \in {"body", "cond", "then"} : OpenBlock(kind, part)
    BY <1>5 DEF EnterLoop, EnterTry, EnterSwitch, EnterConditional
  <2>2. ~final
    BY <2>1 DEF OpenBlock, CanOpen
  <2>3. SameIfs(ctx, ctx')
    BY <1>5, <2>2, ElseHere, OtherStacks DEF EnterLoop, EnterTry, EnterSwitch, EnterConditional
  <2> QED
    BY <2>1, <2>2, <2>3, OpenBlockElse
<1>6. CASE LeaveLoop \/ LeaveConditional \/ LeaveTry \/ LeaveSwitch
  BY <1>6, LeaveBlockElse
<1>7. CASE EnterCatch \/ EnterCase \/ EnterConditionalElse
  BY <1>7, NextPartElse
<1>8. CASE \E kind \in Messengers, r, i \in BOOLEAN : EnterMessenger(kind, r, i)
  BY <1>8, EnterMessengerElse
<1>9. CASE LeaveMessenger
  BY <1>9, LeaveMessengerElse
<1>10. CASE PopMessage
  BY <1>10, PopMessageElse
<1>11. CASE \E i, p \in BOOLEAN : EnterLambda(i, p)
  BY <1>11, EnterLambdaElse
<1>12. CASE LeaveLambda
  BY <1>12, LeaveLambdaElse
<1>13. CASE Finish
  <2>1. walk = <<>> /\ walk' = walk /\ ctx' = ctx /\ backups' = backups
    BY <1>13 DEF Finish
  <2>2. DOMAIN walk' = {}
    <3>1. <<>> \in Seq(Nat) /\ Len(<<>>) = 0
      BY EmptySeq
    <3>2. DOMAIN <<>> = 1..Len(<<>>)
      BY <3>1, LenProperties
    <3> QED
      BY <2>1, <3>1, <3>2
  <2>3. Divided(walk', messages')
    BY <2>2 DEF Divided
  <2> QED
    BY <2>1, <2>3 DEF ElseInv
<1>14. CASE UNCHANGED vars
  BY <1>14 DEF ElseInv, vars
<1> QED
  BY <1>1, <1>2, <1>3, <1>4, <1>5, <1>6, <1>7, <1>8, <1>9, <1>10, <1>11, <1>12,
     <1>13, <1>14 DEF Next

\* What the context recalls of the branches, and their marks, are as ElseInv says,
\* whatever the syntax tree.
THEOREM ElsesInvariance == Spec => [](PlacesInv /\ ElseInv)
<1>1. Init => PlacesInv /\ ElseInv
  BY PlacesInvInit, ElseInvInit
<1>2. PlacesInv /\ ElseInv /\ [Next]_vars => PlacesInv' /\ ElseInv'
  BY PlacesInvNext, ElseInvNext
<1> QED
  BY <1>1, <1>2, PTL DEF Spec

\* An else that is in braces or an if statement of its own, after a then in braces,
\* begins with its kElse or kElseIf, whatever was nested in the branches, folded
\* away in them, or saved and put back around a lambda.
THEOREM ElseIsMarked == Spec => []BracedElseIsMarked
<1>1. ASSUME PlacesInv, ElseInv PROVE BracedElseIsMarked
  <2> SUFFICES ASSUME NEW k \in DOMAIN walk,
                      walk[k].braces \/ (k < Len(walk) /\ walk[k + 1].kind = "If"),
                      ElseOf(k), ~walk[k].bare
               PROVE  SetApart(walk[k])
    BY DEF BracedElseIsMarked
  <2>1. DOMAIN walk = 1..Len(walk) /\ Len(walk) \in Nat
    BY <1>1 DEF PlacesInv, ContextInv, Sound, IsWalk
  <2>2. k < Len(walk) => k + 1 \in DOMAIN walk
    BY <2>1
  <2>3. Marked(walk, k)
    BY <2>2 DEF Marked, ElseOf
  <2>4. IsSetApart(messages, walk[k])
    BY <1>1, <2>3 DEF ElseInv, Divided
  <2> QED
    BY <2>4 DEF IsSetApart, SetApart
<1> QED
  BY <1>1, ElsesInvariance, PTL
--------------------------------------------------------------------------------
(***************************************************************************)
(* The blocks of an activity that are open                                 *)
(***************************************************************************)
\* How many numbers of a set are not above one.
Rank(S, k) == Cardinality({i \in S : i <= k})

\* Ranks are numbers from 1 to the size of the set.
LEMMA RankFacts ==
    ASSUME NEW n \in Nat, NEW S \in SUBSET (1..n), NEW k \in S
    PROVE  /\ IsFiniteSet(S) /\ Cardinality(S) \in Nat
           /\ Rank(S, k) \in 1..Cardinality(S)
<1>1. IsFiniteSet(1..n)
  BY FS_Interval
<1>2. IsFiniteSet(S) /\ Cardinality(S) \in Nat
  BY <1>1, FS_Subset, FS_CardinalityType
<1> DEFINE T == {i \in S : i <= k}
<1>3. T \subseteq S /\ k \in T
  OBVIOUS
<1>4. IsFiniteSet(T) /\ Cardinality(T) \in Nat /\ Cardinality(T) <= Cardinality(S)
  BY <1>2, <1>3, FS_Subset, FS_CardinalityType
<1>5. Cardinality(T) # 0
  BY <1>3, <1>4, FS_EmptySet
<1> QED
  BY <1>2, <1>4, <1>5 DEF Rank

\* Greater members have greater ranks.
LEMMA RankAscends ==
    ASSUME NEW n \in Nat, NEW S \in SUBSET (1..n), NEW j \in S, NEW k \in S, j < k
    PROVE  Rank(S, j) < Rank(S, k)
<1> DEFINE T == {i \in S : i <= j}
           U == {i \in S : i <= k}
<1>1. IsFiniteSet(S)
  BY RankFacts
<1>2. T \subseteq U /\ T # U /\ U \subseteq S
  <2>1. k \in U /\ k \notin T
    OBVIOUS
  <2>2. \A i \in S : i \in Nat
    OBVIOUS
  <2>3. \A i \in S : i <= j => i <= k
    BY <2>2
  <2> QED
    BY <2>1, <2>3
<1>3. IsFiniteSet(U)
  BY <1>1, <1>2, FS_Subset
<1>4. Cardinality(T) < Cardinality(U)
  <2> HIDE DEF T, U
  <2>1. Cardinality(T) <= Cardinality(U) /\ Cardinality(T) # Cardinality(U)
    BY <1>2, <1>3, FS_Subset
  <2>2. Cardinality(T) \in Nat /\ Cardinality(U) \in Nat
    BY <1>2, <1>3, FS_Subset, FS_CardinalityType
  <2> QED
    BY <2>1, <2>2
<1> QED
  BY <1>4 DEF Rank

\* Different members have different ranks.
LEMMA RanksDiffer ==
    ASSUME NEW n \in Nat, NEW S \in SUBSET (1..n)
    PROVE  \A j, k \in S : Rank(S, j) = Rank(S, k) => j = k
<1> SUFFICES ASSUME NEW j \in S, NEW k \in S, j # k PROVE Rank(S, j) # Rank(S, k)
  OBVIOUS
<1>1. j \in 1..n /\ k \in 1..n
  OBVIOUS
<1>2. /\ Cardinality(S) \in Nat
      /\ Rank(S, j) \in 1..Cardinality(S) /\ Rank(S, k) \in 1..Cardinality(S)
  BY RankFacts
<1>3. CASE j < k
  <2>1. Rank(S, j) < Rank(S, k)
    BY <1>3, RankAscends
  <2> QED
    BY <1>2, <2>1
<1>4. CASE k < j
  <2>1. Rank(S, k) < Rank(S, j)
    BY <1>4, RankAscends
  <2> QED
    BY <1>2, <2>1
<1> QED
  BY <1>1, <1>3, <1>4

\* Every number from 1 to the size of the set is the rank of one member.
LEMMA NthFacts ==
    ASSUME NEW n \in Nat, NEW S \in SUBSET (1..n), NEW j \in 1..Cardinality(S)
    PROVE  Nth(S, j) \in S /\ Rank(S, Nth(S, j)) = j
<1> DEFINE m == Cardinality(S)
           f == [k \in S |-> Rank(S, k)]
<1>1. IsFiniteSet(S) /\ m \in Nat
  <2>1. IsFiniteSet(1..n)
    BY FS_Interval
  <2> QED
    BY <2>1, FS_Subset, FS_CardinalityType
<1>2. \A k \in S : Rank(S, k) \in 1..m
  BY RankFacts
<1>3. \A k, l \in S : Rank(S, k) = Rank(S, l) => k = l
  BY RanksDiffer
<1>4. f \in Injection(S, 1..m)
  BY <1>2, <1>3 DEF Injection, IsInjective
<1>5. IsFiniteSet(1..m) /\ Cardinality(1..m) = m
  BY <1>1, FS_Interval
<1> HIDE DEF f
<1>6. f \in Surjection(S, 1..m)
  BY <1>4, <1>5, FS_Injection
<1>7. \E k \in S : f[k] = j
  BY <1>6 DEF Surjection
<1>8. \E k \in S : Rank(S, k) = j
  BY <1>7 DEF f
<1> QED
  BY <1>8 DEF Nth, Rank

\* The member of greatest rank is the one that is put on top.
LEMMA NthPush ==
    ASSUME NEW n \in Nat, NEW S \in SUBSET (1..n),
           NEW T, T = S \cup {n + 1}
    PROVE  /\ Cardinality(T) = Cardinality(S) + 1 /\ Cardinality(S) \in Nat
           /\ Nth(T, Cardinality(T)) = n + 1
           /\ \A j \in 1..Cardinality(S) : Nth(T, j) = Nth(S, j)
<1>1. IsFiniteSet(S) /\ Cardinality(S) \in Nat
  <2>1. IsFiniteSet(1..n)
    BY FS_Interval
  <2> QED
    BY <2>1, FS_Subset, FS_CardinalityType
<1>2. n + 1 \notin S /\ T \subseteq 1..(n + 1) /\ n + 1 \in Nat
  OBVIOUS
<1>3. Cardinality(T) = Cardinality(S) + 1
  BY <1>1, <1>2, FS_AddElement
<1>4. \A k \in S : Rank(T, k) = Rank(S, k)
  <2> TAKE k \in S
  <2>1. {i \in T : i <= k} = {i \in S : i <= k}
    OBVIOUS
  <2> QED
    BY <2>1 DEF Rank
<1>5. \A i, k \in T : Rank(T, i) = Rank(T, k) => i = k
  BY <1>2, RanksDiffer
<1>6. Rank(T, n + 1) = Cardinality(T)
  <2>1. \A i \in S : i <= n + 1
    OBVIOUS
  <2>2. \A i \in T : i <= n + 1
    BY <2>1
  <2>3. {i \in T : i <= n + 1} = T
    BY <2>2
  <2> QED
    BY <2>3 DEF Rank
<1>7. Nth(T, Cardinality(T)) = n + 1
  <2>1. Cardinality(T) \in 1..Cardinality(T)
    BY <1>1, <1>3
  <2>2. Nth(T, Cardinality(T)) \in T /\ Rank(T, Nth(T, Cardinality(T))) = Cardinality(T)
    BY <1>2, <2>1, NthFacts
  <2> QED
    BY <1>2, <1>5, <1>6, <2>2
<1>8. ASSUME NEW j \in 1..Cardinality(S) PROVE Nth(T, j) = Nth(S, j)
  <2>1. j \in 1..Cardinality(T)
    BY <1>1, <1>3, <1>8
  <2>2. Nth(T, j) \in T /\ Rank(T, Nth(T, j)) = j
    BY <1>2, <2>1, NthFacts
  <2>3. Nth(S, j) \in S /\ Rank(S, Nth(S, j)) = j
    BY NthFacts
  <2> QED
    BY <1>4, <1>5, <2>2, <2>3
<1> QED
  BY <1>1, <1>3, <1>7, <1>8

\* v is w, perhaps with other details, and n frames more; frames that wait for
\* other messages count as the same.
SameBlock(f, g) ==
    /\ g.kind = f.kind /\ g.caller = f.caller
    /\ g.begin = f.begin /\ g.block = f.block

Continues(v, w, n) ==
    /\ w \in Seq(Range(w)) /\ v \in Seq(Range(v)) /\ Len(v) = Len(w) + n
    /\ \A k \in 1..Len(w) : SameBlock(w[k], v[k])

\* The blocks that are open are those of the frames.
LEMMA OpenContinues ==
    ASSUME NEW w, NEW v, Continues(v, w, 0), NEW a
    PROVE  OpenIn(v, a) = OpenIn(w, a)
<1> DEFINE S == BlocksOf(w, a)
<1>1. /\ Len(w) \in Nat /\ DOMAIN w = 1..Len(w) /\ DOMAIN v = 1..Len(w)
      /\ \A k \in 1..Len(w) : SameBlock(w[k], v[k])
  BY DEF Continues
<1>2. BlocksOf(v, a) = S /\ S \in SUBSET (1..Len(w))
  BY <1>1 DEF BlocksOf, SameBlock
<1>3. \A j \in 1..Cardinality(S) : Nth(S, j) \in 1..Len(w)
  BY <1>1, <1>2, NthFacts
<1>4. \A j \in 1..Cardinality(S) :
          /\ v[Nth(S, j)].block = w[Nth(S, j)].block
          /\ v[Nth(S, j)].begin = w[Nth(S, j)].begin
  BY <1>1, <1>3 DEF SameBlock
<1> HIDE DEF S
<1> QED
  BY <1>2, <1>4 DEF OpenIn, S

\* A frame that begins no block of an activity does not change what is open in it.
LEMMA OpenPasses ==
    ASSUME NEW w, NEW v, Continues(v, w, 1), NEW a,
           v[Len(w) + 1].begin = 0 \/ v[Len(w) + 1].caller # a
    PROVE  OpenIn(v, a) = OpenIn(w, a)
<1> DEFINE S == BlocksOf(w, a)
<1>1. /\ Len(w) \in Nat /\ DOMAIN w = 1..Len(w) /\ DOMAIN v = 1..(Len(w) + 1)
      /\ \A k \in 1..Len(w) : SameBlock(w[k], v[k])
  BY DEF Continues
<1>2. Len(w) + 1 \notin BlocksOf(v, a)
  BY DEF BlocksOf
<1>3. \A k : k \in DOMAIN v <=> k \in DOMAIN w \/ k = Len(w) + 1
  BY <1>1
<1>4. Len(w) + 1 \notin DOMAIN w
  BY <1>1
<1>5. BlocksOf(v, a) = S /\ S \in SUBSET (1..Len(w))
  BY <1>1, <1>2, <1>3, <1>4 DEF BlocksOf, SameBlock
<1>6. \A j \in 1..Cardinality(S) : Nth(S, j) \in 1..Len(w)
  BY <1>1, <1>5, NthFacts
<1>7. \A j \in 1..Cardinality(S) :
          /\ v[Nth(S, j)].block = w[Nth(S, j)].block
          /\ v[Nth(S, j)].begin = w[Nth(S, j)].begin
  BY <1>1, <1>6 DEF SameBlock
<1> HIDE DEF S
<1> QED
  BY <1>5, <1>7 DEF OpenIn, S

\* A list that is another one and one element more.
LEMMA OneMore ==
    ASSUME NEW S, NEW s \in Seq(S), NEW t \in Seq(S), NEW e \in S,
           Len(t) = Len(s) + 1, \A j \in 1..Len(s) : t[j] = s[j], t[Len(t)] = e
    PROVE  t = Append(s, e) /\ t # <<>> /\ Last(t) = e /\ Front(t) = s
<1>1. t = Append(s, e)
  OBVIOUS
<1>2. t # <<>>
  BY EmptySeq
<1>3. /\ Front(t) \in Seq(S) /\ Len(Front(t)) = Len(s)
      /\ \A j \in 1..Len(s) : Front(t)[j] = s[j]
      /\ Last(t) = e
  BY <1>2, PopFacts
<1>4. Front(t) = s
  BY <1>3
<1> QED
  BY <1>1, <1>2, <1>3, <1>4

\* A frame that begins one puts it on top.
LEMMA OpenPushes ==
    ASSUME NEW w, NEW v, Continues(v, w, 1), NEW a,
           v[Len(w) + 1].caller = a, v[Len(w) + 1].begin > 0
    PROVE  LET e == [type |-> v[Len(w) + 1].block, begin |-> v[Len(w) + 1].begin]
           IN  /\ OpenIn(v, a) = Append(OpenIn(w, a), e)
               /\ OpenIn(v, a) # <<>>
               /\ Last(OpenIn(v, a)) = e /\ Front(OpenIn(v, a)) = OpenIn(w, a)
<1> DEFINE S == BlocksOf(w, a)
           T == BlocksOf(v, a)
           e == [type |-> v[Len(w) + 1].block, begin |-> v[Len(w) + 1].begin]
           m == Cardinality(S)
<1>1. /\ Len(w) \in Nat /\ DOMAIN w = 1..Len(w) /\ DOMAIN v = 1..(Len(w) + 1)
      /\ \A k \in 1..Len(w) : SameBlock(w[k], v[k])
  BY DEF Continues
<1>2. Len(w) + 1 \in T
  BY <1>1 DEF BlocksOf
<1>3. \A k : k \in DOMAIN v <=> k \in DOMAIN w \/ k = Len(w) + 1
  BY <1>1
<1>4. T = S \cup {Len(w) + 1} /\ S \in SUBSET (1..Len(w))
  BY <1>1, <1>2, <1>3 DEF BlocksOf, SameBlock
<1>5. /\ m \in Nat /\ Cardinality(T) = m + 1 /\ Nth(T, m + 1) = Len(w) + 1
      /\ \A j \in 1..m : Nth(T, j) = Nth(S, j)
  <2> HIDE DEF S, T
  <2> DEFINE n == Len(w)
  <2>1. n \in Nat /\ S \in SUBSET (1..n) /\ T = S \cup {n + 1}
    BY <1>1, <1>4
  <2> HIDE DEF n
  <2>2. /\ Cardinality(T) = Cardinality(S) + 1 /\ Cardinality(S) \in Nat
        /\ Nth(T, Cardinality(T)) = n + 1
        /\ \A j \in 1..Cardinality(S) : Nth(T, j) = Nth(S, j)
    BY ONLY <2>1, NthPush
  <2> QED
    BY <2>2 DEF n
<1>6. \A j \in 1..m : Nth(S, j) \in 1..Len(w)
  BY <1>1, <1>4, NthFacts
<1> HIDE DEF S, T
<1>7. OpenIn(w, a) = [j \in 1..m |-> [type |-> w[Nth(S, j)].block, begin |-> w[Nth(S, j)].begin]]
  BY DEF OpenIn, S
<1>8. OpenIn(v, a) = [j \in 1..(m + 1) |-> [type |-> v[Nth(T, j)].block,
                                            begin |-> v[Nth(T, j)].begin]]
  BY <1>5 DEF OpenIn, T
<1> HIDE DEF m
<1> DEFINE o == OpenIn(w, a)
           q == OpenIn(v, a)
<1>9. \A j \in 1..m : q[j] = o[j]
  BY <1>1, <1>5, <1>6, <1>7, <1>8 DEF SameBlock
<1>10. q[m + 1] = e /\ m + 1 \in Nat
  BY <1>5, <1>8
<1>11. DOMAIN q = 1..(m + 1) /\ DOMAIN o = 1..m
  BY <1>7, <1>8
<1>12. q \in [1..(m + 1) -> Range(q)]
  <2>1. q = [j \in DOMAIN q |-> q[j]]
    BY <1>8
  <2> QED
    BY <1>11, <2>1 DEF Range
<1>13. o \in [1..m -> Range(q)]
  <2>1. o = [j \in DOMAIN o |-> o[j]]
    BY <1>7
  <2>2. \A j \in 1..m : o[j] \in Range(q)
    BY <1>5, <1>9, <1>11 DEF Range
  <2> QED
    BY <1>11, <2>1, <2>2
<1> HIDE DEF o, q, e
<1>14. /\ q \in Seq(Range(q)) /\ Len(q) = m + 1
       /\ o \in Seq(Range(q)) /\ Len(o) = m
  BY <1>5, <1>10, <1>12, <1>13
<1>15. q = Append(o, e) /\ q # <<>> /\ Last(q) = e /\ Front(q) = o
  BY <1>9, <1>10, <1>14, OneMore
<1> QED
  BY <1>15 DEF o, q, e

\* A frame that begins a block is among the blocks that are open.
LEMMA OpenHas ==
    ASSUME NEW w, w \in Seq(Range(w)), NEW k \in DOMAIN w, w[k].begin > 0
    PROVE  \E j \in DOMAIN OpenIn(w, w[k].caller) :
              OpenIn(w, w[k].caller)[j].type = w[k].block
<1> DEFINE a == w[k].caller
           S == BlocksOf(w, a)
           j == Rank(S, k)
<1>1. DOMAIN w = 1..Len(w) /\ Len(w) \in Nat
  OBVIOUS
<1>2. k \in S /\ S \in SUBSET (1..Len(w))
  BY <1>1 DEF BlocksOf
<1> HIDE DEF S
<1>3. j \in 1..Cardinality(S)
  BY <1>1, <1>2, RankFacts
<1>4. Nth(S, j) \in S /\ Rank(S, Nth(S, j)) = j
  BY <1>1, <1>2, <1>3, NthFacts
<1>5. Nth(S, j) = k
  BY <1>1, <1>2, <1>4, RanksDiffer
<1> HIDE DEF j
<1>6. OpenIn(w, a) = [i \in 1..Cardinality(S) |-> [type |-> w[Nth(S, i)].block,
                                                  begin |-> w[Nth(S, i)].begin]]
  BY DEF OpenIn, S
<1>7. j \in DOMAIN OpenIn(w, a) /\ OpenIn(w, a)[j].type = w[k].block
  BY <1>3, <1>5, <1>6
<1> QED
  BY <1>7
--------------------------------------------------------------------------------
(***************************************************************************)
(* The steps of SequenceModel                                              *)
(***************************************************************************)
\* The helpers of ActivityMessages are the same in the instance.
LEMMA SameHelpers ==
    /\ \A ms, t, m : Model!FoldOrEnd(ms, t, m) = FoldOrEnd(ms, t, m)
    /\ \A ms, m : Model!AddCaseTo(ms, m) = AddCaseTo(ms, m)
    /\ \A t : Model!EndOf(t) = EndOf(t)
    /\ \A t, n : Model!Msg(t, n) = Msg(t, n)
    /\ \A s : Model!Last(s) = Last(s) /\ Model!Front(s) = Front(s)
<1>1. \A ms, t, m : Model!FoldOrEnd(ms, t, m) = FoldOrEnd(ms, t, m)
  BY DEF Model!FoldOrEnd, FoldOrEnd, Model!FoundEmpty, FoundEmpty, Model!Work, Work
<1>2. \A ms, m : Model!AddCaseTo(ms, m) = AddCaseTo(ms, m)
  BY DEF Model!AddCaseTo, AddCaseTo, Model!Last, Last
<1>3. \A t : Model!EndOf(t) = EndOf(t)
  BY DEF Model!EndOf, EndOf
<1>4. \A t, n : Model!Msg(t, n) = Msg(t, n)
  BY DEF Model!Msg, Msg
<1>5. \A s : Model!Last(s) = Last(s) /\ Model!Front(s) = Front(s)
  BY DEF Model!Last, Last, Model!Front, Front
<1> QED
  BY <1>1, <1>2, <1>3, <1>4, <1>5

\* So is what finalize() makes of an activity.
LEMMA SameFinalized ==
    ASSUME NEW ms
    PROVE  Model!Finalized(ms) = Finalized(ms)
<1>1. ASSUME NEW ns PROVE Model!Included(ns) = Included(ns)
  BY DEF Model!Included, Included, Model!FoldLeft, FoldLeft, Model!TakeIncluded,
         TakeIncluded, Model!IsIncluded, IsIncluded, Model!MapThenFoldSet,
         MapThenFoldSet, Max, Model!Max
<1>2. ASSUME NEW ns PROVE Model!Collapsed(ns) = Collapsed(ns)
  BY DEF Model!Collapsed, Collapsed, Model!FoldLeft, FoldLeft, Model!CollapseStep,
         CollapseStep, Model!MapThenFoldSet, MapThenFoldSet, Model!BeginTypes,
         BeginTypes, Model!EndTypes, EndTypes, Model!Last, Last, Model!Front, Front,
         Model!Holds, Holds, Model!Work, Work, Max, Model!Max
<1> QED
  BY <1>1, <1>2 DEF Model!Finalized, Finalized

\* A message that begins and ends no block and is no label.
Speaks(m) ==
    \E t \in PlainTypes, n \in Node, i \in BOOLEAN :
        (t # "kCall" => i) /\ m = [type |-> t, at |-> n, included |-> i]

Says(ms, ns) ==
    ns = ms \/ \E a \in Activity : \E m : Speaks(m) /\ ns = [ms EXCEPT ![a] = Append(@, m)]

\* No block is begun or ended.
Passes(v, w) ==
    \/ Continues(v, w, 0)
    \/ Continues(v, w, 1) /\ v[Len(w) + 1].begin = 0
    \/ Continues(w, v, 1) /\ w[Len(v) + 1].begin = 0

ModelStep == UNCHANGED Model!vars \/ Model!Next

\* What is open in one activity as its messages go on.
LEMMA LooksAt ==
    ASSUME UNCHANGED of
    PROVE  /\ messages[of]' = messages'[of] /\ OpenIn(walk, of)' = OpenIn(walk', of)
  BY DEF OpenIn, BlocksOf, Nth

\* A step between the beginnings and ends of blocks.
LEMMA PassingStep ==
    ASSUME of \in Activity, messages \in [Activity -> Seq(Entry)], UNCHANGED of,
           ~final, UNCHANGED final, Passes(walk', walk), Says(messages, messages')
    PROVE  ModelStep
<1>1. OpenIn(walk', of) = OpenIn(walk, of)
  BY OpenContinues, OpenPasses DEF Passes
<1>2. OpenIn(walk, of)' = OpenIn(walk, of)
  BY <1>1, LooksAt
<1>3. CASE messages' = messages
  BY <1>2, <1>3 DEF ModelStep, Model!vars
<1>4. CASE messages' # messages
  <2>1. PICK a \in Activity : \E m :
            Speaks(m) /\ messages' = [messages EXCEPT ![a] = Append(@, m)]
    BY <1>4 DEF Says
  <2>2. PICK m : Speaks(m) /\ messages' = [messages EXCEPT ![a] = Append(@, m)]
    BY <2>1
  <2>3. CASE a # of
    <3>1. messages[of]' = messages[of]
      BY <2>2, <2>3
    <3> QED
      BY <1>2, <3>1 DEF ModelStep, Model!vars
  <2>4. CASE a = of
    <3>1. messages[of]' = Append(messages[of], m)
      BY <2>2, <2>4
    <3>2. PICK t \in PlainTypes, n \in Node, i \in BOOLEAN :
              (t # "kCall" => i) /\ m = [type |-> t, at |-> n, included |-> i]
      BY <2>2 DEF Speaks
    <3>3. Model!Add(t, n, i)
      BY <1>2, <3>1, <3>2 DEF Model!Add
    <3> QED
      BY <3>2, <3>3 DEF ModelStep, Model!Next
  <2> QED
    BY <2>3, <2>4
<1> QED
  BY <1>3, <1>4

\* A block is begun.
LEMMA BeginningStep ==
    ASSUME of \in Activity, messages \in [Activity -> Seq(Entry)], UNCHANGED of,
           ~final, UNCHANGED final, Continues(walk', walk, 1),
           NEW f, f = walk'[Len(walk) + 1], f.caller \in Activity,
           f.block \in BeginTypes, f.begin = Len(messages[f.caller]) + 1,
           NEW n \in Node,
           messages' = [messages EXCEPT ![f.caller] = Append(@, Msg(f.block, n))]
    PROVE  ModelStep
<1>1. CASE f.caller # of
  <2>1. OpenIn(walk, of)' = OpenIn(walk, of)
    BY <1>1, OpenPasses, LooksAt
  <2>2. messages[of]' = messages[of]
    BY <1>1
  <2> QED
    BY <2>1, <2>2 DEF ModelStep, Model!vars
<1>2. CASE f.caller = of
  <2> DEFINE e == [type |-> f.block, begin |-> f.begin]
  <2>1. f.begin > 0
    <3>1. messages[f.caller] \in Seq(Entry)
      OBVIOUS
    <3> QED
      BY <3>1
  <2>2. OpenIn(walk', of) = Append(OpenIn(walk, of), e)
    BY <1>2, <2>1, OpenPushes
  <2>3. OpenIn(walk, of)' = Append(OpenIn(walk, of), e)
    BY <2>2, LooksAt
  <2>4. messages[of]' = Append(messages[of], Model!Msg(f.block, n))
    BY <1>2, SameHelpers
  <2>5. Model!AddBlock(f.block, n)
    BY <1>2, <2>3, <2>4 DEF Model!AddBlock
  <2> QED
    BY <2>5 DEF ModelStep, Model!Next
<1> QED
  BY <1>1, <1>2

\* A block is ended, or folded.
LEMMA EndingStep ==
    ASSUME of \in Activity, messages \in [Activity -> Seq(Entry)], UNCHANGED of,
           ~final, UNCHANGED final, Continues(walk, walk', 1),
           NEW f, f = walk[Len(walk') + 1], f.caller \in Activity, f.begin > 0,
           f.id \in Node, EndBlock(f)
    PROVE  ModelStep
<1>1. messages' = [messages EXCEPT ![f.caller] =
                      FoldOrEnd(@, f.block, Msg(EndOf(f.block), f.id))]
  BY DEF EndBlock
<1>2. CASE f.caller # of
  <2>1. OpenIn(walk, of)' = OpenIn(walk, of)
    BY <1>2, OpenPasses, LooksAt
  <2>2. messages[of]' = messages[of]
    BY <1>1, <1>2
  <2> QED
    BY <2>1, <2>2 DEF ModelStep, Model!vars
<1>3. CASE f.caller = of
  <2> DEFINE e == [type |-> f.block, begin |-> f.begin]
             o == OpenIn(walk, of)
  <2>1. o # <<>> /\ Last(o) = e /\ Front(o) = OpenIn(walk', of)
    <3>1. walk[Len(walk') + 1].caller = of /\ walk[Len(walk') + 1].begin > 0
      BY <1>3
    <3>2. e = [type |-> walk[Len(walk') + 1].block, begin |-> walk[Len(walk') + 1].begin]
      OBVIOUS
    <3> HIDE DEF e
    <3> QED
      BY <3>1, <3>2, OpenPushes
  <2>2. OpenIn(walk, of)' = Front(o)
    BY <2>1, LooksAt
  <2>3. messages[of]' = FoldOrEnd(messages[of], f.block, Msg(EndOf(f.block), f.id))
    BY <1>1, <1>3
  <2>4. Last(o).type = f.block
    BY <2>1
  <2> HIDE DEF o
  <2>5. messages[of]' = Model!FoldOrEnd(messages[of], Model!Last(o).type,
                            Model!Msg(Model!EndOf(Model!Last(o).type), f.id))
    BY <2>3, <2>4, SameHelpers
  <2>6. OpenIn(walk, of)' = Model!Front(o)
    BY <2>2, SameHelpers
  <2>7. Model!EndBlock(f.id)
    BY <2>1, <2>5, <2>6 DEF Model!EndBlock, o
  <2> QED
    BY <2>7 DEF ModelStep, Model!Next
<1> QED
  BY <1>2, <1>3

\* A label is added to the switch being visited.
LEMMA LabelStep ==
    ASSUME of \in Activity, messages \in [Activity -> Seq(Entry)], UNCHANGED of,
           ~final, UNCHANGED final, Continues(walk', walk, 0),
           NEW k \in DOMAIN walk, walk[k].begin > 0, walk[k].block = "kSwitch",
           walk[k].caller \in Activity, NEW n \in Node,
           messages' = [messages EXCEPT ![walk[k].caller] = AddCaseTo(@, Msg("kCase", n))]
    PROVE  ModelStep
<1>1. OpenIn(walk, of)' = OpenIn(walk, of)
  BY OpenContinues, LooksAt
<1>2. CASE walk[k].caller # of
  <2>1. messages[of]' = messages[of]
    BY <1>2
  <2> QED
    BY <1>1, <2>1 DEF ModelStep, Model!vars
<1>3. CASE walk[k].caller = of
  <2>1. messages[of]' = Model!AddCaseTo(messages[of], Model!Msg("kCase", n))
    BY <1>3, SameHelpers
  <2>2. \E j \in DOMAIN OpenIn(walk, of) : OpenIn(walk, of)[j].type = "kSwitch"
    BY <1>3, OpenHas DEF Continues
  <2>3. Model!AddCase(n)
    BY <1>1, <2>1, <2>2 DEF Model!AddCase
  <2> QED
    BY <2>3 DEF ModelStep, Model!Next
<1> QED
  BY <1>2, <1>3

\* Nothing is open before anything was traversed and after everything was.
LEMMA NothingOpen ==
    ASSUME NEW a
    PROVE  OpenIn(<<>>, a) = <<>>
<1>1. BlocksOf(<<>>, a) = {}
  <2>1. DOMAIN <<>> = {}
    OBVIOUS
  <2> QED
    BY <2>1 DEF BlocksOf
<1>2. Cardinality({}) = 0
  BY FS_EmptySet
<1>3. 1..0 = {}
  OBVIOUS
<1>4. OpenIn(<<>>, a) = [j \in {} |-> [type |-> <<>>[Nth({}, j)].block,
                                       begin |-> <<>>[Nth({}, j)].begin]]
  BY <1>1, <1>2, <1>3 DEF OpenIn
<1> QED
  BY <1>4

\* The diagram is finalized.
LEMMA FinishingStep ==
    ASSUME of \in Activity, UNCHANGED of, Finish
    PROVE  ModelStep
<1>1. /\ ~final /\ walk = <<>> /\ final' = TRUE /\ walk' = walk
      /\ messages' = [a \in Activity |-> Finalized(messages[a])]
  BY DEF Finish
<1>2. messages[of]' = Model!Finalized(messages[of])
  BY <1>1, SameFinalized
<1>3. OpenIn(walk, of) = <<>> /\ OpenIn(walk, of)' = <<>>
  BY <1>1, NothingOpen, LooksAt
<1>4. Model!Finalize
  BY <1>1, <1>2, <1>3 DEF Model!Finalize
<1> QED
  BY <1>4 DEF ModelStep, Model!Next
--------------------------------------------------------------------------------
(***************************************************************************)
(* Every action is a step of SequenceModel                                 *)
(***************************************************************************)
\* The block of a switch takes labels.
SwitchesStand(w) == \A k \in DOMAIN w : w[k].kind = "Switch" => w[k].block = "kSwitch"

\* The numbers of nodes stay within the bound, and only a call is ever dropped.
RoomInv ==
    /\ nodes <= MaxNodes
    /\ SwitchesStand(walk)
    /\ \A p \in seen : /\ p.message.at \in Node
                       /\ p.message.type # "kCall" => p.message.included

LookInv == PlacesInv /\ ElseInv /\ RoomInv /\ of \in Activity

\* What the invariants say of the state.
LEMMA LookHere ==
    ASSUME LookInv, ~final
    PROVE  /\ IsWalk(walk) /\ nodes \in Nat /\ nodes <= MaxNodes
           /\ ContextInv /\ CallersInv /\ TidyInv /\ SwitchesStand(walk)
           /\ messages \in [Activity -> Seq(Entry)] /\ CallerId \in Activity
           /\ of \in Activity
           /\ \A k \in DOMAIN walk : SoundFrame(walk[k]) /\ walk[k].id \in Node
           /\ walk # <<>> => /\ Top = walk[Len(walk)] /\ Len(walk) \in DOMAIN walk
                             /\ IsFrame(Top) /\ SoundFrame(Top) /\ Top.id \in Node
                             /\ Top.kind # "Lambda" => Top.caller = CallerId
<1>1. /\ PlacesInv /\ ElseInv /\ nodes <= MaxNodes /\ SwitchesStand(walk)
      /\ of \in Activity
  BY DEF LookInv, RoomInv
<1>2. /\ IsWalk(walk) /\ nodes \in Nat /\ ContextInv /\ CallersInv /\ TidyInv
      /\ messages \in [Activity -> Seq(Entry)] /\ CallerId \in Activity
      /\ \A k \in DOMAIN walk : SoundFrame(walk[k])
      /\ walk # <<>> => /\ Top = walk[Len(walk)] /\ Len(walk) \in DOMAIN walk
                        /\ IsFrame(Top) /\ SoundFrame(Top)
                        /\ Top.kind # "Lambda" => Top.caller = CallerId
  BY <1>1, ElseHere
<1>3. ASSUME NEW k \in DOMAIN walk PROVE walk[k].id \in Node
  <2>1. walk[k].id \in Nat /\ walk[k].id <= nodes
    BY <1>2 DEF ContextInv, Sound, IsWalk, IsFrame
  <2>2. walk[k].id # 0
    BY <1>1 DEF ElseInv, Shaped
  <2> QED
    BY <1>1, <1>2, <2>1, <2>2, VisitorAssumption DEF Node
<1> QED
  BY <1>1, <1>2, <1>3

\* A walk that extends another one continues it.
LEMMA ExtendsContinues ==
    ASSUME NEW w, NEW v, NEW n, Extends(v, w, n)
    PROVE  Continues(v, w, n)
  BY DEF Extends, Continues, SameRole, SameBlock

\* The switches stay.
LEMMA SwitchesContinue ==
    ASSUME NEW w, NEW v, SwitchesStand(w),
           \/ Continues(v, w, 0) \/ Continues(w, v, 1)
           \/ /\ Continues(v, w, 1)
              /\ v[Len(w) + 1].kind = "Switch" => v[Len(w) + 1].block = "kSwitch"
    PROVE  SwitchesStand(v)
<1>1. CASE Continues(v, w, 0)
  <2>1. DOMAIN v = DOMAIN w /\ \A k \in DOMAIN w : SameBlock(w[k], v[k])
    BY <1>1 DEF Continues
  <2> QED
    BY <2>1 DEF SwitchesStand, SameBlock
<1>2. CASE Continues(w, v, 1)
  <2>1. DOMAIN v \subseteq DOMAIN w /\ \A k \in DOMAIN v : SameBlock(v[k], w[k])
    BY <1>2 DEF Continues
  <2> QED
    BY <2>1 DEF SwitchesStand, SameBlock
<1>3. CASE Continues(v, w, 1) /\ (v[Len(w) + 1].kind = "Switch" => v[Len(w) + 1].block = "kSwitch")
  <2>1. /\ \A k \in DOMAIN v : k \in DOMAIN w \/ k = Len(w) + 1
        /\ \A k \in DOMAIN w : SameBlock(w[k], v[k])
    BY <1>3 DEF Continues
  <2> QED
    BY <1>3, <2>1 DEF SwitchesStand, SameBlock
<1> QED
  BY <1>1, <1>2, <1>3

\* A step that begins and ends no block.
LEMMA Passing ==
    ASSUME LookInv, ~final, UNCHANGED <<of, final>>, Says(messages, messages'),
           \/ Continues(walk', walk, 0)
           \/ /\ Continues(walk', walk, 1) /\ walk'[Len(walk) + 1].begin = 0
              /\ walk'[Len(walk) + 1].kind # "Switch"
           \/ Continues(walk, walk', 1) /\ walk[Len(walk') + 1].begin = 0
    PROVE  ModelStep /\ SwitchesStand(walk')
<1>1. SwitchesStand(walk')
  BY LookHere, SwitchesContinue
<1>2. Passes(walk', walk)
  BY DEF Passes
<1> QED
  BY <1>1, <1>2, LookHere, PassingStep

\* A node is entered.
LEMMA Opening ==
    ASSUME LookInv, ~final, NEW f, Open(f)
    PROVE  Continues(walk', walk, 1) /\ walk'[Len(walk) + 1] = f
<1>1. Extends(Filled, walk, 0)
  BY LookHere, FilledRole
<1>2. walk' = Append(Filled, f)
  BY DEF Open
<1> QED
  BY <1>1, <1>2, AppendRole, ExtendsContinues

\* The innermost node goes on.
LEMMA Editing ==
    ASSUME LookInv, ~final, walk # <<>>, NEW g, SameBlock(Top, g),
           walk' = [walk EXCEPT ![Len(walk)] = g]
    PROVE  Continues(walk', walk, 0)
<1>1. /\ walk \in Seq(Range(walk)) /\ Len(walk) \in 1..Len(walk) /\ Top = walk[Len(walk)]
      /\ Len(walk) \in Nat
  BY LookHere DEF IsWalk
<1>2. /\ walk' \in Seq(Range(walk')) /\ Len(walk') = Len(walk)
      /\ walk'[Len(walk)] = g /\ \A k \in 1..Len(walk) : k # Len(walk) => walk'[k] = walk[k]
  BY <1>1, EditFacts
<1>3. ASSUME NEW k \in 1..Len(walk) PROVE SameBlock(walk[k], walk'[k])
  <2>1. CASE k = Len(walk)
    BY <1>1, <1>2, <2>1
  <2>2. CASE k # Len(walk)
    <3>1. walk'[k] = walk[k]
      BY <1>2, <2>2
    <3> QED
      BY <3>1 DEF SameBlock
  <2> QED
    BY <2>1, <2>2
<1>4. Len(walk') = Len(walk) + 0
  <2>1. Len(walk) \in Nat /\ Len(walk') = Len(walk)
    BY <1>1, <1>2
  <2> QED
    BY ONLY <2>1
<1> QED
  BY <1>1, <1>2, <1>3, <1>4 DEF Continues

\* The innermost node is left.
LEMMA Closing ==
    ASSUME LookInv, ~final, walk # <<>>, Close
    PROVE  Continues(walk, walk', 1) /\ walk[Len(walk') + 1] = Top
  BY LookHere, CloseRole, ExtendsContinues

\* A message of the visitor's own is a plain one.
LEMMA PutSays ==
    ASSUME NEW a \in Activity, NEW t \in PlainTypes, NEW n \in Node
    PROVE  Says(messages, Put(a, Msg(t, n)))
<1>1. Speaks(Msg(t, n))
  BY DEF Speaks, Msg
<1> QED
  BY <1>1 DEF Says, Put

\* The number of a node that can be entered.
LEMMA NextNode ==
    ASSUME LookInv, ~final, nodes < MaxNodes
    PROVE  nodes + 1 \in Node /\ nodes + 1 <= MaxNodes
  BY LookHere, VisitorAssumption DEF Node

\* A statement that begins a block is entered.
LEMMA Beginning ==
    ASSUME LookInv, ~final, UNCHANGED <<of, final>>, nodes < MaxNodes,
           NEW part, NEW t \in BeginTypes,
           NEW kind \in Loops \cup {"Try", "Switch", "Conditional", "If"},
           kind = "Switch" => t = "kSwitch",
           Open(NewBlock(kind, part, t)), messages' = Put(CallerId, Msg(t, nodes + 1))
    PROVE  ModelStep /\ SwitchesStand(walk')
<1> DEFINE f == NewBlock(kind, part, t)
<1>1. /\ f.block = t /\ f.caller = CallerId /\ f.begin = Len(messages[CallerId]) + 1
      /\ CallerId \in Activity /\ messages \in [Activity -> Seq(Entry)]
  BY LookHere, NewBlockRole
<1>2. f.kind = kind
  BY DEF NewBlock, NewFrame
<1> HIDE DEF f
<1>3. Continues(walk', walk, 1) /\ walk'[Len(walk) + 1] = f
  BY Opening DEF f
<1>4. SwitchesStand(walk')
  BY <1>1, <1>2, <1>3, LookHere, SwitchesContinue
<1>5. messages' = [messages EXCEPT ![f.caller] = Append(@, Msg(f.block, nodes + 1))]
  BY <1>1 DEF Put
<1>6. /\ nodes + 1 \in Node /\ of \in Activity /\ f.caller \in Activity
      /\ f.block \in BeginTypes /\ f.begin = Len(messages[f.caller]) + 1
  BY <1>1, LookHere, NextNode
<1>7. ModelStep
  BY <1>1, <1>3, <1>5, <1>6, BeginningStep
<1> QED
  BY <1>4, <1>7

\* A statement that began a block is left.
LEMMA Ending ==
    ASSUME LookInv, ~final, UNCHANGED <<of, final>>, walk # <<>>, Close,
           IsBlock(Top), EndBlock(Top)
    PROVE  ModelStep /\ SwitchesStand(walk')
<1>1. Continues(walk, walk', 1) /\ walk[Len(walk') + 1] = Top
  BY Closing
<1>2. SoundFrame(Top) /\ Top.id \in Node
  BY LookHere
<1>3. Top.begin > 0 /\ Top.caller \in Activity
  BY <1>2 DEF SoundFrame
<1>4. SwitchesStand(walk')
  BY <1>1, LookHere, SwitchesContinue
<1>5. ModelStep
  BY <1>1, <1>2, <1>3, LookHere, EndingStep
<1> QED
  BY <1>4, <1>5

\* An if, or an else-if, is entered.
LEMMA EnterIfLooks ==
    ASSUME LookInv, UNCHANGED of, EnterIf
    PROVE  ModelStep /\ SwitchesStand(walk')
<1>1. ~final /\ UNCHANGED <<of, final>> /\ nodes < MaxNodes
  BY DEF EnterIf, CanOpen
<1>2. nodes + 1 \in Node /\ CallerId \in Activity
  BY <1>1, LookHere, NextNode
<1>3. CASE IsElseIf
  <2> DEFINE f == [NewFrame("If", "cond") EXCEPT !.elseif = TRUE]
  <2>1. Open(f) /\ messages' = Put(CallerId, Msg("kElseIf", nodes + 1))
    BY <1>3 DEF EnterIf
  <2>2. f.begin = 0 /\ f.kind = "If"
    BY DEF NewFrame
  <2> HIDE DEF f
  <2>3. Continues(walk', walk, 1) /\ walk'[Len(walk) + 1] = f
    BY <1>1, <2>1, Opening
  <2>4. "kElseIf" \in PlainTypes
    BY DEF PlainTypes
  <2>5. Says(messages, messages')
    BY <1>2, <2>1, <2>4, PutSays
  <2> QED
    BY <1>1, <2>2, <2>3, <2>5, Passing
<1>4. CASE ~IsElseIf
  <2>1. /\ Open(NewBlock("If", "cond", "kIf"))
        /\ messages' = Put(CallerId, Msg("kIf", nodes + 1))
    BY <1>4 DEF EnterIf
  <2>2. "kIf" \in BeginTypes
    BY DEF BeginTypes
  <2> QED
    BY <1>1, <2>1, <2>2, Beginning
<1> QED
  BY <1>3, <1>4

\* An if constexpr is entered.
LEMMA EnterConstexprIfLooks ==
    ASSUME LookInv, UNCHANGED of, EnterConstexprIf
    PROVE  ModelStep /\ SwitchesStand(walk')
<1> DEFINE f == NewFrame("ConstexprIf", "cond")
<1>1. /\ ~final /\ UNCHANGED <<of, final>> /\ Open(f) /\ messages' = messages
  BY DEF EnterConstexprIf, CanOpen
<1>2. f.begin = 0 /\ f.kind = "ConstexprIf"
  BY DEF NewFrame
<1> HIDE DEF f
<1>3. Continues(walk', walk, 1) /\ walk'[Len(walk) + 1] = f
  BY <1>1, Opening
<1> QED
  BY <1>1, <1>2, <1>3, Passing DEF Says

\* A branch of an if is entered.
LEMMA EnterBranchLooks ==
    ASSUME LookInv, UNCHANGED of, NEW b \in BOOLEAN, EnterThen(b) \/ EnterElse(b)
    PROVE  ModelStep /\ SwitchesStand(walk')
<1>1. ~final /\ UNCHANGED <<of, final>> /\ walk # <<>> /\ Top.kind \in Ifs
  BY DEF EnterThen, EnterElse, IsTop
<1>2. Top = walk[Len(walk)] /\ IsFrame(Top) /\ Top.id \in Node /\ CallerId \in Activity
  BY <1>1, LookHere
<1>3. CASE EnterThen(b)
  <2> DEFINE g == [Top EXCEPT !.part = "then", !.braces = b, !.bare = ~b, !.filled = "no"]
  <2>1. walk' = [walk EXCEPT ![Len(walk)] = g] /\ messages' = messages
    BY <1>2, <1>3 DEF EnterThen
  <2>2. SameBlock(Top, g)
    BY <1>2 DEF SameBlock, IsFrame, FrameFields
  <2> HIDE DEF g
  <2>3. Continues(walk', walk, 0)
    BY <1>1, <2>1, <2>2, Editing
  <2> QED
    BY <1>1, <2>1, <2>3, Passing DEF Says
<1>4. CASE EnterElse(b)
  <2> DEFINE g == [Top EXCEPT !.part = "else", !.braces = b, !.filled = "no",
                              !.split = Len(messages[Top.caller])]
  <2>1. walk' = [walk EXCEPT ![Len(walk)] = g]
    BY <1>2, <1>4 DEF EnterElse
  <2>2. SameBlock(Top, g)
    BY <1>2 DEF SameBlock, IsFrame, FrameFields
  <2> HIDE DEF g
  <2>3. Continues(walk', walk, 0)
    BY <1>1, <2>1, <2>2, Editing
  <2>4. messages' = messages \/ messages' = Put(CallerId, Msg("kElse", Top.id))
    BY <1>4 DEF EnterElse, ElseMessage
  <2>5. "kElse" \in PlainTypes
    BY DEF PlainTypes
  <2>6. Says(messages, messages')
    BY <1>2, <2>4, <2>5, PutSays DEF Says
  <2> QED
    BY <1>1, <2>3, <2>6, Passing
<1> QED
  BY <1>3, <1>4

\* A node that began no block is left.
LEMMA Withdrawing ==
    ASSUME LookInv, ~final, UNCHANGED <<of, final>>, walk # <<>>, Close,
           ~IsBlock(Top), Says(messages, messages')
    PROVE  ModelStep /\ SwitchesStand(walk')
<1>1. Continues(walk, walk', 1) /\ walk[Len(walk') + 1] = Top
  BY Closing
<1>2. Top.begin = 0
  BY LookHere DEF SoundFrame
<1> QED
  BY <1>1, <1>2, Passing

\* An if is left.
LEMMA LeaveIfLooks ==
    ASSUME LookInv, UNCHANGED of, LeaveIf
    PROVE  ModelStep /\ SwitchesStand(walk')
<1>1. ~final /\ UNCHANGED <<of, final>> /\ walk # <<>> /\ Top.kind \in Ifs /\ Close
  BY DEF LeaveIf, IsTop
<1>2. CASE Top.kind = "If" /\ ~Top.elseif
  <2>1. EndBlock(Top) /\ IsBlock(Top)
    BY <1>2 DEF LeaveIf, IsBlock
  <2> QED
    BY <1>1, <2>1, Ending
<1>3. CASE ~(Top.kind = "If" /\ ~Top.elseif)
  <2>1. messages' = messages
    BY <1>3 DEF LeaveIf
  <2>2. ~IsBlock(Top)
    BY <1>1, <1>3 DEF IsBlock, Ifs, Loops
  <2> QED
    BY <1>1, <2>1, <2>2, Withdrawing DEF Says
<1> QED
  BY <1>2, <1>3

\* A loop, a try, a switch or a conditional is entered ...
LEMMA OpenBlockLooks ==
    ASSUME LookInv, UNCHANGED of, NEW part,
           NEW kind \in Loops \cup {"Try", "Switch", "Conditional"},
           OpenBlock(kind, part)
    PROVE  ModelStep /\ SwitchesStand(walk')
<1>1. /\ ~final /\ UNCHANGED <<of, final>> /\ nodes < MaxNodes
      /\ Open(NewBlock(kind, part, TypeOf(kind)))
      /\ messages' = Put(CallerId, Msg(TypeOf(kind), nodes + 1))
  BY DEF OpenBlock, CanOpen
<1>2. TypeOf(kind) \in BeginTypes /\ (kind = "Switch" => TypeOf(kind) = "kSwitch")
  BY DEF TypeOf, BeginTypes, Loops
<1> QED
  BY <1>1, <1>2, Beginning

\* ... and left.
LEMMA LeaveBlockLooks ==
    ASSUME LookInv, UNCHANGED of, LeaveLoop \/ LeaveConditional \/ LeaveTry \/ LeaveSwitch
    PROVE  ModelStep /\ SwitchesStand(walk')
<1>1. /\ ~final /\ UNCHANGED <<of, final>> /\ walk # <<>>
      /\ Top.kind \in Loops \cup {"Try", "Switch", "Conditional"}
      /\ Close /\ EndBlock(Top)
  BY DEF LeaveLoop, LeaveConditional, LeaveTry, LeaveSwitch, IsTop, CloseBlock
<1>2. IsBlock(Top)
  BY <1>1 DEF IsBlock
<1> QED
  BY <1>1, <1>2, Ending

\* A handler, or the else of a conditional, is entered.
LEMMA NextPartLooks ==
    ASSUME LookInv, UNCHANGED of, EnterCatch \/ EnterConditionalElse
    PROVE  ModelStep /\ SwitchesStand(walk')
<1>1. /\ ~final /\ UNCHANGED <<of, final>> /\ walk # <<>>
      /\ Top.kind \in {"Try", "Conditional"}
  BY DEF EnterCatch, EnterConditionalElse, IsTop
<1>2. /\ Top = walk[Len(walk)] /\ IsFrame(Top) /\ Top.id \in Node /\ CallerId \in Activity
      /\ Top.caller = CallerId
  BY <1>1, LookHere
<1>3. PICK part : walk' = [walk EXCEPT ![Len(walk)] = [Top EXCEPT !.part = part]]
  <2>1. CASE EnterCatch
    <3>1. walk' = [walk EXCEPT ![Len(walk)] = [Top EXCEPT !.part = "handler"]]
      BY <1>2, <2>1 DEF EnterCatch
    <3> QED
      BY <3>1
  <2>2. CASE EnterConditionalElse
    <3>1. walk' = [walk EXCEPT ![Len(walk)] = [Top EXCEPT !.part = "else"]]
      BY <1>2, <2>2 DEF EnterConditionalElse
    <3> QED
      BY <3>1
  <2> QED
    BY <2>1, <2>2
<1>4. SameBlock(Top, [Top EXCEPT !.part = part])
  BY <1>2 DEF SameBlock, IsFrame, FrameFields
<1>5. Continues(walk', walk, 0)
  BY <1>1, <1>3, <1>4, Editing
<1>6. Says(messages, messages')
  <2>1. {"kCatch", "kConditionalElse"} \subseteq PlainTypes
    BY DEF PlainTypes
  <2>2. CASE EnterCatch
    <3>1. nodes + 1 \in Node
      BY <1>1, <2>2, NextNode DEF EnterCatch
    <3>2. Says(messages, Put(CallerId, Msg("kCatch", nodes + 1)))
      BY <1>2, <2>1, <3>1, PutSays
    <3>3. messages' = messages \/ messages' = Put(CallerId, Msg("kCatch", nodes + 1))
      BY <2>2 DEF EnterCatch
    <3>4. CASE messages' = messages
      BY <3>4 DEF Says
    <3>5. CASE messages' = Put(CallerId, Msg("kCatch", nodes + 1))
      BY <3>2, <3>5
    <3> QED
      BY <3>3, <3>4, <3>5
  <2>3. CASE EnterConditionalElse
    BY <1>2, <2>1, <2>3, PutSays DEF EnterConditionalElse
  <2> QED
    BY <2>2, <2>3
<1> QED
  BY <1>1, <1>5, <1>6, Passing

\* A label of a switch is met.
LEMMA EnterCaseLooks ==
    ASSUME LookInv, UNCHANGED of, EnterCase
    PROVE  ModelStep /\ SwitchesStand(walk')
<1>1. /\ ~final /\ UNCHANGED <<of, final>> /\ walk # <<>> /\ Top.kind = "Switch"
      /\ nodes < MaxNodes
  BY DEF EnterCase, IsTop
<1>2. /\ Top = walk[Len(walk)] /\ Len(walk) \in DOMAIN walk /\ IsFrame(Top)
      /\ SoundFrame(Top) /\ Top.caller = CallerId /\ CallerId \in Activity
      /\ SwitchesStand(walk) /\ messages \in [Activity -> Seq(Entry)] /\ of \in Activity
  BY <1>1, LookHere
<1>3. walk' = [walk EXCEPT ![Len(walk)] = [Top EXCEPT !.part = "arm"]]
  BY <1>2 DEF EnterCase
<1>4. SameBlock(Top, [Top EXCEPT !.part = "arm"])
  BY <1>2 DEF SameBlock, IsFrame, FrameFields
<1>5. Continues(walk', walk, 0)
  BY <1>1, <1>3, <1>4, Editing
<1>6. Top.begin > 0 /\ Top.block = "kSwitch"
  BY <1>1, <1>2 DEF SoundFrame, IsBlock, SwitchesStand
<1>7. CASE messages' = messages
  BY <1>1, <1>5, <1>7, Passing DEF Says
<1>8. CASE messages' # messages
  <2>1. messages' = [messages EXCEPT ![CallerId] = AddCaseTo(@, Msg("kCase", nodes + 1))]
    BY <1>8 DEF EnterCase
  <2>2. nodes + 1 \in Node
    BY <1>1, NextNode
  <2>3. SwitchesStand(walk')
    BY <1>2, <1>5, SwitchesContinue
  <2>4. ModelStep
    BY <1>1, <1>2, <1>5, <1>6, <2>1, <2>2, LabelStep
  <2> QED
    BY <2>3, <2>4
<1> QED
  BY <1>7, <1>8

\* A call or the like is entered.
LEMMA EnterMessengerLooks ==
    ASSUME LookInv, UNCHANGED of, NEW kind \in Messengers, NEW r \in BOOLEAN,
           NEW i \in BOOLEAN, EnterMessenger(kind, r, i)
    PROVE  ModelStep /\ SwitchesStand(walk')
<1>1. ~final /\ UNCHANGED <<of, final>> /\ messages' = messages
  BY DEF EnterMessenger, CanOpen
<1>2. PICK f : Open(f) /\ f.begin = 0 /\ f.kind = kind
  <2> DEFINE g == NewFrame(kind, "body")
             p == Pending(TypeOf(kind), i)
             f == [g EXCEPT !.pending = <<p>>]
  <2>1. g.begin = 0 /\ g.kind = kind /\ f.begin = 0 /\ f.kind = kind
    BY DEF NewFrame
  <2>2. Open(f) \/ Open(g)
    BY DEF EnterMessenger
  <2> HIDE DEF f, g
  <2> QED
    BY <2>1, <2>2
<1>3. Continues(walk', walk, 1) /\ walk'[Len(walk) + 1] = f
  BY <1>1, <1>2, Opening
<1>4. f.kind # "Switch"
  BY <1>2 DEF Messengers
<1> QED
  BY <1>1, <1>2, <1>3, <1>4, Passing DEF Says

\* A call or the like is left.
LEMMA LeaveMessengerLooks ==
    ASSUME LookInv, UNCHANGED of, LeaveMessenger
    PROVE  ModelStep /\ SwitchesStand(walk')
<1>1. /\ ~final /\ UNCHANGED <<of, final>> /\ walk # <<>> /\ Top.kind \in Messengers
      /\ messages' = messages
  BY DEF LeaveMessenger, IsTop
<1>2. Top = walk[Len(walk)] /\ IsFrame(Top)
  BY <1>1, LookHere
<1>3. CASE Top.pending = <<>>
  <2>1. Close /\ ~IsBlock(Top)
    BY <1>1, <1>3 DEF LeaveMessenger, IsBlock, Messengers, Loops
  <2> QED
    BY <1>1, <2>1, Withdrawing DEF Says
<1>4. CASE Top.pending # <<>>
  <2>1. walk' = [walk EXCEPT ![Len(walk)] = [Top EXCEPT !.part = "leaving"]]
    BY <1>2, <1>4 DEF LeaveMessenger
  <2>2. SameBlock(Top, [Top EXCEPT !.part = "leaving"])
    BY <1>2 DEF SameBlock, IsFrame, FrameFields
  <2>3. Continues(walk', walk, 0)
    BY <1>1, <2>1, <2>2, Editing
  <2> QED
    BY <1>1, <2>3, Passing DEF Says
<1> QED
  BY <1>3, <1>4

\* A message is taken from an expression that was left.
LEMMA PopMessageLooks ==
    ASSUME LookInv, UNCHANGED of, PopMessage
    PROVE  ModelStep /\ SwitchesStand(walk')
<1> DEFINE p == Head(Top.pending)
<1>1. /\ ~final /\ UNCHANGED <<of, final>> /\ walk # <<>> /\ Top.kind \in Messengers
      /\ Top.part = "leaving" /\ messages' = Put(p.from, p.message)
  BY DEF PopMessage, IsTop
<1>2. /\ Top = walk[Len(walk)] /\ Len(walk) \in DOMAIN walk /\ IsFrame(Top)
      /\ SoundFrame(Top) /\ TidyInv
  BY <1>1, LookHere
<1>3. Says(messages, messages')
  <2>1. Top.pending # <<>>
    BY <1>1, <1>2 DEF LookInv, PlacesInv, Waiting, StillWaits
  <2>2. p \in Range(Top.pending)
    <3> DEFINE q == Top.pending
    <3>1. q \in Seq(Range(q)) /\ q # <<>>
      BY <1>2, <2>1 DEF SoundFrame
    <3> HIDE DEF q
    <3>2. Head(q) \in Range(q)
      BY <3>1
    <3> QED
      BY <3>2 DEF q
  <2>3. p \in seen
    BY <1>2, <2>2 DEF TidyInv, Tidy, Placed
  <2>4. /\ p \in [from : Activity, message : Entry] /\ p.message.type \in Waited
        /\ p.message.at \in Node /\ (p.message.type # "kCall" => p.message.included)
    BY <1>2, <2>3 DEF TidyInv, Tidy, Pushed, LookInv, RoomInv
  <2> HIDE DEF p
  <2>5. /\ p.from \in Activity /\ p.message.type \in PlainTypes
        /\ p.message.included \in BOOLEAN
        /\ p.message = [type |-> p.message.type, at |-> p.message.at,
                        included |-> p.message.included]
    BY <2>4 DEF Entry, Waited, PlainTypes
  <2>6. Speaks(p.message)
    BY <2>4, <2>5 DEF Speaks
  <2> QED
    BY <1>1, <2>5, <2>6 DEF Says, Put
<1>4. CASE Len(Top.pending) = 1
  <2>1. Close /\ ~IsBlock(Top)
    BY <1>1, <1>4 DEF PopMessage, IsBlock, Messengers, Loops
  <2> QED
    BY <1>1, <1>3, <2>1, Withdrawing
<1>5. CASE Len(Top.pending) # 1
  <2>1. walk' = [walk EXCEPT ![Len(walk)] = [Top EXCEPT !.pending = Tail(@)]]
    BY <1>2, <1>5 DEF PopMessage
  <2>2. SameBlock(Top, [Top EXCEPT !.pending = Tail(@)])
    BY <1>2 DEF SameBlock, IsFrame, FrameFields
  <2>3. Continues(walk', walk, 0)
    BY <1>1, <2>1, <2>2, Editing
  <2> QED
    BY <1>1, <1>3, <2>3, Passing
<1> QED
  BY <1>4, <1>5

\* A lambda is entered, whether or not a call takes a message to it ...
LEMMA EnterLambdaLooks ==
    ASSUME LookInv, UNCHANGED of, NEW i \in BOOLEAN, NEW b \in BOOLEAN, EnterLambda(i, b)
    PROVE  ModelStep /\ SwitchesStand(walk')
<1> DEFINE f == NewFrame("Lambda", "body")
           p == Pending("kCall", TRUE)
           call == IF ctx.calls = <<>> THEN 0 ELSE FrameOf(Last(ctx.calls))
           q == Append(Filled[call].pending, p)
           u == [Filled EXCEPT ![call].pending = q]
<1>1. ~final /\ UNCHANGED <<of, final>> /\ messages' = messages
  BY DEF EnterLambda, CanOpen
<1>2. f.begin = 0 /\ f.kind = "Lambda"
  BY DEF NewFrame
<1>3. IsWalk(walk) /\ ContextInv
  BY <1>1, LookHere
<1>4. Extends(Filled, walk, 0) /\ IsWalk(Filled)
  BY <1>3, FilledRole, FilledAlike, AlikeStanding
<1>5. Continues(walk', walk, 1) /\ walk'[Len(walk) + 1] = f
  <2>1. CASE walk' = Append(Filled, f)
    <3> HIDE DEF f
    <3> QED
      BY <1>4, <2>1, AppendRole, ExtendsContinues
  <2>2. CASE call # 0 /\ walk' = Append(u, f)
    <3>1. call \in DOMAIN walk
      BY <1>3, <2>2, FrameOfCall
    <3> HIDE DEF f, call, q
    <3>2. call \in 1..Len(Filled) /\ Len(Filled) = Len(walk) /\ Len(walk) \in Nat
      BY <1>3, <1>4, <3>1 DEF Extends, IsWalk
    <3>3. Requeued(u, Filled, call, q)
      BY <1>4, <3>2, EditRequeued
    <3> HIDE DEF u
    <3>4. Extends(u, u, 0)
      <4>1. u \in Seq(Range(u)) /\ Len(u) \in Nat
        BY <3>3 DEF Requeued
      <4> QED
        BY <4>1 DEF Extends, SameRole
    <3>5. Extends(walk', u, 1) /\ walk'[Len(u) + 1] = f
      BY <2>2, <3>4, AppendRole
    <3>6. Len(u) = Len(walk) /\ \A k \in 1..Len(walk) : SameBlock(walk[k], u[k])
      BY <1>4, <3>2, <3>3 DEF Requeued, Extends, SameRole, SameBlock
    <3>7. \A k \in 1..Len(walk) : SameBlock(walk[k], walk'[k])
      BY <3>5, <3>6 DEF Extends, SameRole, SameBlock
    <3> QED
      BY <1>3, <3>5, <3>6, <3>7 DEF Continues, Extends, IsWalk
  <2> QED
    BY <2>1, <2>2 DEF EnterLambda
<1> HIDE DEF f
<1> QED
  BY <1>1, <1>2, <1>5, Passing DEF Says

\* ... and left.
LEMMA LeaveLambdaLooks ==
    ASSUME LookInv, UNCHANGED of, LeaveLambda
    PROVE  ModelStep /\ SwitchesStand(walk')
<1>1. /\ ~final /\ UNCHANGED <<of, final>> /\ walk # <<>> /\ Top.kind = "Lambda"
      /\ Close /\ messages' = messages
  BY DEF LeaveLambda, IsTop
<1>2. ~IsBlock(Top)
  BY <1>1 DEF IsBlock, Loops
<1> QED
  BY <1>1, <1>2, Withdrawing DEF Says

\* Every step.
LEMMA EveryStepLooks ==
    ASSUME LookInv, LookNext
    PROVE  ModelStep /\ SwitchesStand(walk')
<1>1. UNCHANGED of /\ Next
  BY DEF LookNext
<1>2. CASE EnterIf
  BY <1>1, <1>2, EnterIfLooks
<1>3. CASE EnterConstexprIf
  BY <1>1, <1>3, EnterConstexprIfLooks
<1>4. CASE LeaveIf
  BY <1>1, <1>4, LeaveIfLooks
<1>5. CASE \E b \in BOOLEAN : EnterThen(b) \/ EnterElse(b)
  BY <1>1, <1>5, EnterBranchLooks
<1>6. CASE (\E kind \in Loops : EnterLoop(kind)) \/ EnterTry \/ EnterSwitch \/ EnterConditional
  <2>1. ASSUME NEW kind \in Loops, EnterLoop(kind)
        PROVE  ModelStep /\ SwitchesStand(walk')
    BY <1>1, <2>1, OpenBlockLooks DEF EnterLoop
  <2>2. CASE EnterTry
    BY <1>1, <2>2, OpenBlockLooks DEF EnterTry
  <2>3. CASE EnterSwitch
    BY <1>1, <2>3, OpenBlockLooks DEF EnterSwitch
  <2>4. CASE EnterConditional
    BY <1>1, <2>4, OpenBlockLooks DEF EnterConditional
  <2> QED
    BY <1>6, <2>1, <2>2, <2>3, <2>4
<1>7. CASE LeaveLoop \/ LeaveConditional \/ LeaveTry \/ LeaveSwitch
  BY <1>1, <1>7, LeaveBlockLooks
<1>8. CASE EnterCatch \/ EnterConditionalElse
  BY <1>1, <1>8, NextPartLooks
<1>9. CASE EnterCase
  BY <1>1, <1>9, EnterCaseLooks
<1>10. CASE \E kind \in Messengers, r, i \in BOOLEAN : EnterMessenger(kind, r, i)
  BY <1>1, <1>10, EnterMessengerLooks
<1>11. CASE LeaveMessenger
  BY <1>1, <1>11, LeaveMessengerLooks
<1>12. CASE PopMessage
  BY <1>1, <1>12, PopMessageLooks
<1>13. CASE \E i, p \in BOOLEAN : EnterLambda(i, p)
  BY <1>1, <1>13, EnterLambdaLooks
<1>14. CASE LeaveLambda
  BY <1>1, <1>14, LeaveLambdaLooks
<1>15. CASE Finish
  <2>1. walk' = walk
    BY <1>15 DEF Finish
  <2>2. SwitchesStand(walk')
    BY <2>1 DEF LookInv, RoomInv
  <2> QED
    BY <1>1, <1>15, <2>2, FinishingStep DEF LookInv
<1> QED
  BY <1>1, <1>2, <1>3, <1>4, <1>5, <1>6, <1>7, <1>8, <1>9, <1>10, <1>11, <1>12, <1>13,
     <1>14, <1>15 DEF Next

\* Before a node is entered there is room for it; a message that is pushed for it
\* carries its number.
LEMMA RoomNext ==
    ASSUME LookInv, LookNext
    PROVE  RoomInv'
<1> DEFINE Numbered == /\ nodes' <= MaxNodes
                       /\ \A p \in seen' : /\ p.message.at \in Node
                                           /\ p.message.type # "kCall" => p.message.included
<1>1. SwitchesStand(walk')
  BY EveryStepLooks
<1>2. Next /\ nodes <= MaxNodes /\ nodes \in Nat
  BY DEF LookNext, LookInv, RoomInv, PlacesInv, ContextInv, Sound
<1>3. ASSUME seen' = seen, nodes' = nodes PROVE Numbered
  BY <1>3 DEF LookInv, RoomInv
<1>4. ASSUME nodes < MaxNodes, nodes' = nodes + 1, seen' = seen PROVE Numbered
  BY <1>2, <1>4, VisitorAssumption DEF LookInv, RoomInv
<1>5. ASSUME nodes < MaxNodes, nodes' = nodes + 1, NEW t, NEW i,
             t # "kCall" => i, seen' = seen \cup {Pending(t, i)}
      PROVE  Numbered
  <2>1. /\ Pending(t, i).message.at = nodes + 1 /\ Pending(t, i).message.type = t
        /\ Pending(t, i).message.included = i
    BY DEF Pending
  <2>2. nodes + 1 \in Node /\ nodes' <= MaxNodes
    BY <1>2, <1>5, VisitorAssumption DEF Node
  <2>3. ASSUME NEW p \in seen'
        PROVE  p.message.at \in Node /\ (p.message.type # "kCall" => p.message.included)
    <3>1. CASE p \in seen
      BY <3>1 DEF LookInv, RoomInv
    <3>2. CASE p = Pending(t, i)
      BY <1>5, <2>1, <2>2, <3>2
    <3> QED
      BY <1>5, <3>1, <3>2
  <2> QED
    BY <2>2, <2>3
<1> HIDE DEF Numbered
<1>6. ASSUME \/ LeaveIf \/ LeaveLoop \/ LeaveTry \/ LeaveSwitch \/ EnterConditionalElse
             \/ LeaveConditional \/ LeaveMessenger \/ PopMessage \/ LeaveLambda \/ Finish
             \/ \E b \in BOOLEAN : EnterThen(b) \/ EnterElse(b)
      PROVE  Numbered
  <2>1. seen' = seen /\ nodes' = nodes
    BY <1>6 DEF LeaveIf, LeaveLoop, LeaveTry, LeaveSwitch, EnterConditionalElse,
         LeaveConditional, LeaveMessenger, PopMessage, LeaveLambda, Finish, EnterThen,
         EnterElse, CloseBlock
  <2> QED
    BY <1>3, <2>1
<1>7. ASSUME EnterIf \/ EnterConstexprIf \/ EnterCatch \/ EnterCase
      PROVE  Numbered
  <2>1. nodes < MaxNodes /\ nodes' = nodes + 1 /\ seen' = seen
    BY <1>7 DEF EnterIf, EnterConstexprIf, EnterCatch, EnterCase, CanOpen, Open
  <2> QED
    BY <1>4, <2>1
<1>8. ASSUME \/ \E kind \in Loops : EnterLoop(kind)
             \/ EnterTry \/ EnterSwitch \/ EnterConditional
      PROVE  Numbered
  <2>1. nodes < MaxNodes /\ nodes' = nodes + 1 /\ seen' = seen
    BY <1>8 DEF EnterLoop, EnterTry, EnterSwitch, EnterConditional, OpenBlock, CanOpen, Open
  <2> QED
    BY <1>4, <2>1
<1>9. ASSUME NEW kind \in Messengers, NEW r \in BOOLEAN, NEW i \in BOOLEAN,
             EnterMessenger(kind, r, i)
      PROVE  Numbered
  <2>1. nodes < MaxNodes /\ nodes' = nodes + 1
    BY <1>9 DEF EnterMessenger, CanOpen, Open
  <2>2. seen' = seen \/ seen' = seen \cup {Pending(TypeOf(kind), i)}
    BY <1>9 DEF EnterMessenger, Keep
  <2>3. TypeOf(kind) # "kCall" => i
    <3>1. CASE kind = "Call"
      BY <3>1 DEF TypeOf
    <3>2. CASE kind # "Call"
      BY <1>9, <3>2 DEF EnterMessenger
    <3> QED
      BY <3>1, <3>2
  <2> QED
    BY <1>4, <1>5, <2>1, <2>2, <2>3
<1>10. ASSUME NEW i \in BOOLEAN, NEW b \in BOOLEAN, EnterLambda(i, b)
       PROVE  Numbered
  <2>1. nodes < MaxNodes /\ nodes' = nodes + 1
    BY <1>10 DEF EnterLambda, CanOpen
  <2>2. seen' = seen \/ seen' = seen \cup {Pending("kCall", TRUE)}
    BY <1>10 DEF EnterLambda, Keep
  <2> QED
    BY <1>4, <1>5, <2>1, <2>2
<1>11. Numbered
  BY <1>2, <1>6, <1>7, <1>8, <1>9, <1>10 DEF Next
<1> QED
  BY <1>1, <1>11 DEF RoomInv, SwitchesStand, Numbered

\* The invariant of the activity that is looked at.
LEMMA LookInvInit ==
    ASSUME LookInit
    PROVE  LookInv /\ Model!Init
<1>1. PlacesInv /\ ElseInv /\ of \in Activity
  BY PlacesInvInit, ElseInvInit DEF LookInit
<1>2. /\ walk = <<>> /\ nodes = 0 /\ seen = {} /\ final = FALSE
      /\ messages = [a \in Activity |-> <<>>]
  BY DEF LookInit, Init
<1>3. RoomInv
  <2>1. DOMAIN <<>> = {}
    OBVIOUS
  <2> QED
    BY <1>2, <2>1, VisitorAssumption DEF RoomInv, SwitchesStand
<1>4. Model!Init
  BY <1>1, <1>2, NothingOpen DEF Model!Init
<1> QED
  BY <1>1, <1>3, <1>4 DEF LookInv

LEMMA LookInvNext ==
    ASSUME LookInv, [LookNext]_<<vars, of>>
    PROVE  LookInv' /\ ModelStep
<1>1. CASE LookNext
  <2>1. PlacesInv' /\ ElseInv'
    BY <1>1, PlacesInvNext, ElseInvNext DEF LookInv, LookNext
  <2>2. RoomInv' /\ ModelStep
    BY <1>1, EveryStepLooks, RoomNext
  <2>3. (of \in Activity)'
    BY <1>1 DEF LookNext, LookInv, Activity
  <2> QED
    BY <2>1, <2>2, <2>3 DEF LookInv
<1>2. CASE UNCHANGED <<vars, of>>
  <2>1. PlacesInv' /\ ElseInv'
    BY <1>2, PlacesInvNext, ElseInvNext DEF LookInv
  <2>2. /\ walk' = walk /\ nodes' = nodes /\ seen' = seen /\ messages' = messages
        /\ final' = final /\ of' = of
    BY <1>2 DEF vars
  <2>3. RoomInv' /\ (of \in Activity)'
    BY <2>2 DEF LookInv, RoomInv, SwitchesStand, Node, Activity
  <2>4. messages[of]' = messages[of] /\ OpenIn(walk, of)' = OpenIn(walk, of)
    BY <2>2, LooksAt
  <2> QED
    BY <2>1, <2>2, <2>3, <2>4 DEF LookInv, ModelStep, Model!vars
<1> QED
  BY <1>1, <1>2

\* Whatever the syntax tree, and whichever activity is looked at, what the visitor
\* does to it is what SequenceModel says a visitor may do: it ends the innermost
\* block that it began there, puts labels into switches only, drops no message but
\* a call, and finalizes once no block is open. So what SequenceModel_proofs shows
\* of one activity holds of those that the visitor fills.
THEOREM VisitorImplementsModel == LookSpec => ImplementsSequenceModel
<1>1. LookInit => LookInv /\ Model!Init
  BY LookInvInit
<1>2. LookInv /\ [LookNext]_<<vars, of>> => LookInv' /\ ModelStep
  BY LookInvNext
<1>3. LookInv /\ [LookNext]_<<vars, of>> => LookInv' /\ (UNCHANGED Model!vars \/ Model!Next)
  BY <1>2 DEF ModelStep
<1> QED
  BY <1>1, <1>3, PTL DEF LookSpec, ImplementsSequenceModel

\* The same, as the specification of SequenceModel.
THEOREM ActivitiesAreModels == LookSpec => Model!Spec
<1>1. LookInit => LookInv /\ Model!Init
  BY LookInvInit
<1>2. LookInv /\ [LookNext]_<<vars, of>> => LookInv' /\ [Model!Next]_(Model!vars)
  BY LookInvNext DEF ModelStep
<1> QED
  BY <1>1, <1>2, PTL DEF LookSpec, Model!Spec
================================================================================
