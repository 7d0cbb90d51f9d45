----------------------- MODULE SequenceGenerator_proofs -----------------------
(***************************************************************************)
(* For any functions, calling one another in any way, and with or without  *)
(* folding: generate_activity() never draws an activity inside itself, and *)
(* the receiver of a return is the function that is being drawn below.     *)
(*                                                                         *)
(* Both rest on one invariant, VisitedIsPath: although visited is pushed   *)
(* and popped around each call, and holds the callers only, it lists       *)
(* exactly the functions below the innermost one. So the test before a     *)
(* call, which looks the callee up in visited with the caller pushed,      *)
(* compares it with every function being drawn.                            *)
(*                                                                         *)
(* Nothing is lost because of what the generator knows at any moment       *)
(* (History): each message of a function that was begun is covered or is   *)
(* still ahead in an activity being drawn, the callee of a drawn call was  *)
(* begun, and a static message that hides its equals was drawn. At the end *)
(* nothing is ahead, so the functions that were begun are closed under     *)
(* calls.                                                                  *)
(*                                                                         *)
(* The text is nested because each step adds or removes what is on top of  *)
(* a tower, one entry and its groups for each activity being drawn         *)
(* (Stacked). Nesting is a recursive function, and that it equals any such *)
(* tower is shown by induction: there is no least frame where the two      *)
(* differ.                                                                 *)
(***************************************************************************)
EXTENDS SequenceGenerator, SequenceTheorems, FiniteSetTheorems, WellFoundedInduction,
        TLAPS

FrameType == [fn : Participant, at : Nat \ {0}]

LEMMA PushFacts ==
    ASSUME NEW S, NEW s \in Seq(S), NEW e \in S
    PROVE  /\ Append(s, e) \in Seq(S)
           /\ Len(Append(s, e)) = Len(s) + 1
           /\ \A i \in 1..Len(s) : Append(s, e)[i] = s[i]
           /\ Append(s, e)[Len(s) + 1] = e
  OBVIOUS

\* What the constants and the types say of the innermost activity.
LEMMA TopFacts ==
    ASSUME TypeOK, frames # <<>>
    PROVE  /\ frames \in Seq(FrameType) /\ Len(frames) \in Nat \ {0}
           /\ DOMAIN frames = 1..Len(frames)
           /\ Top \in FrameType /\ Top.fn \in Participant /\ Top.at \in Nat \ {0}
           /\ Body \in Seq(Message) /\ Len(Body) \in Nat
<1>1. frames \in Seq(FrameType)
  BY DEF TypeOK, FrameType
<1>2. Len(frames) \in Nat \ {0} /\ DOMAIN frames = 1..Len(frames)
  BY <1>1
<1>3. Top \in FrameType
  BY <1>1, <1>2 DEF Top
<1>4. Top.fn \in Participant /\ Top.at \in Nat \ {0}
  BY <1>3 DEF FrameType
<1>5. Body \in Seq(Message)
  BY <1>4, GeneratorAssumption DEF TypeOK, Body
<1> QED
  BY <1>1, <1>2, <1>3, <1>4, <1>5

LEMMA HereFacts ==
    ASSUME TypeOK, Reading
    PROVE  Here \in Message
  BY TopFacts DEF Reading, Here

\* The calls of generate_activity() after one message was dealt with.
LEMMA AdvanceFacts ==
    ASSUME TypeOK, Reading
    PROVE  /\ Advance \in Seq(FrameType) /\ Len(Advance) = Len(frames)
           /\ \A k \in 1..Len(frames) :
                 /\ Advance[k].fn = frames[k].fn
                 /\ Advance[k].at <= Len(activity[frames[k].fn]) + 1
<1>1. frames # <<>>
  BY DEF Reading
<1>2. /\ frames \in Seq(FrameType) /\ Len(frames) \in Nat \ {0}
      /\ DOMAIN frames = 1..Len(frames)
      /\ Top \in FrameType /\ Top.at \in Nat \ {0} /\ Len(Body) \in Nat
  BY <1>1, TopFacts
<1> DEFINE next == [Top EXCEPT !.at = @ + 1]
<1>3. next \in FrameType /\ next.fn = Top.fn /\ next.at = Top.at + 1
  BY <1>2 DEF FrameType
<1>4. Advance = [frames EXCEPT ![Len(frames)] = next]
  BY DEF Advance, Top
<1>5. Advance \in Seq(FrameType) /\ Len(Advance) = Len(frames)
  BY <1>2, <1>3, <1>4
<1>6. \A k \in 1..Len(frames) :
         Advance[k] = IF k = Len(frames) THEN next ELSE frames[k]
  BY <1>2, <1>4
<1>7. next.at <= Len(activity[Top.fn]) + 1
  BY <1>2, <1>3 DEF Reading, Body
<1>8. \A k \in DOMAIN frames : frames[k].at <= Len(activity[frames[k].fn]) + 1
  BY DEF TypeOK
<1> QED
  BY <1>2, <1>3, <1>5, <1>6, <1>7, <1>8 DEF Top
--------------------------------------------------------------------------------
\* The part of the invariant that is about the recursion.
Path ==
    /\ frames \in Seq([fn : Participant, at : Nat \ {0}])
    /\ \A k \in DOMAIN frames : frames[k].at <= Len(activity[frames[k].fn]) + 1
    /\ visited \in Seq(Participant)
    /\ VisitedIsPath
    /\ NoActivityInItself

\* What VisitedIsPath says while some activity is being drawn.
LEMMA PathFacts ==
    ASSUME TypeOK, VisitedIsPath, frames # <<>>
    PROVE  /\ visited \in Seq(Participant) /\ Len(visited) = Len(frames) - 1
           /\ DOMAIN visited = 1..(Len(frames) - 1)
           /\ \A k \in 1..(Len(frames) - 1) : visited[k] = frames[k].fn
<1>1. visited \in Seq(Participant)
  BY DEF TypeOK
<1>2. Len(visited) = Len(frames) - 1 /\ \A k \in DOMAIN visited : visited[k] = frames[k].fn
  BY DEF VisitedIsPath
<1>3. DOMAIN visited = 1..(Len(frames) - 1)
  BY <1>1, <1>2
<1> QED
  BY <1>1, <1>2, <1>3

\* A message that calls nothing, or whose callee is not drawn again.
LEMMA Advancing ==
    ASSUME IInv, Reading, frames' = Advance, UNCHANGED <<activity, visited>>
    PROVE  Path'
<1>1. TypeOK /\ VisitedIsPath /\ NoActivityInItself
  BY DEF IInv
<1>2. frames # <<>> /\ Len(frames) \in Nat \ {0} /\ DOMAIN frames = 1..Len(frames)
  BY <1>1, TopFacts DEF Reading
<1>3. /\ frames' \in Seq(FrameType) /\ Len(frames') = Len(frames)
      /\ DOMAIN frames' = DOMAIN frames /\ frames' # <<>>
      /\ \A k \in DOMAIN frames :
            /\ frames'[k].fn = frames[k].fn
            /\ frames'[k].at <= Len(activity[frames[k].fn]) + 1
  BY <1>1, <1>2, AdvanceFacts
<1>4. /\ Len(visited) = Len(frames) - 1
      /\ DOMAIN visited = 1..(Len(frames) - 1)
      /\ \A k \in DOMAIN visited : visited[k] = frames[k].fn
  BY <1>1, <1>2, PathFacts
<1>5. VisitedIsPath'
  BY <1>2, <1>3, <1>4 DEF VisitedIsPath
<1>6. NoActivityInItself'
  BY <1>1, <1>3 DEF NoActivityInItself
<1> QED
  BY <1>1, <1>3, <1>5, <1>6 DEF Path, TypeOK, FrameType

\* A call that is drawn: the callee is none of the functions being drawn.
LEMMA Calling ==
    ASSUME IInv, Reading, NEW f \in Participant, ~Visited(f),
           frames' = Append(Advance, Frame(f)), visited' = Callers,
           UNCHANGED activity
    PROVE  Path'
<1>1. TypeOK /\ VisitedIsPath /\ NoActivityInItself
  BY DEF IInv
<1> DEFINE n == Len(frames)
<1>2. frames # <<>> /\ n \in Nat \ {0} /\ DOMAIN frames = 1..n
      /\ Top.fn \in Participant
  BY <1>1, TopFacts DEF Reading
<1>3. /\ Advance \in Seq(FrameType) /\ Len(Advance) = n
      /\ \A k \in 1..n : /\ Advance[k].fn = frames[k].fn
                         /\ Advance[k].at <= Len(activity[frames[k].fn]) + 1
  BY <1>1, <1>2, AdvanceFacts
<1>4. Frame(f) \in FrameType /\ Frame(f).fn = f /\ Frame(f).at = 1
  BY DEF Frame, FrameType
<1>5. /\ frames' \in Seq(FrameType) /\ Len(frames') = n + 1
      /\ DOMAIN frames' = 1..(n + 1) /\ frames' # <<>>
      /\ \A k \in 1..n : frames'[k] = Advance[k]
      /\ frames'[n + 1] = Frame(f)
  BY <1>2, <1>3, <1>4
<1>6. /\ visited \in Seq(Participant) /\ Len(visited) = n - 1
      /\ DOMAIN visited = 1..(n - 1)
      /\ \A k \in 1..(n - 1) : visited[k] = frames[k].fn
  BY <1>1, <1>2, PathFacts
<1>7. /\ visited' \in Seq(Participant) /\ Len(visited') = n
      /\ DOMAIN visited' = 1..n
      /\ \A k \in 1..n : visited'[k] = frames[k].fn
  <2>1. visited' = Append(visited, Top.fn)
    BY DEF Callers
  <2>2. /\ visited' \in Seq(Participant) /\ Len(visited') = n
        /\ DOMAIN visited' = 1..n
        /\ \A k \in 1..(n - 1) : visited'[k] = visited[k]
        /\ visited'[n] = Top.fn
    <3> DEFINE pushed == Append(visited, Top.fn)
    <3>1. /\ pushed \in Seq(Participant) /\ Len(pushed) = Len(visited) + 1
          /\ \A k \in 1..Len(visited) : pushed[k] = visited[k]
          /\ pushed[Len(visited) + 1] = Top.fn
      <4>1. visited \in Seq(Participant) /\ Top.fn \in Participant
        BY <1>2, <1>6
      <4> QED
        BY <4>1, PushFacts
    <3>2. DOMAIN pushed = 1..Len(pushed)
      BY <3>1
    <3>3. visited' = pushed
      BY <2>1
    <3>4. Len(visited) + 1 = n /\ Len(visited) = n - 1
      BY <1>2, <1>6
    <3> HIDE DEF pushed
    <3> QED
      BY <3>1, <3>2, <3>3, <3>4
  <2>3. Top.fn = frames[n].fn
    BY DEF Top
  <2> QED
    BY <1>2, <1>6, <2>2, <2>3
<1>8. VisitedIsPath'
  <2>1. \A k \in 1..n : visited'[k] = frames'[k].fn
    BY <1>3, <1>5, <1>7
  <2>2. Len(visited') = Len(frames') - 1
    BY <1>2, <1>5, <1>7
  <2> QED
    BY <1>5, <1>7, <2>1, <2>2 DEF VisitedIsPath
<1>9. \A k \in 1..n : frames[k].fn # f
  BY <1>7 DEF Visited, Members
<1>10. NoActivityInItself'
  <2>1. \A k \in 1..n : frames'[k].fn = frames[k].fn
    BY <1>3, <1>5
  <2>2. frames'[n + 1].fn = f
    BY <1>4, <1>5
  <2>3. \A j, k \in 1..n : frames[j].fn = frames[k].fn => j = k
    BY <1>1, <1>2 DEF NoActivityInItself
  <2> QED
    BY <1>2, <1>5, <1>9, <2>1, <2>2, <2>3 DEF NoActivityInItself
<1>11. \A k \in DOMAIN frames' : frames'[k].at <= Len(activity'[frames'[k].fn]) + 1
  <2>1. Len(activity[f]) \in Nat
    BY <1>1, GeneratorAssumption DEF TypeOK
  <2>2. \A k \in 1..n : frames'[k].at <= Len(activity[frames'[k].fn]) + 1
    BY <1>3, <1>5
  <2>3. frames'[n + 1].at <= Len(activity[frames'[n + 1].fn]) + 1
    BY <1>4, <1>5, <2>1
  <2> QED
    BY <1>2, <1>5, <2>2, <2>3
<1> QED
  BY <1>5, <1>7, <1>8, <1>10, <1>11 DEF Path, FrameType

\* generate_activity() returns to its caller, or to the loop over the roots.
LEMMA Returning ==
    ASSUME IInv, EndActivity
    PROVE  Path'
<1>1. TypeOK /\ VisitedIsPath /\ NoActivityInItself
  BY DEF IInv
<1> DEFINE n == Len(frames)
<1>2. /\ frames # <<>> /\ frames \in Seq(FrameType)
      /\ n \in Nat \ {0} /\ DOMAIN frames = 1..n
  BY <1>1, TopFacts DEF EndActivity
<1>3. /\ frames' \in Seq(FrameType) /\ Len(frames') = n - 1
      /\ DOMAIN frames' = 1..(n - 1)
      /\ \A k \in 1..(n - 1) : frames'[k] = frames[k]
  BY <1>2 DEF EndActivity, ButLast
<1>4. /\ visited \in Seq(Participant) /\ Len(visited) = n - 1
      /\ \A k \in 1..(n - 1) : visited[k] = frames[k].fn
  BY <1>1, <1>2, PathFacts
<1>5. UNCHANGED activity
  BY DEF EndActivity, given
<1>6. visited' \in Seq(Participant) /\ VisitedIsPath'
  <2>1. CASE n = 1
    <3>1. visited' = visited /\ visited = <<>> /\ frames' = <<>>
      BY <1>3, <1>4, <2>1 DEF EndActivity
    <3> QED
      BY <1>4, <3>1 DEF VisitedIsPath
  <2>2. CASE n # 1
    <3>1. visited' = SubSeq(visited, 1, n - 2) /\ n - 2 \in Nat
      BY <1>2, <1>4, <2>2 DEF EndActivity, ButLast
    <3>2. /\ visited' \in Seq(Participant) /\ Len(visited') = n - 2
          /\ DOMAIN visited' = 1..(n - 2)
          /\ \A k \in 1..(n - 2) : visited'[k] = visited[k]
      BY <1>4, <3>1
    <3> QED
      BY <1>2, <1>3, <1>4, <2>2, <3>2 DEF VisitedIsPath
  <2> QED
    BY <2>1, <2>2
<1>7. NoActivityInItself'
  BY <1>1, <1>2, <1>3 DEF NoActivityInItself
<1>8. \A k \in DOMAIN frames' : frames'[k].at <= Len(activity'[frames'[k].fn]) + 1
  <2>1. \A k \in 1..(n - 1) : frames[k].at <= Len(activity[frames[k].fn]) + 1
    BY <1>1, <1>2 DEF TypeOK
  <2> QED
    BY <1>3, <1>5, <2>1
<1> QED
  BY <1>3, <1>6, <1>7, <1>8 DEF Path, FrameType

LEMMA Starting ==
    ASSUME IInv, BeginRoot
    PROVE  Path'
<1>1. TypeOK /\ VisitedIsPath /\ UNCHANGED <<activity, visited>> /\ frames = <<>>
  BY DEF IInv, BeginRoot, NextRoot, given
<1>2. PICK f \in Participant : frames' = <<Frame(f)>>
  BY DEF BeginRoot
<1>3. Frame(f) \in FrameType /\ Frame(f).at = 1 /\ Frame(f).fn = f
  BY DEF Frame, FrameType
<1>4. /\ frames' \in Seq(FrameType) /\ DOMAIN frames' = 1..1 /\ Len(frames') = 1
      /\ frames'[1] = Frame(f)
  BY <1>2, <1>3
<1>5. visited' = <<>> /\ visited' \in Seq(Participant) /\ VisitedIsPath'
  BY <1>1, <1>4 DEF VisitedIsPath, TypeOK
<1>6. Len(activity[f]) \in Nat
  BY <1>1, GeneratorAssumption DEF TypeOK
<1> QED
  BY <1>1, <1>3, <1>4, <1>5, <1>6 DEF Path, FrameType, NoActivityInItself
--------------------------------------------------------------------------------
LEMMA ButLastType ==
    ASSUME NEW S, NEW s \in Seq(S)
    PROVE  ButLast(s) \in Seq(S)
<1>1. CASE s = <<>>
  BY <1>1 DEF ButLast
<1>2. CASE s # <<>>
  BY <1>2 DEF ButLast
<1> QED
  BY <1>1, <1>2

\* The rest of the types: what the text and the generator's members hold.
Rest ==
    /\ activity \in [Participant -> Bodies] /\ fold \in BOOLEAN
    /\ starts \in Seq(Function)
    /\ generated \subseteq Participant
    /\ statics \subseteq Participant \X Message
    /\ open \in Seq(Participant \cup {Group})
    /\ drawn \subseteq Participant \X Nat

LEMMA RestStays == IInv /\ [Next]_vars => Rest'
<1> SUFFICES ASSUME IInv, [Next]_vars PROVE Rest'
  OBVIOUS
<1>1. TypeOK
  BY DEF IInv
<1>2. Reading => /\ Top.fn \in Participant /\ Top.at \in Nat /\ Here \in Message
                 /\ <<Top.fn, Here>> \in Participant \X Message
                 /\ <<Top.fn, Top.at>> \in Participant \X Nat
  BY <1>1, TopFacts, HereFacts DEF Reading
<1>3. Reading /\ Remember => statics' \subseteq Participant \X Message
  BY <1>1, <1>2 DEF Remember, TypeOK
<1>4. Reading /\ Draw => drawn' \subseteq Participant \X Nat
  BY <1>1, <1>2 DEF Draw, TypeOK
<1>5. /\ ButLast(open) \in Seq(Participant \cup {Group})
      /\ \A e \in Participant \cup {Group} :
            Append(open, e) \in Seq(Participant \cup {Group})
  BY <1>1, ButLastType DEF TypeOK
<1>6. starts # <<>> => Tail(starts) \in Seq(Function)
  BY <1>1 DEF TypeOK
<1>7. CASE SkipRoot
  BY <1>1, <1>6, <1>7 DEF SkipRoot, NextRoot, Rest, TypeOK, given
<1>8. CASE FoldRoot
  BY <1>1, <1>6, <1>8 DEF FoldRoot, NextRoot, Rest, TypeOK, given
<1>9. CASE BeginRoot
  BY <1>1, <1>5, <1>6, <1>9 DEF BeginRoot, NextRoot, Rest, TypeOK, given
<1>10. CASE SkipRepeated
  BY <1>1, <1>10 DEF SkipRepeated, Rest, TypeOK, given
<1>11. CASE SkipAbsent
  BY <1>1, <1>3, <1>11 DEF SkipAbsent, Meet, Rest, TypeOK, given
<1>12. CASE CallVisited
  BY <1>1, <1>3, <1>4, <1>12 DEF CallVisited, Meet, Rest, TypeOK, given
<1>13. CASE CallFolded
  BY <1>1, <1>3, <1>4, <1>13 DEF CallFolded, Meet, Rest, TypeOK, given
<1>14. CASE CallNew
  BY <1>1, <1>3, <1>4, <1>5, <1>14 DEF CallNew, Meet, Rest, TypeOK, given
<1>15. CASE Return
  BY <1>1, <1>4, <1>15 DEF Return, Meet, Rest, TypeOK, given
<1>16. CASE BeginGroup
  BY <1>1, <1>4, <1>5, <1>16 DEF BeginGroup, Meet, Rest, TypeOK, given
<1>17. CASE EndGroup
  BY <1>1, <1>4, <1>5, <1>17 DEF EndGroup, Meet, Rest, TypeOK, given
<1>18. CASE EndActivity
  BY <1>1, <1>5, <1>18 DEF EndActivity, Rest, TypeOK, given
<1>19. CASE UNCHANGED vars
  BY <1>1, <1>19 DEF vars, Rest, TypeOK
<1> QED
  BY <1>7, <1>8, <1>9, <1>10, <1>11, <1>12, <1>13, <1>14, <1>15, <1>16, <1>17,
     <1>18, <1>19 DEF Next, Terminated

LEMMA PathStays == IInv /\ [Next]_vars => Path'
<1> SUFFICES ASSUME IInv, [Next]_vars PROVE Path'
  OBVIOUS
<1>1. CASE UNCHANGED <<activity, frames, visited>>
  BY <1>1 DEF IInv, TypeOK, Path, VisitedIsPath, NoActivityInItself
<1>2. CASE Reading /\ frames' = Advance /\ UNCHANGED <<activity, visited>>
  BY <1>2, Advancing
<1>3. CASE CallNew
  <2>1. Reading /\ Here.to \in Participant /\ ~Visited(Here.to)
        /\ frames' = Append(Advance, Frame(Here.to)) /\ visited' = Callers
        /\ UNCHANGED activity
    BY <1>3 DEF CallNew, Meet, given
  <2> QED
    BY <2>1, Calling
<1>4. CASE EndActivity
  BY <1>4, Returning
<1>5. CASE BeginRoot
  BY <1>5, Starting
<1>6. SkipRoot \/ FoldRoot \/ UNCHANGED vars => UNCHANGED <<activity, frames, visited>>
  BY DEF SkipRoot, FoldRoot, vars, given
<1>7. SkipRepeated \/ SkipAbsent \/ CallVisited \/ CallFolded \/ Return
        \/ BeginGroup \/ EndGroup
      => Reading /\ frames' = Advance /\ UNCHANGED <<activity, visited>>
  BY DEF SkipRepeated, SkipAbsent, CallVisited, CallFolded, Return, BeginGroup,
         EndGroup, Meet, given
<1> QED
  BY <1>1, <1>2, <1>3, <1>4, <1>5, <1>6, <1>7 DEF Next, Terminated

LEMMA InitIInv == Init => IInv
<1> SUFFICES ASSUME Init PROVE IInv
  OBVIOUS
<1>1. frames = <<>> /\ DOMAIN frames = {} /\ visited = <<>>
  BY DEF Init
<1>2. TypeOK
  BY <1>1, GeneratorAssumption DEF Init, TypeOK
<1> QED
  BY <1>1, <1>2 DEF IInv, VisitedIsPath, NoActivityInItself

\* IInv, the inductive invariant of SequenceGenerator, holds always.
THEOREM Invariance == Spec => []IInv
<1>1. IInv /\ [Next]_vars => IInv'
  BY RestStays, PathStays DEF Rest, Path, IInv, TypeOK
<1> QED
  BY InitIInv, <1>1, PTL DEF Spec

\* The types of the generator's state, for any functions, bodies and roots.
THEOREM TypeCorrect == Spec => []TypeOK
<1>1. IInv => TypeOK
  BY DEF IInv
<1> QED
  BY Invariance, <1>1, PTL

\* generate_activity() is never entered for an activity it is drawing, so its
\* recursion is at most as deep as there are participants.
THEOREM NoRecursion == Spec => []NoActivityInItself
<1>1. IInv => NoActivityInItself
  BY DEF IInv
<1> QED
  BY Invariance, <1>1, PTL

\* A return is drawn to the activity that made the call, or to the border.
THEOREM ReturnsCorrect == Spec => []ReturnsGoToCaller
<1>1. IInv => ReturnsGoToCaller
  <2> SUFFICES ASSUME IInv, Reading, Here.type = "kReturn"
               PROVE  Receiver = IF Len(frames) = 1 THEN Outside
                                 ELSE frames[Len(frames) - 1].fn
    BY DEF ReturnsGoToCaller
  <2>1. /\ frames # <<>> /\ Len(frames) \in Nat \ {0}
        /\ visited \in Seq(Participant)
        /\ Len(visited) = Len(frames) - 1
        /\ \A k \in DOMAIN visited : visited[k] = frames[k].fn
    BY TopFacts DEF IInv, TypeOK, VisitedIsPath, Reading
  <2>2. CASE Len(frames) = 1
    BY <2>1, <2>2 DEF Receiver
  <2>3. CASE Len(frames) # 1
    <3>1. visited # <<>> /\ Len(visited) \in DOMAIN visited
      BY <2>1, <2>3
    <3> QED
      BY <2>1, <2>3, <3>1 DEF Receiver
  <2> QED
    BY <2>2, <2>3
<1> QED
  BY Invariance, <1>1, PTL
--------------------------------------------------------------------------------
(***************************************************************************)
(* Nothing reachable is lost                                               *)
(***************************************************************************)
\* Message i of f is still to come in a call of generate_activity() for f.
Pending(f, i) == \E k \in DOMAIN frames : frames[k].fn = f /\ frames[k].at <= i

IsCall(m) == m.type = "kCall" /\ m.to \in Participant

\* What an activity has behind it was drawn, or need not be; the callee of a
\* call that was drawn has an activity that was begun; and what is remembered of a
\* static declaration was drawn in its own activity.
Behind ==
    \A f \in generated : \A i \in DOMAIN activity[f] : Pending(f, i) \/ Covered(f, i)

CalleesBegun ==
    \A f \in Participant : \A i \in DOMAIN activity[f] :
        <<f, i>> \in drawn /\ IsCall(activity[f][i]) => activity[f][i].to \in generated

InDrawn(f, m) ==
    \/ m.type = "kCall" /\ m.to \notin Participant
    \/ \E j \in DOMAIN activity[f] : activity[f][j] = m /\ <<f, j>> \in drawn

StaticsDrawn == \A f \in Participant : \A m : <<f, m>> \in statics => InDrawn(f, m)

FramesBegun == \A k \in DOMAIN frames : frames[k].fn \in generated

History == FramesBegun /\ Behind /\ CalleesBegun /\ StaticsDrawn

\* What a message g.a that is passed leaves of those behind it: frames stay, but
\* for the innermost, which is one message further.
LEMMA Passed ==
    ASSUME IInv, Reading, NEW g, g = Top.fn, NEW a, a = Top.at,
           UNCHANGED activity, drawn \subseteq drawn', Covered(g, a)',
           NEW f \in Participant, NEW i \in DOMAIN activity[f],
           Pending(f, i) \/ Covered(f, i),
           \A k \in DOMAIN frames : /\ k \in DOMAIN frames'
                                    /\ frames'[k] = Advance[k]
    PROVE  Pending(f, i)' \/ Covered(f, i)'
<1>1. TypeOK /\ frames # <<>>
  BY DEF IInv, Reading
<1> DEFINE n == Len(frames)
<1>2. /\ n \in Nat \ {0} /\ DOMAIN frames = 1..n /\ frames \in Seq(FrameType)
      /\ Top = frames[n] /\ Top.at \in Nat /\ i \in Nat
  <2>1. activity[f] \in Seq(Message)
    BY <1>1, GeneratorAssumption DEF TypeOK
  <2> QED
    BY <1>1, <2>1, TopFacts DEF Top
<1>3. \A k \in 1..n : Advance[k] = IF k = n THEN [Top EXCEPT !.at = @ + 1] ELSE frames[k]
  BY <1>2 DEF Advance
<1>4. CASE Covered(f, i)
  BY <1>4 DEF Covered
<1>5. CASE Pending(f, i)
  <2>1. PICK k \in 1..n : frames[k].fn = f /\ frames[k].at <= i
    BY <1>2, <1>5 DEF Pending
  <2>2. CASE k # n \/ frames[k].at # i
    <3>1. frames'[k].fn = f /\ frames'[k].at <= i
      <4>1. frames'[k] = Advance[k] /\ frames[k] \in FrameType
        BY <1>2, <2>1
      <4>2. CASE k # n
        BY <1>3, <2>1, <4>1, <4>2
      <4>3. CASE k = n
        BY <1>2, <1>3, <2>1, <2>2, <4>1, <4>3 DEF FrameType
      <4> QED
        BY <4>2, <4>3
    <3> QED
      BY <1>2, <2>1, <3>1 DEF Pending
  <2>3. CASE k = n /\ frames[k].at = i
    <3>1. f = g /\ i = a
      BY <1>2, <2>1, <2>3
    <3> QED
      BY <3>1
  <2> QED
    BY <2>2, <2>3
<1> QED
  BY <1>4, <1>5

\* A message that is drawn or skipped, and what is required of it.
LEMMA Passing ==
    ASSUME IInv, History, Reading,
           NEW g, g = Top.fn, NEW a, a = Top.at, NEW m, m = Here,
           UNCHANGED activity,
           drawn' = drawn \/ drawn' = drawn \cup {<<g, a>>}, Covered(g, a)',
           <<g, a>> \in drawn' /\ IsCall(m) => m.to \in generated',
           statics' = statics \/ statics' = statics \cup {<<g, m>>},
           <<g, m>> \in statics' => InDrawn(g, m)',
           generated \subseteq generated', generated' \subseteq Participant,
           \A f \in generated' \ generated :
               \E k \in DOMAIN frames' : frames'[k] = Frame(f),
           \A k \in DOMAIN frames : k \in DOMAIN frames' /\ frames'[k] = Advance[k],
           \A k \in DOMAIN frames' : k \in DOMAIN frames \/ frames'[k].fn \in generated'
    PROVE  History'
<1>1. TypeOK /\ frames # <<>>
  BY DEF IInv, Reading
<1>2. /\ g \in Participant /\ m = activity[g][a] /\ DOMAIN frames = 1..Len(frames)
      /\ \A f \in Participant : activity[f] \in Seq(Message)
  BY <1>1, TopFacts, GeneratorAssumption DEF Here, Body, TypeOK
<1>3. FramesBegun'
  BY <1>1, <1>2, AdvanceFacts DEF History, FramesBegun
<1>4. Behind'
  <2> SUFFICES ASSUME NEW f \in generated', NEW i \in DOMAIN activity[f]
               PROVE  Pending(f, i)' \/ Covered(f, i)'
    BY DEF Behind
  <2>1. CASE f \in generated
    <3>1. (Pending(f, i) \/ Covered(f, i)) /\ f \in Participant
      BY <1>1, <2>1 DEF History, Behind, TypeOK
    <3>2. drawn \subseteq drawn'
      OBVIOUS
    <3> QED
      BY <3>1, <3>2, Passed
  <2>2. CASE f \notin generated
    <3>1. PICK k \in DOMAIN frames' : frames'[k] = Frame(f)
      BY <2>2
    <3>2. frames'[k].fn = f /\ frames'[k].at = 1
      BY <3>1 DEF Frame
    <3>3. i \in Nat /\ 1 <= i
      BY <1>2
    <3> QED
      BY <3>2, <3>3 DEF Pending
  <2> QED
    BY <2>1, <2>2
<1>5. CalleesBegun'
  <2> SUFFICES ASSUME NEW f \in Participant, NEW i \in DOMAIN activity[f],
                      <<f, i>> \in drawn', IsCall(activity[f][i])
               PROVE  activity[f][i].to \in generated'
    BY DEF CalleesBegun, IsCall
  <2>1. CASE <<f, i>> \in drawn
    BY <2>1 DEF History, CalleesBegun
  <2>2. CASE f = g /\ i = a
    BY <1>2, <2>2
  <2> QED
    BY <2>1, <2>2
<1>6. StaticsDrawn'
  <2> SUFFICES ASSUME NEW f \in Participant, NEW e, <<f, e>> \in statics'
               PROVE  InDrawn(f, e)'
    BY DEF StaticsDrawn
  <2>1. CASE <<f, e>> \in statics
    <3>1. InDrawn(f, e)
      BY <2>1 DEF History, StaticsDrawn
    <3> QED
      BY <3>1 DEF InDrawn
  <2>2. CASE f = g /\ e = m
    BY <2>2
  <2> QED
    BY <2>1, <2>2
<1> QED
  BY <1>3, <1>4, <1>5, <1>6 DEF History

\* A message of a static declaration that was met before is covered.
LEMMA RepeatedIsCovered ==
    ASSUME TypeOK, StaticsDrawn, Reading, Repeated(Here)
    PROVE  Covered(Top.fn, Top.at)
<1>1. Top.fn \in Participant /\ Here = activity[Top.fn][Top.at]
  BY TopFacts DEF Reading, Here, Body
<1>2. InDrawn(Top.fn, Here)
  BY <1>1 DEF StaticsDrawn, Repeated
<1> QED
  BY <1>1, <1>2 DEF InDrawn, Covered, Repeated

\* The functions being drawn are those the callee is compared with.
LEMMA CallersAreFrames ==
    ASSUME TypeOK, VisitedIsPath, frames # <<>>, NEW f, Visited(f)
    PROVE  \E k \in DOMAIN frames : frames[k].fn = f
<1> PICK n, c : n = Len(frames) /\ c = Callers
  OBVIOUS
<1>1. n \in Nat /\ n # 0 /\ DOMAIN frames = 1..n
  BY TopFacts
<1>2. Top.fn \in Participant /\ Top = frames[n]
  BY TopFacts DEF Top
<1>3. visited \in Seq(Participant) /\ Len(visited) = n - 1
  BY PathFacts
<1>4. \A k \in 1..(n - 1) : visited[k] = frames[k].fn
  BY PathFacts
<1>5. /\ c \in Seq(Participant) /\ Len(c) = Len(visited) + 1
      /\ \A k \in 1..Len(visited) : c[k] = visited[k]
      /\ c[Len(visited) + 1] = Top.fn
  BY <1>2, <1>3, PushFacts DEF Callers
<1>6. Len(c) = n /\ DOMAIN c = 1..n
  BY <1>1, <1>3, <1>5
<1>7. \A k \in 1..n : c[k] = frames[k].fn
  <2> SUFFICES ASSUME NEW k \in 1..n PROVE c[k] = frames[k].fn
    OBVIOUS
  <2>1. CASE k = n
    <3>1. Len(visited) + 1 = n
      BY <1>1, <1>3
    <3> QED
      BY <1>2, <1>5, <2>1, <3>1
  <2>2. CASE k # n
    <3>1. k \in 1..(n - 1)
      BY <1>1, <2>2
    <3> QED
      BY <1>3, <1>4, <1>5, <3>1
  <2> QED
    BY <2>1, <2>2
<1>8. \E k \in 1..n : c[k] = f
  BY <1>6 DEF Visited, Members
<1> QED
  BY <1>1, <1>7, <1>8

\* A step that reads a message keeps the history.
LEMMA ReadingKeepsHistory ==
    ASSUME IInv, History,
           SkipRepeated \/ SkipAbsent \/ CallVisited \/ CallFolded \/ CallNew
             \/ Return \/ BeginGroup \/ EndGroup
    PROVE  History'
<1> PICK g, a, m : g = Top.fn /\ a = Top.at /\ m = Here
  OBVIOUS
<1>1. Reading
  BY DEF SkipRepeated, SkipAbsent, CallVisited, CallFolded, CallNew, Return,
         BeginGroup, EndGroup, Meet
<1>2. TypeOK /\ VisitedIsPath /\ frames # <<>>
  BY <1>1 DEF IInv, Reading
<1>3. /\ g \in Participant /\ m = activity[g][a] /\ m \in Message
      /\ DOMAIN frames = 1..Len(frames) /\ Len(frames) \in Nat
      /\ a \in DOMAIN activity[g]
  BY <1>1, <1>2, TopFacts, HereFacts DEF Reading, Here, Body
<1>4. UNCHANGED activity
  BY DEF SkipRepeated, SkipAbsent, CallVisited, CallFolded, CallNew, Return,
         BeginGroup, EndGroup, given
<1>5. /\ Advance \in Seq(FrameType) /\ Len(Advance) = Len(frames)
      /\ DOMAIN Advance = DOMAIN frames
      /\ \A k \in DOMAIN frames : Advance[k].fn \in generated
  <2>1. Advance \in Seq(FrameType) /\ Len(Advance) = Len(frames)
    BY <1>1, <1>2, AdvanceFacts
  <2>2. \A k \in 1..Len(frames) : Advance[k].fn = frames[k].fn
    BY <1>1, <1>2, AdvanceFacts
  <2> QED
    BY <1>3, <2>1, <2>2 DEF History, FramesBegun
<1>6. generated \subseteq Participant
  BY <1>2 DEF TypeOK
\* What the new frames and activities have to satisfy, when no activity is begun.
<1>7. frames' = Advance /\ UNCHANGED generated =>
         /\ generated \subseteq generated' /\ generated' \subseteq Participant
         /\ \A f \in generated' \ generated :
               \E k \in DOMAIN frames' : frames'[k] = Frame(f)
         /\ \A k \in DOMAIN frames : k \in DOMAIN frames' /\ frames'[k] = Advance[k]
         /\ \A k \in DOMAIN frames' : k \in DOMAIN frames \/ frames'[k].fn \in generated'
  BY <1>5, <1>6
<1>8. CASE SkipRepeated
  <2>1. frames' = Advance /\ UNCHANGED <<generated, drawn, statics>> /\ Repeated(m)
    BY <1>8 DEF SkipRepeated
  <2>2. Covered(g, a)
    BY <1>1, <1>2, <2>1, RepeatedIsCovered DEF History
  <2>3. Covered(g, a)'
    BY <1>4, <2>1, <2>2 DEF Covered
  <2>4. <<g, a>> \in drawn' /\ IsCall(m) => m.to \in generated'
    BY <1>3, <2>1 DEF History, CalleesBegun
  <2>5. <<g, m>> \in statics' => InDrawn(g, m)'
    BY <1>3, <1>4, <2>1 DEF History, StaticsDrawn, InDrawn
  <2> QED
    BY <1>1, <1>4, <1>7, <2>1, <2>3, <2>4, <2>5, Passing
<1>9. CASE SkipAbsent
  <2>1. /\ frames' = Advance /\ UNCHANGED <<generated, drawn>>
        /\ m.type = "kCall" /\ m.to \notin Participant
        /\ statics' = statics \/ statics' = statics \cup {<<g, m>>}
    BY <1>9 DEF SkipAbsent, Meet, Remember
  <2>2. Covered(g, a)' /\ InDrawn(g, m)' /\ ~IsCall(m)
    BY <1>3, <1>4, <2>1 DEF Covered, InDrawn, IsCall
  <2> QED
    BY <1>1, <1>4, <1>7, <2>1, <2>2, Passing
\* What a message that is drawn has to satisfy.
<1>10. Draw => /\ drawn' = drawn \cup {<<g, a>>}
               /\ Covered(g, a)' /\ InDrawn(g, m)'
  BY <1>3, <1>4 DEF Draw, Covered, InDrawn
<1>11. Remember => statics' = statics \/ statics' = statics \cup {<<g, m>>}
  BY DEF Remember
<1>12. CASE CallVisited
  <2>1. /\ frames' = Advance /\ UNCHANGED generated /\ Draw /\ Remember
        /\ Visited(m.to)
    BY <1>12 DEF CallVisited
  <2>2. m.to \in generated'
    BY <1>2, <2>1, CallersAreFrames DEF History, FramesBegun
  <2> QED
    BY <1>1, <1>4, <1>7, <1>10, <1>11, <2>1, <2>2, Passing
<1>13. CASE CallFolded
  <2>1. /\ frames' = Advance /\ UNCHANGED generated /\ Draw /\ Remember
        /\ m.to \in generated'
    BY <1>13 DEF CallFolded, Folded
  <2> QED
    BY <1>1, <1>4, <1>7, <1>10, <1>11, <2>1, Passing
<1>14. CASE CallNew
  <2>1. /\ frames' = Append(Advance, Frame(m.to)) /\ generated' = generated \cup {m.to}
        /\ Draw /\ Remember /\ m.to \in Participant
    BY <1>14 DEF CallNew
  <2>2. Frame(m.to) \in FrameType /\ Frame(m.to).fn = m.to
    BY <2>1 DEF Frame, FrameType
  <2>3. /\ DOMAIN frames' = 1..(Len(frames) + 1)
        /\ \A k \in DOMAIN frames : k \in DOMAIN frames' /\ frames'[k] = Advance[k]
        /\ frames'[Len(frames) + 1] = Frame(m.to)
    BY <1>3, <1>5, <2>1, <2>2
  <2>4. \A f \in generated' \ generated :
           \E k \in DOMAIN frames' : frames'[k] = Frame(f)
    BY <1>3, <2>1, <2>3
  <2>5. \A k \in DOMAIN frames' : k \in DOMAIN frames \/ frames'[k].fn \in generated'
    BY <1>3, <2>1, <2>2, <2>3
  <2> QED
    BY <1>1, <1>4, <1>6, <1>10, <1>11, <2>1, <2>3, <2>4, <2>5, Passing
<1>15. CASE Return \/ BeginGroup \/ EndGroup
  <2>1. /\ frames' = Advance /\ UNCHANGED <<generated, statics>> /\ Draw
        /\ m.type \in {"kReturn", "begin", "end"}
    BY <1>15 DEF Return, BeginGroup, EndGroup, Meet
  <2>2. ~IsCall(m)
    BY <2>1 DEF IsCall
  <2> QED
    BY <1>1, <1>4, <1>7, <1>10, <2>1, <2>2, Passing
<1> QED
  BY <1>8, <1>9, <1>12, <1>13, <1>14, <1>15

\* A call of generate_activity() returns at the end of the activity only.
LEMMA ReturningKeepsHistory ==
    ASSUME IInv, History, EndActivity
    PROVE  History'
<1> PICK n : n = Len(frames)
  OBVIOUS
<1>1. TypeOK /\ frames # <<>>
  BY DEF IInv, EndActivity
<1>2. /\ n \in Nat /\ n # 0 /\ DOMAIN frames = 1..n /\ frames \in Seq(FrameType)
      /\ Top = frames[n] /\ Len(activity[frames[n].fn]) < frames[n].at
      /\ frames[n].at \in Nat
  BY <1>1, TopFacts DEF Top, EndActivity, Body
<1>3. UNCHANGED <<activity, generated, statics, drawn>>
  BY DEF EndActivity, given
<1>4. DOMAIN frames' = 1..(n - 1) /\ \A k \in 1..(n - 1) : frames'[k] = frames[k]
  BY <1>1, <1>2 DEF EndActivity, ButLast
<1>5. Behind'
  <2> SUFFICES ASSUME NEW f \in generated, NEW i \in DOMAIN activity[f]
               PROVE  Pending(f, i)' \/ Covered(f, i)'
    BY <1>3 DEF Behind
  <2>1. CASE Covered(f, i)
    BY <1>3, <2>1 DEF Covered
  <2>2. CASE Pending(f, i)
    <3>1. PICK k \in 1..n : frames[k].fn = f /\ frames[k].at <= i
      BY <1>2, <2>2 DEF Pending
    <3>2. i <= Len(activity[f]) /\ i \in Nat /\ Len(activity[f]) \in Nat
      BY <1>1, GeneratorAssumption DEF TypeOK
    <3>3. k \in 1..(n - 1)
      BY <1>2, <3>1, <3>2
    <3> QED
      BY <1>4, <3>1, <3>3 DEF Pending
  <2> QED
    BY <2>1, <2>2 DEF History, Behind
<1>6. FramesBegun'
  BY <1>2, <1>3, <1>4 DEF History, FramesBegun
<1>7. CalleesBegun' /\ StaticsDrawn'
  BY <1>3 DEF History, CalleesBegun, StaticsDrawn, InDrawn
<1> QED
  BY <1>5, <1>6, <1>7 DEF History

\* A root is begun when no activity is being drawn: everything is behind.
LEMMA StartingKeepsHistory ==
    ASSUME IInv, History, BeginRoot
    PROVE  History'
<1>1. TypeOK /\ frames = <<>> /\ UNCHANGED <<activity, statics, drawn>>
  BY DEF IInv, BeginRoot, NextRoot, given
<1>2. PICK f \in Participant : frames' = <<Frame(f)>> /\ generated' = generated \cup {f}
  BY DEF BeginRoot
<1>3. DOMAIN frames' = {1} /\ frames'[1].fn = f /\ frames'[1].at = 1
  BY <1>2 DEF Frame
<1>4. Behind'
  <2> SUFFICES ASSUME NEW g \in generated', NEW i \in DOMAIN activity[g]
               PROVE  Pending(g, i)' \/ Covered(g, i)'
    BY <1>1 DEF Behind
  <2>1. CASE g = f
    <3>1. i \in Nat /\ 1 <= i
      BY <1>1, <2>1, GeneratorAssumption DEF TypeOK
    <3> QED
      BY <1>3, <2>1, <3>1 DEF Pending
  <2>2. CASE g \in generated
    <3>1. Covered(g, i)
      BY <1>1, <2>2 DEF History, Behind, Pending
    <3> QED
      BY <1>1, <3>1 DEF Covered
  <2> QED
    BY <1>2, <2>1, <2>2
<1>5. FramesBegun'
  BY <1>2, <1>3 DEF FramesBegun
<1>6. CalleesBegun' /\ StaticsDrawn'
  BY <1>1, <1>2 DEF History, CalleesBegun, StaticsDrawn, InDrawn
<1> QED
  BY <1>4, <1>5, <1>6 DEF History

LEMMA HistoryStays == IInv /\ History /\ [Next]_vars => History'
<1> SUFFICES ASSUME IInv, History, [Next]_vars PROVE History'
  OBVIOUS
<1>1. CASE UNCHANGED <<activity, frames, generated, statics, drawn>>
  BY <1>1 DEF History, FramesBegun, Behind, Pending, Covered, CalleesBegun,
              StaticsDrawn, InDrawn
<1>2. SkipRoot \/ FoldRoot \/ UNCHANGED vars
      => UNCHANGED <<activity, frames, generated, statics, drawn>>
  BY DEF SkipRoot, FoldRoot, vars, given
<1> QED
  BY <1>1, <1>2, ReadingKeepsHistory, ReturningKeepsHistory, StartingKeepsHistory
     DEF Next, Terminated

\* When nothing is being drawn any more, the activities that were drawn call
\* only one another.
LEMMA GeneratedIsClosed ==
    ASSUME TypeOK, History, frames = <<>>
    PROVE  /\ \A f \in generated : \A i \in DOMAIN activity[f] : Covered(f, i)
           /\ Closed(generated)
<1>1. \A f \in generated : \A i \in DOMAIN activity[f] : Covered(f, i)
  BY DEF History, Behind, Pending
<1>2. ASSUME NEW f \in generated, NEW g \in Participant, Leads(f, g)
      PROVE  g \in generated
  <2>1. f \in Participant
    BY DEF TypeOK
  <2>2. PICK i \in DOMAIN activity[f] :
            activity[f][i].type = "kCall" /\ activity[f][i].to = g
    BY <1>2 DEF Leads
  <2>3. PICK j \in DOMAIN activity[f] :
            activity[f][j] = activity[f][i] /\ <<f, j>> \in drawn
    BY <1>1, <2>2 DEF Covered
  <2> QED
    BY <2>1, <2>2, <2>3 DEF History, CalleesBegun, IsCall
<1> QED
  BY <1>1, <1>2 DEF Closed

\* When the diagram is done, every message that can be reached from a root was
\* drawn, or calls no participant, or equals a static one that was drawn: neither
\* folding nor the test for recursion hides a branch for good.
THEOREM NothingIsLost == Spec => []EverythingIsDrawn
<1>1. Init => History
  BY DEF Init, History, FramesBegun, Behind, CalleesBegun, StaticsDrawn
<1>2. IInv /\ History => EverythingIsDrawn
  <2> SUFFICES ASSUME IInv, History, Done, NEW f \in Reachable(generated),
                      NEW i \in DOMAIN activity[f]
               PROVE  Covered(f, i)
    BY DEF EverythingIsDrawn
  <2>1. TypeOK /\ frames = <<>>
    BY DEF IInv, Done
  <2>2. Closed(generated) /\ generated \subseteq Participant
    BY <2>1, GeneratedIsClosed DEF TypeOK
  <2>3. f \in generated
    BY <2>2 DEF Reachable
  <2> QED
    BY <2>1, <2>3, GeneratedIsClosed
<1> QED
  BY Invariance, <1>1, <1>2, HistoryStays, PTL DEF Spec

--------------------------------------------------------------------------------
(***************************************************************************)
(* The text is well nested                                                 *)
(***************************************************************************)
\* The order of the natural numbers, as a set.
LEMMA LessIsWellFounded ==
    \E less : /\ IsWellFoundedOn(less, Nat)
              /\ \A m, n \in Nat : m < n => <<m, n>> \in less
<1>1. \A m, n \in Nat : m < n => <<m, n>> \in OpToRel(<, Nat)
  BY DEF OpToRel
<1> QED
  BY <1>1, NatLessThanWellFounded, Zenon

\* Every set of numbers that is not empty has a least one.
LEMMA LeastNumber ==
    ASSUME NEW T, T \subseteq Nat, T # {}
    PROVE  \E n \in T : \A m \in T : n <= m
<1>1. PICK less : /\ IsWellFoundedOn(less, Nat)
                  /\ \A m, n \in Nat : m < n => <<m, n>> \in less
  BY LessIsWellFounded
<1>2. IsWellFoundedOn(less, Nat)
  BY <1>1
<1>3. \A m, n \in Nat : m < n => <<m, n>> \in less
  BY <1>1
<1>4. PICK n \in T : \A m \in T : ~(<<m, n>> \in less)
  BY <1>2, WFMin
<1>5. \A m \in T : ~(m < n)
  BY <1>3, <1>4
<1> QED
  BY <1>4, <1>5

Line(e, m) == [i \in 1..m |-> e]

\* A sequence with a line of equal elements after it: the line gets longer.
LEMMA LineNone ==
    ASSUME NEW S, NEW s \in Seq(S), NEW e \in S
    PROVE  s \o Line(e, 0) = s
<1>1. Line(e, 0) = <<>>
  BY DEF Line
<1> QED
  BY <1>1

\* ... by one element.
LEMMA LineMore ==
    ASSUME NEW S, NEW s \in Seq(S), NEW e \in S, NEW m \in Nat
    PROVE  Append(s \o Line(e, m), e) = s \o Line(e, m + 1)
<1>1. Line(e, m) \in Seq(S) /\ Line(e, m + 1) \in Seq(S) /\ <<e>> \in Seq(S)
  BY DEF Line
<1>2. Line(e, m) \o <<e>> = Line(e, m + 1)
  BY DEF Line
<1>3. s \o Line(e, m) \in Seq(S)
  BY <1>1
<1>4. Append(s \o Line(e, m), e) = (s \o Line(e, m)) \o <<e>>
  BY <1>3, AppendIsConcat
<1>5. (s \o Line(e, m)) \o <<e>> = s \o (Line(e, m) \o <<e>>)
  BY <1>1, ConcatAssociative
<1> QED
  BY <1>2, <1>4, <1>5

\* What was appended last is what ButLast() takes away.
LEMMA ButLastOfAppend ==
    ASSUME NEW S, NEW s \in Seq(S), NEW e \in S
    PROVE  ButLast(Append(s, e)) = s
<1> DEFINE t == Append(s, e)
<1>1. t \in Seq(S) /\ Len(t) = Len(s) + 1 /\ \A i \in 1..Len(s) : t[i] = s[i]
  OBVIOUS
<1> HIDE DEF t
<1>2. /\ ButLast(t) \in Seq(S) /\ Len(ButLast(t)) = Len(s)
      /\ \A i \in 1..Len(s) : ButLast(t)[i] = t[i]
  BY <1>1 DEF ButLast
<1>3. ButLast(t) = s
  BY <1>1, <1>2, SeqEqual
<1> QED
  BY <1>3 DEF t

\* How the number of open groups changes with a message.
LEMMA OpenFacts ==
    ASSUME NEW body \in Seq(Message)
    PROVE  /\ Open(body, 1) = 0
           /\ \A i \in DOMAIN body :
                 /\ Open(body, i) \in Int
                 /\ Open(body, i + 1) =
                       CASE body[i].type = "begin" -> Open(body, i) + 1
                         [] body[i].type = "end" -> Open(body, i) - 1
                         [] OTHER -> Open(body, i)
<1> DEFINE Of(t, i) == {j \in 1..(i - 1) : body[j].type = t}
<1>1. \A t, i : i \in Int => IsFiniteSet(Of(t, i)) /\ Cardinality(Of(t, i)) \in Nat
  <2> TAKE t, i
  <2> HAVE i \in Int
  <2>1. IsFiniteSet(1..(i - 1)) /\ Of(t, i) \in SUBSET (1..(i - 1))
    BY FS_Interval
  <2> QED
    BY <2>1, FS_Subset, FS_CardinalityType
<1>2. \A t : Cardinality(Of(t, 1)) = 0
  <2>1. \A t : Of(t, 1) = {}
    OBVIOUS
  <2> QED
    BY <2>1, FS_EmptySet
<1>3. \A t, i : i \in DOMAIN body =>
         Cardinality(Of(t, i + 1)) =
            IF body[i].type = t THEN Cardinality(Of(t, i)) + 1 ELSE Cardinality(Of(t, i))
  <2> TAKE t, i
  <2> HAVE i \in DOMAIN body
  <2>1. i \in Int /\ i >= 1
    OBVIOUS
  <2>2. i \notin Of(t, i)
    BY <2>1
  <2>3. CASE body[i].type = t
    <3>1. Of(t, i + 1) = Of(t, i) \cup {i}
      BY <2>1, <2>3
    <3>2. Cardinality(Of(t, i) \cup {i}) = Cardinality(Of(t, i)) + 1
      <4>1. IsFiniteSet(Of(t, i))
        BY <1>1, <2>1
      <4> HIDE DEF Of
      <4> QED
        BY <2>2, <4>1, FS_AddElement
    <3> QED
      BY <2>3, <3>1, <3>2
  <2>4. CASE body[i].type # t
    <3>1. Of(t, i + 1) = Of(t, i)
      BY <2>1, <2>4
    <3> QED
      BY <2>4, <3>1
  <2> QED
    BY <2>3, <2>4
<1>4. \A i : Open(body, i) = Cardinality(Of("begin", i)) - Cardinality(Of("end", i))
  BY DEF Open
<1> HIDE DEF Of
<1>5. Open(body, 1) = 0
  BY <1>2, <1>4
<1> SUFFICES ASSUME NEW i \in DOMAIN body
             PROVE  /\ Open(body, i) \in Int
                    /\ Open(body, i + 1) =
                          CASE body[i].type = "begin" -> Open(body, i) + 1
                            [] body[i].type = "end" -> Open(body, i) - 1
                            [] OTHER -> Open(body, i)
  BY <1>5
<1>6. i \in Int
  OBVIOUS
<1>7. Cardinality(Of("begin", i)) \in Nat /\ Cardinality(Of("end", i)) \in Nat
  BY <1>1, <1>6
<1>8. CASE body[i].type = "begin"
  BY <1>3, <1>4, <1>7, <1>8
<1>9. CASE body[i].type = "end"
  BY <1>3, <1>4, <1>7, <1>9
<1>10. CASE body[i].type \notin {"begin", "end"}
  BY <1>3, <1>4, <1>7, <1>10
<1> QED
  BY <1>8, <1>9, <1>10
\* What is open when the k lowest calls of generate_activity() are looked at.
Marks == Participant \cup {Group}

GroupsIn(f) == Open(activity[f.fn], f.at)

TowerOf(g, fs) ==
    /\ g \in [0..Len(fs) -> Seq(Marks)]
    /\ g[0] = <<>>
    /\ \A k \in 1..Len(fs) :
          g[k] = (g[k - 1] \o <<fs[k].fn>>) \o Line(Group, GroupsIn(fs[k]))

\* The inductive form of WellNested, which avoids its recursion.
Stacked == \E g : TowerOf(g, frames) /\ open = g[Len(frames)]

\* The groups open in an activity are never fewer than none.
LEMMA GroupsAreSome ==
    ASSUME TypeOK, NEW k \in 1..Len(frames)
    PROVE  /\ frames[k] \in FrameType /\ activity[frames[k].fn] \in Seq(Message)
           /\ GroupsIn(frames[k]) \in Nat
<1>1. frames \in Seq(FrameType)
  BY DEF TypeOK, FrameType
<1>2. frames[k] \in FrameType
  BY <1>1
<1> PICK f, at : f = frames[k].fn /\ at = frames[k].at
  OBVIOUS
<1>3. f \in Participant /\ at \in Nat /\ at # 0
  BY <1>2 DEF FrameType
<1>4. activity[f] \in Bodies
  BY <1>3 DEF TypeOK
<1>5. activity[f] \in Seq(Message) /\ Len(activity[f]) \in Nat
      /\ DOMAIN activity[f] = 1..Len(activity[f])
  BY <1>4, GeneratorAssumption
<1>6. at <= Len(activity[f]) + 1
  BY <1>1 DEF TypeOK
<1>7. Open(activity[f], at) \in Nat
  <2>1. CASE at = Len(activity[f]) + 1
    BY <1>4, <2>1, GeneratorAssumption
  <2>2. CASE at \in DOMAIN activity[f]
    <3>1. Open(activity[f], at) \in Int
      BY <1>5, <2>2, OpenFacts
    <3>2. Open(activity[f], at) >= 0
      BY <1>4, <2>2, GeneratorAssumption
    <3> QED
      BY <3>1, <3>2
  <2> QED
    BY <1>3, <1>5, <1>6, <2>1, <2>2
<1> QED
  BY <1>2, <1>5, <1>7 DEF GroupsIn

\* The recursive definition of Nesting has one solution, any tower.
LEMMA TowerIsNesting ==
    ASSUME NEW g, TowerOf(g, frames), Len(frames) \in Nat
    PROVE  Nesting = g[Len(frames)]
<1> DEFINE n == Len(frames)
           Step(h, k) == IF k = 0 THEN <<>>
                         ELSE h[k - 1] \o <<frames[k].fn>>
                                \o [i \in 1..Open(activity[frames[k].fn], frames[k].at) |-> Group]
           nested == CHOOSE h : h = [k \in 0..n |-> Step(h, k)]
<1>1. Nesting = nested[n]
  BY DEF Nesting
<1>2. g = [k \in 0..n |-> Step(g, k)]
  <2>1. \A k \in 0..n : g[k] = Step(g, k)
    <3> SUFFICES ASSUME NEW k \in 0..n PROVE g[k] = Step(g, k)
      OBVIOUS
    <3>1. CASE k = 0
      BY <3>1 DEF TowerOf
    <3>2. CASE k # 0
      <4>1. k \in 1..Len(frames)
        BY <3>2
      <4> QED
        BY <3>2, <4>1 DEF TowerOf, Line, GroupsIn
    <3> QED
      BY <3>1, <3>2
  <2>2. g \in [0..n -> Seq(Marks)]
    BY DEF TowerOf
  <2> HIDE DEF Step
  <2> QED
    BY <2>1, <2>2
<1>3. nested = [k \in 0..n |-> Step(nested, k)]
  BY <1>2
<1> HIDE DEF nested
<1>4. \A k \in 0..n : nested[k] = g[k]
  <2> DEFINE T == {k \in 0..n : nested[k] # g[k]}
  <2> SUFFICES ASSUME T # {} PROVE FALSE
    OBVIOUS
  <2>1. T \subseteq Nat
    OBVIOUS
  <2>2. PICK k \in T : \A j \in T : k <= j
    BY <2>1, LeastNumber
  <2>3. CASE k = 0
    BY <1>2, <1>3, <2>2, <2>3
  <2>4. CASE k # 0
    <3>1. k - 1 \in 0..n /\ k - 1 \notin T /\ k \in 0..n
      BY <2>2, <2>4
    <3>2. nested[k - 1] = g[k - 1]
      BY <3>1
    <3>3. nested[k] = Step(nested, k) /\ g[k] = Step(g, k)
      BY <1>2, <1>3, <3>1
    <3> QED
      BY <2>2, <2>4, <3>2, <3>3
  <2> QED
    BY <2>3, <2>4
<1> QED
  BY <1>1, <1>4

\* One more activity, with nothing drawn in it yet: its bar.
LEMMA TowerGrows ==
    ASSUME NEW fs \in Seq(FrameType), NEW g, TowerOf(g, fs),
           NEW f \in Participant, activity[f] \in Seq(Message)
    PROVE  \E h : /\ TowerOf(h, Append(fs, Frame(f)))
                  /\ h[Len(fs) + 1] = Append(g[Len(fs)], f)
<1>n. PICK n \in Nat : n = Len(fs)
  OBVIOUS
<1>1. Frame(f) \in FrameType /\ Frame(f).fn = f /\ Frame(f).at = 1
  BY DEF Frame, FrameType
<1>u. PICK us : us = Append(fs, Frame(f))
  OBVIOUS
<1>2. /\ Len(us) = n + 1 /\ \A k \in 1..n : us[k] = fs[k]
      /\ us[n + 1] = Frame(f)
  BY <1>n, <1>u, <1>1
<1>3. GroupsIn(Frame(f)) = 0
  BY <1>1, OpenFacts DEF GroupsIn
<1>4. f \in Marks /\ Group \in Marks
  BY DEF Marks
<1>5. /\ g \in [0..n -> Seq(Marks)] /\ g[0] = <<>> /\ g[n] \in Seq(Marks)
      /\ \A k \in 1..n : g[k] = (g[k - 1] \o <<fs[k].fn>>) \o Line(Group, GroupsIn(fs[k]))
  <2>1. /\ g \in [0..n -> Seq(Marks)] /\ g[0] = <<>>
        /\ \A k \in 1..n :
              g[k] = (g[k - 1] \o <<fs[k].fn>>) \o Line(Group, GroupsIn(fs[k]))
    BY <1>n DEF TowerOf
  <2>2. g[n] \in Seq(Marks)
    BY <2>1
  <2> QED
    BY <2>1, <2>2
<1>6. PICK top : top = Append(g[n], f)
  OBVIOUS
<1>7. /\ top \in Seq(Marks) /\ g[n] \o <<f>> = top
      /\ top \o Line(Group, 0) = top
  <2>1. top \in Seq(Marks) /\ g[n] \o <<f>> = top
    BY <1>4, <1>5, <1>6, AppendProperties, AppendIsConcat
  <2> QED
    BY <1>4, <2>1, LineNone
<1>8. PICK h : h = [k \in 0..(n + 1) |-> IF k = n + 1 THEN top ELSE g[k]]
  OBVIOUS
<1>9. /\ h \in [0..(n + 1) -> Seq(Marks)] /\ h[n + 1] = top
      /\ \A k \in 0..n : h[k] = g[k]
  BY <1>5, <1>7, <1>8
<1>10. ASSUME NEW k \in 1..(n + 1)
       PROVE  h[k] = (h[k - 1] \o <<us[k].fn>>) \o Line(Group, GroupsIn(us[k]))
  <2>1. CASE k = n + 1
    <3>1. h[k - 1] = g[n] /\ h[k] = top /\ us[k] = Frame(f)
      BY <1>2, <1>9, <2>1
    <3> QED
      BY <1>1, <1>3, <1>7, <3>1
  <2>2. CASE k # n + 1
    <3>1. k \in 1..n /\ k - 1 \in 0..n /\ k \in 0..n
      BY <2>2
    <3> QED
      BY <1>2, <1>5, <1>9, <3>1
  <2> QED
    BY <2>1, <2>2
<1>11. h[0] = <<>>
  BY <1>5, <1>9
<1>12. TowerOf(h, us)
  BY <1>2, <1>9, <1>10, <1>11 DEF TowerOf
<1> QED
  BY <1>n, <1>u, <1>6, <1>9, <1>12

\* An activity is over: no group is open on its bar, and the bar goes.
LEMMA TowerShrinks ==
    ASSUME NEW fs \in Seq(FrameType), fs # <<>>, NEW g, TowerOf(g, fs),
           GroupsIn(fs[Len(fs)]) = 0
    PROVE  \E h : /\ TowerOf(h, ButLast(fs))
                  /\ h[Len(ButLast(fs))] = ButLast(g[Len(fs)])
<1>n. PICK n : n = Len(fs)
  OBVIOUS
<1>1. n \in Nat /\ n # 0
  BY <1>n
<1>u. PICK us : us = ButLast(fs)
  OBVIOUS
<1>2. Len(us) = n - 1 /\ \A k \in 1..(n - 1) : us[k] = fs[k]
  BY <1>n, <1>u, <1>1 DEF ButLast
<1>3. /\ g \in [0..n -> Seq(Marks)] /\ g[0] = <<>>
      /\ \A k \in 1..n : g[k] = (g[k - 1] \o <<fs[k].fn>>) \o Line(Group, GroupsIn(fs[k]))
  BY <1>n DEF TowerOf
<1>4. fs[n] \in FrameType /\ fs[n].fn \in Marks /\ Group \in Marks
  <2>1. fs[n] \in FrameType
    BY <1>n, <1>1, ElementOfSeq
  <2> QED
    BY <2>1 DEF FrameType, Marks
<1>5. g[n - 1] \in Seq(Marks)
  BY <1>1, <1>3
<1>6. g[n] = Append(g[n - 1], fs[n].fn)
  <2>1. g[n] = (g[n - 1] \o <<fs[n].fn>>) \o Line(Group, 0)
    <3>1. n \in 1..n
      BY <1>1
    <3>2. GroupsIn(fs[n]) = 0
      BY <1>n
    <3> QED
      BY <1>3, <3>1, <3>2
  <2>2. g[n - 1] \o <<fs[n].fn>> \in Seq(Marks)
        /\ g[n - 1] \o <<fs[n].fn>> = Append(g[n - 1], fs[n].fn)
    BY <1>4, <1>5, AppendProperties, AppendIsConcat
  <2> QED
    BY <1>4, <2>1, <2>2, LineNone
<1>7. ButLast(g[n]) = g[n - 1]
  BY <1>4, <1>5, <1>6, ButLastOfAppend
<1>8. PICK h : h = [k \in 0..(n - 1) |-> g[k]]
  OBVIOUS
<1>9. h \in [0..(n - 1) -> Seq(Marks)] /\ \A k \in 0..(n - 1) : h[k] = g[k]
  BY <1>1, <1>3, <1>8
<1>10. ASSUME NEW k \in 1..(n - 1)
       PROVE  h[k] = (h[k - 1] \o <<us[k].fn>>) \o Line(Group, GroupsIn(us[k]))
  <2>1. k - 1 \in 0..(n - 1) /\ k \in 0..(n - 1) /\ k \in 1..n
    BY <1>1
  <2> QED
    BY <1>2, <1>3, <1>9, <2>1
<1>11. h[0] = <<>>
  BY <1>1, <1>3, <1>9
<1>12. TowerOf(h, us)
  BY <1>2, <1>9, <1>10, <1>11 DEF TowerOf
<1> QED
  BY <1>n, <1>u, <1>1, <1>2, <1>7, <1>9, <1>12

\* One message further: the groups of the innermost activity may change.
LEMMA TowerAdvances ==
    ASSUME TypeOK, Reading, NEW g, TowerOf(g, frames)
    PROVE  \E h : /\ TowerOf(h, Advance)
                  /\ h[Len(frames)] = CASE Here.type = "begin" -> Append(g[Len(frames)], Group)
                                        [] Here.type = "end" -> ButLast(g[Len(frames)])
                                        [] OTHER -> g[Len(frames)]
<1>n. PICK n : n = Len(frames)
  OBVIOUS
<1>s. PICK fs : fs = Advance
  OBVIOUS
<1>1. frames # <<>> /\ n \in Nat /\ n # 0 /\ frames \in Seq(FrameType)
  BY <1>n, TopFacts DEF Reading
<1>2. fs \in Seq(FrameType) /\ Len(fs) = n
  BY <1>n, <1>s, <1>1, AdvanceFacts
<1>3. \A k \in 1..(n - 1) : fs[k] = frames[k]
  BY <1>n, <1>s, <1>1 DEF Advance
<1>t. PICK f, at : f = Top.fn /\ at = Top.at
  OBVIOUS
<1>4. /\ fs[n].fn = f /\ fs[n].at = at + 1 /\ frames[n].fn = f /\ frames[n].at = at
      /\ f \in Participant /\ at \in Nat /\ at # 0
  <2>1. Top = frames[n] /\ Top \in FrameType
    BY <1>n, <1>1, TopFacts DEF Top
  <2>2. fs[n] = [Top EXCEPT !.at = @ + 1]
    BY <1>n, <1>s, <1>1, <2>1 DEF Advance
  <2> QED
    BY <1>t, <2>1, <2>2 DEF FrameType
<1>5. /\ activity[f] \in Seq(Message) /\ at \in DOMAIN activity[f]
      /\ Here = activity[f][at]
  BY <1>t, <1>1, <1>4, TopFacts DEF Here, Body, Reading
<1>m. PICK m, m2 : m = GroupsIn(frames[n]) /\ m2 = GroupsIn(fs[n])
  OBVIOUS
<1>6. m = Open(activity[f], at) /\ m2 = Open(activity[f], at + 1) /\ m \in Nat
  BY <1>n, <1>m, <1>1, <1>4, GroupsAreSome DEF GroupsIn
<1>7. m2 = CASE Here.type = "begin" -> m + 1
             [] Here.type = "end" -> m - 1
             [] OTHER -> m
  BY <1>5, <1>6, OpenFacts
<1>8. m2 \in Nat
  <2>1. activity[f] \in Bodies
    BY <1>4 DEF TypeOK
  <2>2. CASE at + 1 \in DOMAIN activity[f]
    BY <1>6, <1>7, <2>1, <2>2, GeneratorAssumption
  <2>3. CASE at + 1 \notin DOMAIN activity[f]
    <3>1. at + 1 = Len(activity[f]) + 1
      BY <1>5, <2>3
    <3> QED
      BY <1>6, <2>1, <3>1, GeneratorAssumption
  <2> QED
    BY <2>2, <2>3
<1>9. /\ g \in [0..n -> Seq(Marks)] /\ g[0] = <<>>
      /\ \A k \in 1..n :
            g[k] = (g[k - 1] \o <<frames[k].fn>>) \o Line(Group, GroupsIn(frames[k]))
  BY <1>n DEF TowerOf
<1>10. f \in Marks /\ Group \in Marks
  BY <1>4 DEF Marks
<1>b. PICK base : base = g[n - 1] \o <<f>>
  OBVIOUS
<1>11. base \in Seq(Marks)
  <2>1. g[n - 1] \in Seq(Marks)
    BY <1>1, <1>9
  <2> QED
    BY <1>b, <1>10, <2>1
<1>12. g[n] = base \o Line(Group, m)
  <2>1. n \in 1..n
    BY <1>1
  <2>2. g[n] = (g[n - 1] \o <<frames[n].fn>>) \o Line(Group, GroupsIn(frames[n]))
    BY <1>9, <2>1
  <2> QED
    BY <1>b, <1>m, <1>4, <2>2
<1>13. base \o Line(Group, m2) \in Seq(Marks)
  BY <1>8, <1>10, <1>11 DEF Line
<1>14. PICK h : h = [g EXCEPT ![n] = base \o Line(Group, m2)]
  OBVIOUS
<1>15. /\ h \in [0..n -> Seq(Marks)] /\ h[n] = base \o Line(Group, m2)
       /\ \A k \in 0..(n - 1) : h[k] = g[k]
  BY <1>1, <1>9, <1>13, <1>14
<1>16. ASSUME NEW k \in 1..n
       PROVE  h[k] = (h[k - 1] \o <<fs[k].fn>>) \o Line(Group, GroupsIn(fs[k]))
  <2>1. CASE k = n
    <3>1. h[n - 1] = g[n - 1]
      BY <1>1, <1>15
    <3> QED
      BY <1>b, <1>m, <1>4, <1>15, <2>1, <3>1
  <2>2. CASE k # n
    <3>1. k \in 1..(n - 1) /\ k - 1 \in 0..(n - 1) /\ k \in 0..(n - 1)
      BY <1>1, <2>2
    <3> QED
      BY <1>3, <1>9, <1>15, <3>1
  <2> QED
    BY <2>1, <2>2
<1>17. h[0] = <<>>
  BY <1>1, <1>9, <1>15
<1>18. TowerOf(h, fs)
  BY <1>2, <1>15, <1>16, <1>17 DEF TowerOf
<1>19. CASE Here.type = "begin"
  <2>1. h[n] = Append(g[n], Group)
    BY <1>6, <1>7, <1>10, <1>11, <1>12, <1>15, <1>19, LineMore
  <2> QED
    BY <1>n, <1>s, <1>18, <1>19, <2>1
<1>20. CASE Here.type = "end"
  <2>1. m = m2 + 1
    BY <1>6, <1>7, <1>20
  <2>2. g[n] = Append(h[n], Group)
    BY <1>8, <1>10, <1>11, <1>12, <1>15, <2>1, LineMore
  <2>3. h[n] = ButLast(g[n])
    <3>1. h[n] \in Seq(Marks)
      BY <1>13, <1>15
    <3>2. ButLast(Append(h[n], Group)) = h[n]
      BY <1>10, <3>1, ButLastOfAppend
    <3> QED
      BY <2>2, <3>2
  <2> QED
    BY <1>n, <1>s, <1>18, <1>20, <2>3
<1>21. CASE Here.type \notin {"begin", "end"}
  <2>1. h[n] = g[n]
    BY <1>7, <1>12, <1>15, <1>21
  <2> QED
    BY <1>n, <1>s, <1>18, <1>21, <2>1
<1> QED
  BY <1>19, <1>20, <1>21

\* A tower for the frames after a step.
LEMMA StackedAfter ==
    ASSUME UNCHANGED activity, NEW fs, frames' = fs, NEW h, TowerOf(h, fs),
           open' = h[Len(fs)]
    PROVE  Stacked'
<1>1. TowerOf(h, frames)'
  BY DEF TowerOf, GroupsIn
<1> QED
  BY <1>1 DEF Stacked

\* A step that reads a message opens or closes at the innermost end.
LEMMA ReadingKeepsStacked ==
    ASSUME IInv, Stacked,
           SkipRepeated \/ SkipAbsent \/ CallVisited \/ CallFolded \/ CallNew
             \/ Return \/ BeginGroup \/ EndGroup
    PROVE  Stacked'
<1>1. Reading
  BY DEF SkipRepeated, SkipAbsent, CallVisited, CallFolded, CallNew, Return,
         BeginGroup, EndGroup, Meet
<1>2. TypeOK /\ frames # <<>>
  BY <1>1 DEF IInv, Reading
<1>3. UNCHANGED activity
  BY DEF SkipRepeated, SkipAbsent, CallVisited, CallFolded, CallNew, Return,
         BeginGroup, EndGroup, given
<1>4. Advance \in Seq(FrameType) /\ Len(Advance) = Len(frames)
  BY <1>1, <1>2, AdvanceFacts
<1>5. Here \in Message
  BY <1>1, <1>2, HereFacts
<1>6. PICK g : TowerOf(g, frames) /\ open = g[Len(frames)]
  BY DEF Stacked
<1>7. PICK h : /\ TowerOf(h, Advance)
               /\ h[Len(frames)] = CASE Here.type = "begin" -> Append(open, Group)
                                     [] Here.type = "end" -> ButLast(open)
                                     [] OTHER -> open
  BY <1>1, <1>2, <1>6, TowerAdvances
<1>8. CASE SkipRepeated \/ SkipAbsent \/ CallVisited \/ CallFolded \/ Return
  <2>1. frames' = Advance /\ open' = open
    BY <1>8 DEF SkipRepeated, SkipAbsent, CallVisited, CallFolded, Return
  <2>2. Here.type \in {"kCall", "kReturn"}
    <3>1. CASE SkipRepeated
      <4>1. Here.static
        BY <3>1 DEF SkipRepeated, Repeated
      <4> QED
        BY <1>5, <4>1 DEF Message
    <3> QED
      BY <1>8, <3>1 DEF SkipAbsent, CallVisited, CallFolded, Return, Meet
  <2>3. open' = h[Len(Advance)]
    BY <1>4, <1>7, <2>1, <2>2
  <2> QED
    BY <1>3, <1>7, <2>1, <2>3, StackedAfter
<1>9. CASE BeginGroup \/ EndGroup
  <2>1. frames' = Advance
    BY <1>9 DEF BeginGroup, EndGroup
  <2>2. open' = h[Len(Advance)]
    BY <1>4, <1>7, <1>9 DEF BeginGroup, EndGroup, Meet
  <2> QED
    BY <1>3, <1>7, <2>1, <2>2, StackedAfter
<1>10. CASE CallNew
  <2>1. PICK f \in Participant : /\ f = Here.to
                                 /\ frames' = Append(Advance, Frame(f))
                                 /\ open' = Append(open, f)
    BY <1>10 DEF CallNew
  <2>2. h[Len(Advance)] = open
    BY <1>4, <1>7, <1>10 DEF CallNew, Meet
  <2>3. activity[f] \in Seq(Message)
    BY <1>2, GeneratorAssumption DEF TypeOK
  <2>4. PICK i : /\ TowerOf(i, Append(Advance, Frame(f)))
                 /\ i[Len(Advance) + 1] = Append(open, f)
    BY <1>4, <1>7, <2>2, <2>3, TowerGrows
  <2>5. Len(Append(Advance, Frame(f))) = Len(Advance) + 1
    <3>1. Frame(f) \in FrameType
      BY DEF Frame, FrameType
    <3> QED
      BY <1>4, <3>1, PushFacts
  <2> QED
    BY <1>3, <2>1, <2>4, <2>5, StackedAfter
<1> QED
  BY <1>8, <1>9, <1>10

LEMMA StackedStays == IInv /\ Stacked /\ [Next]_vars => Stacked'
<1> SUFFICES ASSUME IInv, Stacked, [Next]_vars PROVE Stacked'
  OBVIOUS
<1>1. TypeOK
  BY DEF IInv
<1>2. PICK g : TowerOf(g, frames) /\ open = g[Len(frames)]
  BY DEF Stacked
<1>3. CASE UNCHANGED <<activity, frames, open>>
  BY <1>3 DEF Stacked, TowerOf, GroupsIn
<1>4. SkipRoot \/ FoldRoot \/ UNCHANGED vars => UNCHANGED <<activity, frames, open>>
  BY DEF SkipRoot, FoldRoot, vars, given
<1>5. CASE BeginRoot
  <2>1. PICK f \in Participant : frames' = <<Frame(f)>> /\ open' = Append(open, f)
    BY <1>5 DEF BeginRoot
  <2>2. frames = <<>> /\ UNCHANGED activity
    BY <1>5 DEF BeginRoot, NextRoot, given
  <2>3. <<>> \in Seq(FrameType) /\ Len(<<>>) = 0
    OBVIOUS
  <2>4. activity[f] \in Seq(Message)
    BY <1>1, GeneratorAssumption DEF TypeOK
  <2>5. PICK h : /\ TowerOf(h, Append(<<>>, Frame(f)))
                 /\ h[Len(<<>>) + 1] = Append(g[Len(<<>>)], f)
    BY <1>2, <2>2, <2>3, <2>4, TowerGrows
  <2>6. Append(<<>>, Frame(f)) = <<Frame(f)>> /\ Len(<<Frame(f)>>) = 1
    OBVIOUS
  <2>7. h[1] = open' /\ TowerOf(h, <<Frame(f)>>)
    BY <1>2, <2>1, <2>2, <2>3, <2>5, <2>6
  <2> QED
    BY <2>1, <2>2, <2>6, <2>7, StackedAfter
<1>6. CASE EndActivity
  <2>1. frames # <<>> /\ frames' = ButLast(frames) /\ open' = ButLast(open)
        /\ UNCHANGED activity
    BY <1>6 DEF EndActivity, given
  <2>2. frames \in Seq(FrameType) /\ Len(frames) \in DOMAIN frames
    BY <1>1, <2>1, TopFacts
  <2>3. GroupsIn(frames[Len(frames)]) = 0
    <3>1. PICK f, at : f = Top.fn /\ at = Top.at
      OBVIOUS
    <3>2. /\ f \in Participant /\ at \in Nat /\ Top = frames[Len(frames)]
          /\ at > Len(activity[f]) /\ Len(activity[f]) \in Nat
      BY <1>1, <1>6, <2>1, <3>1, TopFacts DEF Top, EndActivity, Body
    <3>3. at <= Len(activity[f]) + 1
      BY <1>1, <2>2, <3>1, <3>2 DEF TypeOK
    <3>4. at = Len(activity[f]) + 1
      BY <3>2, <3>3
    <3>5. Open(activity[f], at) = 0
      BY <1>1, <3>2, <3>4, GeneratorAssumption DEF TypeOK
    <3> QED
      BY <3>1, <3>2, <3>5 DEF GroupsIn
  <2>4. PICK h : /\ TowerOf(h, ButLast(frames))
                 /\ h[Len(ButLast(frames))] = ButLast(g[Len(frames)])
    BY <1>2, <2>1, <2>2, <2>3, TowerShrinks
  <2> QED
    BY <1>2, <2>1, <2>4, StackedAfter
<1> QED
  BY <1>3, <1>4, <1>5, <1>6, ReadingKeepsStacked DEF Next, Terminated

\* The text is well nested at every moment: every bar that is activated is
\* deactivated, and every group that is begun is ended, inside of what was open
\* before, whatever the functions call and wherever calls are cut short.
THEOREM TextIsNested == Spec => []WellNested
<1>1. Init => Stacked
  <2> SUFFICES ASSUME Init PROVE Stacked
    OBVIOUS
  <2>1. frames = <<>> /\ open = <<>> /\ Len(frames) = 0
    BY DEF Init
  <2>2. TowerOf([k \in 0..0 |-> <<>>], frames)
    BY <2>1 DEF TowerOf
  <2> QED
    BY <2>1, <2>2 DEF Stacked
<1>2. IInv /\ Stacked => WellNested
  <2> SUFFICES ASSUME IInv, Stacked PROVE open = Nesting
    BY DEF WellNested
  <2>1. PICK g : TowerOf(g, frames) /\ open = g[Len(frames)]
    BY DEF Stacked
  <2>2. Len(frames) \in Nat
    BY DEF IInv, TypeOK
  <2> QED
    BY <2>1, <2>2, TowerIsNesting
<1> QED
  BY Invariance, <1>1, <1>2, StackedStays, PTL DEF Spec

================================================================================
