--------------------------- MODULE SequenceGenerator ---------------------------
(***************************************************************************)
(* The PlantUML generator of sequence diagrams drawing the `from` diagrams *)
(* of a finished model: generate_from_sequences() and the recursion of     *)
(* generate_activity(), a step per message. (The Mermaid generator has the *)
(* same control.) Of the text, the model keeps what is open in it: the     *)
(* bars of life lines, activated and not yet deactivated, and the groups   *)
(* that alt, loop and group begin.                                         *)
(***************************************************************************)
EXTENDS Integers, Sequences, FiniteSets

CONSTANTS Function,     \* functions, methods and the like
          Participant,  \* those that are participants of the diagram
          Outside,      \* the left border, where a root's return goes
          Group,        \* a group, among the bars
          Bodies,       \* the message lists an activity may have
          StartLists,   \* what find_from_activities() may return
          Folds         \* the values of fold_repeated_activities

\* kCall stands for kCoAwait too, kReturn for kCoReturn and kCoYield, begin for
\* the beginning of every block and end for its end. Separators (kElse, kCase,
\* ...) print a line and nothing else; they are left out.
Message ==
    [type : {"kCall"}, to : Function, static : BOOLEAN]
        \cup [type : {"kReturn", "begin", "end"}, static : {FALSE}]

\* The groups open before message i of a body.
Open(body, i) ==
    Cardinality({j \in 1..(i - 1) : body[j].type = "begin"})
        - Cardinality({j \in 1..(i - 1) : body[j].type = "end"})

\* What SequenceModel says of the messages of a finished activity: every end
\* has its begin. (A participant without an activity has the body <<>> here; a
\* bar with nothing on it is all that is drawn of either.)
ASSUME GeneratorAssumption ==
    /\ Participant \subseteq Function
    /\ Outside \notin Function /\ Group \notin Function
    /\ Bodies \subseteq Seq(Message)
    /\ \A body \in Bodies :
          /\ \A i \in DOMAIN body : Open(body, i) >= 0
          /\ Open(body, Len(body) + 1) = 0
    /\ StartLists \subseteq Seq(Function)
    /\ Folds \subseteq BOOLEAN

VARIABLES activity,     \* activity[f]: the messages of get_activity(f), which is
                        \* asked for participants only
          fold,         \* config().fold_repeated_activities
          starts,       \* start_from: the roots still to be drawn
          frames,       \* the calls of generate_activity(): whose activity, and
                        \* the message that comes next
          visited,      \* visited_participants
          generated,    \* generated_activities_
          statics,      \* already_generated_in_static_context_
          open,         \* what is open in the text, outermost first
          drawn         \* history: the messages drawn, as <<activity, index>>

vars == <<activity, fold, starts, frames, visited, generated, statics, open, drawn>>
given == <<activity, fold>>

Top == frames[Len(frames)]
Body == activity[Top.fn]
Reading == frames # <<>> /\ Top.at <= Len(Body)
Here == Body[Top.at]

ButLast(s) == SubSeq(s, 1, Len(s) - 1)
Members(s) == {s[i] : i \in DOMAIN s}

TypeOK ==
    /\ activity \in [Participant -> Bodies] /\ fold \in BOOLEAN
    /\ starts \in Seq(Function)
    /\ frames \in Seq([fn : Participant, at : Nat \ {0}])
    /\ \A k \in DOMAIN frames : frames[k].at <= Len(activity[frames[k].fn]) + 1
    /\ visited \in Seq(Participant)
    /\ generated \subseteq Participant
    /\ statics \subseteq Participant \X Message
    /\ open \in Seq(Participant \cup {Group})
    /\ drawn \subseteq Participant \X Nat

Init ==
    /\ activity \in [Participant -> Bodies] /\ fold \in Folds
    /\ starts \in StartLists
    /\ frames = <<>> /\ visited = <<>>
    /\ generated = {} /\ statics = {}
    /\ open = <<>> /\ drawn = {}

Advance == [frames EXCEPT ![Len(frames)].at = @ + 1]

Frame(f) == [fn |-> f, at |-> 1]

\* An activity that was drawn before is replaced by a note, if it has messages.
Folded(f) == fold /\ f \in generated /\ activity[f] # <<>>

\* A slip: a static message is the same whoever sends it.
Repeated_FromAnywhere(m) == m.static /\ \E f \in Function : <<f, m>> \in statics

\* operator== of messages does not look at where they are, so two calls of one
\* function to another in static declarations are the same message.
Repeated(m) == m.static /\ <<Top.fn, m>> \in statics

\* The next message is m, of this type, and is not skipped as repeated.
Meet(type) == Reading /\ Here.type = type /\ ~Repeated(Here)

Remember ==
    statics' = IF Here.static THEN statics \cup {<<Top.fn, Here>>} ELSE statics

Draw == drawn' = drawn \cup {<<Top.fn, Top.at>>}

\* The callers on the way to a callee: visited, with the caller pushed.
Callers == Append(visited, Top.fn)

\* A slip: only the direct caller is compared with the callee.
Visited_DirectOnly(f) == f = Top.fn

Visited(f) == f \in Members(Callers)

\* Who a return goes to, set_to(visited.back()). A return of a root has no
\* receiver and is drawn to the left border.
Receiver == IF visited = <<>> THEN Outside ELSE visited[Len(visited)]
--------------------------------------------------------------------------------
(***************************************************************************)
(* Slips the properties have to catch; none of them is part of Next.       *)
(***************************************************************************)
\* continue without the loop's step.
SkipRepeated_Stays ==
    /\ Reading /\ Repeated(Here)
    /\ UNCHANGED vars

\* deactivate only after a recursive generate_activity().
CallVisited_LeavesBar ==
    /\ Meet("kCall") /\ Here.to \in Participant
    /\ Visited(Here.to)
    /\ frames' = Advance /\ open' = Append(open, Here.to) /\ Remember /\ Draw
    /\ UNCHANGED <<given, starts, visited, generated>>

\* The list of callers is not popped.
EndActivity_KeepsCaller ==
    /\ frames # <<>> /\ Top.at > Len(Body)
    /\ frames' = ButLast(frames)
    /\ open' = ButLast(open)
    /\ UNCHANGED <<given, starts, visited, generated, statics, drawn>>

--------------------------------------------------------------------------------
(***************************************************************************)
(* generate_from_sequences(): the roots, one after the other.              *)
(***************************************************************************)
NextRoot(f) == frames = <<>> /\ starts # <<>> /\ f = Head(starts) /\ starts' = Tail(starts)

SkipRoot ==
    /\ \E f \in Function \ Participant : NextRoot(f)
    /\ UNCHANGED <<given, frames, visited, generated, statics, open, drawn>>

\* activate, generate_activity() with nothing but a note, deactivate.
FoldRoot ==
    /\ \E f \in Participant : NextRoot(f) /\ Folded(f)
    /\ UNCHANGED <<given, frames, visited, generated, statics, open, drawn>>

BeginRoot ==
    /\ \E f \in Participant :
          /\ NextRoot(f) /\ ~Folded(f)
          /\ frames' = <<Frame(f)>>
          /\ generated' = generated \cup {f}
          /\ open' = Append(open, f)
    /\ UNCHANGED <<given, visited, statics, drawn>>
--------------------------------------------------------------------------------
(***************************************************************************)
(* generate_activity(): the loop over the messages of an activity.         *)
(***************************************************************************)
\* A message of a static declaration that was drawn, or passed over, before.
SkipRepeated ==
    /\ Reading /\ Repeated(Here)
    /\ frames' = Advance
    /\ UNCHANGED <<given, starts, visited, generated, statics, open, drawn>>

\* The callee is no participant.
SkipAbsent ==
    /\ Meet("kCall") /\ Here.to \notin Participant
    /\ frames' = Advance /\ Remember
    /\ UNCHANGED <<given, starts, visited, generated, open, drawn>>

\* A call to a function that is being drawn: an arrow and an empty bar.
CallVisited ==
    /\ Meet("kCall") /\ Here.to \in Participant
    /\ Visited(Here.to)
    /\ frames' = Advance /\ Remember /\ Draw
    /\ UNCHANGED <<given, starts, visited, generated, open>>

\* A call to a function that was drawn before, when activities are folded: an
\* arrow and a bar with a note.
CallFolded ==
    /\ Meet("kCall") /\ Here.to \in Participant
    /\ ~Visited(Here.to) /\ Folded(Here.to)
    /\ frames' = Advance /\ Remember /\ Draw
    /\ UNCHANGED <<given, starts, visited, generated, open>>

\* Any other call: an arrow, and the callee's activity on its bar.
CallNew ==
    /\ Meet("kCall") /\ Here.to \in Participant
    /\ ~Visited(Here.to) /\ ~Folded(Here.to)
    /\ frames' = Append(Advance, Frame(Here.to))
    /\ visited' = Callers
    /\ generated' = generated \cup {Here.to}
    /\ open' = Append(open, Here.to) /\ Remember /\ Draw
    /\ UNCHANGED <<given, starts>>

\* An arrow to Receiver.
Return ==
    /\ Meet("kReturn")
    /\ frames' = Advance /\ Draw
    /\ UNCHANGED <<given, starts, visited, generated, statics, open>>

BeginGroup ==
    /\ Meet("begin")
    /\ frames' = Advance /\ open' = Append(open, Group) /\ Draw
    /\ UNCHANGED <<given, starts, visited, generated, statics>>

EndGroup ==
    /\ Meet("end")
    /\ frames' = Advance /\ open' = ButLast(open) /\ Draw
    /\ UNCHANGED <<given, starts, visited, generated, statics>>

\* generate_activity() returns: the bar is deactivated and, but for a root, the
\* caller popped.
EndActivity ==
    /\ frames # <<>> /\ Top.at > Len(Body)
    /\ frames' = ButLast(frames)
    /\ open' = ButLast(open)
    /\ visited' = IF Len(frames) = 1 THEN visited ELSE ButLast(visited)
    /\ UNCHANGED <<given, starts, generated, statics, drawn>>

Done == starts = <<>> /\ frames = <<>>

Terminated == Done /\ UNCHANGED vars

Next ==
    \/ SkipRoot \/ FoldRoot \/ BeginRoot
    \/ SkipRepeated \/ SkipAbsent \/ CallVisited \/ CallFolded \/ CallNew
    \/ Return \/ BeginGroup \/ EndGroup \/ EndActivity
    \/ Terminated

Spec == Init /\ [][Next]_vars

\* The generator runs.
FairSpec == Spec /\ WF_vars(Next)
--------------------------------------------------------------------------------
(***************************************************************************)
(* Properties                                                              *)
(***************************************************************************)
\* No function's activity is drawn inside itself, however functions call one
\* another: the recursion is at most as deep as there are participants.
NoActivityInItself ==
    \A j, k \in DOMAIN frames : frames[j].fn = frames[k].fn => j = k

\* visited, which the loop pushes and pops around each call, names the functions
\* below the one being drawn, whichever calls were cut short, folded or skipped;
\* so a return goes to the activity that made the call, also from a second root.
ReturnsGoToCaller ==
    Reading /\ Here.type = "kReturn" =>
        Receiver = IF Len(frames) = 1 THEN Outside ELSE frames[Len(frames) - 1].fn

\* The inductive strengthening of the two above (SequenceGenerator_proofs).
VisitedIsPath ==
    /\ frames = <<>> => visited = <<>>
    /\ frames # <<>> => /\ Len(visited) = Len(frames) - 1
                        /\ \A k \in DOMAIN visited : visited[k] = frames[k].fn

IInv == TypeOK /\ VisitedIsPath /\ NoActivityInItself

\* The text is well nested at every moment: on the bar of each function being
\* drawn lie the groups it is in, then the bar of the function it calls.
Nesting ==
    LET nested[k \in 0..Len(frames)] ==
            IF k = 0 THEN <<>>
            ELSE LET f == frames[k]
                 IN nested[k - 1] \o <<f.fn>>
                        \o [i \in 1..Open(activity[f.fn], f.at) |-> Group]
    IN nested[Len(frames)]

WellNested == open = Nesting

\* When the diagram is done, every message of every function that can be reached
\* from a root has been drawn, or is a call to no participant, or equals a static
\* one that was drawn: neither folding nor the test for recursion nor the
\* messages of static declarations hide a branch for good.
Leads(f, g) ==
    \E i \in DOMAIN activity[f] :
        activity[f][i].type = "kCall" /\ activity[f][i].to = g

Closed(fs) == \A f \in fs : \A g \in Participant : Leads(f, g) => g \in fs

Reachable(roots) ==
    {f \in Participant : \A fs \in SUBSET Participant :
                              roots \subseteq fs /\ Closed(fs) => f \in fs}

Covered(f, i) ==
    \/ <<f, i>> \in drawn
    \/ activity[f][i].type = "kCall" /\ activity[f][i].to \notin Participant
    \/ /\ activity[f][i].static
       /\ \E j \in DOMAIN activity[f] :
             activity[f][j] = activity[f][i] /\ <<f, j>> \in drawn

EverythingIsDrawn ==
    Done => \A f \in Reachable(generated) : \A i \in DOMAIN activity[f] : Covered(f, i)

\* The generator ends, whatever functions call one another.
Finishes == <>Done
================================================================================
