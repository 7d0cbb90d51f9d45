--------------------------- MODULE SequenceVisitor ---------------------------
(***************************************************************************)
(* sequence_diagram::visitor::translation_unit_visitor while it traverses  *)
(* the body of one function: the Traverse* methods of statements and       *)
(* expressions, the call_expression_context they keep, the messages that   *)
(* wait for their expression to be left, and the activities of             *)
(* SequenceModel they fill.                                                *)
(*                                                                         *)
(* The syntax tree is not given: every step opens, continues or closes a   *)
(* node of it, within the grammar of C++. A compound statement is a node   *)
(* of interest only as the branch of an if; elsewhere it is transparent.   *)
(***************************************************************************)
EXTENDS Integers, ActivityMessages

CONSTANTS Kinds,        \* the kinds of node that occur
          MaxNodes,     \* bounds the size of the syntax tree
          MaxLambdas    \* bounds the number of lambda expressions in it

Loops == {"While", "Do", "For"}
Ifs == {"If", "ConstexprIf"}
Messengers == {"Call", "Return", "CoReturn", "CoYield", "CoAwait"}
Exprs == {"Call", "CoYield", "CoAwait", "Conditional", "Lambda"}
AllKinds == Loops \cup Ifs \cup Messengers \cup Exprs \cup {"Try", "Switch"}

ASSUME VisitorAssumption ==
    /\ Kinds \subseteq AllKinds
    /\ MaxNodes \in Nat /\ MaxLambdas \in Nat

Node == 1..MaxNodes
Function == 0                   \* the activity of the function itself ...
Activity == 0..MaxLambdas       \* ... and those of its lambdas

VARIABLES walk,       \* the nodes being traversed, innermost last: the call
                      \* stack of RecursiveASTVisitor with the locals in it
          ctx,        \* call_expression_context_
          backups,    \* the context_backup of each TraverseLambdaExpr()
          messages,   \* the messages of each activity
          nodes,      \* how many nodes have been opened
          lambdas,    \* how many of them are lambda expressions
          seen,       \* history: the messages pushed for an expression
          final       \* TRUE once the diagram was finalized

vars == <<walk, ctx, backups, messages, nodes, lambdas, seen, final>>

TypeOf(kind) ==
    CASE kind = "Call" -> "kCall"
      [] kind = "Return" -> "kReturn"
      [] kind = "CoReturn" -> "kCoReturn"
      [] kind = "CoYield" -> "kCoYield"
      [] kind = "CoAwait" -> "kCoAwait"
      [] kind = "While" -> "kWhile"
      [] kind = "Do" -> "kDo"
      [] kind = "For" -> "kFor"
      [] kind = "Try" -> "kTry"
      [] kind = "Switch" -> "kSwitch"
      [] kind = "Conditional" -> "kConditional"

Msg(type, n) == [type |-> type, at |-> n, included |-> TRUE]

Put(a, m) == [messages EXCEPT ![a] = Append(@, m)]

Ids(frames) == [k \in DOMAIN frames |-> frames[k].id]
--------------------------------------------------------------------------------
(***************************************************************************)
(* call_expression_context                                                 *)
(***************************************************************************)
EmptyContext == [ifs |-> <<>>, elseifs |-> <<>>, loops |-> <<>>, tries |-> <<>>,
                 switches |-> <<>>, conditionals |-> <<>>, calls |-> <<>>,
                 lambdas |-> <<>>]

\* caller_id(): the innermost lambda, else the function.
CallerId == IF ctx.lambdas = <<>> THEN Function ELSE Last(ctx.lambdas)

NoStmt == 0

\* current_ifstmt() and current_elseifstmt().
CurrentIf == IF ctx.ifs = <<>> THEN NoStmt ELSE Last(ctx.ifs)

CurrentElseIf ==
    IF CurrentIf = NoStmt \/ CurrentIf \notin DOMAIN ctx.elseifs THEN NoStmt
    ELSE Last(ctx.elseifs[CurrentIf])

EnterIfStmt(n) == [ctx EXCEPT !.ifs = Append(@, n)]

\* A slip: the else-if is not entered.
EnterElseIfStmt_Forgets(n) == ctx

EnterElseIfStmt(n) ==
    LET if == CurrentIf
        chain == IF if \in DOMAIN ctx.elseifs THEN ctx.elseifs[if] ELSE <<>>
    IN [ctx EXCEPT !.elseifs = [i \in DOMAIN @ \cup {if} |->
                                  IF i = if THEN Append(chain, n) ELSE @[i]]]

\* A slip: the else-ifs outlive their statement.
LeaveIfStmt_KeepsElseIfs == [ctx EXCEPT !.ifs = Front(@)]

\* leave_ifstmt() forgets the else-ifs of the statement with it.
LeaveIfStmt ==
    [ctx EXCEPT !.ifs = Front(@),
                !.elseifs = [i \in DOMAIN @ \ {CurrentIf} |-> @[i]]]

\* leave_trystmt() and leave_switchstmt() pop their stacks only if there is
\* nothing to pop.
LeaveTryStmt == ctx

LeaveSwitchStmt == ctx
--------------------------------------------------------------------------------
(***************************************************************************)
(* The syntax tree                                                         *)
(***************************************************************************)
Top == Last(walk)
IsTop(kinds) == walk # <<>> /\ Top.kind \in kinds

InBranch(f) == f.kind \in Ifs /\ f.part \in {"then", "else"}

\* Whether a node of this kind can come next in the innermost node: an if takes
\* expressions in its condition and one statement in a branch without braces.
Fits(kind) ==
    walk # <<>> =>
      \/ Top.kind \in Loops \cup {"Lambda", "Try"}
      \/ Top.kind = "Switch" /\ (kind \in Exprs \/ Top.part = "arm")
      \/ Top.kind \in Ifs /\ Top.part = "cond" /\ kind \in Exprs
      \/ InBranch(Top) /\ (Top.braces \/ Top.filled = "no")
      \/ /\ Top.kind \in Messengers \cup {"Conditional"} /\ Top.part # "leaving"
         /\ kind \in Exprs

CanOpen(kind) == ~final /\ kind \in Kinds /\ nodes < MaxNodes /\ Fits(kind)

NewFrame(kind, part) ==
    [kind |-> kind, id |-> nodes + 1, caller |-> CallerId, part |-> part,
     elseif |-> FALSE, braces |-> FALSE, bare |-> FALSE, filled |-> "no",
     split |-> 0, pending |-> <<>>, block |-> "", begin |-> 0]

\* A frame whose node begins a block of the activity.
NewBlock(kind, part, type) ==
    [NewFrame(kind, part) EXCEPT !.block = type,
                                 !.begin = Len(messages[CallerId]) + 1]

\* The innermost node has one more child.
Filled == IF walk = <<>> THEN walk ELSE [walk EXCEPT ![Len(walk)].filled = "yes"]

Open(f) == walk' = Append(Filled, f) /\ nodes' = nodes + 1

\* An if without an else leaves the branch it is in dangling.
Close ==
    walk' = IF Len(walk) > 1 /\ Top.kind \in Ifs /\ Top.part = "then"
            THEN [Front(walk) EXCEPT ![Len(walk) - 1].filled = "dangling"]
            ELSE Front(walk)

\* The node about to be opened is a child of the if statement n, by the
\* pointers the code compares: a statement in braces is a child of the braces.
IsChildOf(n) == n # NoStmt /\ walk # <<>> /\ Top.id = n /\ InBranch(Top) /\ ~Top.braces

\* A slip: the block is ended in the activity of the function, also in a lambda.
EndBlock_OfFunction(f) ==
    messages' = Put(Function, Msg(EndOf(f.block), f.id))

\* end_block_message()
EndBlock(f) ==
    messages' = [messages EXCEPT ![f.caller] =
                    FoldOrEnd(@, f.block,
                        Msg(EndOf(f.block), f.id))]
--------------------------------------------------------------------------------
(***************************************************************************)
(* if, else if, else                                                       *)
(***************************************************************************)
\* The statement continues the if statement it is a child of.
IsElseIf == IsChildOf(CurrentIf) \/ IsChildOf(CurrentElseIf)

\* TraverseIfStmt(), up to the children.
EnterIf ==
    /\ CanOpen("If")
    /\ IF IsElseIf
       THEN /\ ctx' = EnterElseIfStmt(nodes + 1)
            /\ messages' = Put(CallerId, Msg("kElseIf", nodes + 1))
            /\ Open([NewFrame("If", "cond") EXCEPT !.elseif = TRUE])
       ELSE /\ ctx' = EnterIfStmt(nodes + 1)
            /\ messages' = Put(CallerId, Msg("kIf", nodes + 1))
            /\ Open(NewBlock("If", "cond", "kIf"))
    /\ UNCHANGED <<backups, lambdas, seen, final>>

\* TraverseIfStmt() of an if constexpr: neither context nor message.
EnterConstexprIf ==
    /\ CanOpen("ConstexprIf")
    /\ Open(NewFrame("ConstexprIf", "cond"))
    /\ UNCHANGED <<ctx, backups, messages, lambdas, seen, final>>

\* TraverseCompoundStmt() of a branch: the else of the current else-if or, if
\* there is none, of the current if begins with kElse.
ElseMessage(stmt) ==
    IF stmt = (IF CurrentElseIf # NoStmt THEN CurrentElseIf ELSE CurrentIf)
    THEN Put(CallerId, Msg("kElse", stmt))
    ELSE messages

EnterThen(braces) ==
    /\ ~final /\ IsTop(Ifs) /\ Top.part = "cond"
    /\ walk' = [walk EXCEPT ![Len(walk)].part = "then", ![Len(walk)].braces = braces,
                            ![Len(walk)].bare = ~braces,
                            ![Len(walk)].filled = "no"]
    /\ UNCHANGED <<ctx, backups, messages, nodes, lambdas, seen, final>>

EnterElse(braces) ==
    /\ ~final /\ IsTop(Ifs) /\ Top.part = "then"
    /\ Top.braces \/ Top.filled = "yes"
    /\ walk' = [walk EXCEPT ![Len(walk)].part = "else", ![Len(walk)].braces = braces,
                            ![Len(walk)].filled = "no",
                            ![Len(walk)].split = Len(messages[Top.caller])]
    /\ messages' = IF braces THEN ElseMessage(Top.id) ELSE messages
    /\ UNCHANGED <<ctx, backups, nodes, lambdas, seen, final>>

\* TraverseIfStmt(), after the children.
LeaveIf ==
    /\ ~final /\ IsTop(Ifs) /\ InBranch(Top)
    /\ Top.braces \/ Top.filled # "no"
    /\ IF Top.kind = "If" /\ ~Top.elseif
       THEN EndBlock(Top) /\ ctx' = LeaveIfStmt
       ELSE UNCHANGED <<messages, ctx>>
    /\ Close
    /\ UNCHANGED <<backups, nodes, lambdas, seen, final>>
--------------------------------------------------------------------------------
(***************************************************************************)
(* Loops, try, switch and the conditional operator                         *)
(***************************************************************************)
OpenBlock(kind, part) ==
    /\ CanOpen(kind)
    /\ Open(NewBlock(kind, part, TypeOf(kind)))
    /\ messages' = Put(CallerId, Msg(TypeOf(kind), nodes + 1))
    /\ UNCHANGED <<backups, lambdas, seen, final>>

CloseBlock ==
    /\ EndBlock(Top) /\ Close
    /\ UNCHANGED <<backups, nodes, lambdas, seen, final>>

\* TraverseWhileStmt(), TraverseDoStmt(), TraverseForStmt() and
\* TraverseCXXForRangeStmt().
EnterLoop(kind) ==
    OpenBlock(kind, "body") /\ ctx' = [ctx EXCEPT !.loops = Append(@, nodes + 1)]

LeaveLoop ==
    ~final /\ IsTop(Loops) /\ CloseBlock /\ ctx' = [ctx EXCEPT !.loops = Front(@)]

\* TraverseCXXTryStmt()
EnterTry ==
    OpenBlock("Try", "body") /\ ctx' = [ctx EXCEPT !.tries = Append(@, nodes + 1)]

LeaveTry ==
    ~final /\ IsTop({"Try"}) /\ Top.part = "handler" /\ CloseBlock /\ ctx' = LeaveTryStmt

\* TraverseCXXCatchStmt()
EnterCatch ==
    /\ ~final /\ IsTop({"Try"}) /\ nodes < MaxNodes
    /\ walk' = [walk EXCEPT ![Len(walk)].part = "handler"]
    /\ nodes' = nodes + 1
    /\ messages' = IF ctx.tries # <<>> THEN Put(CallerId, Msg("kCatch", nodes + 1))
                   ELSE messages
    /\ UNCHANGED <<ctx, backups, lambdas, seen, final>>

\* TraverseSwitchStmt()
EnterSwitch ==
    OpenBlock("Switch", "cond") /\ ctx' = [ctx EXCEPT !.switches = Append(@, nodes + 1)]

LeaveSwitch ==
    ~final /\ IsTop({"Switch"}) /\ CloseBlock /\ ctx' = LeaveSwitchStmt

\* TraverseCaseStmt() and TraverseDefaultStmt().
EnterCase ==
    /\ ~final /\ IsTop({"Switch"}) /\ nodes < MaxNodes
    /\ nodes' = nodes + 1
    /\ walk' = [walk EXCEPT ![Len(walk)].part = "arm"]
    /\ messages' = IF ctx.switches # <<>>
                   THEN [messages EXCEPT ![CallerId] =
                            AddCaseTo(@, Msg("kCase", nodes + 1))]
                   ELSE messages
    /\ UNCHANGED <<ctx, backups, lambdas, seen, final>>

\* TraverseConditionalOperator(), which visits its three operands itself.
EnterConditional ==
    /\ OpenBlock("Conditional", "then")
    /\ ctx' = [ctx EXCEPT !.conditionals = Append(@, nodes + 1)]

EnterConditionalElse ==
    /\ ~final /\ IsTop({"Conditional"}) /\ Top.part = "then"
    /\ walk' = [walk EXCEPT ![Len(walk)].part = "else"]
    /\ messages' = Put(Top.caller, Msg("kConditionalElse", Top.id))
    /\ UNCHANGED <<ctx, backups, nodes, lambdas, seen, final>>

LeaveConditional ==
    /\ ~final /\ IsTop({"Conditional"}) /\ Top.part = "else" /\ CloseBlock
    /\ ctx' = [ctx EXCEPT !.conditionals = Front(@)]
--------------------------------------------------------------------------------
(***************************************************************************)
(* Calls, returns, coroutine expressions and lambdas                       *)
(***************************************************************************)
Pending(type, included) ==
    [from |-> CallerId,
     message |-> [type |-> type, at |-> nodes + 1, included |-> included]]

Keep(p) == seen' = seen \cup {p}

\* TraverseCallExpr(), TraverseReturnStmt() and the like, up to the children:
\* the Visit* method pushes the message to a map, under the expression. There
\* may be none, when a comment, should_include() or the callee says so.
EnterMessenger(kind, recorded, included) ==
    /\ CanOpen(kind)
    /\ kind # "Call" \/ ~recorded => included
    /\ ctx' = [ctx EXCEPT !.calls = Append(@, nodes + 1)]
    /\ LET p == Pending(TypeOf(kind), included)
       IN IF recorded
          THEN Open([NewFrame(kind, "body") EXCEPT !.pending = <<p>>]) /\ Keep(p)
          ELSE Open(NewFrame(kind, "body")) /\ UNCHANGED seen
    /\ UNCHANGED <<backups, messages, lambdas, final>>

\* ... and after them: leave_callexpr().
LeaveMessenger ==
    /\ ~final /\ IsTop(Messengers) /\ Top.part = "body"
    /\ ctx' = [ctx EXCEPT !.calls = Front(@)]
    /\ IF Top.pending = <<>> THEN Close
       ELSE walk' = [walk EXCEPT ![Len(walk)].part = "leaving"]
    /\ UNCHANGED <<backups, messages, nodes, lambdas, seen, final>>

\* A slip: only the first message is taken from the list.
PopMessage_OnlyFirst ==
    /\ ~final /\ IsTop(Messengers) /\ Top.part = "leaving"
    /\ messages' = Put(Head(Top.pending).from, Head(Top.pending).message)
    /\ Close
    /\ UNCHANGED <<ctx, backups, nodes, lambdas, seen, final>>

\* pop_message_to_diagram(): one message at a time, in the order of arrival.
PopMessage ==
    /\ ~final /\ IsTop(Messengers) /\ Top.part = "leaving"
    /\ messages' = Put(Head(Top.pending).from, Head(Top.pending).message)
    /\ IF Len(Top.pending) = 1 THEN Close
       ELSE walk' = [walk EXCEPT ![Len(walk)].pending = Tail(@)]
    /\ UNCHANGED <<ctx, backups, nodes, lambdas, seen, final>>

\* TraverseLambdaExpr() and VisitLambdaExpr(), which leaves a lambda the filters
\* exclude to its surroundings. A lambda that is an argument of a call, and in
\* no other lambda, is assumed to be called, unless the call is a lambda call
\* itself; the message to it joins those of that call.
FrameOf(n) == CHOOSE k \in DOMAIN walk : walk[k].id = n

EnterLambda(included, passed) ==
    /\ CanOpen("Lambda") /\ lambdas < MaxLambdas
    /\ passed => included
    /\ lambdas' = lambdas + 1
    /\ backups' = Append(backups, ctx)
    /\ LET p == Pending("kCall", TRUE)
           call == IF ctx.calls = <<>> THEN 0 ELSE FrameOf(Last(ctx.calls))
       IN IF call # 0 /\ walk[call].kind = "Call" /\ ctx.lambdas = <<>> /\ passed
          THEN /\ walk' = Append([Filled EXCEPT ![call].pending = Append(@, p)],
                                 NewFrame("Lambda", "body"))
               /\ Keep(p)
          ELSE walk' = Append(Filled, NewFrame("Lambda", "body")) /\ UNCHANGED seen
    /\ nodes' = nodes + 1
    /\ ctx' = IF included THEN [ctx EXCEPT !.lambdas = Append(@, lambdas + 1)] ELSE ctx
    /\ UNCHANGED <<messages, final>>

\* The context is put back as it was before the lambda.
LeaveLambda ==
    /\ ~final /\ IsTop({"Lambda"})
    /\ ctx' = Last(backups)
    /\ backups' = Front(backups)
    /\ Close
    /\ UNCHANGED <<messages, nodes, lambdas, seen, final>>

\* The function has been traversed and the diagram is finalized.
Finish ==
    /\ ~final /\ walk = <<>>
    /\ messages' = [a \in Activity |-> Finalized(messages[a])]
    /\ final' = TRUE
    /\ UNCHANGED <<walk, ctx, backups, nodes, lambdas, seen>>
--------------------------------------------------------------------------------
Init ==
    /\ walk = <<>> /\ ctx = EmptyContext /\ backups = <<>>
    /\ messages = [a \in Activity |-> <<>>]
    /\ nodes = 0 /\ lambdas = 0 /\ seen = {} /\ final = FALSE

Next ==
    \/ EnterIf \/ EnterConstexprIf \/ LeaveIf
    \/ \E b \in BOOLEAN : EnterThen(b) \/ EnterElse(b)
    \/ \E kind \in Loops : EnterLoop(kind)
    \/ LeaveLoop
    \/ EnterTry \/ EnterCatch \/ LeaveTry
    \/ EnterSwitch \/ EnterCase \/ LeaveSwitch
    \/ EnterConditional \/ EnterConditionalElse \/ LeaveConditional
    \/ \E kind \in Messengers, r, i \in BOOLEAN : EnterMessenger(kind, r, i)
    \/ LeaveMessenger \/ PopMessage
    \/ \E i, p \in BOOLEAN : EnterLambda(i, p)
    \/ LeaveLambda
    \/ Finish

Spec == Init /\ [][Next]_vars
--------------------------------------------------------------------------------
(***************************************************************************)
(* Properties                                                              *)
(***************************************************************************)
TypeOK ==
    /\ \A k \in DOMAIN walk :
          /\ walk[k].kind \in Kinds /\ walk[k].id \in Node
          /\ walk[k].caller \in Activity
          /\ walk[k].part \in {"cond", "then", "else", "body", "handler", "arm",
                               "leaving"}
    /\ \A f \in {"ifs", "loops", "tries", "switches", "conditionals", "calls"} :
          ctx[f] \in Seq(Node)
    /\ ctx.lambdas \in Seq(Activity)
    /\ nodes \in 0..MaxNodes /\ lambdas \in 0..MaxLambdas
    /\ Len(ctx.lambdas) <= Len(backups) /\ final \in BOOLEAN

\* The nodes of some kinds that are being traversed: an else-if is not entered
\* as an if, and an expression was left when its messages are taken.
Standing(w, kinds) ==
    {w[k].id : k \in {j \in DOMAIN w : w[j].kind \in kinds /\ ~w[j].elseif
                                       /\ w[j].part # "leaving"}}

Ascending(s) == \A j, k \in DOMAIN s : j < k => s[j] < s[k]

IsStackOf(s, ids) == Ascending(s) /\ Range(s) = ids

KindsOn == [ifs |-> {"If"}, loops |-> Loops, conditionals |-> {"Conditional"},
            calls |-> Messengers]

\* A context whose stacks hold what a traversal is in, outermost first.
Follows(c, w) ==
    /\ \A stack \in DOMAIN KindsOn : IsStackOf(c[stack], Standing(w, KindsOn[stack]))
    /\ DOMAIN c.elseifs \subseteq Range(c.ifs)

\* The stacks the Visit* methods consult hold exactly the statements that are
\* being traversed, in the order of their nesting, and the else-ifs belong to
\* them; in particular after a lambda body restored them.
ContextFollowsWalk == Ascending(Ids(walk)) /\ Follows(ctx, walk)

\* Every message pushed for an expression waits under it or is in the activity
\* of its caller, exactly once, whatever blocks were folded in between and
\* whichever lambda the visitor has left; messages of coroutine suspensions
\* may be folded away with the block around them.
IsWork(p) == p.message.type \in {"kCall", "kReturn", "kCoReturn"}

Places(p) ==
    Cardinality({k \in DOMAIN messages[p.from] : messages[p.from][k] = p.message})
        + Cardinality({k \in DOMAIN walk : p \in Range(walk[k].pending)})

EachMessageInOnePlace ==
    ~final => /\ \A p \in seen : Places(p) = 1 \/ (~IsWork(p) /\ Places(p) = 0)
              /\ \A a \in Activity : \A k \in DOMAIN messages[a] :
                    messages[a][k].type \in {"kCall", "kReturn", "kCoReturn"}
                        => [from |-> a, message |-> messages[a][k]] \in seen

\* What is recorded in the else of an if is set apart from what was recorded in
\* its then: the first message after the branch was entered is kElse or kElseIf.
SetApart(f) ==
    LET ms == messages[f.caller]
    IN Len(ms) > f.split => ms[f.split + 1].type \in {"kElse", "kElseIf"}

ElseOf(k) == walk[k].kind = "If" /\ walk[k].part = "else"

\* So it is for an else that is in braces or an if statement of its own, after a
\* then in braces: whatever is nested in the branches, the context knows which if
\* an else belongs to. (An if that is itself the then of another one is taken for
\* its else-if, and the else after it is lost.)
BracedElseIsMarked ==
    \A k \in DOMAIN walk :
        LET proper == walk[k].braces \/ (k < Len(walk) /\ walk[k + 1].kind = "If")
        IN ElseOf(k) /\ ~walk[k].bare /\ proper => SetApart(walk[k])
================================================================================
