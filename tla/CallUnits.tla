-------------------------------- MODULE CallUnits --------------------------------
(***************************************************************************)
(* The call graph of a sequence diagram while the translation units are    *)
(* visited one after the other, and the call chains that the diagrams      *)
(* bounded by `to` and `from_to` are made of. Calls are recorded twice:    *)
(* forwards, as the messages of the calling activity, and backwards, as    *)
(* the callers of the called one. Chains are searched backwards.           *)
(***************************************************************************)
EXTENDS Integers, Sequences

CONSTANTS Function,
          Method,    \* of them those always called by the id of their declaration
          Lambda,    \* the operators () of lambda expressions
          Settings,  \* configurations and programs
          MaxChain   \* bounds the paths of calls that chains are compared with

\* A unit is what it declares and defines, in the order of the source.
Item == [fn : Function, def : BOOLEAN]

Setting ==
    [inline : BOOLEAN,                        \* inline_lambda_messages()
     calls : [Function -> SUBSET Function],   \* in the body of a function
     units : Seq(Seq(Item))]

Occurs(s, u, fn, defs) == \E i \in 1..Len(s.units[u]) :
    s.units[u][i].fn = fn /\ s.units[u][i].def \in defs

\* Lambdas that call one another in a cycle, which inlining would follow for ever, are
\* those of which each calls another one.
NoLambdaCycle(calls) ==
    \A set \in SUBSET Lambda : set # {} => \E l \in set : calls[l] \cap set = {}

\* A unit declares what it calls; lambdas call lambdas, but in no cycle.
ASSUME CallsAssumption ==
    /\ Method \subseteq Function /\ Lambda \subseteq Method
    /\ Settings \subseteq Setting /\ MaxChain \in Nat
    /\ \A s \in Settings :
          /\ \A f, g \in Function : g \in s.calls[f] =>
                \A u \in 1..Len(s.units) :
                    Occurs(s, u, f, {TRUE}) => Occurs(s, u, g, BOOLEAN)
          /\ NoLambdaCycle(s.calls)

VARIABLES setting,
          unit,             \* how many visitors were created so far
          at,               \* the next item of the unit
          mapped,           \* the functions whose ids the visitor knows
          activityCallers,  \* activity_callers_: who calls which id of which function
          activities,       \* sequences(): the functions that have an activity
          messages,         \* messages() of an activity: the functions it calls
          callers,          \* callers() of an activity
          pc

visitor == <<unit, at, mapped, activityCallers>>
model == <<activities, messages, callers>>
vars == <<setting, visitor, model, pc>>

Init ==
    /\ setting \in Settings
    /\ unit = 0 /\ at = 1 /\ mapped = {} /\ activityCallers = {}
    /\ activities = {}
    /\ messages = [f \in Function |-> {}] /\ callers = [f \in Function |-> {}]
    /\ pc = "between"

\* create(): a new visitor for the next unit.
BeginUnit ==
    /\ pc = "between" /\ unit < Len(setting.units)
    /\ unit' = unit + 1 /\ at' = 1 /\ mapped' = {} /\ activityCallers' = {}
    /\ pc' = "visit"
    /\ UNCHANGED <<setting, model>>

Here == setting.units[unit][at]

\* VisitFunctionDecl() and VisitCXXMethodDecl(): from now on the function is known.
Visiting(def) ==
    /\ pc = "visit" /\ at <= Len(setting.units[unit]) /\ Here.def = def
    /\ mapped' = mapped \cup {Here.fn}
    /\ at' = at + 1
    /\ UNCHANGED <<setting, unit, callers, pc>>

VisitDeclaration ==
    /\ Visiting(FALSE)
    /\ UNCHANGED <<activityCallers, activities, messages>>

\* A message names its receiver by the id of the model if that is known already, else
\* by the id of the AST, which finalize() resolves.
KeyOf(g, known) == IF g \in known \ Method THEN "uml" ELSE "ast"

\* The calls of a body: ensure_activity_exists() and pop_message_to_diagram().
VisitDefinition ==
    LET f == Here.fn
        calls == setting.calls[f]
    IN  /\ Visiting(TRUE)
        /\ activities' = IF calls = {} THEN activities ELSE activities \cup {f}
        /\ messages' = [messages EXCEPT ![f] = @ \cup calls]
        /\ activityCallers' = activityCallers \cup
               {[to |-> g, key |-> KeyOf(g, mapped'), from |-> f] : g \in calls}

\* add_callers_to_activities(): the callers under one of the keys of a function, and
\* only if it has an activity already. They replace those of earlier units.
Keys(g) == {a.key : a \in {b \in activityCallers : b.to = g}}
CallersBy(g, key) == {a.from : a \in {b \in activityCallers : b.to = g /\ b.key = key}}
WithCallers(first) ==
    [g \in Function |-> IF g \in activities /\ Keys(g) # {}
                        THEN CallersBy(g, first[g]) ELSE callers[g]]

\* inline_lambda_operator_call(): what a function calls, itself or through lambdas, which
\* call others in turn, as far as they have an activity.
Reattached[f \in Function] ==
    (messages[f] \ Lambda) \cup
        UNION {Reattached[l] : l \in messages[f] \cap Lambda \cap activities}

\* (A slip: the calls of a lambda are taken over as they are.)
Inlined_OneLevel(f) ==
    IF f \in Lambda THEN {}
    ELSE (messages[f] \ Lambda) \cup UNION {messages[l] : l \in messages[f] \cap Lambda}

\* inline_lambda_operator_calls(): every activity is made anew, those of lambdas are not.
Inlined(f) == IF f \in Lambda THEN {} ELSE Reattached[f]

Finalize ==
    /\ pc = "visit" /\ at > Len(setting.units[unit])
    /\ \E first \in [Function -> {"ast", "uml"}] :
          /\ \A g \in Function : first[g] \in Keys(g) \/ (Keys(g) = {} /\ first[g] = "ast")
          /\ callers' = IF setting.inline THEN [g \in Function |-> {}]
                        ELSE WithCallers(first)
    /\ IF setting.inline
       THEN /\ activities' = activities \ Lambda
            /\ messages' = [f \in Function |-> Inlined(f)]
       ELSE UNCHANGED <<activities, messages>>
    /\ pc' = "between"
    /\ UNCHANGED <<setting, visitor>>

Next == BeginUnit \/ VisitDeclaration \/ VisitDefinition \/ Finalize

Spec == Init /\ [][Next]_vars

-----------------------------------------------------------------------------
(* get_all_from_to_message_chains(), once every unit was visited. *)

\* A slip: at a recursive call the chain ends, the other callers unseen.
CallersAbove_NoneIfMet(f, visited) ==
    IF f \in activities /\ callers[f] \cap visited = {} THEN callers[f] ELSE {}

\* build_reverse_call_graph(): the callers that are not below f already.
CallersAbove(f, visited) == IF f \in activities THEN callers[f] \ visited ELSE {}

\* find_reverse_message_chains(): the ways up to a function, from functions nobody
\* calls; with each node come the functions below it.
WaysUp[node \in Function \X SUBSET Function] ==
    LET f == node[1]
        visited == node[2] \cup {f}
        next == CallersAbove(f, visited)
    IN  IF next = {} THEN {<<f>>}
        ELSE {Append(way, f) : way \in UNION {WaysUp[<<c, visited>>] : c \in next}}

DirectCallers(to) == {f \in activities : to \in messages[f]}

ActivityChains(to) ==
    {Append(way, to) : way \in UNION {WaysUp[<<f, {}>>] : f \in DirectCallers(to)}}

IsRecorded(call) == call.from \in activities /\ call.to \in messages[call.from]

\* The messages between the activities of a chain; where there is none, none.
MessageChain(chain) ==
    LET upTo[n \in 0..(Len(chain) - 1)] ==
            IF n = 0 THEN <<>>
            ELSE LET call == [from |-> chain[n], to |-> chain[n + 1]]
                 IN  IF IsRecorded(call) THEN Append(upTo[n - 1], call) ELSE upTo[n - 1]
    IN  upTo[Len(chain) - 1]

ToChains(to) == {MessageChain(c) : c \in ActivityChains(to)} \ {<<>>}
FromToChains(from, to) == {mc \in ToChains(to) : mc[1].from = from}

-----------------------------------------------------------------------------
TypeOK ==
    /\ unit \in 0..Len(setting.units) /\ at \in Nat
    /\ mapped \subseteq Function
    /\ activityCallers \subseteq [to : Function, key : {"ast", "uml"}, from : Function]
    /\ activities \subseteq Function
    /\ messages \in [Function -> SUBSET Function]
    /\ callers \in [Function -> SUBSET Function]
    /\ pc \in {"between", "visit"}

Generating == pc = "between" /\ unit = Len(setting.units)

DefinedIn(f) == {u \in 1..Len(setting.units) : Occurs(setting, u, f, {TRUE})}

\* The lambdas that a function calls, and those that these call: the least set with them.
TakesIn(f, set) ==
    /\ setting.calls[f] \cap Lambda \subseteq set
    /\ \A l \in set : DefinedIn(l) # {} => setting.calls[l] \cap Lambda \subseteq set
LambdasOf(f) ==
    {l \in Lambda : \A set \in SUBSET Lambda : TakesIn(f, set) => l \in set}

\* What the program calls, seen as the configuration asks for it: with inlining, all
\* that is called on the way through lambdas, and no lambda.
CalledBy(f) ==
    IF DefinedIn(f) = {} THEN {}
    ELSE IF setting.inline
    THEN (setting.calls[f] \cup
             UNION {setting.calls[l] : l \in {k \in LambdasOf(f) : DefinedIn(k) # {}}})
         \ Lambda
    ELSE setting.calls[f]

\* Sequences of calls, none of them from the same function.
CallPath(mc) ==
    /\ \A i \in 1..Len(mc) : mc[i].to \in CalledBy(mc[i].from)
    /\ \A i \in 1..(Len(mc) - 1) : mc[i].to = mc[i + 1].from
    /\ \A i, j \in 1..Len(mc) : mc[i].from = mc[j].from => i = j

Call == {m \in [from : Function, to : Function] : m.to \in CalledBy(m.from)}
CallPaths == {mc \in UNION {[1..n -> Call] : n \in 1..MaxChain} : CallPath(mc)}
EndsAt(mc, to) == mc[Len(mc)].to = to

\* A chain in a diagram is a way through the program: each message is a call of the
\* source, made by the function the message before it called, the last one calls `to`,
\* and recursion is followed once, whatever was inlined and in whichever units the
\* callers were found.
ChainsAreCallPaths ==
    Generating => \A to \in Function : \A mc \in ToChains(to) : CallPath(mc) /\ EndsAt(mc, to)

\* add_callers_to_activities() keeps all callers of f if one unit has them all, not
\* before the unit that gave f its activity, and names f in one way; unless they are
\* inlined.
UnitsCalling(f) == UNION {DefinedIn(c) : c \in {g \in Function : f \in setting.calls[g]}}
NamedOneWay(f, u) ==
    \/ f \in Method
    \/ \A i, j \in 1..Len(setting.units[u]) :
          LET caller(k) == setting.units[u][k].def
                               /\ f \in setting.calls[setting.units[u][k].fn]
              seen(k) == \E n \in 1..k : setting.units[u][n].fn = f
          IN  caller(i) /\ caller(j) => seen(i) = seen(j)
CallersAreKept(f) ==
    \/ setting.calls[f] = {}
    \/ \A u \in UnitsCalling(f) :
          /\ UnitsCalling(f) = {u}
          /\ \E d \in DefinedIn(f) : d <= u
          /\ NamedOneWay(f, u)

\* A path nobody can prolong at its beginning without calling from a function twice.
Maximal(mc) == \A f \in Function :
    mc[1].from \in CalledBy(f) => \E i \in 1..Len(mc) : mc[i].from = f

\* Where callers are kept the chains to a function are exactly the longest ways there:
\* none is lost to the guard against cycles, a shared caller, the order of the bodies
\* in a unit or the order of units.
ToChainsAreExact ==
    Generating /\ ~setting.inline /\ (\A f \in Function : CallersAreKept(f)) =>
        \A to \in Function :
            ToChains(to) = {mc \in CallPaths : EndsAt(mc, to) /\ Maximal(mc)}

\* docs/sequence_diagrams.md of `from_to`: "will include all call chains, which start
\* and end at the specified locations".
FromToChainsAreComplete ==
    Generating /\ ~setting.inline /\ (\A f \in Function : CallersAreKept(f)) =>
        \A from, to \in Function :
            FromToChains(from, to) = {mc \in CallPaths : EndsAt(mc, to) /\ mc[1].from = from}

=============================================================================
