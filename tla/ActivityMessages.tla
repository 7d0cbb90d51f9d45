--------------------------- MODULE ActivityMessages ---------------------------
(***************************************************************************)
(* The lists of messages of sequence_diagram::model::diagram, and what the *)
(* helpers of diagram.cc compute on one of them: folding an empty block,   *)
(* joining case labels, pruning at the end.                                *)
(***************************************************************************)
EXTENDS Integers, SequencesExt

BeginTypes ==
    {"kIf", "kWhile", "kDo", "kFor", "kTry", "kSwitch", "kConditional"}

EndTypes ==
    {"kIfEnd", "kWhileEnd", "kDoEnd", "kForEnd", "kTryEnd", "kSwitchEnd",
     "kConditionalEnd"}

PlainTypes ==
    {"kCall", "kReturn", "kCoReturn", "kCoYield", "kCoAwait", "kElse",
     "kElseIf", "kCatch", "kConditionalElse"}

\* The type that ends a block: the two arguments of end_block_message().
EndOf(t) ==
    CASE t = "kIf" -> "kIfEnd"
      [] t = "kWhile" -> "kWhileEnd"
      [] t = "kDo" -> "kDoEnd"
      [] t = "kFor" -> "kForEnd"
      [] t = "kTry" -> "kTryEnd"
      [] t = "kSwitch" -> "kSwitchEnd"
      [] t = "kConditional" -> "kConditionalEnd"

\* The messages that make a block worth keeping.
Work == {"kCall", "kReturn", "kCoReturn"}
--------------------------------------------------------------------------------
\* The position where the search of fold_or_end_block_statement(), from the
\* last message back, meets the beginning of a block of type t before it meets
\* any work. A search that meets neither runs off the front of the vector
\* (undefined behaviour); OwnBlockStands shows that it never does.
FoundEmpty(ms, t) ==
    {i \in DOMAIN ms : /\ ms[i].type = t
                       /\ \A j \in DOMAIN ms : j > i => ms[j].type \notin Work \cup {t}}

\* Slips: the search forgets that a return statement is work.
FoldOrEnd_IgnoresReturn(ms, t, m) ==
    LET empty == {i \in DOMAIN ms :
                     /\ ms[i].type = t
                     /\ \A j \in DOMAIN ms : j > i => ms[j].type \notin {"kCall", t}}
    IN IF empty # {} THEN SubSeq(ms, 1, (CHOOSE i \in empty : TRUE) - 1)
       ELSE Append(ms, m)

\* rit.base() instead of (rit + 1).base(): the beginning itself survives.
FoldOrEnd_KeepsBegin(ms, t, m) ==
    IF FoundEmpty(ms, t) # {}
    THEN SubSeq(ms, 1, CHOOSE i \in FoundEmpty(ms, t) : TRUE)
    ELSE Append(ms, m)

\* The block is erased together with the message before it.
FoldOrEnd_ErasesOneMore(ms, t, m) ==
    IF FoundEmpty(ms, t) # {}
    THEN SubSeq(ms, 1, (CHOOSE i \in FoundEmpty(ms, t) : TRUE) - 2)
    ELSE Append(ms, m)

\* The block is ended and never folded.
FoldOrEnd_NeverFolds(ms, t, m) == Append(ms, m)

\* fold_or_end_block_statement(): an empty block is erased from its beginning,
\* another one is ended.
FoldOrEnd(ms, t, m) ==
    IF FoundEmpty(ms, t) # {}
    THEN SubSeq(ms, 1, (CHOOSE i \in FoundEmpty(ms, t) : TRUE) - 1)
    ELSE Append(ms, m)

\* add_case_stmt_message(): a label right after another label is dropped.
AddCaseTo(ms, m) == IF Last(ms).type = "kCase" THEN ms ELSE Append(ms, m)

\* Some message is of one of the types.
Holds(ms, types) == \E i \in DOMAIN ms : ms[i].type \in types

\* A slip: a block that ends replaces what was collected below it.
CollapseStep_Overwrites(stack, m) ==
    IF m.type \in BeginTypes THEN Append(stack, <<m>>)
    ELSE LET block == Append(Last(stack), m)
             below == Front(stack)
         IN IF m.type \notin EndTypes THEN Append(below, block)
            ELSE IF Holds(block, Work)
            THEN [below EXCEPT ![Len(below)] = block]
            ELSE below

\* finalize(), second half: blocks are collected on a stack of message lists;
\* a block that ends joins the list below it if it holds any work.
CollapseStep(stack, m) ==
    IF m.type \in BeginTypes THEN Append(stack, <<m>>)
    ELSE LET block == Append(Last(stack), m)
             below == Front(stack)
         IN IF m.type \notin EndTypes THEN Append(below, block)
            ELSE IF Holds(block, Work)
            THEN [below EXCEPT ![Len(below)] = @ \o block]
            ELSE below

Collapsed(ms) == FoldLeft(CollapseStep, << <<>> >>, ms)

IsIncluded(m) == m.type = "kCall" => m.included

\* finalize(), first half: the messages are copied, except excluded calls.
TakeIncluded(kept, m) == IF IsIncluded(m) THEN Append(kept, m) ELSE kept

Included(ms) == FoldLeft(TakeIncluded, <<>>, ms)

\* finalize() of one activity.
Finalized(ms) == Collapsed(Included(ms))[1]
================================================================================
