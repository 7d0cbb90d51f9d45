---------------------------- MODULE SequenceModel ----------------------------
(***************************************************************************)
(* The messages of one activity of sequence_diagram::model::diagram: what  *)
(* add_message(), add_block_message(), add_case_stmt_message() and         *)
(* end_block_message() do to them while a function is visited, and what    *)
(* finalize() makes of them before the diagram is generated.               *)
(*                                                                         *)
(* The translation unit visitor, which calls these methods, closes the     *)
(* blocks it opens in the order its recursion dictates; that order is all  *)
(* this module assumes of it (SequenceVisitor models the visitor).         *)
(***************************************************************************)
EXTENDS Integers, ActivityMessages

CONSTANTS Block,         \* the kinds of block statement that occur
          Plain,         \* the other types of message that occur
          Place          \* the source locations messages are generated at

ASSUME ModelAssumption ==
    /\ Block \subseteq BeginTypes
    /\ Plain \subseteq PlainTypes

\* A message; included is FALSE of a call whose callee finalize() drops,
\* because it is no participant, is skipped or does not pass the filters.
Message == [type : BeginTypes \cup EndTypes \cup PlainTypes \cup {"kCase"},
            at : Place, included : BOOLEAN]

Msg(t, p) == [type |-> t, at |-> p, included |-> TRUE]

VARIABLES messages,   \* activity::messages_
          open,       \* the blocks being visited, innermost last: their types
                      \* (locals of the visitor) and where each one begins
                      \* (history: no code reads it)
          final       \* TRUE once finalize() has run

vars == <<messages, open, final>>
--------------------------------------------------------------------------------
TypeOK ==
    /\ messages \in Seq(Message)
    /\ open \in Seq([type : Block, begin : Nat])
    /\ final \in BOOLEAN

Init == messages = <<>> /\ open = <<>> /\ final = FALSE

\* add_message(): a call, a return or one of the separators of a block.
Add(t, p, included) ==
    /\ ~final
    /\ t # "kCall" => included
    /\ messages' = Append(messages, [type |-> t, at |-> p, included |-> included])
    /\ UNCHANGED <<open, final>>

\* add_block_message(): the visitor enters a block statement.
AddBlock(t, p) ==
    /\ ~final
    /\ messages' = Append(messages, Msg(t, p))
    /\ open' = Append(open, [type |-> t, begin |-> Len(messages) + 1])
    /\ UNCHANGED final

\* add_case_stmt_message(): a label inside a switch.
AddCase(p) ==
    /\ ~final
    /\ \E k \in DOMAIN open : open[k].type = "kSwitch"
    /\ messages' = AddCaseTo(messages, Msg("kCase", p))
    /\ UNCHANGED <<open, final>>

\* end_block_message(): the visitor leaves the innermost block.
EndBlock(p) ==
    /\ ~final
    /\ open # <<>>
    /\ messages' = FoldOrEnd(messages, Last(open).type,
                             Msg(EndOf(Last(open).type), p))
    /\ open' = Front(open)
    /\ UNCHANGED final

\* finalize(): every translation unit has been visited.
Finalize ==
    /\ ~final
    /\ open = <<>>
    /\ messages' = Finalized(messages)
    /\ final' = TRUE
    /\ UNCHANGED open

Next ==
    \/ \E p \in Place :
          \/ \E t \in Plain, i \in BOOLEAN : Add(t, p, i)
          \/ \E t \in Block : AddBlock(t, p)
          \/ AddCase(p)
          \/ EndBlock(p)
    \/ Finalize

Spec == Init /\ [][Next]_vars
--------------------------------------------------------------------------------
(***************************************************************************)
(* Properties                                                              *)
(***************************************************************************)
Begins == {open[k].begin : k \in DOMAIN open}

\* The message that began a block is still where it was when the block ends:
\* folding an inner block never erases an outer one, so the search for the
\* beginning of a block finds one before it runs off the vector.
OwnBlockStands ==
    /\ \A k \in DOMAIN open :
          /\ open[k].begin \in DOMAIN messages
          /\ messages[open[k].begin].type = open[k].type
    /\ \A j, k \in DOMAIN open : j < k => open[j].begin < open[k].begin

\* A block that was left and still has its beginning holds work, so a search
\* for the beginning of an enclosing block of the same type cannot mistake the
\* inner beginning for its own.
ClosedBlocksHoldWork ==
    ~final => \A i \in DOMAIN messages :
        messages[i].type \in BeginTypes /\ i \notin Begins
            => \E j \in DOMAIN messages : j > i /\ messages[j].type \in Work

\* Messages read as brackets, on a stack of the types of the open blocks.
Bracket(stack, m) ==
    IF m.type \in BeginTypes THEN Append(stack, m.type)
    ELSE IF m.type \notin EndTypes THEN stack
    ELSE IF /\ stack # <<>> /\ Last(stack) \in BeginTypes
            /\ EndOf(Last(stack)) = m.type
    THEN Front(stack)
    ELSE Append(stack, "unmatched")

\* The blocks that are open after some messages, given those open before.
Opened(before, ms) == FoldLeft(Bracket, before, ms)

\* The messages open exactly the blocks being visited, and after finalize()
\* none: the end of a block closes the block of its own type that was begun
\* last, and no end is left without a beginning.
MessagesAreBracketed ==
    Opened(<<>>, messages) = [k \in DOMAIN open |-> open[k].type]

\* Up to the beginning of a block the messages open the blocks around it, so
\* what is left when the block is erased is bracketed.
BracketsAround ==
    \A k \in DOMAIN open :
        Opened(<<>>, SubSeq(messages, 1, open[k].begin - 1))
            = [j \in 1..(k - 1) |-> open[j].type]

\* The inductive strengthening proved in SequenceModel_proofs. Of the messages
\* that finalize() leaves it says nothing; MessagesAreBracketed does.
IInv ==
    /\ open \in Seq([type : Block, begin : Nat])
    /\ final \in BOOLEAN
    /\ final => open = <<>>
    /\ ~final => messages \in Seq(Message)
    /\ OwnBlockStands
    /\ ClosedBlocksHoldWork

\* While functions are visited no call and no return that was recorded is
\* erased or moved, whatever blocks are folded around it.
WorkStays ==
    \A i \in DOMAIN messages :
        messages[i].type \in Work
            => i \in DOMAIN messages' /\ messages'[i] = messages[i]

RecordedWorkStays == [][~final' => WorkStays]_vars

\* finalize() keeps every included message except the blocks, with all that is
\* in them, that hold no included call and no return: the reference definition
\* pairs begins and ends by depth and looks at each block as a whole.
Depth(ms, i) ==
    Cardinality({j \in 1..i : ms[j].type \in BeginTypes})
        - Cardinality({j \in 1..(i - 1) : ms[j].type \in EndTypes})

\* The end of the block that begins at b is the first end at its depth.
Ends(ms, b, e) ==
    /\ b < e /\ ms[e].type \in EndTypes /\ Depth(ms, e) = Depth(ms, b)
    /\ \A j \in (b + 1)..(e - 1) :
          ms[j].type \in EndTypes => Depth(ms, j) # Depth(ms, b)

Blocks(ms) ==
    {be \in (DOMAIN ms) \X (DOMAIN ms) :
        ms[be[1]].type \in BeginTypes /\ Ends(ms, be[1], be[2])}

Worthwhile(ms, be) ==
    \E w \in be[1]..be[2] : IsIncluded(ms[w]) /\ ms[w].type \in Work

Kept(ms) ==
    {i \in DOMAIN ms :
        /\ IsIncluded(ms[i])
        /\ \A be \in Blocks(ms) : i \in be[1]..be[2] => Worthwhile(ms, be)}

\* The messages of an activity at some of its positions, in their order.
IsSelection(left, ms, positions) ==
    /\ Len(left) = Cardinality(positions)
    /\ \A i \in positions : left[Cardinality({j \in positions : j <= i})] = ms[i]

FinalizePrunes ==
    [][final' /\ ~final => IsSelection(messages', messages, Kept(messages))]_vars
================================================================================
