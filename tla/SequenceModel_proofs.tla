------------------------- MODULE SequenceModel_proofs -------------------------
(***************************************************************************)
(* For every choice of block types and of the length of an activity: the   *)
(* search that folds an empty block stops at the beginning of that very    *)
(* block, and so never erases a call or a return.                          *)
(*                                                                         *)
(* IInv is inductive because its two parts need each other. The beginning  *)
(* of the innermost block stands (OwnBlockStands); a beginning of the same *)
(* type behind it belongs to a block that was closed, and is followed by   *)
(* work (ClosedBlocksHoldWork), which stops the search with the verdict    *)
(* "not empty" first. Whatever is erased therefore starts at the innermost *)
(* open block, where no other open block begins and no work follows.       *)
(*                                                                         *)
(* The second half shows that begins and ends of blocks match, while they  *)
(* are recorded and in what finalize() leaves. The property is a fold, and *)
(* finalize() is two more; what FoldLeft computes for one element more is  *)
(* shown by induction, as the absence of a least counterexample. An empty  *)
(* block that is erased takes the messages back to where it began, so      *)
(* BracketInv also knows which blocks were open there (BracketsAround).    *)
(* finalize() keeps a stack of lists of messages: the lowest is balanced,  *)
(* each other one opens exactly the block it collects (Levels).            *)
(*                                                                         *)
(* The last part shows which messages finalize() keeps. After the first k  *)
(* of them every open block has a list of its own, which starts with the   *)
(* message that began it, and a message is in some list if no block that   *)
(* has ended takes it away (Collects). Blocks are told apart by their      *)
(* depth, as in the reference definition: a block is open while no end     *)
(* came at its depth (Openings), and then the next end closes the          *)
(* innermost one. The lists hold positions in ascending order (Traces), so *)
(* the last one holds all that is listed from the begin of its block on;   *)
(* therefore it holds work exactly if the block is worthwhile.             *)
(***************************************************************************)
EXTENDS SequenceModel, SequenceTheorems, FiniteSetTheorems, WellFoundedInduction, TLAPS

LEMMA AppendFacts ==
    ASSUME NEW S, NEW s \in Seq(S), NEW e \in S
    PROVE  /\ Append(s, e) \in Seq(S)
           /\ DOMAIN s = 1..Len(s) /\ Len(s) \in Nat
           /\ DOMAIN Append(s, e) = 1..(Len(s) + 1)
           /\ \A i \in 1..Len(s) : Append(s, e)[i] = s[i]
           /\ Append(s, e)[Len(s) + 1] = e
  OBVIOUS

LEMMA PrefixFacts ==
    ASSUME NEW S, NEW s \in Seq(S), NEW n \in Nat, n <= Len(s)
    PROVE  /\ SubSeq(s, 1, n) \in Seq(S)
           /\ DOMAIN s = 1..Len(s) /\ Len(s) \in Nat
           /\ DOMAIN SubSeq(s, 1, n) = 1..n
           /\ \A i \in 1..n : SubSeq(s, 1, n)[i] = s[i]
  OBVIOUS

LEMMA FrontFacts ==
    ASSUME NEW S, NEW s \in Seq(S), s # <<>>
    PROVE  /\ Front(s) \in Seq(S)
           /\ DOMAIN s = 1..Len(s) /\ Len(s) \in Nat \ {0}
           /\ DOMAIN Front(s) = 1..(Len(s) - 1)
           /\ \A i \in 1..(Len(s) - 1) : Front(s)[i] = s[i]
           /\ Last(s) = s[Len(s)] /\ Last(s) \in S
  BY DEF Front, Last

\* The three kinds of message type do not overlap.
LEMMA TypesDiffer ==
    /\ Work \cap BeginTypes = {} /\ PlainTypes \cap BeginTypes = {}
    /\ "kCase" \notin BeginTypes
    /\ \A t \in BeginTypes : EndOf(t) \in EndTypes /\ EndOf(t) \notin BeginTypes
  BY DEF Work, BeginTypes, PlainTypes, EndTypes, EndOf

LEMMA InitIInv == Init => IInv
<1> SUFFICES ASSUME Init PROVE IInv
  OBVIOUS
<1>1. /\ messages = <<>> /\ open = <<>> /\ final = FALSE
      /\ DOMAIN messages = {} /\ DOMAIN open = {}
  BY DEF Init
<1>2. OwnBlockStands /\ ClosedBlocksHoldWork
  BY <1>1 DEF OwnBlockStands, ClosedBlocksHoldWork
<1>3. messages \in Seq(Message) /\ open \in Seq([type : Block, begin : Nat])
  BY <1>1, EmptySeq
<1> QED
  BY <1>1, <1>2, <1>3 DEF IInv

\* Appending anything but the beginning of a block preserves the invariant.
LEMMA AppendPlain ==
    ASSUME IInv, ~final, NEW m \in Message, m.type \notin BeginTypes,
           messages' = Append(messages, m), UNCHANGED <<open, final>>
    PROVE  IInv'
<1>1. messages \in Seq(Message)
  BY DEF IInv
<1>2. /\ messages' \in Seq(Message)
      /\ DOMAIN messages = 1..Len(messages) /\ Len(messages) \in Nat
      /\ DOMAIN messages' = 1..(Len(messages) + 1)
      /\ \A i \in 1..Len(messages) : messages'[i] = messages[i]
      /\ messages'[Len(messages) + 1] = m
  BY <1>1, AppendFacts
<1>3. OwnBlockStands'
  BY <1>2 DEF IInv, OwnBlockStands
<1>4. ClosedBlocksHoldWork'
  BY <1>2 DEF IInv, ClosedBlocksHoldWork, Begins
<1> QED
  BY <1>2, <1>3, <1>4 DEF IInv

\* Entering a block: its beginning is the last message, and it is open.
LEMMA AddBlockStep ==
    ASSUME IInv, NEW p \in Place, NEW t \in Block, AddBlock(t, p)
    PROVE  IInv'
<1> DEFINE b == [type |-> t, begin |-> Len(messages) + 1]
<1>1. messages \in Seq(Message) /\ open \in Seq([type : Block, begin : Nat])
  BY DEF IInv, AddBlock
<1>2. Msg(t, p) \in Message /\ t \in BeginTypes /\ Msg(t, p).type = t
  BY ModelAssumption DEF Msg, Message
<1>3. /\ messages' \in Seq(Message)
      /\ DOMAIN messages = 1..Len(messages) /\ Len(messages) \in Nat
      /\ DOMAIN messages' = 1..(Len(messages) + 1)
      /\ \A i \in 1..Len(messages) : messages'[i] = messages[i]
      /\ messages'[Len(messages) + 1].type = t
  BY <1>1, <1>2, AppendFacts DEF AddBlock
<1>4. b \in [type : Block, begin : Nat]
  BY <1>3
<1>5. /\ open' \in Seq([type : Block, begin : Nat])
      /\ DOMAIN open = 1..Len(open) /\ Len(open) \in Nat
      /\ DOMAIN open' = 1..(Len(open) + 1)
      /\ \A k \in 1..Len(open) : open'[k] = open[k]
      /\ open'[Len(open) + 1] = b
  BY <1>1, <1>4, AppendFacts DEF AddBlock
<1>6. OwnBlockStands'
  <2>1. \A k \in 1..Len(open) : /\ open[k].begin \in 1..Len(messages)
                               /\ messages[open[k].begin].type = open[k].type
    BY <1>3, <1>5 DEF IInv, OwnBlockStands
  <2>2. \A k \in DOMAIN open' : /\ open'[k].begin \in DOMAIN messages'
                                /\ messages'[open'[k].begin].type = open'[k].type
    <3>1. SUFFICES ASSUME NEW k \in DOMAIN open'
                   PROVE  /\ open'[k].begin \in DOMAIN messages'
                          /\ messages'[open'[k].begin].type = open'[k].type
      OBVIOUS
    <3>2. CASE k \in 1..Len(open)
      BY <1>3, <1>5, <2>1, <3>2
    <3>3. CASE k = Len(open) + 1
      BY <1>3, <1>5, <3>3
    <3> QED
      BY <1>5, <3>2, <3>3
  <2>3. \A j, k \in DOMAIN open' : j < k => open'[j].begin < open'[k].begin
    <3>1. SUFFICES ASSUME NEW j \in DOMAIN open', NEW k \in DOMAIN open', j < k
                   PROVE  open'[j].begin < open'[k].begin
      OBVIOUS
    <3>2. j \in 1..Len(open) /\ open'[j] = open[j] /\ open[j].begin \in 1..Len(messages)
      BY <1>5, <2>1, <3>1
    <3>3. CASE k \in 1..Len(open)
      BY <1>5, <3>1, <3>2, <3>3 DEF IInv, OwnBlockStands
    <3>4. CASE k = Len(open) + 1
      <4>1. open'[k].begin = Len(messages) + 1
        BY <1>5, <3>4
      <4> QED
        BY <1>3, <3>2, <4>1
    <3> QED
      BY <1>5, <3>3, <3>4
  <2> QED
    BY <2>2, <2>3 DEF OwnBlockStands
<1>7. ClosedBlocksHoldWork'
  <2>1. ASSUME NEW i \in DOMAIN messages', messages'[i].type \in BeginTypes,
               i \notin Begins'
        PROVE  \E j \in DOMAIN messages' : j > i /\ messages'[j].type \in Work
    <3>1. i # Len(messages) + 1
      <4>1. Len(open) + 1 \in DOMAIN open' /\ open'[Len(open) + 1].begin = Len(messages) + 1
        BY <1>5
      <4> QED
        BY <2>1, <4>1 DEF Begins
    <3>2. i \in DOMAIN messages /\ messages[i].type \in BeginTypes
      BY <1>3, <2>1, <3>1
    <3>3. i \notin Begins
      <4>1. SUFFICES ASSUME NEW k \in DOMAIN open, open[k].begin = i PROVE FALSE
        BY DEF Begins
      <4>2. k \in DOMAIN open' /\ open'[k].begin = i
        BY <1>5, <4>1
      <4> QED
        BY <2>1, <4>2 DEF Begins
    <3>4. PICK j \in DOMAIN messages : j > i /\ messages[j].type \in Work
      BY <3>2, <3>3 DEF IInv, ClosedBlocksHoldWork, AddBlock
    <3> QED
      BY <1>3, <3>4
  <2> QED
    BY <2>1 DEF ClosedBlocksHoldWork
<1> QED
  BY <1>3, <1>5, <1>6, <1>7 DEF IInv, AddBlock

\* What the search finds when the innermost block ends: its own beginning if
\* the block is empty; if it finds nothing, the block holds work.
LEMMA SearchFinds ==
    ASSUME IInv, ~final, open # <<>>
    PROVE  LET b == Last(open)
               found == FoundEmpty(messages, b.type)
           IN /\ b.begin \in DOMAIN messages
              /\ b.type \in BeginTypes
              /\ found # {} => found = {b.begin}
              /\ found = {} => \E j \in DOMAIN messages :
                                  j > b.begin /\ messages[j].type \in Work
<1> DEFINE b == Last(open)
           found == FoundEmpty(messages, b.type)
<1>1. /\ messages \in Seq(Message) /\ open \in Seq([type : Block, begin : Nat])
      /\ DOMAIN messages = 1..Len(messages) /\ Len(messages) \in Nat
  BY DEF IInv
<1>2. /\ DOMAIN open = 1..Len(open) /\ Len(open) \in Nat \ {0}
      /\ b = open[Len(open)] /\ b \in [type : Block, begin : Nat]
  BY <1>1, FrontFacts
<1>3. /\ b.begin \in DOMAIN messages /\ messages[b.begin].type = b.type
      /\ b.type \in BeginTypes
  BY <1>2, ModelAssumption DEF IInv, OwnBlockStands
<1>4. \A k \in DOMAIN open : open[k].begin <= b.begin
  <2>1. SUFFICES ASSUME NEW k \in DOMAIN open PROVE open[k].begin <= b.begin
    OBVIOUS
  <2>2. open[k].begin \in Nat /\ b.begin \in Nat
    <3> HIDE DEF b, found
    <3>1. k \in 1..Len(open)
      BY <1>2, <2>1
    <3>2. open[k] \in [type : Block, begin : Nat]
      BY ONLY <1>1, <3>1, ElementOfSeq
    <3> QED
      BY <1>2, <3>2
  <2>3. CASE k = Len(open)
    BY <1>2, <2>2, <2>3
  <2>4. CASE k < Len(open)
    <3>1. Len(open) \in DOMAIN open
      BY <1>2
    <3>2. open[k].begin < open[Len(open)].begin
      BY <2>1, <2>4, <3>1 DEF IInv, OwnBlockStands
    <3> QED
      BY <1>2, <2>2, <3>2
  <2> QED
    BY <1>2, <2>1, <2>3, <2>4
<1>5. ASSUME NEW i \in DOMAIN messages, i > b.begin, messages[i].type \in BeginTypes
      PROVE  \E j \in DOMAIN messages : j > i /\ messages[j].type \in Work
  <2>1. i \notin Begins
    BY <1>1, <1>2, <1>3, <1>4, <1>5 DEF Begins
  <2> QED
    BY <1>5, <2>1 DEF IInv, ClosedBlocksHoldWork
<1>6. found \subseteq {b.begin}
  <2>1. SUFFICES ASSUME NEW i \in found PROVE i = b.begin
    OBVIOUS
  <2>2. /\ i \in DOMAIN messages /\ messages[i].type = b.type
        /\ \A j \in DOMAIN messages : j > i => messages[j].type \notin Work \cup {b.type}
    BY <2>1 DEF FoundEmpty
  <2>3. ~(i > b.begin)
    BY <1>3, <1>5, <2>2
  <2>4. ~(b.begin > i)
    BY <1>3, <2>2
  <2> QED
    BY <1>1, <1>3, <2>2, <2>3, <2>4
<1>7. ASSUME found = {}
      PROVE  \E j \in DOMAIN messages : j > b.begin /\ messages[j].type \in Work
  <2>1. PICK j \in DOMAIN messages : j > b.begin /\ messages[j].type \in Work \cup {b.type}
    BY <1>3, <1>7 DEF FoundEmpty
  <2>2. CASE messages[j].type \in Work
    BY <2>1, <2>2
  <2>3. CASE messages[j].type = b.type
    <3>1. PICK l \in DOMAIN messages : l > j /\ messages[l].type \in Work
      BY <1>3, <1>5, <2>1, <2>3
    <3> QED
      BY <1>1, <1>3, <2>1, <3>1
  <2> QED
    BY <2>1, <2>2, <2>3
<1> QED
  BY <1>3, <1>6, <1>7

\* Leaving a block, empty or not.
LEMMA EndBlockStep ==
    ASSUME IInv, NEW p \in Place, EndBlock(p)
    PROVE  IInv' /\ WorkStays
<1> DEFINE b == Last(open)
           found == FoundEmpty(messages, b.type)
<1>1. /\ ~final /\ open # <<>> /\ messages \in Seq(Message)
      /\ open \in Seq([type : Block, begin : Nat])
      /\ open' = Front(open) /\ UNCHANGED final
  BY DEF EndBlock, IInv
<1>2. /\ b.begin \in DOMAIN messages /\ b.type \in BeginTypes
      /\ found # {} => found = {b.begin}
      /\ found = {} => \E j \in DOMAIN messages :
                          j > b.begin /\ messages[j].type \in Work
  BY <1>1, SearchFinds
<1>3. /\ open' \in Seq([type : Block, begin : Nat])
      /\ DOMAIN open = 1..Len(open) /\ Len(open) \in Nat \ {0}
      /\ DOMAIN open' = 1..(Len(open) - 1)
      /\ \A k \in 1..(Len(open) - 1) : open'[k] = open[k]
      /\ b = open[Len(open)]
  BY <1>1, FrontFacts
<1>4. \A k \in DOMAIN open' : /\ open'[k] = open[k] /\ k \in DOMAIN open
                              /\ open[k].begin < b.begin
                              /\ open[k].begin \in DOMAIN messages
                              /\ messages[open[k].begin].type = open[k].type
  <2>1. SUFFICES ASSUME NEW k \in DOMAIN open'
                 PROVE  /\ open'[k] = open[k] /\ k \in DOMAIN open
                        /\ open[k].begin < b.begin
                        /\ open[k].begin \in DOMAIN messages
                        /\ messages[open[k].begin].type = open[k].type
    OBVIOUS
  <2>2. k \in DOMAIN open /\ Len(open) \in DOMAIN open /\ k < Len(open)
    BY <1>3, <2>1
  <2>3. open[k].begin < open[Len(open)].begin
    BY <2>2 DEF IInv, OwnBlockStands
  <2> QED
    BY <1>3, <2>1, <2>2, <2>3 DEF IInv, OwnBlockStands
<1>5. \A j, k \in DOMAIN open' : j < k => open'[j].begin < open'[k].begin
  BY <1>4 DEF IInv, OwnBlockStands
<1>6. Begins \subseteq Begins' \cup {b.begin}
  <2>1. SUFFICES ASSUME NEW k \in DOMAIN open PROVE open[k].begin \in Begins' \cup {b.begin}
    BY DEF Begins
  <2>2. CASE k = Len(open)
    BY <1>3, <2>2
  <2>3. CASE k # Len(open)
    <3>1. k \in DOMAIN open' /\ open'[k] = open[k]
      BY <1>3, <2>3
    <3> QED
      BY <3>1 DEF Begins
  <2> QED
    BY <2>2, <2>3
<1>7. CASE found # {}
  <2>1. messages' = SubSeq(messages, 1, b.begin - 1)
    <3>1. messages' = SubSeq(messages, 1, (CHOOSE i \in found : TRUE) - 1)
      BY <1>7 DEF EndBlock, FoldOrEnd
    <3>2. (CHOOSE i \in found : TRUE) \in found
      BY <1>7
    <3> QED
      BY <1>2, <1>7, <3>1, <3>2
  <2>2. b.begin \in 1..Len(messages) /\ Len(messages) \in Nat
    BY <1>1, <1>2
  <2>3. /\ messages' \in Seq(Message)
        /\ DOMAIN messages = 1..Len(messages)
        /\ DOMAIN messages' = 1..(b.begin - 1)
        /\ \A i \in 1..(b.begin - 1) : messages'[i] = messages[i]
    BY <1>1, <2>1, <2>2, PrefixFacts
  <2>4. \A j \in DOMAIN messages : j > b.begin => messages[j].type \notin Work
    BY <1>2, <1>7 DEF FoundEmpty
  <2>5. messages[b.begin].type \notin Work
    BY <1>2, <1>7, TypesDiffer DEF FoundEmpty
  <2>6. \A j \in DOMAIN messages : messages[j].type \in Work => j \in DOMAIN messages'
    BY <2>2, <2>3, <2>4, <2>5
  <2>7. OwnBlockStands'
    BY <1>4, <1>5, <2>2, <2>3 DEF OwnBlockStands
  <2>8. ClosedBlocksHoldWork'
    <3>1. ASSUME NEW i \in DOMAIN messages', messages'[i].type \in BeginTypes,
                 i \notin Begins'
          PROVE  \E j \in DOMAIN messages' : j > i /\ messages'[j].type \in Work
      <4>1. i \in DOMAIN messages /\ messages[i].type \in BeginTypes /\ i # b.begin
        BY <2>2, <2>3, <3>1
      <4>2. i \notin Begins
        BY <1>6, <3>1, <4>1
      <4>3. PICK j \in DOMAIN messages : j > i /\ messages[j].type \in Work
        BY <1>1, <4>1, <4>2 DEF IInv, ClosedBlocksHoldWork
      <4> QED
        BY <2>3, <2>6, <4>3
    <3> QED
      BY <3>1 DEF ClosedBlocksHoldWork
  <2> QED
    BY <1>1, <1>3, <2>3, <2>6, <2>7, <2>8 DEF IInv, WorkStays
<1>8. CASE found = {}
  <2> DEFINE m == Msg(EndOf(b.type), p)
  <2>1. messages' = Append(messages, m)
    BY <1>8 DEF EndBlock, FoldOrEnd
  <2>2. m \in Message /\ m.type \notin BeginTypes
    BY <1>2, TypesDiffer DEF Msg, Message
  <2>3. /\ messages' \in Seq(Message)
        /\ DOMAIN messages = 1..Len(messages) /\ Len(messages) \in Nat
        /\ DOMAIN messages' = 1..(Len(messages) + 1)
        /\ \A i \in 1..Len(messages) : messages'[i] = messages[i]
        /\ messages'[Len(messages) + 1] = m
    BY <1>1, <2>1, <2>2, AppendFacts
  <2>4. OwnBlockStands'
    BY <1>4, <1>5, <2>3 DEF OwnBlockStands
  <2>5. ClosedBlocksHoldWork'
    <3>1. ASSUME NEW i \in DOMAIN messages', messages'[i].type \in BeginTypes,
                 i \notin Begins'
          PROVE  \E j \in DOMAIN messages' : j > i /\ messages'[j].type \in Work
      <4>1. i \in DOMAIN messages /\ messages[i].type \in BeginTypes
        BY <2>2, <2>3, <3>1
      <4>2. \E j \in DOMAIN messages : j > i /\ messages[j].type \in Work
        <5>1. CASE i = b.begin
          BY <1>2, <1>8, <5>1
        <5>2. CASE i # b.begin
          BY <1>1, <1>6, <3>1, <4>1, <5>2 DEF IInv, ClosedBlocksHoldWork
        <5> QED
          BY <5>1, <5>2
      <4> QED
        BY <2>3, <4>2
    <3> QED
      BY <3>1 DEF ClosedBlocksHoldWork
  <2> QED
    BY <1>1, <1>3, <2>3, <2>4, <2>5 DEF IInv, WorkStays
<1> QED
  BY <1>7, <1>8

\* Every step preserves the invariant, and until finalize() keeps the work.
LEMMA NextIInv == IInv /\ [Next]_vars => IInv' /\ (~final' => WorkStays)
<1> SUFFICES ASSUME IInv, [Next]_vars PROVE IInv' /\ (~final' => WorkStays)
  OBVIOUS
<1>1. ASSUME NEW p \in Place, NEW t \in Plain, NEW i \in BOOLEAN, Add(t, p, i)
      PROVE  IInv' /\ WorkStays
  <2> DEFINE m == [type |-> t, at |-> p, included |-> i]
  <2>1. m \in Message /\ m.type \notin BeginTypes
    BY ModelAssumption, TypesDiffer DEF Message
  <2>2. messages \in Seq(Message) /\ ~final /\ messages' = Append(messages, m)
    BY <1>1 DEF IInv, Add
  <2>3. IInv'
    BY <1>1, <2>1, <2>2, AppendPlain DEF Add
  <2>4. WorkStays
    BY <2>1, <2>2, AppendFacts DEF WorkStays
  <2> QED
    BY <2>3, <2>4
<1>2. ASSUME NEW p \in Place, NEW t \in Block, AddBlock(t, p)
      PROVE  IInv' /\ WorkStays
  <2>1. messages \in Seq(Message) /\ messages' = Append(messages, Msg(t, p))
    BY <1>2 DEF IInv, AddBlock
  <2>2. Msg(t, p) \in Message
    BY ModelAssumption DEF Msg, Message
  <2>3. WorkStays
    BY <2>1, <2>2, AppendFacts DEF WorkStays
  <2> QED
    BY <1>2, <2>3, AddBlockStep
<1>3. ASSUME NEW p \in Place, AddCase(p)
      PROVE  IInv' /\ WorkStays
  <2> DEFINE m == Msg("kCase", p)
  <2>1. m \in Message /\ m.type \notin BeginTypes
    BY TypesDiffer DEF Msg, Message
  <2>2. messages \in Seq(Message) /\ ~final /\ UNCHANGED <<open, final>>
    BY <1>3 DEF IInv, AddCase
  <2>3. CASE messages' = Append(messages, m)
    <3>1. IInv'
      BY <2>1, <2>2, <2>3, AppendPlain
    <3>2. WorkStays
      BY <2>1, <2>2, <2>3, AppendFacts DEF WorkStays
    <3> QED
      BY <3>1, <3>2
  <2>4. CASE messages' = messages
    BY <2>2, <2>4 DEF IInv, OwnBlockStands, ClosedBlocksHoldWork, Begins, WorkStays
  <2> QED
    BY <1>3, <2>3, <2>4 DEF AddCase, AddCaseTo
<1>4. ASSUME NEW p \in Place, EndBlock(p)
      PROVE  IInv' /\ WorkStays
  BY <1>4, EndBlockStep
<1>5. CASE Finalize
  BY <1>5 DEF Finalize, IInv, OwnBlockStands, ClosedBlocksHoldWork
<1>6. CASE UNCHANGED vars
  BY <1>6 DEF vars, IInv, OwnBlockStands, ClosedBlocksHoldWork, Begins, WorkStays
<1> QED
  BY <1>1, <1>2, <1>3, <1>4, <1>5, <1>6 DEF Next

\* The inductive invariant holds of every behaviour.
THEOREM Invariance == Spec => []IInv
<1>1. Init => IInv
  BY InitIInv
<1>2. IInv /\ [Next]_vars => IInv'
  BY NextIInv
<1> QED
  BY <1>1, <1>2, PTL DEF Spec

\* The beginning of every block being visited stands where it was recorded:
\* the backward search of fold_or_end_block_statement() never leaves the vector.
THEOREM SearchStaysInside == Spec => []OwnBlockStands
<1>1. IInv => OwnBlockStands
  BY DEF IInv
<1> QED
  BY <1>1, Invariance, PTL

\* No block that was closed and kept is empty when the visitor leaves it.
THEOREM NoEmptyBlockIsKept == Spec => []ClosedBlocksHoldWork
<1>1. IInv => ClosedBlocksHoldWork
  BY DEF IInv
<1> QED
  BY <1>1, Invariance, PTL

\* Folding blocks never costs the diagram a call or a return.
THEOREM NoWorkIsErased == Spec => RecordedWorkStays
<1>1. IInv /\ [Next]_vars => [~final' => WorkStays]_vars
  BY NextIInv
<1> QED
  BY <1>1, Invariance, PTL DEF Spec, RecordedWorkStays
--------------------------------------------------------------------------------
(***************************************************************************)
(* Folds                                                                   *)
(***************************************************************************)
\* The relation by which the library says that numbers are well-founded.
LEMMA LessIsWellFounded ==
    \E less : /\ IsWellFoundedOn(less, Nat)
              /\ \A m, n \in Nat : m < n => <<m, n>> \in less
<1>1. \A m, n \in Nat : m < n => <<m, n>> \in OpToRel(<, Nat)
  BY DEF OpToRel
<1> QED
  BY <1>1, NatLessThanWellFounded, Zenon

\* Every set of numbers that is not empty has a least one.
LEMMA LeastNumber ==
    ASSUME NEW T, T \subseteq Nat, T # {}
    PROVE  \E n \in T : \A m \in T : n <= m
<1>1. PICK less : /\ IsWellFoundedOn(less, Nat)
                  /\ \A m, n \in Nat : m < n => <<m, n>> \in less
  BY LessIsWellFounded
<1>2. IsWellFoundedOn(less, Nat)
  BY <1>1
<1>3. \A m, n \in Nat : m < n => <<m, n>> \in less
  BY <1>1
<1>4. PICK n \in T : \A m \in T : ~(<<m, n>> \in less)
  BY <1>2, WFMin
<1>5. \A m \in T : ~(m < n)
  BY <1>3, <1>4
<1> QED
  BY <1>4, <1>5


\* What is true of zero, and of a number if it is of the one before, holds.
LEMMA Upwards ==
    ASSUME NEW S, NEW n \in Nat, 0 \in S, \A k \in 0..(n - 1) : k \in S => k + 1 \in S
    PROVE  \A k \in 0..n : k \in S
<1> DEFINE T == {k \in 0..n : k \notin S}
<1>1. T \subseteq Nat
  OBVIOUS
<1>2. ASSUME T # {} PROVE FALSE
  <2>1. PICK k \in T : \A j \in T : k <= j
    BY <1>1, <1>2, LeastNumber
  <2>2. k # 0
    OBVIOUS
  <2>3. k - 1 \in 0..(n - 1) /\ k - 1 \notin T
    BY <2>1, <2>2
  <2> QED
    BY <2>3
<1> QED
  BY <1>2

\* FoldLeft goes through the numbers of a set from the greatest down.
Greatest(t) == CHOOSE x \in t : \A y \in t : x >= y

\* The three steps this module folds, by name: what is true of all three is
\* shown once.
Step(w, x, m) ==
    IF w = "bracket" THEN Bracket(x, m)
    ELSE IF w = "include" THEN TakeIncluded(x, m)
    ELSE CollapseStep(x, m)

\* The equation of a fold from b over s: h has the value of each subset of the
\* positions, which FoldLeft takes from a function it chooses.
Of(w, b, s, h, t) ==
    IF t = {} THEN b ELSE Step(w, h[t \ {Greatest(t)}], s[Greatest(t)])

IsFold(w, b, s, n, h) ==
    h = [t \in SUBSET (1..n) |-> Of(w, b, s, h, t)]

\* A greatest element is the greatest.
LEMMA GreatestIs ==
    ASSUME NEW t, NEW x \in t, t \subseteq Nat, \A y \in t : x >= y
    PROVE  Greatest(t) = x
<1>1. Greatest(t) \in t /\ \A y \in t : Greatest(t) >= y
  BY DEF Greatest
<1>2. /\ Greatest(t) \in Nat /\ x \in Nat
      /\ Greatest(t) >= x /\ x >= Greatest(t)
  BY <1>1
<1> QED
  BY ONLY <1>2

\* A set of positions that is not empty has one.
LEMMA GreatestIn ==
    ASSUME NEW m \in Nat, NEW t \in SUBSET (1..m), t # {}
    PROVE  Greatest(t) \in t
<1> DEFINE T == {m - x : x \in t}
<1>1. T \subseteq Nat /\ T # {} /\ t \subseteq Nat
  <2>1. \A x \in t : x \in Nat /\ m - x \in Nat
    OBVIOUS
  <2>2. PICK x \in t : TRUE
    OBVIOUS
  <2>3. m - x \in T
    BY <2>2
  <2>4. \A l \in T : l \in Nat
    BY <2>1
  <2> QED
    BY <2>1, <2>3, <2>4
<1>2. PICK l \in T : \A j \in T : l <= j
  BY <1>1, LeastNumber
<1>3. PICK x \in t : l = m - x
  BY <1>2
<1>4. \A y \in t : m - y \in T
  OBVIOUS
<1>5. ASSUME NEW y \in t PROVE x >= y
  <2>1. m - x <= m - y
    BY <1>2, <1>3, <1>4
  <2>2. x \in Nat /\ y \in Nat
    BY <1>1
  <2> QED
    BY <2>1, <2>2
<1>6. Greatest(t) = x
  BY <1>1, <1>5, GreatestIs
<1> QED
  BY <1>6

\* There is a function to choose: one more position extends it.
LEMMA FoldExists ==
    ASSUME NEW w, NEW b, NEW s, NEW n \in Nat
    PROVE  \E h : IsFold(w, b, s, n, h)
<1> DEFINE S == {m \in 0..n : \E h : IsFold(w, b, s, m, h)}
<1>1. 0 \in S
  <2> DEFINE h == [t \in SUBSET (1..0) |-> b]
  <2>1. \A t \in SUBSET (1..0) : h[t] = Of(w, b, s, h, t)
    BY DEF Of
  <2>2. IsFold(w, b, s, 0, h)
    BY <2>1 DEF IsFold
  <2> QED
    BY <2>2
<1>2. ASSUME NEW m \in 0..(n - 1), m \in S PROVE m + 1 \in S
  <2>1. PICK h : IsFold(w, b, s, m, h)
    BY <1>2
  <2> DEFINE k == [t \in SUBSET (1..(m + 1)) |->
                      IF m + 1 \in t THEN Step(w, h[t \ {m + 1}], s[m + 1]) ELSE h[t]]
  <2>2. \A t \in SUBSET (1..m) : h[t] = Of(w, b, s, h, t)
    BY <2>1 DEF IsFold
  <2>3. \A t \in SUBSET (1..m) : t \in SUBSET (1..(m + 1)) /\ m + 1 \notin t
    BY <1>2
  <2>4. \A t \in SUBSET (1..m) : k[t] = h[t]
    BY <2>3
  <2>5. ASSUME NEW t \in SUBSET (1..(m + 1)) PROVE k[t] = Of(w, b, s, k, t)
    <3>1. CASE m + 1 \in t
      <4>1. t \subseteq Nat /\ \A y \in t : m + 1 >= y
        BY <1>2
      <4>2. Greatest(t) = m + 1 /\ t # {}
        BY <3>1, <4>1, GreatestIs
      <4>3. t \ {m + 1} \in SUBSET (1..m)
        BY <1>2
      <4>4. k[t] = Step(w, h[t \ {m + 1}], s[m + 1])
        BY <3>1
      <4>5. k[t \ {m + 1}] = h[t \ {m + 1}]
        BY <2>4, <4>3
      <4> HIDE DEF k
      <4> QED
        BY <4>2, <4>4, <4>5 DEF Of
    <3>2. CASE m + 1 \notin t
      <4>1. t \in SUBSET (1..m)
        BY <1>2, <3>2
      <4>2. k[t] = h[t] /\ h[t] = Of(w, b, s, h, t)
        BY <2>2, <2>4, <4>1
      <4>3. CASE t = {}
        BY <4>2, <4>3 DEF Of
      <4>4. CASE t # {}
        <5>1. t \ {Greatest(t)} \in SUBSET (1..m)
          BY <4>1
        <5>2. k[t \ {Greatest(t)}] = h[t \ {Greatest(t)}]
          BY <2>4, <5>1
        <5> HIDE DEF k
        <5> QED
          BY <4>2, <4>4, <5>2 DEF Of
      <4> QED
        BY <4>3, <4>4
    <3> QED
      BY <3>1, <3>2
  <2>6. k = [t \in SUBSET (1..(m + 1)) |-> Of(w, b, s, k, t)]
    <3>1. k = [t \in SUBSET (1..(m + 1)) |-> k[t]]
      OBVIOUS
    <3> HIDE DEF k
    <3> QED
      BY <2>5, <3>1
  <2>7. \E g : IsFold(w, b, s, m + 1, g)
    <3> HIDE DEF k
    <3> QED
      BY <2>6 DEF IsFold
  <2> QED
    BY <1>2, <2>7
<1> HIDE DEF S
<1>3. \A m \in 0..n : m \in S
  BY <1>1, <1>2, Upwards
<1>4. n \in S
  BY <1>3
<1> QED
  BY <1>4 DEF S

\* Taken at the positions up to i, the fold goes one step at a time.
Chained(w, b, s, n, h) ==
    /\ h[1..0] = b
    /\ \A i \in 1..n : h[1..i] = Step(w, h[1..(i - 1)], s[i])

\* It does.
LEMMA FoldChain ==
    ASSUME NEW w, NEW b, NEW s, NEW n \in Nat, NEW h, IsFold(w, b, s, n, h)
    PROVE  Chained(w, b, s, n, h)
<1>1. \A t \in SUBSET (1..n) : h[t] = Of(w, b, s, h, t)
  BY DEF IsFold
<1>2. h[1..0] = b
  <2>1. 1..0 = {} /\ 1..0 \in SUBSET (1..n)
    OBVIOUS
  <2> QED
    BY <1>1, <2>1 DEF Of
<1>3. ASSUME NEW i \in 1..n PROVE h[1..i] = Step(w, h[1..(i - 1)], s[i])
  <2>1. /\ 1..i \in SUBSET (1..n) /\ i \in 1..i /\ 1..i # {} /\ 1..i \subseteq Nat
        /\ \A y \in 1..i : i >= y
    OBVIOUS
  <2>2. Greatest(1..i) = i
    BY ONLY <2>1, GreatestIs
  <2>3. (1..i) \ {i} = 1..(i - 1)
    OBVIOUS
  <2>4. h[1..i] = Of(w, b, s, h, 1..i)
    BY <1>1, <2>1
  <2> QED
    BY <2>1, <2>2, <2>3, <2>4 DEF Of
<1> QED
  BY <1>2, <1>3 DEF Chained

\* Two folds over sequences with a common beginning agree up to there.
LEMMA FoldsAgree ==
    ASSUME NEW w, NEW b, NEW s, NEW r, NEW n \in Nat, NEW h, NEW k,
           IsFold(w, b, s, n, h), IsFold(w, b, r, n + 1, k),
           \A i \in 1..n : r[i] = s[i]
    PROVE  k[1..(n + 1)] = Step(w, h[1..n], r[n + 1])
<1> DEFINE S == {i \in 0..n : h[1..i] = k[1..i]}
<1>1. /\ h[1..0] = b
      /\ \A i \in 1..n : h[1..i] = Step(w, h[1..(i - 1)], s[i])
  <2>1. Chained(w, b, s, n, h)
    BY FoldChain
  <2> QED
    BY <2>1 DEF Chained
<1>2. /\ k[1..0] = b
      /\ \A i \in 1..(n + 1) : k[1..i] = Step(w, k[1..(i - 1)], r[i])
  <2>1. n + 1 \in Nat
    OBVIOUS
  <2>2. Chained(w, b, r, n + 1, k)
    BY <2>1, FoldChain
  <2> QED
    BY <2>2 DEF Chained
<1>3. 0 \in S
  BY <1>1, <1>2
<1>4. ASSUME NEW i \in 0..(n - 1), i \in S PROVE i + 1 \in S
  <2>1. i + 1 \in 1..n /\ i + 1 \in 1..(n + 1) /\ (i + 1) - 1 = i
    OBVIOUS
  <2>2. h[1..(i + 1)] = Step(w, h[1..i], s[i + 1])
    BY <1>1, <2>1
  <2>3. k[1..(i + 1)] = Step(w, k[1..i], r[i + 1])
    BY <1>2, <2>1
  <2> QED
    BY <1>4, <2>1, <2>2, <2>3
<1> HIDE DEF S
<1>5. \A i \in 0..n : i \in S
  BY <1>3, <1>4, Upwards
<1>6. h[1..n] = k[1..n]
  BY <1>5 DEF S
<1>7. n + 1 \in 1..(n + 1) /\ (n + 1) - 1 = n
  OBVIOUS
<1> QED
  BY <1>2, <1>6, <1>7


\* x is what a fold of step w from b leaves of s.
Folds(w, b, s, x) == \E h : IsFold(w, b, s, Len(s), h) /\ x = h[1..Len(s)]

\* The fold of the empty sequence.
LEMMA FoldOfNothing ==
    ASSUME NEW w, NEW b, NEW x, Folds(w, b, <<>>, x)
    PROVE  x = b
<1>1. Len(<<>>) = 0 /\ 0 \in Nat
  OBVIOUS
<1>2. PICK h : IsFold(w, b, <<>>, 0, h) /\ x = h[1..0]
  BY <1>1 DEF Folds
<1>3. Chained(w, b, <<>>, 0, h)
  BY <1>1, <1>2, FoldChain
<1> QED
  BY <1>2, <1>3 DEF Chained

\* The fold of a sequence with one more element.
LEMMA FoldOfOneMore ==
    ASSUME NEW S, NEW s \in Seq(S), NEW e \in S, NEW w, NEW b, NEW x, NEW y,
           Folds(w, b, s, x), Folds(w, b, Append(s, e), y)
    PROVE  y = Step(w, x, e)
<1> DEFINE n == Len(s)
           r == Append(s, e)
<1>1. /\ n \in Nat /\ Len(r) = n + 1 /\ r[n + 1] = e
      /\ \A i \in 1..n : r[i] = s[i]
  OBVIOUS
<1>2. PICK h : IsFold(w, b, s, n, h) /\ x = h[1..n]
  BY DEF Folds
<1>3. PICK k : IsFold(w, b, r, n + 1, k) /\ y = k[1..(n + 1)]
  BY <1>1 DEF Folds
<1> HIDE DEF r, n
<1>4. k[1..(n + 1)] = Step(w, h[1..n], r[n + 1])
  BY <1>1, <1>2, <1>3, FoldsAgree
<1> QED
  BY <1>1, <1>2, <1>3, <1>4

\* The three folds of the model, by the definition of FoldLeft, and what each
\* gives for the empty sequence and for one element more.
LEMMA BracketIsFold ==
    ASSUME NEW S, NEW s \in Seq(S), NEW b
    PROVE  Folds("bracket", b, s, Opened(b, s))
<1> DEFINE n == Len(s)
           Value(h, t) == IF t = {} THEN b
                          ELSE Bracket(h[t \ {Greatest(t)}], s[Greatest(t)])
           iter == CHOOSE h : h = [t \in SUBSET (1..n) |-> Value(h, t)]
<1>1. DOMAIN s = 1..n /\ n \in Nat
  OBVIOUS
<1>2. Opened(b, s) = iter[1..n]
  BY <1>1 DEF Opened, FoldLeft, MapThenFoldSet, Max, Greatest
<1>3. \A h, t : Value(h, t) = Of("bracket", b, s, h, t)
  BY DEF Of, Step
<1> HIDE DEF Value
<1>4. \E h : h = [t \in SUBSET (1..n) |-> Value(h, t)]
  <2>1. PICK h : IsFold("bracket", b, s, n, h)
    BY <1>1, FoldExists
  <2>2. h = [t \in SUBSET (1..n) |-> Value(h, t)]
    BY <1>3, <2>1 DEF IsFold
  <2> QED
    BY <2>2
<1>5. iter = [t \in SUBSET (1..n) |-> Value(iter, t)]
  BY <1>4
<1> HIDE DEF iter
<1>6. IsFold("bracket", b, s, n, iter)
  BY <1>3, <1>5 DEF IsFold
<1> QED
  BY <1>2, <1>6 DEF Folds

LEMMA BracketNone ==
    ASSUME NEW b
    PROVE  Opened(b, <<>>) = b
<1>1. Folds("bracket", b, <<>>, Opened(b, <<>>))
  BY EmptySeq, BracketIsFold
<1> QED
  BY <1>1, FoldOfNothing

LEMMA BracketMore ==
    ASSUME NEW S, NEW s \in Seq(S), NEW e \in S, NEW b
    PROVE  Opened(b, Append(s, e)) = Bracket(Opened(b, s), e)
<1>1. Append(s, e) \in Seq(S)
  OBVIOUS
<1>2. /\ Folds("bracket", b, s, Opened(b, s))
      /\ Folds("bracket", b, Append(s, e), Opened(b, Append(s, e)))
  BY <1>1, BracketIsFold
<1>3. Opened(b, Append(s, e)) = Step("bracket", Opened(b, s), e)
  BY <1>2, FoldOfOneMore
<1> QED
  BY <1>3 DEF Step


LEMMA IncludedIsFold ==
    ASSUME NEW S, NEW s \in Seq(S)
    PROVE  Folds("include", <<>>, s, Included(s))
<1> DEFINE n == Len(s)
           Value(h, t) == IF t = {} THEN <<>>
                          ELSE TakeIncluded(h[t \ {Greatest(t)}], s[Greatest(t)])
           iter == CHOOSE h : h = [t \in SUBSET (1..n) |-> Value(h, t)]
<1>1. DOMAIN s = 1..n /\ n \in Nat
  OBVIOUS
<1>2. Included(s) = iter[1..n]
  BY <1>1 DEF Included, FoldLeft, MapThenFoldSet, Max, Greatest
<1>3. \A h, t : Value(h, t) = Of("include", <<>>, s, h, t)
  BY DEF Of, Step
<1> HIDE DEF Value
<1>4. \E h : h = [t \in SUBSET (1..n) |-> Value(h, t)]
  <2>1. PICK h : IsFold("include", <<>>, s, n, h)
    BY <1>1, FoldExists
  <2>2. h = [t \in SUBSET (1..n) |-> Value(h, t)]
    BY <1>3, <2>1 DEF IsFold
  <2> QED
    BY <2>2
<1>5. iter = [t \in SUBSET (1..n) |-> Value(iter, t)]
  BY <1>4
<1> HIDE DEF iter
<1>6. IsFold("include", <<>>, s, n, iter)
  BY <1>3, <1>5 DEF IsFold
<1> QED
  BY <1>2, <1>6 DEF Folds

LEMMA IncludedNone ==
    Included(<<>>) = <<>>
<1>1. Folds("include", <<>>, <<>>, Included(<<>>))
  BY EmptySeq, IncludedIsFold
<1> QED
  BY <1>1, FoldOfNothing

LEMMA IncludedMore ==
    ASSUME NEW S, NEW s \in Seq(S), NEW e \in S
    PROVE  Included(Append(s, e)) = TakeIncluded(Included(s), e)
<1>1. Append(s, e) \in Seq(S)
  OBVIOUS
<1>2. /\ Folds("include", <<>>, s, Included(s))
      /\ Folds("include", <<>>, Append(s, e), Included(Append(s, e)))
  BY <1>1, IncludedIsFold
<1>3. Included(Append(s, e)) = Step("include", Included(s), e)
  BY <1>2, FoldOfOneMore
<1> QED
  BY <1>3 DEF Step


LEMMA CollapseIsFold ==
    ASSUME NEW S, NEW s \in Seq(S)
    PROVE  Folds("collapse", << <<>> >>, s, Collapsed(s))
<1> DEFINE n == Len(s)
           Value(h, t) == IF t = {} THEN << <<>> >>
                          ELSE CollapseStep(h[t \ {Greatest(t)}], s[Greatest(t)])
           iter == CHOOSE h : h = [t \in SUBSET (1..n) |-> Value(h, t)]
<1>1. DOMAIN s = 1..n /\ n \in Nat
  OBVIOUS
<1>2. Collapsed(s) = iter[1..n]
  BY <1>1 DEF Collapsed, FoldLeft, MapThenFoldSet, Max, Greatest
<1>3. \A h, t : Value(h, t) = Of("collapse", << <<>> >>, s, h, t)
  BY DEF Of, Step
<1> HIDE DEF Value
<1>4. \E h : h = [t \in SUBSET (1..n) |-> Value(h, t)]
  <2>1. PICK h : IsFold("collapse", << <<>> >>, s, n, h)
    BY <1>1, FoldExists
  <2>2. h = [t \in SUBSET (1..n) |-> Value(h, t)]
    BY <1>3, <2>1 DEF IsFold
  <2> QED
    BY <2>2
<1>5. iter = [t \in SUBSET (1..n) |-> Value(iter, t)]
  BY <1>4
<1> HIDE DEF iter
<1>6. IsFold("collapse", << <<>> >>, s, n, iter)
  BY <1>3, <1>5 DEF IsFold
<1> QED
  BY <1>2, <1>6 DEF Folds

LEMMA CollapseNone ==
    Collapsed(<<>>) = << <<>> >>
<1>1. Folds("collapse", << <<>> >>, <<>>, Collapsed(<<>>))
  BY EmptySeq, CollapseIsFold
<1> QED
  BY <1>1, FoldOfNothing

LEMMA CollapseMore ==
    ASSUME NEW S, NEW s \in Seq(S), NEW e \in S
    PROVE  Collapsed(Append(s, e)) = CollapseStep(Collapsed(s), e)
<1>1. Append(s, e) \in Seq(S)
  OBVIOUS
<1>2. /\ Folds("collapse", << <<>> >>, s, Collapsed(s))
      /\ Folds("collapse", << <<>> >>, Append(s, e), Collapsed(Append(s, e)))
  BY <1>1, CollapseIsFold
<1>3. Collapsed(Append(s, e)) = Step("collapse", Collapsed(s), e)
  BY <1>2, FoldOfOneMore
<1> QED
  BY <1>3 DEF Step
--------------------------------------------------------------------------------
(***************************************************************************)
(* Brackets                                                                *)
(***************************************************************************)
\* What holds of the empty sequence, and of a longer one if it holds of all but
\* its last element, holds of every sequence.
LEMMA Lengthening ==
    ASSUME NEW S, NEW P, <<>> \in P,
           \A s \in Seq(S), e \in S : s \in P => Append(s, e) \in P
    PROVE  \A s \in Seq(S) : s \in P
<1> SUFFICES ASSUME NEW s \in Seq(S) PROVE s \in P
  OBVIOUS
<1> DEFINE n == Len(s)
           T == {i \in 0..n : SubSeq(s, 1, i) \in P}
<1>1. n \in Nat /\ SubSeq(s, 1, 0) = <<>> /\ SubSeq(s, 1, n) = s
  OBVIOUS
<1>2. 0 \in T
  <2>1. SubSeq(s, 1, 0) \in P
    BY <1>1, Zenon
  <2>2. 0 \in 0..n
    BY <1>1
  <2> QED
    BY ONLY <2>1, <2>2
<1>3. ASSUME NEW i \in 0..(n - 1), i \in T PROVE i + 1 \in T
  <2>1. SubSeq(s, 1, i) \in Seq(S) /\ s[i + 1] \in S
    OBVIOUS
  <2>2. SubSeq(s, 1, i + 1) = Append(SubSeq(s, 1, i), s[i + 1])
    OBVIOUS
  <2>3. SubSeq(s, 1, i + 1) \in P
    BY <1>3, <2>1, <2>2
  <2>4. i + 1 \in 0..n
    OBVIOUS
  <2> QED
    BY <2>3, <2>4
<1> HIDE DEF T
<1>4. \A i \in 0..n : i \in T
  BY <1>1, <1>2, <1>3, Upwards
<1>5. n \in T
  BY <1>1, <1>4
<1> QED
  BY <1>1, <1>5 DEF T

Stack == Seq(BeginTypes)

\* Messages that leave open what was open, and messages that begin one block
\* more and leave it open.
Balanced(ms) == \A p \in Stack : Opened(p, ms) = p
OpensOne(ms, t) == \A p \in Stack : Opened(p, ms) = Append(p, t)
\* Blocks are opened one after the other.
LEMMA OpenedByConcat ==
    ASSUME NEW a, NEW s \in Seq(Message), NEW t \in Seq(Message)
    PROVE  Opened(a, s \o t) = Opened(Opened(a, s), t)
<1> DEFINE P == {u \in Seq(Message) : Opened(a, s \o u) = Opened(Opened(a, s), u)}
<1>1. <<>> \in P
  <2>1. s \o <<>> = s /\ <<>> \in Seq(Message)
    OBVIOUS
  <2>2. Opened(Opened(a, s), <<>>) = Opened(a, s)
    BY BracketNone
  <2> QED
    BY <2>1, <2>2
<1>2. ASSUME NEW u \in Seq(Message), NEW e \in Message, u \in P
      PROVE  Append(u, e) \in P
  <2>1. /\ s \o Append(u, e) = Append(s \o u, e)
        /\ s \o u \in Seq(Message) /\ Append(u, e) \in Seq(Message)
    OBVIOUS
  <2>2. Opened(a, Append(s \o u, e)) = Bracket(Opened(a, s \o u), e)
    BY <2>1, BracketMore, Zenon
  <2>3. Opened(Opened(a, s), Append(u, e)) = Bracket(Opened(Opened(a, s), u), e)
    BY BracketMore, Zenon
  <2>4. Opened(a, s \o u) = Opened(Opened(a, s), u)
    BY <1>2
  <2> QED
    BY <2>1, <2>2, <2>3, <2>4
<1> HIDE DEF P
<1>3. \A u \in Seq(Message) : u \in P
  BY <1>1, <1>2, Lengthening
<1> QED
  BY <1>3 DEF P

\* The ends of blocks are messages of their own kind.
LEMMA BlocksMatch ==
    /\ PlainTypes \cap EndTypes = {} /\ "kCase" \notin EndTypes
    /\ BeginTypes \cap EndTypes = {} /\ "unmatched" \notin BeginTypes
  BY DEF BeginTypes, PlainTypes, EndTypes

\* What a message does to the blocks that are open.
LEMMA BracketOfBegin ==
    ASSUME NEW x, NEW m, m.type \in BeginTypes
    PROVE  Bracket(x, m) = Append(x, m.type)
  BY DEF Bracket

LEMMA BracketOfPlain ==
    ASSUME NEW x, NEW m, m.type \notin BeginTypes \cup EndTypes
    PROVE  Bracket(x, m) = x
  BY DEF Bracket

LEMMA BracketOfEnd ==
    ASSUME NEW x \in Stack, NEW t \in BeginTypes, NEW m, m.type = EndOf(t)
    PROVE  Bracket(Append(x, t), m) = x
<1>1. m.type \notin BeginTypes /\ m.type \in EndTypes
  BY TypesDiffer
<1>2. Append(x, t) # <<>>
  <2>1. Len(Append(x, t)) = Len(x) + 1 /\ Len(x) \in Nat
    BY DEF Stack
  <2> QED
    BY <2>1
<1>3. Last(Append(x, t)) = t /\ Front(Append(x, t)) = x
  BY DEF Stack, Last, Front
<1> QED
  BY <1>1, <1>2, <1>3 DEF Bracket

\* What a message makes of well matched blocks that stay well matched.
LEMMA BracketBack ==
    ASSUME NEW x \in Seq(BeginTypes \cup {"unmatched"}), NEW m \in Message,
           Bracket(x, m) \in Stack
    PROVE  /\ x \in Stack
           /\ m.type \in BeginTypes => Bracket(x, m) = Append(x, m.type)
           /\ m.type \notin BeginTypes \cup EndTypes => Bracket(x, m) = x
           /\ m.type \in EndTypes =>
                /\ x # <<>> /\ EndOf(x[Len(x)]) = m.type
                /\ Len(Bracket(x, m)) = Len(x) - 1
                /\ \A k \in 1..(Len(x) - 1) : Bracket(x, m)[k] = x[k]
<1> DEFINE y == Bracket(x, m)
<1>1. x \in Seq(BeginTypes \cup {"unmatched"}) /\ Len(x) \in Nat
  OBVIOUS
<1>2. CASE m.type \in BeginTypes
  <2>1. y = Append(x, m.type)
    BY <1>2, BracketOfBegin
  <2>2. Len(y) = Len(x) + 1 /\ \A k \in 1..Len(x) : y[k] = x[k]
    BY <2>1
  <2>3. \A k \in 1..Len(x) : y[k] \in BeginTypes
    <3>1. \A k \in 1..Len(y) : y[k] \in BeginTypes
      BY ElementOfSeq DEF Stack
    <3> HIDE DEF y
    <3> QED
      BY <2>2, <3>1
  <2>4. x \in Stack
    <3> HIDE DEF y
    <3> QED
      BY <2>2, <2>3 DEF Stack
  <2> QED
    BY <1>2, <2>1, <2>4, BlocksMatch
<1>3. CASE m.type \notin BeginTypes \cup EndTypes
  BY <1>3, BracketOfPlain
<1>4. CASE m.type \in EndTypes
  <2>1. m.type \notin BeginTypes
    BY <1>4, BlocksMatch
  <2>2. CASE /\ x # <<>> /\ Last(x) \in BeginTypes
             /\ EndOf(Last(x)) = m.type
    <3>1. y = Front(x)
      BY <1>4, <2>1, <2>2 DEF Bracket
    <3>2. Len(x) \in Nat /\ Len(x) >= 1 /\ Last(x) = x[Len(x)]
      BY <2>2 DEF Last
    <3>3. Len(y) = Len(x) - 1 /\ \A k \in 1..(Len(x) - 1) : y[k] = x[k]
      <4>1. /\ DOMAIN Front(x) = 1..(Len(x) - 1)
            /\ \A k \in 1..(Len(x) - 1) : Front(x)[k] = x[k]
            /\ Front(x) \in Seq(BeginTypes \cup {"unmatched"})
        BY <2>2, FrontFacts
      <4> QED
        BY <3>1, <3>2, <4>1
    <3>4. \A k \in 1..Len(x) : x[k] \in BeginTypes
      <4>1. \A k \in 1..Len(y) : y[k] \in BeginTypes
        BY ElementOfSeq DEF Stack
      <4> HIDE DEF y
      <4>2. \A k \in 1..(Len(x) - 1) : x[k] \in BeginTypes
        BY <3>3, <4>1
      <4>3. \A k \in 1..Len(x) : k = Len(x) \/ k \in 1..(Len(x) - 1)
        BY <1>1
      <4> QED
        BY <2>2, <3>2, <4>2, <4>3
    <3>5. x \in Stack
      BY <3>4 DEF Stack
    <3> QED
      BY <1>4, <2>1, <2>2, <3>2, <3>3, <3>5
  <2>3. CASE ~(/\ x # <<>> /\ Last(x) \in BeginTypes
               /\ EndOf(Last(x)) = m.type)
    <3>1. y = Append(x, "unmatched")
      BY <1>4, <2>1, <2>3 DEF Bracket
    <3>2. Len(y) = Len(x) + 1 /\ y[Len(x) + 1] = "unmatched"
      BY <3>1
    <3>3. \A k \in 1..Len(y) : y[k] \in BeginTypes
      BY ElementOfSeq DEF Stack
    <3> HIDE DEF y
    <3> QED
      BY <1>1, <3>2, <3>3, BlocksMatch
  <2> QED
    BY <2>2, <2>3
<1> QED
  BY <1>2, <1>3, <1>4

\* A message that neither begins nor ends a block can join messages on any
\* level.
LEMMA JoinPlain ==
    ASSUME NEW s \in Seq(Message), NEW m \in Message,
           m.type \notin BeginTypes \cup EndTypes
    PROVE  /\ Balanced(s) => Balanced(Append(s, m))
           /\ \A t : OpensOne(s, t) => OpensOne(Append(s, m), t)
<1>1. \A p : Opened(p, Append(s, m)) = Opened(p, s)
  <2> SUFFICES ASSUME NEW p PROVE Opened(p, Append(s, m)) = Opened(p, s)
    OBVIOUS
  <2>1. Opened(p, Append(s, m)) = Bracket(Opened(p, s), m)
    BY BracketMore
  <2> QED
    BY <2>1, BracketOfPlain
<1> QED
  BY <1>1 DEF Balanced, OpensOne

\* The end of a block completes the messages that began it.
LEMMA JoinEnd ==
    ASSUME NEW s \in Seq(Message), NEW m \in Message, NEW t \in BeginTypes,
           m.type = EndOf(t), OpensOne(s, t)
    PROVE  Balanced(Append(s, m))
<1> SUFFICES ASSUME NEW p \in Stack PROVE Opened(p, Append(s, m)) = p
  BY DEF Balanced
<1>1. Opened(p, Append(s, m)) = Bracket(Opened(p, s), m)
  BY BracketMore
<1>2. Opened(p, s) = Append(p, t)
  BY DEF OpensOne
<1> QED
  BY <1>1, <1>2, BracketOfEnd

\* A completed block can join messages on any level.
LEMMA JoinBlock ==
    ASSUME NEW s \in Seq(Message), NEW u \in Seq(Message), Balanced(u)
    PROVE  /\ Balanced(s) => Balanced(s \o u)
           /\ \A t \in BeginTypes : OpensOne(s, t) => OpensOne(s \o u, t)
<1>1. \A p : Opened(p, s \o u) = Opened(Opened(p, s), u)
  BY OpenedByConcat
<1>2. Balanced(s) => Balanced(s \o u)
  BY <1>1 DEF Balanced
<1>3. ASSUME NEW t \in BeginTypes, OpensOne(s, t) PROVE OpensOne(s \o u, t)
  <2> SUFFICES ASSUME NEW p \in Stack PROVE Opened(p, s \o u) = Append(p, t)
    BY DEF OpensOne
  <2>1. Append(p, t) \in Stack
    BY DEF Stack
  <2> QED
    BY <1>1, <1>3, <2>1 DEF OpensOne, Balanced
<1> QED
  BY <1>2, <1>3

\* The first half of finalize() takes calls only: no block is opened or closed.
LEMMA IncludedOpensTheSame ==
    ASSUME NEW ms \in Seq(Message)
    PROVE  /\ Included(ms) \in Seq(Message)
           /\ Opened(<<>>, Included(ms)) = Opened(<<>>, ms)
<1> DEFINE P == {s \in Seq(Message) : /\ Included(s) \in Seq(Message)
                                      /\ Opened(<<>>, Included(s)) = Opened(<<>>, s)}
<1>1. <<>> \in P
  <2>1. <<>> \in Seq(Message)
    OBVIOUS
  <2>2. Included(<<>>) = <<>>
    BY IncludedNone
  <2> QED
    BY <2>1, <2>2
<1>2. ASSUME NEW s \in Seq(Message), NEW m \in Message, s \in P
      PROVE  Append(s, m) \in P
  <2>1. Append(s, m) \in Seq(Message)
    OBVIOUS
  <2>2. Included(Append(s, m)) = TakeIncluded(Included(s), m)
    BY IncludedMore
  <2>3. Opened(<<>>, Append(s, m)) = Bracket(Opened(<<>>, s), m)
    BY BracketMore
  <2>4. Included(s) \in Seq(Message) /\ Opened(<<>>, Included(s)) = Opened(<<>>, s)
    BY <1>2
  <2> HIDE DEF P
  <2>5. CASE IsIncluded(m)
    <3>1. Included(Append(s, m)) = Append(Included(s), m)
      BY <2>2, <2>5 DEF TakeIncluded
    <3>2. Append(Included(s), m) \in Seq(Message)
      BY <2>4
    <3>3. Opened(<<>>, Append(Included(s), m)) = Bracket(Opened(<<>>, Included(s)), m)
      BY <2>4, BracketMore
    <3> QED
      BY <2>1, <2>3, <2>4, <3>1, <3>2, <3>3 DEF P
  <2>6. CASE ~IsIncluded(m)
    <3>1. Included(Append(s, m)) = Included(s)
      BY <2>2, <2>6 DEF TakeIncluded
    <3>2. m.type \notin BeginTypes \cup EndTypes
      BY <2>6 DEF IsIncluded, BeginTypes, EndTypes
    <3>3. Opened(<<>>, Append(s, m)) = Opened(<<>>, s)
      BY <2>3, <3>2, BracketOfPlain
    <3> QED
      BY <2>1, <2>4, <3>1, <3>3 DEF P
  <2> QED
    BY <2>5, <2>6
<1> HIDE DEF P
<1>3. \A s \in Seq(Message) : s \in P
  BY <1>1, <1>2, Lengthening
<1> QED
  BY <1>3 DEF P

\* One element of a sequence is replaced.
LEMMA ReplaceFacts ==
    ASSUME NEW S, NEW s \in Seq(S), NEW i \in 1..Len(s), NEW e \in S
    PROVE  /\ [s EXCEPT ![i] = e] \in Seq(S)
           /\ Len([s EXCEPT ![i] = e]) = Len(s)
           /\ \A k \in 1..Len(s) :
                 [s EXCEPT ![i] = e][k] = IF k = i THEN e ELSE s[k]
  OBVIOUS

\* The stack of finalize(): the list at the bottom is balanced, and each list
\* above begins with the block it belongs to, the blocks in order of nesting.
Level(s, blocks, k) == IF k = 1 THEN Balanced(s) ELSE OpensOne(s, blocks[k - 1])

Levels(stack, blocks) ==
    /\ stack \in Seq(Seq(Message))
    /\ Len(stack) = Len(blocks) + 1
    /\ \A k \in 1..Len(stack) : Level(stack[k], blocks, k)

\* Each step of the second half of finalize() keeps the levels, whether it
\* begins a block, ends one, drops one or adds a message.
LEMMA CollapseStepKeepsLevels ==
    ASSUME NEW c, NEW g \in Seq(BeginTypes \cup {"unmatched"}), NEW m \in Message,
           Levels(c, g), Bracket(g, m) \in Stack
    PROVE  Levels(CollapseStep(c, m), Bracket(g, m))
<1> DEFINE L == Len(c)
           d == CollapseStep(c, m)
           h == Bracket(g, m)
           block == Append(c[L], m)
<1>1. /\ c \in Seq(Seq(Message)) /\ L = Len(g) + 1 /\ L \in Nat /\ L >= 1
      /\ Len(g) \in Nat /\ Len(g) = L - 1
  BY DEF Levels
<1>2. \A k \in 1..L : Level(c[k], g, k) /\ c[k] \in Seq(Message)
  BY <1>1 DEF Levels
<1>3. /\ g \in Stack
      /\ m.type \in BeginTypes => h = Append(g, m.type)
      /\ m.type \notin BeginTypes \cup EndTypes => h = g
      /\ m.type \in EndTypes =>
           /\ g # <<>> /\ EndOf(g[Len(g)]) = m.type
           /\ Len(h) = Len(g) - 1
           /\ \A k \in 1..(Len(g) - 1) : h[k] = g[k]
  BY BracketBack
<1>4. /\ Front(c) \in Seq(Seq(Message)) /\ Len(Front(c)) = L - 1
      /\ \A k \in 1..(L - 1) : Front(c)[k] = c[k]
      /\ Last(c) = c[L] /\ c[L] \in Seq(Message)
  <2>1. c # <<>>
    BY <1>1
  <2>2. /\ Front(c) \in Seq(Seq(Message)) /\ DOMAIN Front(c) = 1..(L - 1)
        /\ \A k \in 1..(L - 1) : Front(c)[k] = c[k]
        /\ Last(c) = c[L]
    BY <1>1, <2>1, FrontFacts
  <2> HIDE DEF L
  <2>3. Len(Front(c)) = L - 1
    BY <1>1, <2>2
  <2> QED
    BY <1>1, <1>2, <2>2, <2>3
<1>5. block \in Seq(Message)
  BY <1>4
<1> HIDE DEF L, h
<1>6. CASE m.type \in BeginTypes
  <2>1. d = Append(c, <<m>>)
    BY <1>6 DEF CollapseStep
  <2>2. /\ d \in Seq(Seq(Message)) /\ Len(d) = L + 1
        /\ \A k \in 1..L : d[k] = c[k]
        /\ d[L + 1] = <<m>>
    BY <1>1, <2>1 DEF L
  <2>3. /\ Len(h) = L /\ h[L] = m.type
        /\ \A k \in 1..(L - 1) : h[k] = g[k]
    <3>1. h = Append(g, m.type)
      BY <1>3, <1>6
    <3>2. /\ Len(Append(g, m.type)) = Len(g) + 1
          /\ Append(g, m.type)[Len(g) + 1] = m.type
          /\ \A k \in 1..Len(g) : Append(g, m.type)[k] = g[k]
      OBVIOUS
    <3> QED
      BY <1>1, <3>1, <3>2
  <2>4. OpensOne(<<m>>, m.type)
    <3> SUFFICES ASSUME NEW p \in Stack PROVE Opened(p, <<m>>) = Append(p, m.type)
      BY DEF OpensOne
    <3>1. <<>> \in Seq(Message) /\ Append(<<>>, m) = <<m>>
      OBVIOUS
    <3>2. Opened(p, Append(<<>>, m)) = Bracket(Opened(p, <<>>), m)
      BY <3>1, BracketMore
    <3>3. Opened(p, <<>>) = p
      BY BracketNone
    <3> QED
      BY <1>6, <3>1, <3>2, <3>3, BracketOfBegin
  <2> HIDE DEF d
  <2>5. ASSUME NEW k \in 1..(L + 1) PROVE Level(d[k], h, k)
    <3>1. CASE k = L + 1
      <4>1. k # 1 /\ k - 1 = L
        BY <1>1, <3>1
      <4> QED
        BY <2>2, <2>3, <2>4, <3>1, <4>1 DEF Level
    <3>2. CASE k \in 1..L
      <4>1. d[k] = c[k] /\ Level(c[k], g, k)
        BY <1>2, <2>2, <3>2
      <4>2. k # 1 => h[k - 1] = g[k - 1]
        <5>1. k # 1 => k - 1 \in 1..(L - 1)
          BY <1>1, <3>2
        <5> QED
          BY <2>3, <5>1
      <4> QED
        BY <4>1, <4>2 DEF Level
    <3> QED
      BY <1>1, <3>1, <3>2
  <2>6. Levels(d, h)
    BY <2>2, <2>3, <2>5 DEF Levels
  <2> QED
    BY <2>6 DEF d, h
<1>7. CASE m.type \notin BeginTypes \cup EndTypes
  <2>1. d = Append(Front(c), block)
    BY <1>4, <1>7 DEF CollapseStep
  <2> HIDE DEF block
  <2>2. /\ d \in Seq(Seq(Message)) /\ Len(d) = L
        /\ \A k \in 1..(L - 1) : d[k] = c[k]
        /\ d[L] = block
    BY <1>1, <1>4, <1>5, <2>1
  <2>3. h = g
    BY <1>3, <1>7
  <2> HIDE DEF d
  <2>4. ASSUME NEW k \in 1..L PROVE Level(d[k], h, k)
    <3>1. Level(c[k], g, k)
      BY <1>2
    <3>2. CASE k = L
      <4>1. /\ Balanced(c[L]) => Balanced(block)
            /\ \A t : OpensOne(c[L], t) => OpensOne(block, t)
        BY <1>4, <1>7, JoinPlain DEF block
      <4> QED
        BY <2>2, <2>3, <3>1, <3>2, <4>1 DEF Level
    <3>3. CASE k # L
      <4>1. k \in 1..(L - 1)
        BY <1>1, <3>3
      <4> QED
        BY <2>2, <2>3, <3>1, <4>1
    <3> QED
      BY <3>2, <3>3
  <2>5. Levels(d, h)
    BY <1>1, <2>2, <2>3, <2>4 DEF Levels
  <2> QED
    BY <2>5 DEF d, h
<1>8. CASE m.type \in EndTypes
  <2> DEFINE below == Front(c)
  <2>1. L >= 2 /\ L - 1 \in 1..L /\ L - 1 >= 1 /\ L \in 1..L
    <3>1. g # <<>>
      BY <1>3, <1>8
    <3>2. Len(g) # 0
      BY <3>1
    <3> QED
      BY ONLY <1>1, <3>2
  <2>2. /\ Len(h) = L - 2 /\ \A k \in 1..(L - 2) : h[k] = g[k]
        /\ EndOf(g[L - 1]) = m.type
    <3>1. /\ EndOf(g[Len(g)]) = m.type
          /\ Len(h) = Len(g) - 1
          /\ \A k \in 1..(Len(g) - 1) : h[k] = g[k]
      BY <1>3, <1>8
    <3>2. Len(g) = L - 1 /\ Len(g) - 1 = L - 2
      BY <1>1
    <3> QED
      BY <3>1, <3>2
  <2>3. \A k \in 1..(L - 1) : g[k] \in BeginTypes
    BY <1>1, <1>3, ElementOfSeq DEF Stack
  <2>4. Balanced(block)
    <3>1. OpensOne(c[L], g[L - 1])
      <4>1. L \in 1..L /\ L # 1
        BY <1>1, <2>1
      <4> QED
        BY <1>2, <4>1 DEF Level
    <3>2. g[L - 1] \in BeginTypes
      BY <2>1, <2>3
    <3> QED
      BY <1>4, <2>2, <3>1, <3>2, JoinEnd
  <2>5. ASSUME NEW k \in 1..(L - 1) PROVE Level(c[k], h, k)
    <3>1. Level(c[k], g, k)
      BY <1>2, <1>1
    <3>2. k # 1 => h[k - 1] = g[k - 1]
      <4>1. k # 1 => k - 1 \in 1..(L - 2)
        BY <1>1
      <4> QED
        BY <2>2, <4>1
    <3> QED
      BY <3>1, <3>2 DEF Level
  <2>6. m.type \notin BeginTypes
    BY <1>8, BlocksMatch
  <2>7. CASE Holds(block, Work)
    <3>1. d = [below EXCEPT ![L - 1] = c[L - 1] \o block]
      <4>1. d = [below EXCEPT ![Len(below)] = @ \o block]
        BY <1>4, <1>8, <2>6, <2>7 DEF CollapseStep
      <4>2. L - 1 \in 1..(L - 1)
        BY <2>1
      <4> QED
        BY <1>4, <4>1, <4>2
    <3>2. c[L - 1] \in Seq(Message)
      BY <1>2, <2>1
    <3> HIDE DEF block
    <3>3. c[L - 1] \o block \in Seq(Message)
      BY <1>5, <3>2
    <3>4. /\ d \in Seq(Seq(Message)) /\ Len(d) = L - 1
          /\ \A k \in 1..(L - 1) : d[k] = IF k = L - 1 THEN c[L - 1] \o block ELSE c[k]
      <4>1. L - 1 \in 1..Len(below) /\ Len(below) = L - 1
        BY <1>1, <1>4, <2>1
      <4>2. \A k \in 1..(L - 1) : below[k] = c[k]
        BY <1>4
      <4>3. below \in Seq(Seq(Message))
        BY <1>4
      <4> HIDE DEF below, d
      <4> QED
        BY <3>1, <3>3, <4>1, <4>2, <4>3, ReplaceFacts
    <3> HIDE DEF d
    <3>5. ASSUME NEW k \in 1..(L - 1) PROVE Level(d[k], h, k)
      <4>1. Level(c[k], h, k)
        BY <2>5
      <4>2. CASE k = L - 1
        <5>1. /\ Balanced(c[k]) => Balanced(c[k] \o block)
              /\ \A t \in BeginTypes : OpensOne(c[k], t) => OpensOne(c[k] \o block, t)
          BY <1>5, <2>4, <3>2, <4>2, JoinBlock
        <5>2. k # 1 => h[k - 1] \in BeginTypes
          <6>1. k # 1 => k - 1 \in 1..(L - 2) /\ k - 1 \in 1..(L - 1)
            BY <1>1
          <6> QED
            BY <2>2, <2>3, <6>1
        <5>3. d[k] = c[k] \o block
          BY <3>4, <4>2
        <5> QED
          BY <4>1, <5>1, <5>2, <5>3 DEF Level
      <4>3. CASE k # L - 1
        BY <3>4, <4>1, <4>3
      <4> QED
        BY <4>2, <4>3
    <3>6. Levels(d, h)
      <4>1. Len(d) = Len(h) + 1
        <5>1. L \in Nat /\ Len(d) = L - 1 /\ Len(h) = L - 2
          BY <1>1, <2>2, <3>4
        <5> QED
          BY ONLY <5>1
      <4>2. \A k \in 1..Len(d) : Level(d[k], h, k)
        BY <3>4, <3>5
      <4> QED
        BY <3>4, <4>1, <4>2 DEF Levels
    <3> QED
      BY <3>6 DEF d, h
  <2>8. CASE ~Holds(block, Work)
    <3>1. d = below
      BY <1>4, <1>8, <2>6, <2>8 DEF CollapseStep
    <3> HIDE DEF d
    <3>2. Levels(d, h)
      BY <1>1, <1>4, <2>2, <2>5, <3>1 DEF Levels
    <3> QED
      BY <3>2 DEF d, h
  <2> QED
    BY <2>7, <2>8
<1> QED
  BY <1>6, <1>7, <1>8

\* Nothing but the messages of Message occurs, so the blocks are these.
LEMMA OpenedIs ==
    ASSUME NEW x \in Seq(BeginTypes \cup {"unmatched"}), NEW m \in Message
    PROVE  Bracket(x, m) \in Seq(BeginTypes \cup {"unmatched"})
<1>1. x # <<>> => Front(x) \in Seq(BeginTypes \cup {"unmatched"})
  BY FrontFacts
<1> QED
  BY <1>1 DEF Bracket

\* So the whole fold has them.
LEMMA CollapsedLevels ==
    ASSUME NEW ms \in Seq(Message), Opened(<<>>, ms) \in Stack
    PROVE  Levels(Collapsed(ms), Opened(<<>>, ms))
<1> DEFINE P == {s \in Seq(Message) :
                   /\ Opened(<<>>, s) \in Seq(BeginTypes \cup {"unmatched"})
                   /\ Opened(<<>>, s) \in Stack
                        => Levels(Collapsed(s), Opened(<<>>, s))}
<1>1. <<>> \in P
  <2>1. <<>> \in Seq(Message) /\ <<>> \in Seq(BeginTypes \cup {"unmatched"})
    OBVIOUS
  <2>2. Opened(<<>>, <<>>) = <<>> /\ Collapsed(<<>>) = << <<>> >>
    BY BracketNone, CollapseNone
  <2>3. Balanced(<<>>)
    BY BracketNone DEF Balanced
  <2>4. Levels(<< <<>> >>, <<>>)
    <3>1. << <<>> >> \in Seq(Seq(Message)) /\ Len(<< <<>> >>) = 1
      BY <2>1
    <3>2. Len(<< <<>> >>) = Len(<<>>) + 1
      OBVIOUS
    <3>3. \A k \in 1..Len(<< <<>> >>) : k = 1 /\ << <<>> >>[k] = <<>>
      OBVIOUS
    <3>4. \A k \in 1..Len(<< <<>> >>) : Level(<< <<>> >>[k], <<>>, k)
      BY <2>3, <3>3 DEF Level
    <3> QED
      BY <3>1, <3>2, <3>4 DEF Levels
  <2> QED
    BY <2>1, <2>2, <2>4
<1>2. ASSUME NEW s \in Seq(Message), NEW m \in Message, s \in P
      PROVE  Append(s, m) \in P
  <2>1. Append(s, m) \in Seq(Message)
    OBVIOUS
  <2>2. Opened(<<>>, Append(s, m)) = Bracket(Opened(<<>>, s), m)
    BY BracketMore
  <2>3. Collapsed(Append(s, m)) = CollapseStep(Collapsed(s), m)
    BY CollapseMore
  <2>4. /\ Opened(<<>>, s) \in Seq(BeginTypes \cup {"unmatched"})
        /\ Opened(<<>>, s) \in Stack => Levels(Collapsed(s), Opened(<<>>, s))
    BY <1>2
  <2> HIDE DEF P
  <2>5. Opened(<<>>, Append(s, m)) \in Seq(BeginTypes \cup {"unmatched"})
    BY <2>2, <2>4, OpenedIs
  <2>6. ASSUME Opened(<<>>, Append(s, m)) \in Stack
        PROVE  Levels(Collapsed(Append(s, m)), Opened(<<>>, Append(s, m)))
    <3>1. Bracket(Opened(<<>>, s), m) \in Stack
      BY <2>2, <2>6
    <3>2. Opened(<<>>, s) \in Stack
      BY <2>4, <3>1, BracketBack
    <3>3. Levels(CollapseStep(Collapsed(s), m), Bracket(Opened(<<>>, s), m))
      BY <2>4, <3>1, <3>2, CollapseStepKeepsLevels
    <3> QED
      BY <2>2, <2>3, <3>3
  <2> QED
    BY <2>1, <2>5, <2>6 DEF P
<1> HIDE DEF P
<1>3. \A s \in Seq(Message) : s \in P
  BY <1>1, <1>2, Lengthening
<1> QED
  BY <1>3 DEF P

\* finalize() leaves no bracket open and none that matches no other.
LEMMA FinalizedIsBracketed ==
    ASSUME NEW ms \in Seq(Message), Opened(<<>>, ms) = <<>>
    PROVE  Opened(<<>>, Finalized(ms)) = <<>>
<1>1. /\ Included(ms) \in Seq(Message)
      /\ Opened(<<>>, Included(ms)) = <<>>
  BY IncludedOpensTheSame
<1>2. <<>> \in Stack
  BY DEF Stack
<1>3. Levels(Collapsed(Included(ms)), <<>>)
  BY <1>1, <1>2, CollapsedLevels
<1>4. Balanced(Finalized(ms))
  <2>1. Len(Collapsed(Included(ms))) = 1
    BY <1>3 DEF Levels
  <2> QED
    BY <1>3, <2>1 DEF Levels, Level, Finalized
<1> QED
  BY <1>2, <1>4 DEF Balanced

\* The inductive invariant for the brackets: what was begun and not ended are
\* the blocks being visited, after every message that matters to the future.
Types == [k \in DOMAIN open |-> open[k].type]
Outer(k) == [j \in 1..(k - 1) |-> open[j].type]

BracketInv ==
    /\ IInv
    /\ MessagesAreBracketed
    /\ ~final => BracketsAround

\* A sequence is a function of its positions.
LEMMA SequenceIsFunction ==
    ASSUME NEW S, NEW s \in Seq(S), NEW n, n = Len(s)
    PROVE  s = [k \in 1..n |-> s[k]]
  OBVIOUS

\* The types of the blocks being visited.
LEMMA TypesFacts ==
    ASSUME IInv
    PROVE  /\ Types \in Stack
           /\ Len(Types) = Len(open)
           /\ DOMAIN open = 1..Len(open)
           /\ \A k \in 1..Len(open) : Types[k] = open[k].type
<1>1. open \in Seq([type : Block, begin : Nat])
  BY DEF IInv
<1>2. DOMAIN open = 1..Len(open) /\ Len(open) \in Nat
  BY <1>1
<1>3. \A k \in 1..Len(open) : open[k] \in [type : Block, begin : Nat]
  BY <1>1, ElementOfSeq
<1>4. \A k \in 1..Len(open) : open[k].type \in BeginTypes
  BY <1>3, ModelAssumption
<1>5. Types = [k \in 1..Len(open) |-> open[k].type]
  BY <1>2 DEF Types
<1>6. Types \in Seq(BeginTypes)
  BY <1>2, <1>4, <1>5
<1> QED
  BY <1>2, <1>5, <1>6 DEF Stack

\* The messages before a block are those before it in any longer activity.
LEMMA BeforeIsKept ==
    ASSUME NEW ms \in Seq(Message), NEW other \in Seq(Message), NEW b \in Nat,
           b <= Len(ms), b <= Len(other), \A i \in 1..b : other[i] = ms[i]
    PROVE  SubSeq(other, 1, b) = SubSeq(ms, 1, b)
<1>1. /\ SubSeq(ms, 1, b) \in Seq(Message) /\ SubSeq(other, 1, b) \in Seq(Message)
      /\ Len(SubSeq(ms, 1, b)) = b /\ Len(SubSeq(other, 1, b)) = b
      /\ \A i \in 1..b : SubSeq(other, 1, b)[i] = SubSeq(ms, 1, b)[i]
  OBVIOUS
<1> QED
  BY <1>1, SeqEqual

\* A message that neither begins nor ends a block.
LEMMA PlainBrackets ==
    ASSUME BracketInv, ~final, NEW m \in Message,
           m.type \notin BeginTypes \cup EndTypes,
           messages' = Append(messages, m), UNCHANGED <<open, final>>
    PROVE  MessagesAreBracketed' /\ BracketsAround'
<1>1. messages \in Seq(Message) /\ messages' \in Seq(Message)
  <2>1. messages \in Seq(Message)
    BY DEF BracketInv, IInv
  <2> QED
    BY <2>1
<1>2. Opened(<<>>, messages') = Opened(<<>>, messages)
  <2>1. Opened(<<>>, Append(messages, m)) = Bracket(Opened(<<>>, messages), m)
    BY <1>1, BracketMore
  <2> QED
    BY <2>1, BracketOfPlain
<1>3. MessagesAreBracketed'
  BY <1>2 DEF BracketInv, MessagesAreBracketed
<1>4. ASSUME NEW k \in DOMAIN open
      PROVE  Opened(<<>>, SubSeq(messages', 1, open[k].begin - 1)) = Outer(k)
  <2>1. open[k].begin \in 1..Len(messages)
    BY <1>1 DEF BracketInv, IInv, OwnBlockStands
  <2>2. /\ open[k].begin - 1 \in Nat /\ open[k].begin - 1 <= Len(messages)
        /\ open[k].begin - 1 <= Len(messages')
        /\ \A i \in 1..(open[k].begin - 1) : messages'[i] = messages[i]
    BY <1>1, <2>1
  <2>3. SubSeq(messages', 1, open[k].begin - 1) = SubSeq(messages, 1, open[k].begin - 1)
    BY <1>1, <2>2, BeforeIsKept
  <2>4. Opened(<<>>, SubSeq(messages, 1, open[k].begin - 1)) = Outer(k)
    BY DEF BracketInv, BracketsAround, Outer
  <2> QED
    BY <2>3, <2>4
<1>5. BracketsAround'
  BY <1>4 DEF BracketsAround, Outer
<1> QED
  BY <1>3, <1>5

\* Entering a block.
LEMMA AddBlockBrackets ==
    ASSUME BracketInv, NEW p \in Place, NEW t \in Block, AddBlock(t, p)
    PROVE  MessagesAreBracketed' /\ BracketsAround'
<1> DEFINE n == Len(open)
           b == [type |-> t, begin |-> Len(messages) + 1]
<1>1. /\ ~final /\ messages \in Seq(Message)
      /\ open \in Seq([type : Block, begin : Nat]) /\ IInv
  BY DEF BracketInv, IInv, AddBlock
<1>2. Msg(t, p) \in Message /\ t \in BeginTypes /\ Msg(t, p).type = t
  BY ModelAssumption DEF Msg, Message
<1>3. /\ messages' = Append(messages, Msg(t, p)) /\ messages' \in Seq(Message)
      /\ Len(messages) \in Nat /\ Len(messages') = Len(messages) + 1
      /\ \A i \in 1..Len(messages) : messages'[i] = messages[i]
  BY <1>1, <1>2 DEF AddBlock
<1>4. b \in [type : Block, begin : Nat]
  BY <1>3
<1>5. /\ open' = Append(open, b) /\ n \in Nat
      /\ DOMAIN open = 1..n
      /\ DOMAIN open' = 1..(n + 1)
      /\ \A k \in 1..n : open'[k] = open[k]
      /\ open'[n + 1] = b
  BY <1>1, <1>4, AppendFacts DEF AddBlock
<1>6. Types \in Stack /\ Len(Types) = n /\ \A k \in 1..n : Types[k] = open[k].type
  BY <1>1, TypesFacts
<1>7. Opened(<<>>, messages) = Types
  BY DEF BracketInv, MessagesAreBracketed, Types
<1>8. MessagesAreBracketed'
  <2>1. Opened(<<>>, messages') = Append(Types, t)
    <3>1. Opened(<<>>, messages') = Bracket(Opened(<<>>, messages), Msg(t, p))
      BY <1>1, <1>2, <1>3, BracketMore
    <3> QED
      BY <1>2, <1>7, <3>1, BracketOfBegin
  <2>2. Append(Types, t) = [k \in 1..(n + 1) |-> open'[k].type]
    <3>1. \A k \in 1..(n + 1) : Append(Types, t)[k] = open'[k].type
      <4>1. /\ \A k \in 1..n : Append(Types, t)[k] = Types[k]
            /\ Append(Types, t)[n + 1] = t
        BY <1>6 DEF Stack
      <4>2. \A k \in 1..(n + 1) : k \in 1..n \/ k = n + 1
        BY <1>5
      <4> QED
        BY <1>5, <1>6, <4>1, <4>2
    <3>2. Append(Types, t) \in Seq(BeginTypes) /\ Len(Append(Types, t)) = n + 1
      BY <1>2, <1>6 DEF Stack
    <3>3. Append(Types, t) = [k \in 1..(n + 1) |-> Append(Types, t)[k]]
      BY <3>2, SequenceIsFunction
    <3> QED
      BY <3>1, <3>3
  <2> QED
    BY <1>5, <2>1, <2>2 DEF MessagesAreBracketed
<1>9. ASSUME NEW k \in 1..(n + 1)
      PROVE  Opened(<<>>, SubSeq(messages', 1, open'[k].begin - 1))
                = [j \in 1..(k - 1) |-> open'[j].type]
  <2>1. [j \in 1..(k - 1) |-> open'[j].type] = [j \in 1..(k - 1) |-> open[j].type]
    <3>1. \A j \in 1..(k - 1) : j \in 1..n
      BY <1>5
    <3> QED
      BY <1>5, <3>1
  <2>2. CASE k = n + 1
    <3>1. open'[k].begin - 1 = Len(messages)
      BY <1>3, <1>5, <2>2
    <3>2. SubSeq(messages', 1, Len(messages)) = SubSeq(messages, 1, Len(messages))
      BY <1>1, <1>3, BeforeIsKept
    <3>3. SubSeq(messages, 1, Len(messages)) = messages
      BY <1>1
    <3>4. Types = [j \in 1..(k - 1) |-> open[j].type]
      BY <1>5, <2>2 DEF Types
    <3> QED
      BY <1>7, <2>1, <3>1, <3>2, <3>3, <3>4
  <2>3. CASE k \in 1..n
    <3>1. open'[k] = open[k] /\ k \in DOMAIN open
      BY <1>5, <2>3
    <3>2. open[k].begin \in 1..Len(messages)
      BY <1>1, <3>1 DEF IInv, OwnBlockStands
    <3>3. /\ open[k].begin - 1 \in Nat /\ open[k].begin - 1 <= Len(messages)
          /\ open[k].begin - 1 <= Len(messages')
          /\ \A i \in 1..(open[k].begin - 1) : messages'[i] = messages[i]
      BY <1>3, <3>2
    <3>4. SubSeq(messages', 1, open[k].begin - 1) = SubSeq(messages, 1, open[k].begin - 1)
      BY <1>1, <1>3, <3>3, BeforeIsKept
    <3>5. Opened(<<>>, SubSeq(messages, 1, open[k].begin - 1))
             = [j \in 1..(k - 1) |-> open[j].type]
      BY <1>1, <3>1 DEF BracketInv, BracketsAround
    <3> QED
      BY <2>1, <3>1, <3>4, <3>5
  <2>4. k \in 1..n \/ k = n + 1
    BY <1>5
  <2> QED
    BY <2>2, <2>3, <2>4
<1>10. BracketsAround'
  BY <1>5, <1>9 DEF BracketsAround
<1> QED
  BY <1>8, <1>10

\* Leaving a block: its messages go, or it is ended by its own end.
LEMMA EndBlockBrackets ==
    ASSUME BracketInv, NEW p \in Place, EndBlock(p)
    PROVE  MessagesAreBracketed' /\ BracketsAround'
<1> DEFINE n == Len(open)
           b == Last(open)
           found == FoundEmpty(messages, b.type)
<1>1. /\ ~final /\ open # <<>> /\ messages \in Seq(Message) /\ IInv
      /\ open \in Seq([type : Block, begin : Nat])
      /\ open' = Front(open)
  BY DEF EndBlock, BracketInv, IInv
<1>2. /\ b.begin \in DOMAIN messages /\ b.type \in BeginTypes
      /\ found # {} => found = {b.begin}
  BY <1>1, SearchFinds
<1>3. /\ DOMAIN open = 1..n /\ n \in Nat \ {0}
      /\ DOMAIN open' = 1..(n - 1)
      /\ \A k \in 1..(n - 1) : open'[k] = open[k]
      /\ b = open[n]
  BY <1>1, FrontFacts
<1>4. b.begin \in 1..Len(messages) /\ Len(messages) \in Nat
  BY <1>1, <1>2
<1>5. Types \in Stack /\ Len(Types) = n /\ \A k \in 1..n : Types[k] = open[k].type
  BY <1>1, TypesFacts
<1>6. Opened(<<>>, messages) = Types
  BY DEF BracketInv, MessagesAreBracketed, Types
<1> DEFINE inner == [k \in 1..(n - 1) |-> open[k].type]
<1>7. inner = [k \in DOMAIN open' |-> open'[k].type]
  BY <1>3
\* Whatever is done to the messages, those before the blocks around stay.
<1>8. ASSUME messages' \in Seq(Message), b.begin - 1 <= Len(messages'),
             \A i \in 1..(b.begin - 1) : messages'[i] = messages[i]
      PROVE  BracketsAround'
  <2>1. ASSUME NEW k \in 1..(n - 1)
        PROVE  Opened(<<>>, SubSeq(messages', 1, open'[k].begin - 1))
                  = [j \in 1..(k - 1) |-> open'[j].type]
    <3>1. /\ open'[k] = open[k] /\ k \in DOMAIN open /\ n \in DOMAIN open /\ k < n
          /\ \A j \in 1..(k - 1) : j \in 1..(n - 1)
      BY <1>3
    <3>2. open[k].begin < b.begin /\ open[k].begin \in 1..Len(messages)
      <4>1. \A i, j \in DOMAIN open : i < j => open[i].begin < open[j].begin
        BY <1>1 DEF IInv, OwnBlockStands
      <4>2. open[k].begin \in DOMAIN messages
        BY <1>1, <3>1 DEF IInv, OwnBlockStands
      <4>3. DOMAIN messages = 1..Len(messages)
        BY <1>1
      <4>4. open[k].begin < open[n].begin
        BY ONLY <3>1, <4>1
      <4> QED
        BY ONLY <1>3, <4>2, <4>3, <4>4
    <3>3. /\ open[k].begin - 1 \in Nat /\ open[k].begin - 1 <= Len(messages)
          /\ open[k].begin - 1 <= Len(messages')
          /\ \A i \in 1..(open[k].begin - 1) : messages'[i] = messages[i]
      <4>1. open[k].begin - 1 \in Nat /\ open[k].begin - 1 <= Len(messages)
        BY ONLY <1>4, <3>2
      <4>2. Len(messages') \in Nat
        BY <1>8
      <4>3. open[k].begin - 1 <= Len(messages')
        BY ONLY <1>4, <1>8, <3>2, <4>1, <4>2
      <4>4. \A i \in 1..(open[k].begin - 1) : i \in 1..(b.begin - 1)
        BY ONLY <1>4, <3>2
      <4> QED
        BY ONLY <1>8, <4>1, <4>3, <4>4
    <3>4. SubSeq(messages', 1, open[k].begin - 1) = SubSeq(messages, 1, open[k].begin - 1)
      BY <1>1, <1>8, <3>3, BeforeIsKept
    <3>5. Opened(<<>>, SubSeq(messages, 1, open[k].begin - 1))
             = [j \in 1..(k - 1) |-> open[j].type]
      BY <1>1, <3>1 DEF BracketInv, BracketsAround
    <3>6. [j \in 1..(k - 1) |-> open'[j].type] = [j \in 1..(k - 1) |-> open[j].type]
      BY <1>3, <3>1
    <3> QED
      BY <3>1, <3>4, <3>5, <3>6
  <2> QED
    BY <1>3, <2>1 DEF BracketsAround
<1>9. CASE found # {}
  <2>1. messages' = SubSeq(messages, 1, b.begin - 1)
    <3>1. messages' = SubSeq(messages, 1, (CHOOSE i \in found : TRUE) - 1)
      BY <1>9 DEF EndBlock, FoldOrEnd
    <3>2. (CHOOSE i \in found : TRUE) \in found
      BY <1>9
    <3> QED
      BY <1>2, <1>9, <3>1, <3>2
  <2>2. /\ b.begin - 1 \in Nat /\ messages' \in Seq(Message)
        /\ Len(messages') = b.begin - 1
        /\ \A i \in 1..(b.begin - 1) : messages'[i] = messages[i]
    BY <1>1, <1>4, <2>1
  <2>3. Opened(<<>>, messages') = inner
    <3>1. n \in DOMAIN open
      BY <1>3
    <3> QED
      BY <1>1, <1>3, <2>1, <3>1 DEF BracketInv, BracketsAround
  <2>4. b.begin - 1 <= Len(messages')
    BY <2>2
  <2>5. BracketsAround'
    BY <1>8, <2>2, <2>4
  <2> QED
    BY <1>7, <2>3, <2>5 DEF MessagesAreBracketed
<1>10. CASE found = {}
  <2> DEFINE m == Msg(EndOf(b.type), p)
  <2>1. messages' = Append(messages, m)
    BY <1>10 DEF EndBlock, FoldOrEnd
  <2>2. m \in Message /\ m.type = EndOf(b.type)
    BY <1>2, TypesDiffer DEF Msg, Message
  <2>3. /\ messages' \in Seq(Message) /\ Len(messages') = Len(messages) + 1
        /\ \A i \in 1..Len(messages) : messages'[i] = messages[i]
    BY <1>1, <2>1, <2>2
  <2>4. Opened(<<>>, messages') = Bracket(Types, m)
    BY <1>1, <1>6, <2>1, <2>2, BracketMore
  <2>9. n \in Nat /\ n >= 1
    <3>1. n \in Nat /\ n # 0
      BY <1>3
    <3> QED
      BY ONLY <3>1
  <2>5. inner \in Stack /\ Types = Append(inner, b.type)
    <3>1. \A k \in 1..n : Types[k] \in BeginTypes
      BY <1>5, ElementOfSeq DEF Stack
    <3>2. \A k \in 1..(n - 1) : inner[k] = Types[k] /\ inner[k] \in BeginTypes
      BY <1>3, <1>5, <3>1
    <3>3. inner \in Seq(BeginTypes) /\ Len(inner) = n - 1
      BY <1>3, <3>2
    <3>4. Types[n] = b.type
      BY <1>3, <1>5
    <3> HIDE DEF inner, b, n
    <3>5. /\ Append(inner, b.type) \in Seq(BeginTypes)
          /\ Len(Append(inner, b.type)) = n
          /\ \A k \in 1..(n - 1) : Append(inner, b.type)[k] = inner[k]
          /\ Append(inner, b.type)[n] = b.type
      BY <1>2, <2>9, <3>3
    <3>6. \A k \in 1..n : Append(inner, b.type)[k] = Types[k]
      <4>1. \A k \in 1..n : k \in 1..(n - 1) \/ k = n
        BY ONLY <2>9
      <4> QED
        BY <3>2, <3>4, <3>5, <4>1
    <3>7. Types = Append(inner, b.type)
      BY <1>5, <3>5, <3>6, SeqEqual DEF Stack
    <3> QED
      BY <3>3, <3>7 DEF Stack
  <2> HIDE DEF m, inner
  <2>6. Opened(<<>>, messages') = inner
    BY <1>2, <2>2, <2>4, <2>5, BracketOfEnd
  <2>7. b.begin - 1 <= Len(messages') /\ \A i \in 1..(b.begin - 1) : i \in 1..Len(messages)
    BY <1>4, <2>3
  <2>8. BracketsAround'
    BY <1>8, <2>3, <2>7
  <2> QED
    BY <1>7, <2>6, <2>8 DEF MessagesAreBracketed
<1> QED
  BY <1>9, <1>10

\* Every step preserves the invariant.
LEMMA NextBracketInv == BracketInv /\ [Next]_vars => BracketInv'
<1> SUFFICES ASSUME BracketInv, [Next]_vars PROVE BracketInv'
  OBVIOUS
<1>1. IInv'
  BY NextIInv DEF BracketInv
<1>2. ASSUME NEW p \in Place, NEW t \in Plain, NEW i \in BOOLEAN, Add(t, p, i)
      PROVE  BracketInv'
  <2> DEFINE m == [type |-> t, at |-> p, included |-> i]
  <2>1. m \in Message /\ m.type \notin BeginTypes \cup EndTypes
    BY ModelAssumption, TypesDiffer, BlocksMatch DEF Message
  <2> QED
    BY <1>1, <1>2, <2>1, PlainBrackets DEF Add, BracketInv
<1>3. ASSUME NEW p \in Place, NEW t \in Block, AddBlock(t, p) PROVE BracketInv'
  BY <1>1, <1>3, AddBlockBrackets DEF BracketInv
<1>4. ASSUME NEW p \in Place, AddCase(p) PROVE BracketInv'
  <2> DEFINE m == Msg("kCase", p)
  <2>1. m \in Message /\ m.type \notin BeginTypes \cup EndTypes
    BY TypesDiffer, BlocksMatch DEF Msg, Message
  <2>2. ~final /\ UNCHANGED <<open, final>>
    BY <1>4 DEF AddCase
  <2>3. CASE messages' = Append(messages, m)
    BY <1>1, <2>1, <2>2, <2>3, PlainBrackets DEF BracketInv
  <2>4. CASE messages' = messages
    BY <1>1, <2>2, <2>4 DEF BracketInv, MessagesAreBracketed, BracketsAround
  <2> QED
    BY <1>4, <2>3, <2>4 DEF AddCase, AddCaseTo
<1>5. ASSUME NEW p \in Place, EndBlock(p) PROVE BracketInv'
  BY <1>1, <1>5, EndBlockBrackets DEF BracketInv
<1>6. CASE Finalize
  <2>1. /\ messages \in Seq(Message) /\ open = <<>> /\ open' = open /\ final'
        /\ messages' = Finalized(messages)
    BY <1>6 DEF Finalize, BracketInv, IInv
  <2>2. [k \in DOMAIN open |-> open[k].type] = <<>>
    BY <2>1
  <2>3. Opened(<<>>, messages) = <<>>
    BY <2>2 DEF BracketInv, MessagesAreBracketed
  <2>4. Opened(<<>>, messages') = <<>>
    BY <2>1, <2>3, FinalizedIsBracketed
  <2> QED
    BY <1>1, <2>1, <2>2, <2>4 DEF BracketInv, MessagesAreBracketed
<1>7. CASE UNCHANGED vars
  BY <1>1, <1>7 DEF vars, BracketInv, MessagesAreBracketed, BracketsAround
<1> QED
  BY <1>2, <1>3, <1>4, <1>5, <1>6, <1>7 DEF Next

\* No block is open before the first message.
LEMMA InitBracketInv == Init => BracketInv
<1> SUFFICES ASSUME Init PROVE BracketInv
  OBVIOUS
<1>1. IInv /\ messages = <<>> /\ open = <<>>
  BY InitIInv DEF Init
<1>2. DOMAIN open = {} /\ [k \in DOMAIN open |-> open[k].type] = <<>>
  BY <1>1
<1>3. Opened(<<>>, messages) = <<>>
  BY <1>1, BracketNone
<1> QED
  BY <1>1, <1>2, <1>3 DEF BracketInv, MessagesAreBracketed, BracketsAround

\* While functions are visited the messages open exactly the blocks being
\* visited, and what finalize() leaves is closed, for activities of any length.
THEOREM BracketsMatch == Spec => []MessagesAreBracketed
<1>1. Init => BracketInv
  BY InitBracketInv
<1>2. BracketInv /\ [Next]_vars => BracketInv'
  BY NextBracketInv
<1>3. BracketInv => MessagesAreBracketed
  BY DEF BracketInv
<1> QED
  BY <1>1, <1>2, <1>3, PTL DEF Spec
--------------------------------------------------------------------------------
(***************************************************************************)
(* What finalize() keeps                                                   *)
(***************************************************************************)
\* How many blocks were begun and ended by the first k messages.
Begun(ms, k) == {j \in 1..k : ms[j].type \in BeginTypes}
Ended(ms, k) == {j \in 1..k : ms[j].type \in EndTypes}
Nesting(ms, k) == Cardinality(Begun(ms, k)) - Cardinality(Ended(ms, k))

\* Counting goes up with the messages.
LEMMA OneMoreCounts ==
    ASSUME NEW X, NEW ms, NEW k \in Nat,
           NEW A, A = {j \in 1..k : ms[j].type \in X},
           NEW B, B = {j \in 1..(k + 1) : ms[j].type \in X}
    PROVE  /\ Cardinality(A) \in Nat
           /\ ms[k + 1].type \in X => Cardinality(B) = Cardinality(A) + 1
           /\ ms[k + 1].type \notin X => Cardinality(B) = Cardinality(A)
<1>1. IsFiniteSet(A) /\ Cardinality(A) \in Nat
  <2>1. IsFiniteSet(1..k)
    BY FS_Interval
  <2>2. A \in SUBSET (1..k)
    OBVIOUS
  <2> QED
    BY <2>1, <2>2, FS_Subset, FS_CardinalityType
<1>2. CASE ms[k + 1].type \in X
  <2>1. B = A \cup {k + 1} /\ k + 1 \notin A
    BY <1>2
  <2>2. Cardinality(B) = Cardinality(A) + 1
    BY ONLY <1>1, <2>1, FS_AddElement
  <2> QED
    BY <1>1, <1>2, <2>2
<1>3. CASE ms[k + 1].type \notin X
  <2>1. B = A
    BY <1>3
  <2> QED
    BY <1>1, <1>3, <2>1
<1> QED
  BY <1>2, <1>3

\* Depth is nesting, seen from a begin or an end.
LEMMA NestingFacts ==
    ASSUME NEW ms, NEW k \in Nat
    PROVE  /\ Nesting(ms, k) \in Int /\ Nesting(ms, 0) = 0
           /\ ms[k + 1].type \in BeginTypes =>
                 Nesting(ms, k + 1) = Nesting(ms, k) + 1 /\ Depth(ms, k + 1) = Nesting(ms, k) + 1
           /\ ms[k + 1].type \in EndTypes =>
                 Nesting(ms, k + 1) = Nesting(ms, k) - 1 /\ Depth(ms, k + 1) = Nesting(ms, k)
           /\ ms[k + 1].type \notin BeginTypes \cup EndTypes => Nesting(ms, k + 1) = Nesting(ms, k)
<1>1. /\ Cardinality(Begun(ms, k)) \in Nat
      /\ ms[k + 1].type \in BeginTypes =>
            Cardinality(Begun(ms, k + 1)) = Cardinality(Begun(ms, k)) + 1
      /\ ms[k + 1].type \notin BeginTypes =>
            Cardinality(Begun(ms, k + 1)) = Cardinality(Begun(ms, k))
  <2> DEFINE A == Begun(ms, k)
             B == Begun(ms, k + 1)
  <2>1. /\ A = {j \in 1..k : ms[j].type \in BeginTypes}
        /\ B = {j \in 1..(k + 1) : ms[j].type \in BeginTypes}
    BY DEF Begun
  <2> HIDE DEF A, B
  <2>2. /\ Cardinality(A) \in Nat
        /\ ms[k + 1].type \in BeginTypes => Cardinality(B) = Cardinality(A) + 1
        /\ ms[k + 1].type \notin BeginTypes => Cardinality(B) = Cardinality(A)
    BY <2>1, OneMoreCounts
  <2> QED
    BY <2>2 DEF A, B
<1>2. /\ Cardinality(Ended(ms, k)) \in Nat
      /\ ms[k + 1].type \in EndTypes =>
            Cardinality(Ended(ms, k + 1)) = Cardinality(Ended(ms, k)) + 1
      /\ ms[k + 1].type \notin EndTypes =>
            Cardinality(Ended(ms, k + 1)) = Cardinality(Ended(ms, k))
  <2> DEFINE A == Ended(ms, k)
             B == Ended(ms, k + 1)
  <2>1. /\ A = {j \in 1..k : ms[j].type \in EndTypes}
        /\ B = {j \in 1..(k + 1) : ms[j].type \in EndTypes}
    BY DEF Ended
  <2> HIDE DEF A, B
  <2>2. /\ Cardinality(A) \in Nat
        /\ ms[k + 1].type \in EndTypes => Cardinality(B) = Cardinality(A) + 1
        /\ ms[k + 1].type \notin EndTypes => Cardinality(B) = Cardinality(A)
    BY <2>1, OneMoreCounts
  <2> QED
    BY <2>2 DEF A, B
<1>3. Depth(ms, k + 1) = Cardinality(Begun(ms, k + 1)) - Cardinality(Ended(ms, k))
  <2>1. (k + 1) - 1 = k
    OBVIOUS
  <2> QED
    BY <2>1 DEF Depth, Begun, Ended
<1>4. Nesting(ms, 0) = 0
  <2>1. Begun(ms, 0) = {} /\ Ended(ms, 0) = {}
    BY DEF Begun, Ended
  <2> QED
    BY <2>1, FS_EmptySet DEF Nesting
<1> QED
  BY <1>1, <1>2, <1>3, <1>4, BlocksMatch DEF Nesting

\* Of the first k messages, b are the positions where the open blocks begin. A
\* block is open as long as no end came at its depth.
Openings(ms, k, b) ==
    /\ b \in Seq(1..k) /\ Nesting(ms, k) = Len(b)
    /\ \A l \in 1..Len(b) :
          /\ ms[b[l]].type \in BeginTypes /\ Depth(ms, b[l]) = l
          /\ \A j \in 1..k : b[l] < j /\ ms[j].type \in EndTypes => Depth(ms, j) > l
    /\ \A i \in 1..k :
          ms[i].type \in BeginTypes /\ (\A l \in 1..Len(b) : b[l] # i) =>
              \E j \in 1..k : i < j /\ ms[j].type \in EndTypes /\ Depth(ms, j) = Depth(ms, i)

\* A message that neither begins nor ends a block.
LEMMA OpeningsStay ==
    ASSUME NEW ms, NEW k \in Nat, NEW b, Openings(ms, k, b),
           ms[k + 1].type \notin BeginTypes \cup EndTypes
    PROVE  Openings(ms, k + 1, b)
<1>1. b \in Seq(1..(k + 1))
  BY DEF Openings
<1>2. Nesting(ms, k + 1) = Len(b)
  BY NestingFacts DEF Openings
<1>3. ASSUME NEW l \in 1..Len(b)
      PROVE  /\ ms[b[l]].type \in BeginTypes /\ Depth(ms, b[l]) = l
             /\ \A j \in 1..(k + 1) : b[l] < j /\ ms[j].type \in EndTypes => Depth(ms, j) > l
  <2>1. \A j \in 1..(k + 1) : j \in 1..k \/ j = k + 1
    OBVIOUS
  <2> QED
    BY <2>1 DEF Openings
<1>4. ASSUME NEW i \in 1..(k + 1), ms[i].type \in BeginTypes, \A l \in 1..Len(b) : b[l] # i
      PROVE  \E j \in 1..(k + 1) : i < j /\ ms[j].type \in EndTypes /\ Depth(ms, j) = Depth(ms, i)
  <2>1. i \in 1..k
    BY <1>4
  <2>2. PICK j \in 1..k : i < j /\ ms[j].type \in EndTypes /\ Depth(ms, j) = Depth(ms, i)
    BY <1>4, <2>1 DEF Openings
  <2> QED
    BY <2>2
<1> QED
  BY <1>1, <1>2, <1>3, <1>4 DEF Openings

\* A message that begins a block.
LEMMA OpeningsMore ==
    ASSUME NEW ms, NEW k \in Nat, NEW b, Openings(ms, k, b), ms[k + 1].type \in BeginTypes
    PROVE  Openings(ms, k + 1, Append(b, k + 1))
<1> DEFINE n == Len(b)
           d == Append(b, k + 1)
<1>1. b \in Seq(1..(k + 1)) /\ n \in Nat
  BY DEF Openings
<1>2. /\ d \in Seq(1..(k + 1)) /\ Len(d) = n + 1 /\ d[n + 1] = k + 1
      /\ \A l \in 1..n : d[l] = b[l]
  BY <1>1
<1> HIDE DEF d
<1>3. Nesting(ms, k + 1) = Len(d) /\ Depth(ms, k + 1) = n + 1
  BY <1>2, NestingFacts DEF Openings
<1>4. ms[k + 1].type \notin EndTypes
  BY BlocksMatch
<1> HIDE DEF n
<1>5. ASSUME NEW l \in 1..Len(d)
      PROVE  /\ ms[d[l]].type \in BeginTypes /\ Depth(ms, d[l]) = l
             /\ \A j \in 1..(k + 1) : d[l] < j /\ ms[j].type \in EndTypes => Depth(ms, j) > l
  <2>1. \A j \in 1..(k + 1) : j \in 1..k \/ j = k + 1
    OBVIOUS
  <2>2. CASE l = n + 1
    <3>1. d[l] = k + 1
      BY <1>2, <2>2
    <3>2. \A j \in 1..(k + 1) : ~(k + 1 < j)
      OBVIOUS
    <3> QED
      BY <1>3, <2>2, <3>1, <3>2
  <2>3. CASE l # n + 1
    <3>1. l \in 1..n /\ d[l] = b[l]
      BY <1>1, <1>2, <2>3
    <3> QED
      BY <1>4, <2>1, <3>1 DEF Openings, n
  <2> QED
    BY <2>2, <2>3
<1>6. ASSUME NEW i \in 1..(k + 1), ms[i].type \in BeginTypes, \A l \in 1..Len(d) : d[l] # i
      PROVE  \E j \in 1..(k + 1) : i < j /\ ms[j].type \in EndTypes /\ Depth(ms, j) = Depth(ms, i)
  <2>1. i # k + 1 /\ \A l \in 1..n : b[l] # i
    BY <1>1, <1>2, <1>6
  <2>2. i \in 1..k
    BY <2>1
  <2>3. PICK j \in 1..k : i < j /\ ms[j].type \in EndTypes /\ Depth(ms, j) = Depth(ms, i)
    BY <1>6, <2>1, <2>2 DEF Openings, n
  <2> QED
    BY <2>3
<1> QED
  BY <1>2, <1>3, <1>5, <1>6 DEF Openings, d

\* A message that ends a block: the innermost one, and no other.
LEMMA OpeningsLess ==
    ASSUME NEW ms, NEW k \in Nat, NEW b, Openings(ms, k, b), ms[k + 1].type \in EndTypes,
           b # <<>>, k + 1 \in DOMAIN ms, DOMAIN ms = 1..Len(ms), Len(ms) \in Nat,
           NEW o, o = b[Len(b)]
    PROVE  /\ Openings(ms, k + 1, Front(b))
           /\ <<o, k + 1>> \in Blocks(ms)
           /\ \A be \in Blocks(ms) : be[2] = k + 1 => be = <<o, k + 1>>
<1> DEFINE n == Len(b)
           d == Front(b)
<1>1. b \in Seq(1..k) /\ n \in Nat \ {0} /\ o \in 1..k
  BY DEF Openings
<1>2. /\ d \in Seq(1..k) /\ Len(d) = n - 1 /\ \A l \in 1..(n - 1) : d[l] = b[l]
  <2>1. d \in Seq(1..k) /\ DOMAIN d = 1..(n - 1) /\ \A l \in 1..(n - 1) : d[l] = b[l]
    BY <1>1, FrontFacts
  <2> HIDE DEF n, d
  <2> QED
    BY <1>1, <2>1
<1> HIDE DEF d
<1>3. Nesting(ms, k + 1) = Len(d) /\ Depth(ms, k + 1) = n
  BY <1>2, NestingFacts DEF Openings
<1>4. ms[k + 1].type \notin BeginTypes
  BY BlocksMatch
<1>5. ms[o].type \in BeginTypes /\ Depth(ms, o) = n
      /\ \A j \in 1..k : o < j /\ ms[j].type \in EndTypes => Depth(ms, j) > n
  BY <1>1 DEF Openings
<1> HIDE DEF n
<1>6. ASSUME NEW l \in 1..Len(d)
      PROVE  /\ ms[d[l]].type \in BeginTypes /\ Depth(ms, d[l]) = l
             /\ \A j \in 1..(k + 1) : d[l] < j /\ ms[j].type \in EndTypes => Depth(ms, j) > l
  <2>1. \A j \in 1..(k + 1) : j \in 1..k \/ j = k + 1
    OBVIOUS
  <2>2. l \in 1..n /\ d[l] = b[l] /\ l < n
    BY <1>1, <1>2
  <2> QED
    BY <1>3, <2>1, <2>2 DEF Openings, n
<1>7. ASSUME NEW i \in 1..(k + 1), ms[i].type \in BeginTypes, \A l \in 1..Len(d) : d[l] # i
      PROVE  \E j \in 1..(k + 1) : i < j /\ ms[j].type \in EndTypes /\ Depth(ms, j) = Depth(ms, i)
  <2>1. i \in 1..k
    BY <1>4, <1>7
  <2>2. CASE i = o
    <3>1. i < k + 1 /\ k + 1 \in 1..(k + 1)
      BY <2>1
    <3> QED
      BY <1>3, <1>5, <2>2, <3>1
  <2>3. CASE i # o
    <3>1. \A l \in 1..n : b[l] # i
      <4>1. \A l \in 1..n : l \in 1..(n - 1) \/ l = n
        BY <1>1
      <4> QED
        BY <1>2, <1>7, <2>3, <4>1 DEF n
    <3>2. PICK j \in 1..k : i < j /\ ms[j].type \in EndTypes /\ Depth(ms, j) = Depth(ms, i)
      BY <1>7, <2>1, <3>1 DEF Openings, n
    <3> QED
      BY <3>2
  <2> QED
    BY <2>2, <2>3
<1>8. Openings(ms, k + 1, d)
  <2>1. d \in Seq(1..(k + 1))
    BY <1>2
  <2> QED
    BY <1>3, <1>6, <1>7, <2>1 DEF Openings
<1>9. <<o, k + 1>> \in Blocks(ms)
  <2>1. \A j \in (o + 1)..((k + 1) - 1) :
           ms[j].type \in EndTypes => Depth(ms, j) # Depth(ms, o)
    <3> SUFFICES ASSUME NEW j \in (o + 1)..((k + 1) - 1), ms[j].type \in EndTypes
                 PROVE  Depth(ms, j) # n
      BY <1>5
    <3>1. j \in 1..k /\ o < j
      BY <1>1
    <3>2. Depth(ms, j) > n
      BY <1>5, <3>1
    <3> QED
      BY <1>1, <3>2
  <2>2. Ends(ms, o, k + 1)
    BY <1>1, <1>3, <1>5, <2>1 DEF Ends
  <2>3. o \in DOMAIN ms
    BY <1>1
  <2> QED
    BY <1>5, <2>2, <2>3 DEF Blocks
<1>10. ASSUME NEW be \in Blocks(ms), be[2] = k + 1 PROVE be = <<o, k + 1>>
  <2> DEFINE i == be[1]
  <2>1. /\ be = <<i, k + 1>> /\ i \in DOMAIN ms /\ ms[i].type \in BeginTypes
        /\ Ends(ms, i, k + 1)
    BY <1>10 DEF Blocks
  <2> HIDE DEF i
  <2>2. i \in 1..k /\ Depth(ms, i) = n
    BY <1>3, <2>1 DEF Ends
  <2>3. \A j \in 1..k : i < j /\ ms[j].type \in EndTypes => Depth(ms, j) # Depth(ms, i)
    <3>1. \A j \in 1..k : i < j => j \in (i + 1)..((k + 1) - 1)
      BY <2>2
    <3> QED
      BY <2>1, <3>1 DEF Ends
  <2>4. PICK l \in 1..n : b[l] = i
    BY <2>1, <2>2, <2>3 DEF Openings, n
  <2>5. l = n
    BY <2>2, <2>4 DEF Openings, n
  <2> QED
    BY <2>1, <2>4, <2>5 DEF n
<1> QED
  BY <1>8, <1>9, <1>10 DEF d

\* The lists c that finalize() has made of the first k messages: list l holds the
\* messages at the positions g[l]. All positions ascend, from list to list too.
Traces(ms, k, c, g) ==
    /\ g \in Seq(Seq(1..k)) /\ c \in Seq(Seq(Message)) /\ Len(g) = Len(c)
    /\ \A l \in 1..Len(c) : Len(g[l]) = Len(c[l])
    /\ \A l \in 1..Len(c) : \A i \in 1..Len(c[l]) : c[l][i] = ms[g[l][i]]
    /\ \A l \in 1..Len(c) : \A i, j \in 1..Len(g[l]) : i < j => g[l][i] < g[l][j]
    /\ \A l, n \in 1..Len(c) : \A i \in 1..Len(g[l]), j \in 1..Len(g[n]) :
          l < n => g[l][i] < g[n][j]

\* A position is in some list.
Listed(g, i) == \E l \in 1..Len(g) : \E j \in 1..Len(g[l]) : g[l][j] = i

\* An element is added to the last list.
Extended(c, x) == Append(Front(c), Append(Last(c), x))

\* All lists but the last are the same.
SameBelow(n, d, c) == \A l \in 1..(n - 1) : d[l] = c[l]

LEMMA ExtendedFacts ==
    ASSUME NEW S, NEW c, NEW e, NEW n, NEW d, NEW y,
           c \in Seq(Seq(S)), c # <<>>, e \in S, n = Len(c),
           d = Extended(c, e), y = Append(c[n], e)
    PROVE  d \in Seq(Seq(S)) /\ Len(d) = n /\ d[n] = y /\ SameBelow(n, d, c)
<1> DEFINE f == Front(c)
           m == n - 1
<1>1. /\ f \in Seq(Seq(S)) /\ DOMAIN f = 1..m /\ \A l \in 1..m : f[l] = c[l]
      /\ Last(c) = c[n] /\ c[n] \in Seq(S) /\ n \in Nat \ {0}
  BY FrontFacts
<1>2. y \in Seq(S) /\ d = Append(f, y)
  BY <1>1 DEF Extended
<1> HIDE DEF f
<1>3. m \in Nat /\ m + 1 = n
  BY ONLY <1>1
<1> HIDE DEF m
<1>4. Len(f) = m
  BY ONLY <1>1, <1>3
<1> DEFINE T == Seq(S)
<1>5. f \in Seq(T) /\ y \in T
  BY <1>1, <1>2
<1> HIDE DEF T
<1>6. /\ Append(f, y) \in Seq(T) /\ DOMAIN Append(f, y) = 1..(Len(f) + 1)
      /\ \A l \in 1..Len(f) : Append(f, y)[l] = f[l]
      /\ Append(f, y)[Len(f) + 1] = y
  BY ONLY <1>5, AppendFacts
<1>7. d \in Seq(T) /\ DOMAIN d = 1..n /\ d[n] = y /\ \A l \in 1..m : d[l] = c[l]
  BY ONLY <1>1, <1>2, <1>3, <1>4, <1>6
<1>8. Len(d) = n
  BY ONLY <1>1, <1>7
<1> QED
  BY <1>7, <1>8 DEF T, m, SameBelow

LEMMA TraceMore ==
    ASSUME NEW ms, NEW k \in Nat, NEW c, NEW g, Traces(ms, k, c, g), c # <<>>,
           ms[k + 1] \in Message,
           NEW d, d = Extended(c, ms[k + 1]),
           NEW h, h = Extended(g, k + 1)
    PROVE  /\ Traces(ms, k + 1, d, h) /\ Len(h) = Len(g)
           /\ \A i : Listed(h, i) <=> Listed(g, i) \/ i = k + 1
           /\ Listed(h, k + 1)
           /\ \A l \in 1..Len(g) :
                 /\ l # Len(g) => h[l] = g[l] /\ d[l] = c[l]
                 /\ Len(h[l]) >= Len(g[l])
                 /\ \A j \in 1..Len(g[l]) : h[l][j] = g[l][j]
           /\ Len(h[Len(g)]) = Len(g[Len(g)]) + 1
           /\ h[Len(g)][Len(g[Len(g)]) + 1] = k + 1
<1> DEFINE L == Len(c)
           u == g[L]
           v == c[L]
<1>1. /\ c \in Seq(Seq(Message)) /\ g \in Seq(Seq(1..k)) /\ L \in Nat \ {0} /\ Len(g) = L
      /\ g # <<>>
  BY DEF Traces
<1>2. /\ u \in Seq(1..k) /\ v \in Seq(Message) /\ Len(u) = Len(v) /\ Len(u) \in Nat
  BY <1>1 DEF Traces
<1> DEFINE x == Append(u, k + 1)
           y == Append(v, ms[k + 1])
<1>5. /\ x \in Seq(1..(k + 1)) /\ Len(x) = Len(u) + 1 /\ x[Len(u) + 1] = k + 1
      /\ \A i \in 1..Len(u) : x[i] = u[i]
  <2>1. u \in Seq(1..(k + 1))
    BY <1>2
  <2> QED
    BY <2>1
<1>6. /\ y \in Seq(Message) /\ Len(y) = Len(v) + 1 /\ y[Len(v) + 1] = ms[k + 1]
      /\ \A i \in 1..Len(v) : y[i] = v[i]
  BY <1>2
<1>7. /\ d \in Seq(Seq(Message)) /\ Len(d) = L /\ d[L] = y
      /\ \A l \in 1..(L - 1) : d[l] = c[l]
  <2> DEFINE m == ms[k + 1]
  <2> HIDE DEF L, x, y
  <2>1. /\ c \in Seq(Seq(Message)) /\ c # <<>> /\ m \in Message /\ L = Len(c)
        /\ d = Extended(c, m) /\ y = Append(c[L], m)
    BY <1>1 DEF L, v, y
  <2> HIDE DEF m
  <2>2. d \in Seq(Seq(Message)) /\ Len(d) = L /\ d[L] = y /\ SameBelow(L, d, c)
    BY ONLY <2>1, ExtendedFacts
  <2> QED
    BY ONLY <2>2 DEF SameBelow
<1>8. /\ h \in Seq(Seq(1..(k + 1))) /\ Len(h) = L /\ h[L] = x
      /\ \A l \in 1..(L - 1) : h[l] = g[l]
  <2>1. g \in Seq(Seq(1..(k + 1)))
    <3>1. \A s \in Seq(1..k) : s \in Seq(1..(k + 1))
      OBVIOUS
    <3>2. \A l \in 1..L : g[l] \in Seq(1..(k + 1))
      BY <1>1, <3>1, ElementOfSeq
    <3> QED
      BY <1>1, <3>2
  <2> DEFINE K == 1..(k + 1)
             p == k + 1
  <2>2. p \in K /\ g \in Seq(Seq(K))
    BY <2>1
  <2> HIDE DEF L, x, y
  <2>3. g # <<>> /\ L = Len(g) /\ h = Extended(g, p) /\ x = Append(g[L], p)
    BY <1>1 DEF L, u, x
  <2> HIDE DEF K, p
  <2>4. h \in Seq(Seq(K)) /\ Len(h) = L /\ h[L] = x /\ SameBelow(L, h, g)
    BY ONLY <2>2, <2>3, ExtendedFacts
  <2> QED
    BY ONLY <2>4 DEF K, SameBelow
<1> HIDE DEF x, y
<1>9. \A l \in 1..L : l \in 1..(L - 1) \/ l = L
  BY <1>1
<1>19. /\ \A i \in 1..Len(v) : v[i] = ms[u[i]]
       /\ \A i, j \in 1..Len(u) : i < j => u[i] < u[j]
       /\ L \in 1..L /\ L = Len(c)
  <2>1. L \in 1..L
    BY <1>1
  <2> QED
    BY <2>1 DEF Traces
<1>20. \A l \in 1..L : g[l] \in Seq(1..k)
  BY <1>1
<1> HIDE DEF L, u, v
<1>10. \A l \in 1..L : Len(h[l]) = Len(d[l])
  BY <1>2, <1>5, <1>6, <1>7, <1>8, <1>9 DEF Traces, L
<1>11. ASSUME NEW l \in 1..L, NEW i \in 1..Len(d[l]) PROVE d[l][i] = ms[h[l][i]]
  <2>1. CASE l = L
    <3>1. i \in 1..Len(v) \/ i = Len(v) + 1
      BY <1>2, <1>6, <1>7, <2>1
    <3>2. d[l] = y /\ h[l] = x
      BY <1>7, <1>8, <2>1
    <3>3. CASE i \in 1..Len(v)
      BY ONLY <1>2, <1>5, <1>6, <1>19, <3>2, <3>3
    <3>4. CASE i = Len(v) + 1
      BY ONLY <1>2, <1>5, <1>6, <3>2, <3>4
    <3> QED
      BY <3>1, <3>3, <3>4
  <2>2. CASE l # L
    <3>1. l \in 1..Len(c) /\ d[l] = c[l] /\ h[l] = g[l]
      BY <1>7, <1>8, <1>9, <1>19, <2>2
    <3>2. i \in 1..Len(c[l])
      BY <3>1
    <3> QED
      BY <3>1, <3>2 DEF Traces
  <2> QED
    BY <2>1, <2>2
<1>12. \A i \in 1..Len(u) : u[i] \in 1..k
  BY <1>2
<1>13. ASSUME NEW l \in 1..L, NEW i \in 1..Len(h[l]), NEW j \in 1..Len(h[l]), i < j
       PROVE  h[l][i] < h[l][j]
  <2>1. CASE l = L
    <3>1. h[l] = x
      BY <1>8, <2>1
    <3>2. i \in 1..(Len(u) + 1) /\ j \in 1..(Len(u) + 1)
      BY <1>5, <3>1
    <3>3. i \in 1..Len(u) /\ (j \in 1..Len(u) \/ j = Len(u) + 1)
      <4>1. Len(u) \in Nat /\ i < j
        BY <1>2, <1>13
      <4> HIDE DEF u
      <4> QED
        BY ONLY <3>2, <4>1
    <3>4. CASE j \in 1..Len(u)
      BY ONLY <1>5, <1>13, <1>19, <3>1, <3>3, <3>4
    <3>5. CASE j = Len(u) + 1
      <4>1. x[i] \in 1..k /\ x[j] = k + 1
        BY ONLY <1>5, <1>12, <3>3, <3>5
      <4> QED
        BY ONLY <3>1, <4>1, k \in Nat
    <3> QED
      BY <3>3, <3>4, <3>5
  <2>2. CASE l # L
    <3>1. l \in 1..Len(c) /\ h[l] = g[l]
      BY <1>8, <1>9, <1>19, <2>2
    <3> QED
      BY <1>13, <3>1 DEF Traces
  <2> QED
    BY <2>1, <2>2
<1>14. ASSUME NEW l \in 1..L, NEW n \in 1..L, NEW i \in 1..Len(h[l]), NEW j \in 1..Len(h[n]),
              l < n
       PROVE  h[l][i] < h[n][j]
  <2>1. l \in 1..(L - 1) /\ h[l] = g[l] /\ l \in 1..Len(c) /\ n \in 1..Len(c)
    <3>1. l \in 1..(L - 1)
      BY ONLY <1>1, <1>14
    <3> QED
      BY <1>8, <1>19, <3>1
  <2>2. g[l][i] \in 1..k
    <3>1. g[l] \in Seq(1..k) /\ i \in 1..Len(g[l])
      BY <1>20, <2>1
    <3> QED
      BY ONLY <3>1
  <2>3. CASE n = L
    <3>1. h[n] = x /\ h[l][i] = g[l][i]
      BY <1>8, <2>1, <2>3
    <3>2. j \in 1..Len(u) \/ j = Len(u) + 1
      <4>1. j \in 1..(Len(u) + 1)
        BY <1>5, <3>1
      <4> QED
        BY ONLY <1>2, <4>1
    <3>3. \A m \in 1..Len(u) : g[l][i] < u[m]
      <4>1. u = g[n] /\ i \in 1..Len(g[l])
        BY <2>1, <2>3 DEF u
      <4> QED
        BY <1>14, <2>1, <4>1 DEF Traces
    <3>4. CASE j \in 1..Len(u)
      BY <1>5, <3>1, <3>3, <3>4
    <3>5. CASE j = Len(u) + 1
      BY ONLY <1>5, <2>2, <3>1, <3>5
    <3> QED
      BY <3>2, <3>4, <3>5
  <2>4. CASE n # L
    <3>1. h[n] = g[n]
      BY <1>8, <1>9, <2>4
    <3> QED
      BY <1>14, <2>1, <3>1 DEF Traces
  <2> QED
    BY <2>3, <2>4
<1>15. Traces(ms, k + 1, d, h)
  <2>1. /\ h \in Seq(Seq(1..(k + 1))) /\ d \in Seq(Seq(Message)) /\ Len(h) = Len(d)
        /\ Len(d) = L
    BY <1>7, <1>8
  <2>2. \A l \in 1..L : \A i \in 1..Len(d[l]) : d[l][i] = ms[h[l][i]]
    BY <1>11
  <2>3. \A l \in 1..L : \A i, j \in 1..Len(h[l]) : i < j => h[l][i] < h[l][j]
    BY <1>13
  <2>4. \A l, n \in 1..L : \A i \in 1..Len(h[l]), j \in 1..Len(h[n]) :
           l < n => h[l][i] < h[n][j]
    BY <1>14
  <2> QED
    BY ONLY <1>10, <2>1, <2>2, <2>3, <2>4 DEF Traces
<1>16. ASSUME NEW i PROVE Listed(h, i) <=> Listed(g, i) \/ i = k + 1
  <2>1. ASSUME Listed(h, i) PROVE Listed(g, i) \/ i = k + 1
    <3>1. PICK l \in 1..L : \E j \in 1..Len(h[l]) : h[l][j] = i
      BY <1>8, <2>1 DEF Listed
    <3>2. PICK j \in 1..Len(h[l]) : h[l][j] = i
      BY <3>1
    <3>3. CASE l = L
      <4>1. j \in 1..Len(u) \/ j = Len(u) + 1
        BY <1>2, <1>5, <1>8, <3>3
      <4>2. L \in 1..Len(g) /\ u = g[L]
        BY <1>1 DEF u
      <4> QED
        BY <1>5, <1>8, <3>2, <3>3, <4>1, <4>2 DEF Listed
    <3>4. CASE l # L
      <4>1. h[l] = g[l] /\ l \in 1..Len(g)
        BY <1>1, <1>8, <1>9, <3>4
      <4> QED
        BY <3>2, <4>1 DEF Listed
    <3> QED
      BY <3>3, <3>4
  <2>2. ASSUME Listed(g, i) PROVE Listed(h, i)
    <3>1. PICK l \in 1..L : \E j \in 1..Len(g[l]) : g[l][j] = i
      BY <1>1, <2>2 DEF Listed
    <3>2. PICK j \in 1..Len(g[l]) : g[l][j] = i
      BY <3>1
    <3>3. CASE l = L
      <4>1. j \in 1..Len(u) /\ u[j] = i
        BY <3>2, <3>3 DEF u
      <4>2. j \in 1..Len(x) /\ x[j] = i
        BY <1>2, <1>5, <4>1
      <4> QED
        BY <1>8, <3>3, <4>2 DEF Listed
    <3>4. CASE l # L
      <4>1. h[l] = g[l] /\ l \in 1..Len(h)
        BY <1>8, <1>9, <3>4
      <4> QED
        BY <3>2, <4>1 DEF Listed
    <3> QED
      BY <3>3, <3>4
  <2>3. Listed(h, k + 1)
    <3>1. L \in 1..Len(h) /\ Len(u) + 1 \in 1..Len(h[L]) /\ h[L][Len(u) + 1] = k + 1
      <4>1. Len(u) + 1 \in 1..(Len(u) + 1)
        BY ONLY <1>2
      <4> QED
        BY <1>5, <1>8, <1>19, <4>1
    <3> QED
      BY <3>1 DEF Listed
  <2> QED
    BY <2>1, <2>2, <2>3
<1>17. \A l \in 1..L :
          /\ l # L => h[l] = g[l] /\ d[l] = c[l]
          /\ Len(h[l]) >= Len(g[l])
          /\ \A j \in 1..Len(g[l]) : h[l][j] = g[l][j]
  <2> SUFFICES ASSUME NEW l \in 1..L
               PROVE  /\ l # L => h[l] = g[l] /\ d[l] = c[l]
                      /\ Len(h[l]) >= Len(g[l])
                      /\ \A j \in 1..Len(g[l]) : h[l][j] = g[l][j]
    OBVIOUS
  <2>1. CASE l = L
    <3>1. h[l] = x /\ g[l] = u
      BY <1>8, <2>1 DEF u
    <3> QED
      BY ONLY <1>2, <1>5, <2>1, <3>1
  <2>2. CASE l # L
    <3>1. h[l] = g[l] /\ d[l] = c[l]
      BY ONLY <1>7, <1>8, <1>9, <2>2
    <3>2. Len(g[l]) \in Nat
      <4>1. g[l] \in Seq(1..k)
        BY <1>20
      <4> QED
        BY ONLY <4>1
    <3> QED
      BY ONLY <3>1, <3>2, <2>2
  <2> QED
    BY <2>1, <2>2
<1>18. Len(h[Len(g)]) = Len(g[Len(g)]) + 1 /\ h[Len(g)][Len(g[Len(g)]) + 1] = k + 1
  BY <1>1, <1>5, <1>8 DEF u
<1> QED
  BY <1>1, <1>8, <1>15, <1>16, <1>17, <1>18

\* What is in a list has a position among the first k.
LEMMA TraceRange ==
    ASSUME NEW ms, NEW k \in Nat, NEW c, NEW g, Traces(ms, k, c, g)
    PROVE  /\ Len(g) = Len(c) /\ Len(c) \in Nat
           /\ \A l \in 1..Len(c) : /\ g[l] \in Seq(1..k) /\ c[l] \in Seq(Message)
                                   /\ Len(g[l]) \in Nat /\ Len(g[l]) = Len(c[l])
                                   /\ \A i \in 1..Len(g[l]) : g[l][i] \in 1..k
<1>1. /\ g \in Seq(Seq(1..k)) /\ c \in Seq(Seq(Message)) /\ Len(g) = Len(c)
      /\ \A l \in 1..Len(c) : Len(g[l]) = Len(c[l])
  BY DEF Traces
<1>2. \A l \in 1..Len(c) : g[l] \in Seq(1..k) /\ c[l] \in Seq(Message)
  BY <1>1
<1>3. \A s \in Seq(1..k) : Len(s) \in Nat /\ \A i \in 1..Len(s) : s[i] \in 1..k
  OBVIOUS
<1> QED
  BY <1>1, <1>2, <1>3

\* A list is opened with one element.
Pushed(c, x) == Append(c, <<x>>)

LEMMA TracePush ==
    ASSUME NEW ms, NEW k \in Nat, NEW c, NEW g, Traces(ms, k, c, g), ms[k + 1] \in Message,
           NEW d, d = Pushed(c, ms[k + 1]), NEW h, h = Pushed(g, k + 1)
    PROVE  /\ Traces(ms, k + 1, d, h)
           /\ Len(d) = Len(c) + 1 /\ Len(h) = Len(g) + 1 /\ h[Len(g) + 1] = <<k + 1>>
           /\ \A l \in 1..Len(g) : h[l] = g[l]
           /\ \A i : Listed(h, i) <=> Listed(g, i) \/ i = k + 1
<1> DEFINE L == Len(c)
           x == <<k + 1>>
           y == <<ms[k + 1]>>
<1>1. /\ c \in Seq(Seq(Message)) /\ g \in Seq(Seq(1..k)) /\ L \in Nat /\ Len(g) = L
  BY TraceRange DEF Traces
<1>2. /\ x \in Seq(1..(k + 1)) /\ y \in Seq(Message) /\ Len(x) = 1 /\ Len(y) = 1
      /\ x[1] = k + 1 /\ y[1] = ms[k + 1]
  OBVIOUS
<1>3. g \in Seq(Seq(1..(k + 1)))
  <2>1. \A s \in Seq(1..k) : s \in Seq(1..(k + 1))
    OBVIOUS
  <2>2. \A l \in 1..L : g[l] \in Seq(1..(k + 1))
    BY <1>1, <2>1, ElementOfSeq
  <2> QED
    BY <1>1, <2>2
<1> HIDE DEF x, y, L
<1>4. /\ d \in Seq(Seq(Message)) /\ Len(d) = L + 1 /\ d[L + 1] = y
      /\ \A l \in 1..L : d[l] = c[l]
  <2>1. d = Append(c, y)
    BY DEF y, Pushed
  <2> QED
    BY ONLY <1>1, <1>2, <2>1 DEF L
<1>5. /\ h \in Seq(Seq(1..(k + 1))) /\ Len(h) = L + 1 /\ h[L + 1] = x
      /\ \A l \in 1..L : h[l] = g[l]
  <2>1. h = Append(g, x)
    BY DEF x, Pushed
  <2> QED
    BY ONLY <1>1, <1>2, <1>3, <2>1
<1>6. \A l \in 1..(L + 1) : l \in 1..L \/ l = L + 1
  BY <1>1
<1>7. \A l \in 1..L : /\ Len(h[l]) = Len(d[l])
                      /\ \A i \in 1..Len(d[l]) : d[l][i] = ms[h[l][i]]
                      /\ \A i, j \in 1..Len(h[l]) : i < j => h[l][i] < h[l][j]
  <2>1. \A l \in 1..L : /\ Len(g[l]) = Len(c[l])
                        /\ \A i \in 1..Len(c[l]) : c[l][i] = ms[g[l][i]]
                        /\ \A i, j \in 1..Len(g[l]) : i < j => g[l][i] < g[l][j]
    BY DEF Traces, L
  <2>2. \A l \in 1..L : h[l] = g[l] /\ d[l] = c[l]
    BY ONLY <1>4, <1>5
  <2> QED
    BY ONLY <2>1, <2>2
<1>8. /\ Len(h[L + 1]) = Len(d[L + 1])
      /\ \A i \in 1..Len(d[L + 1]) : d[L + 1][i] = ms[h[L + 1][i]]
      /\ \A i, j \in 1..Len(h[L + 1]) : ~(i < j)
  <2>1. 1..1 = {1}
    OBVIOUS
  <2>2. h[L + 1] = x /\ d[L + 1] = y
    BY ONLY <1>4, <1>5
  <2>3. /\ Len(x) = Len(y)
        /\ \A i \in 1..Len(y) : y[i] = ms[x[i]]
        /\ \A i, j \in 1..Len(x) : ~(i < j)
    BY ONLY <1>2, <2>1
  <2> QED
    BY ONLY <2>2, <2>3
<1>9. ASSUME NEW l \in 1..(L + 1), NEW n \in 1..(L + 1), l < n,
             NEW i \in 1..Len(h[l]), NEW j \in 1..Len(h[n])
      PROVE  h[l][i] < h[n][j]
  <2>1. l \in 1..L
    BY ONLY <1>1, <1>9
  <2>2. h[l] = g[l] /\ i \in 1..Len(g[l]) /\ l \in 1..Len(c)
    BY <1>5, <2>1 DEF L
  <2>3. g[l][i] \in 1..k
    BY <2>2, TraceRange
  <2>4. CASE n = L + 1
    <3>1. h[n][j] = k + 1
      <4>1. j \in 1..1
        BY <1>2, <1>5, <2>4
      <4> QED
        BY <1>2, <1>5, <2>4, <4>1
    <3> QED
      BY ONLY k \in Nat, <2>2, <2>3, <3>1
  <2>5. CASE n # L + 1
    <3>1. n \in 1..Len(c) /\ h[n] = g[n] /\ j \in 1..Len(g[n])
      BY <1>5, <1>6, <2>5 DEF L
    <3>2. g[l][i] < g[n][j]
      BY <1>9, <2>2, <3>1 DEF Traces
    <3> QED
      BY ONLY <2>2, <3>1, <3>2
  <2> QED
    BY <2>4, <2>5
<1>10. Traces(ms, k + 1, d, h)
  <2>1. \A l \in 1..(L + 1) : /\ Len(h[l]) = Len(d[l])
                              /\ \A i \in 1..Len(d[l]) : d[l][i] = ms[h[l][i]]
                              /\ \A i, j \in 1..Len(h[l]) : i < j => h[l][i] < h[l][j]
    BY <1>6, <1>7, <1>8
  <2>2. \A l, n \in 1..(L + 1) : \A i \in 1..Len(h[l]), j \in 1..Len(h[n]) :
           l < n => h[l][i] < h[n][j]
    BY <1>9
  <2>3. /\ h \in Seq(Seq(1..(k + 1))) /\ d \in Seq(Seq(Message)) /\ Len(h) = Len(d)
        /\ Len(d) = L + 1
    BY <1>4, <1>5
  <2> QED
    BY ONLY <2>1, <2>2, <2>3 DEF Traces
<1>11. ASSUME NEW i PROVE Listed(h, i) <=> Listed(g, i) \/ i = k + 1
  <2>1. (\E j \in 1..Len(h[L + 1]) : h[L + 1][j] = i) <=> i = k + 1
    <3>1. 1..Len(h[L + 1]) = {1}
      <4>1. Len(h[L + 1]) = 1
        BY ONLY <1>2, <1>5
      <4>2. 1..1 = {1}
        OBVIOUS
      <4> QED
        BY ONLY <4>1, <4>2
    <3>2. h[L + 1][1] = k + 1
      BY ONLY <1>2, <1>5
    <3> QED
      BY ONLY <3>1, <3>2
  <2>2. \A l \in 1..L : h[l] = g[l]
    BY <1>5
  <2>3. L + 1 \in 1..(L + 1) /\ \A l \in 1..L : l \in 1..(L + 1)
    BY <1>1
  <2> QED
    BY ONLY <1>1, <1>5, <1>6, <2>1, <2>2, <2>3 DEF Listed
<1> QED
  BY <1>1, <1>4, <1>5, <1>10, <1>11 DEF L, x

\* The last list has n lists below it.
HasBelow(c, n) == n \in Nat /\ Len(c) = n + 1

\* The last list is dropped.
LEMMA TraceDrop ==
    ASSUME NEW ms, NEW k \in Nat, NEW c, NEW g, NEW n, NEW d, NEW h,
           Traces(ms, k, c, g), HasBelow(c, n), d = Front(c), h = Front(g)
    PROVE  /\ Traces(ms, k, d, h) /\ Len(d) = n /\ Len(h) = n
<1> n \in Nat
  BY DEF HasBelow
<1>1. /\ c \in Seq(Seq(Message)) /\ g \in Seq(Seq(1..k))
      /\ Len(c) = n + 1 /\ Len(g) = n + 1
      /\ c # <<>> /\ g # <<>> /\ n = Len(c) - 1 /\ n = Len(g) - 1
  BY DEF Traces, HasBelow
<1>2. /\ d \in Seq(Seq(Message)) /\ DOMAIN d = 1..n /\ \A l \in 1..n : d[l] = c[l]
  BY <1>1, FrontFacts
<1>3. /\ h \in Seq(Seq(1..k)) /\ DOMAIN h = 1..n /\ \A l \in 1..n : h[l] = g[l]
  BY <1>1, FrontFacts
<1>4. Len(d) = n /\ Len(h) = n
  BY ONLY n \in Nat, <1>2, <1>3
<1>5. /\ \A l \in 1..n : l \in 1..(n + 1)
      /\ \A l \in 1..(n + 1) : l \in 1..n \/ l = n + 1
      /\ n + 1 \in 1..(n + 1)
  OBVIOUS
<1>6. Traces(ms, k, d, h)
  <2>1. \A l \in 1..n : /\ Len(h[l]) = Len(d[l])
                        /\ \A i \in 1..Len(d[l]) : d[l][i] = ms[h[l][i]]
                        /\ \A i, j \in 1..Len(h[l]) : i < j => h[l][i] < h[l][j]
    <3> SUFFICES ASSUME NEW l \in 1..n
                 PROVE  /\ Len(h[l]) = Len(d[l])
                        /\ \A i \in 1..Len(d[l]) : d[l][i] = ms[h[l][i]]
                        /\ \A i, j \in 1..Len(h[l]) : i < j => h[l][i] < h[l][j]
      OBVIOUS
    <3>1. l \in 1..Len(c) /\ h[l] = g[l] /\ d[l] = c[l]
      BY <1>1, <1>2, <1>3, <1>5
    <3> QED
      BY <3>1 DEF Traces
  <2>2. \A l, m \in 1..n : \A i \in 1..Len(h[l]), j \in 1..Len(h[m]) :
           l < m => h[l][i] < h[m][j]
    <3>1. \A l, m \in 1..(n + 1) : \A i \in 1..Len(g[l]), j \in 1..Len(g[m]) :
             l < m => g[l][i] < g[m][j]
      BY <1>1 DEF Traces
    <3> QED
      BY ONLY <1>3, <1>5, <3>1
  <2> QED
    BY ONLY <1>2, <1>3, <1>4, <2>1, <2>2 DEF Traces
<1> QED
  BY <1>4, <1>6

\* What the concatenation of two sequences is.
LEMMA ConcatFacts ==
    ASSUME NEW S, NEW s \in Seq(S), NEW t \in Seq(S)
    PROVE  /\ s \o t \in Seq(S) /\ Len(s) \in Nat /\ Len(t) \in Nat
           /\ Len(s \o t) = Len(s) + Len(t)
           /\ \A i \in 1..Len(s) : (s \o t)[i] = s[i]
           /\ \A i \in 1..Len(t) : (s \o t)[Len(s) + i] = t[i]
           /\ \A i \in 1..(Len(s) + Len(t)) :
                 i \in 1..Len(s) \/ \E j \in 1..Len(t) : i = Len(s) + j
<1>1. \A i \in 1..(Len(s) + Len(t)) :
          i \in 1..Len(s) \/ (i - Len(s) \in 1..Len(t) /\ i = Len(s) + (i - Len(s)))
  OBVIOUS
<1>2. /\ s \o t \in Seq(S) /\ Len(s) \in Nat /\ Len(t) \in Nat
      /\ Len(s \o t) = Len(s) + Len(t)
  OBVIOUS
<1>3. \A i \in 1..Len(s) : (s \o t)[i] = s[i]
  OBVIOUS
<1>4. ASSUME NEW i \in 1..Len(t) PROVE (s \o t)[Len(s) + i] = t[i]
  OBVIOUS
<1>5. \A i \in 1..(Len(s) + Len(t)) : i \in 1..Len(s) \/ \E j \in 1..Len(t) : i = Len(s) + j
  BY ONLY <1>1
<1> QED
  BY ONLY <1>2, <1>3, <1>4, <1>5

\* The last list joins the one below it.
Joined(c) == [Front(c) EXCEPT ![Len(Front(c))] = @ \o Last(c)]

LEMMA JoinedAt ==
    ASSUME NEW S, NEW c \in Seq(Seq(S)), NEW n \in Nat, n = Len(c) - 1, n # 0
    PROVE  /\ Joined(c) \in Seq(Seq(S)) /\ Len(Joined(c)) = n
           /\ Joined(c)[n] = c[n] \o c[n + 1]
           /\ \A l \in 1..(n - 1) : Joined(c)[l] = c[l]
<1>1. c # <<>> /\ Len(c) = n + 1 /\ c[n] \in Seq(S) /\ c[n + 1] \in Seq(S)
  OBVIOUS
<1>2. /\ Front(c) \in Seq(Seq(S)) /\ DOMAIN Front(c) = 1..n
      /\ \A l \in 1..n : Front(c)[l] = c[l]
      /\ Last(c) = c[n + 1]
  <2>1. Len(c) - 1 = n
    OBVIOUS
  <2> QED
    BY <1>1, <2>1, FrontFacts
<1>3. Len(Front(c)) = n
  BY <1>2
<1>4. Front(c)[n] = c[n] /\ n \in 1..Len(Front(c))
  <2>1. n \in 1..n
    OBVIOUS
  <2> QED
    BY ONLY <1>2, <1>3, <2>1
<1>5. c[n] \o c[n + 1] \in Seq(S)
  BY <1>1
<1> DEFINE e == c[n] \o c[n + 1]
           d == [Front(c) EXCEPT ![n] = e]
<1> HIDE DEF e
<1>6. /\ d \in Seq(Seq(S)) /\ Len(d) = n
      /\ \A l \in 1..n : d[l] = IF l = n THEN e ELSE Front(c)[l]
  BY <1>2, <1>3, <1>4, <1>5, ReplaceFacts DEF e
<1>7. Joined(c) = d
  BY <1>2, <1>3, <1>4 DEF e, Joined
<1> HIDE DEF d
<1>8. n \in 1..n /\ \A l \in 1..(n - 1) : l \in 1..n /\ l # n
  OBVIOUS
<1>9. d[n] = e /\ \A l \in 1..(n - 1) : d[l] = c[l]
  BY <1>2, <1>6, <1>8
<1> QED
  BY <1>6, <1>7, <1>9 DEF e

\* Each of n lists starts with what it was, and the same positions are listed.
Lengthens(n, h, g) ==
    \A l \in 1..n : Len(h[l]) >= Len(g[l]) /\ \A j \in 1..Len(g[l]) : h[l][j] = g[l][j]

SameListed(h, g) == \A i : Listed(h, i) <=> Listed(g, i)

LEMMA TraceJoin ==
    ASSUME NEW ms, NEW k \in Nat, NEW c, NEW g, NEW n, NEW d, NEW h,
           Traces(ms, k, c, g), HasBelow(c, n), n # 0, d = Joined(c), h = Joined(g)
    PROVE  /\ Traces(ms, k, d, h) /\ Len(d) = n /\ Len(h) = n
           /\ Lengthens(n, h, g) /\ SameListed(h, g)
<1> n \in Nat /\ n = Len(c) - 1
  BY DEF Traces, HasBelow
<1>1. /\ c \in Seq(Seq(Message)) /\ g \in Seq(Seq(1..k))
      /\ Len(c) = n + 1 /\ Len(g) = n + 1 /\ n = Len(g) - 1
      /\ \A l \in 1..(n + 1) :
            /\ g[l] \in Seq(1..k) /\ c[l] \in Seq(Message)
            /\ Len(g[l]) \in Nat /\ Len(g[l]) = Len(c[l])
            /\ \A i \in 1..Len(g[l]) : g[l][i] \in 1..k
  <2>1. /\ c \in Seq(Seq(Message)) /\ g \in Seq(Seq(1..k)) /\ Len(g) = Len(c)
    BY DEF Traces
  <2>2. Len(c) = n + 1
    BY <2>1
  <2>3. \A l \in 1..Len(c) :
            /\ g[l] \in Seq(1..k) /\ c[l] \in Seq(Message)
            /\ Len(g[l]) \in Nat /\ Len(g[l]) = Len(c[l])
            /\ \A i \in 1..Len(g[l]) : g[l][i] \in 1..k
    BY TraceRange
  <2>4. n = (n + 1) - 1
    OBVIOUS
  <2> QED
    BY ONLY <2>1, <2>2, <2>3, <2>4
<1>2. /\ d \in Seq(Seq(Message)) /\ Len(d) = n /\ d[n] = c[n] \o c[n + 1]
      /\ \A l \in 1..(n - 1) : d[l] = c[l]
  <2>1. c \in Seq(Seq(Message)) /\ n = Len(c) - 1
    BY <1>1
  <2> QED
    BY <2>1, JoinedAt
<1>3. /\ h \in Seq(Seq(1..k)) /\ Len(h) = n /\ h[n] = g[n] \o g[n + 1]
      /\ \A l \in 1..(n - 1) : h[l] = g[l]
  <2>1. g \in Seq(Seq(1..k)) /\ n = Len(g) - 1
    BY <1>1
  <2> QED
    BY <2>1, JoinedAt
<1>4. /\ n \in 1..(n + 1) /\ n + 1 \in 1..(n + 1) /\ n \in 1..n
      /\ \A l \in 1..n : l \in 1..(n + 1) /\ (l \in 1..(n - 1) \/ l = n)
      /\ \A l \in 1..(n + 1) : l \in 1..(n - 1) \/ l = n \/ l = n + 1
      /\ \A l, m \in 1..n : l < m => l \in 1..(n - 1) /\ l < n + 1 /\ l < n
      /\ n < n + 1
  OBVIOUS
<1> DEFINE u == g[n]
           w == g[n + 1]
           a == c[n]
           b == c[n + 1]
<1>5. /\ u \in Seq(1..k) /\ w \in Seq(1..k) /\ a \in Seq(Message) /\ b \in Seq(Message)
      /\ Len(u) = Len(a) /\ Len(w) = Len(b) /\ Len(u) \in Nat /\ Len(w) \in Nat
      /\ \A i \in 1..Len(u) : u[i] \in 1..k
      /\ \A i \in 1..Len(w) : w[i] \in 1..k
  BY <1>1, <1>4
<1>6. /\ \A i \in 1..Len(u) : a[i] = ms[u[i]]
      /\ \A i \in 1..Len(w) : b[i] = ms[w[i]]
      /\ \A i, j \in 1..Len(u) : i < j => u[i] < u[j]
      /\ \A i, j \in 1..Len(w) : i < j => w[i] < w[j]
      /\ \A i \in 1..Len(u), j \in 1..Len(w) : u[i] < w[j]
  BY <1>1, <1>4 DEF Traces
<1>7. \A l, m \in 1..(n + 1) : \A i \in 1..Len(g[l]), j \in 1..Len(g[m]) :
         l < m => g[l][i] < g[m][j]
  BY <1>1 DEF Traces
<1> HIDE DEF u, w, a, b
<1> DEFINE x == u \o w
           y == a \o b
<1>8. /\ x \in Seq(1..k) /\ Len(x) = Len(u) + Len(w)
      /\ \A i \in 1..Len(u) : x[i] = u[i]
      /\ \A i \in 1..Len(w) : x[Len(u) + i] = w[i]
      /\ \A i \in 1..(Len(u) + Len(w)) :
            i \in 1..Len(u) \/ \E j \in 1..Len(w) : i = Len(u) + j
  <2> DEFINE K == 1..k
  <2>1. u \in Seq(K) /\ w \in Seq(K)
    BY <1>5
  <2> HIDE DEF K
  <2>2. /\ x \in Seq(K) /\ Len(x) = Len(u) + Len(w)
        /\ \A i \in 1..Len(u) : x[i] = u[i]
        /\ \A i \in 1..Len(w) : x[Len(u) + i] = w[i]
        /\ \A i \in 1..(Len(u) + Len(w)) :
              i \in 1..Len(u) \/ \E j \in 1..Len(w) : i = Len(u) + j
    BY ONLY <2>1, ConcatFacts
  <2> QED
    BY <2>2 DEF K
<1>9. /\ y \in Seq(Message) /\ Len(y) = Len(a) + Len(b)
      /\ \A i \in 1..Len(a) : y[i] = a[i]
      /\ \A i \in 1..Len(b) : y[Len(a) + i] = b[i]
  BY ONLY <1>5, ConcatFacts
<1>10. h[n] = x /\ d[n] = y
  BY <1>2, <1>3 DEF u, w, a, b
<1> HIDE DEF x, y
<1>11. /\ Len(x) = Len(y)
       /\ \A i \in 1..Len(y) : y[i] = ms[x[i]]
  <2>1. Len(x) = Len(y)
    BY <1>5, <1>8, <1>9
  <2>2. ASSUME NEW i \in 1..Len(y) PROVE y[i] = ms[x[i]]
    <3>1. i \in 1..(Len(u) + Len(w))
      BY <1>8, <2>1
    <3>2. CASE i \in 1..Len(u)
      BY <1>5, <1>6, <1>8, <1>9, <3>2
    <3>3. ASSUME NEW j \in 1..Len(w), i = Len(u) + j PROVE y[i] = ms[x[i]]
      <4>1. x[i] = w[j] /\ y[i] = b[j]
        BY ONLY <1>5, <1>8, <1>9, <3>3
      <4> QED
        BY <1>6, <3>3, <4>1
    <3> QED
      BY <1>8, <3>1, <3>2, <3>3
  <2> QED
    BY <2>1, <2>2
<1>12. ASSUME NEW i \in 1..Len(x), NEW j \in 1..Len(x), i < j
       PROVE  x[i] < x[j]
  <2>1. i \in 1..(Len(u) + Len(w)) /\ j \in 1..(Len(u) + Len(w))
    BY <1>8
  <2>2. CASE j \in 1..Len(u)
    <3>1. i \in 1..Len(u)
      BY ONLY <1>5, <1>12, <2>1, <2>2
    <3> QED
      BY <1>6, <1>8, <1>12, <2>2, <3>1
  <2>3. ASSUME NEW q \in 1..Len(w), j = Len(u) + q PROVE x[i] < x[j]
    <3>1. x[j] = w[q]
      BY <1>8, <2>3
    <3>2. CASE i \in 1..Len(u)
      BY <1>6, <1>8, <3>1, <3>2
    <3>3. ASSUME NEW p \in 1..Len(w), i = Len(u) + p PROVE x[i] < x[j]
      <4>1. p < q
        BY ONLY <1>5, <1>12, <2>3, <3>3
      <4> QED
        BY <1>6, <1>8, <3>1, <3>3, <4>1
    <3> QED
      BY <1>8, <2>1, <3>2, <3>3
  <2> QED
    BY <1>8, <2>1, <2>2, <2>3
<1>13. ASSUME NEW l \in 1..n, NEW m \in 1..n, NEW i \in 1..Len(h[l]), NEW j \in 1..Len(h[m]),
              l < m
       PROVE  h[l][i] < h[m][j]
  <2>1. l \in 1..(n - 1) /\ l < n + 1 /\ l < n /\ l \in 1..(n + 1)
    BY <1>4, <1>13
  <2>2. h[l] = g[l] /\ i \in 1..Len(g[l])
    BY <1>3, <2>1
  <2>3. CASE m \in 1..(n - 1)
    <3>1. h[m] = g[m] /\ m \in 1..(n + 1)
      BY <1>3, <1>4, <2>3
    <3> QED
      BY <1>7, <1>13, <2>1, <2>2, <3>1
  <2>4. CASE m = n
    <3>1. h[m] = x /\ j \in 1..(Len(u) + Len(w))
      BY <1>8, <1>10, <2>4
    <3>2. CASE j \in 1..Len(u)
      <4>1. g[l][i] < u[j]
        BY <1>4, <1>7, <2>1, <2>2, <3>2 DEF u
      <4> QED
        BY <1>8, <2>2, <3>1, <3>2, <4>1
    <3>3. ASSUME NEW q \in 1..Len(w), j = Len(u) + q PROVE h[l][i] < h[m][j]
      <4>1. g[l][i] < w[q]
        BY <1>4, <1>7, <2>1, <2>2 DEF w
      <4> QED
        BY <1>8, <2>2, <3>1, <3>3, <4>1
    <3> QED
      BY <1>8, <3>1, <3>2, <3>3
  <2> QED
    BY <1>4, <2>3, <2>4
<1>14. ASSUME NEW l \in 1..n
       PROVE  /\ Len(h[l]) = Len(d[l])
              /\ \A i \in 1..Len(d[l]) : d[l][i] = ms[h[l][i]]
              /\ \A i, j \in 1..Len(h[l]) : i < j => h[l][i] < h[l][j]
  <2>1. CASE l = n
    BY <1>10, <1>11, <1>12, <2>1
  <2>2. CASE l # n
    <3>1. h[l] = g[l] /\ d[l] = c[l] /\ l \in 1..Len(c)
      BY <1>1, <1>2, <1>3, <1>4, <2>2
    <3> QED
      BY <3>1 DEF Traces
  <2> QED
    BY <2>1, <2>2
<1>15. Traces(ms, k, d, h)
  BY ONLY <1>2, <1>3, <1>13, <1>14 DEF Traces
<1>16. \A l \in 1..n : /\ Len(h[l]) >= Len(g[l])
                      /\ \A j \in 1..Len(g[l]) : h[l][j] = g[l][j]
  <2> SUFFICES ASSUME NEW l \in 1..n
               PROVE  /\ Len(h[l]) >= Len(g[l])
                      /\ \A j \in 1..Len(g[l]) : h[l][j] = g[l][j]
    OBVIOUS
  <2>1. CASE l = n
    <3>1. h[l] = x /\ g[l] = u
      BY <1>10, <2>1 DEF u
    <3>2. Len(x) >= Len(u)
      BY ONLY <1>5, <1>8
    <3> QED
      BY <1>8, <3>1, <3>2
  <2>2. CASE l # n
    <3>1. h[l] = g[l] /\ Len(g[l]) \in Nat
      BY <1>1, <1>3, <1>4, <2>2
    <3> QED
      BY ONLY <3>1
  <2> QED
    BY <2>1, <2>2
<1>17. ASSUME NEW i PROVE Listed(h, i) <=> Listed(g, i)
  <2>1. (\E j \in 1..Len(x) : x[j] = i)
           <=> (\E j \in 1..Len(u) : u[j] = i) \/ (\E j \in 1..Len(w) : w[j] = i)
    <3>1. ASSUME NEW j \in 1..Len(x), x[j] = i
          PROVE  (\E q \in 1..Len(u) : u[q] = i) \/ (\E q \in 1..Len(w) : w[q] = i)
      <4>1. j \in 1..(Len(u) + Len(w))
        BY <1>8, <3>1
      <4>2. CASE j \in 1..Len(u)
        BY <1>8, <3>1, <4>2
      <4>3. ASSUME NEW q \in 1..Len(w), j = Len(u) + q PROVE w[q] = i
        BY <1>8, <3>1, <4>3
      <4> QED
        BY <1>8, <4>1, <4>2, <4>3
    <3>2. ASSUME NEW j \in 1..Len(u), u[j] = i PROVE \E q \in 1..Len(x) : x[q] = i
      <4>1. j \in 1..Len(x)
        BY ONLY <1>5, <1>8
      <4> QED
        BY <1>8, <3>2, <4>1
    <3>3. ASSUME NEW j \in 1..Len(w), w[j] = i PROVE \E q \in 1..Len(x) : x[q] = i
      <4>1. Len(u) + j \in 1..Len(x)
        BY ONLY <1>5, <1>8
      <4> QED
        BY <1>8, <3>3, <4>1
    <3> QED
      BY <3>1, <3>2, <3>3
  <2> DEFINE Below == \E l \in 1..(n - 1) : \E j \in 1..Len(g[l]) : g[l][j] = i
  <2>2. Listed(h, i) <=> Below \/ \E j \in 1..Len(x) : x[j] = i
    <3>1. \A l \in 1..(n - 1) : l \in 1..n
      OBVIOUS
    <3> QED
      BY ONLY <1>3, <1>4, <1>10, <3>1 DEF Listed
  <2>3. Listed(g, i) <=> \/ Below
                         \/ \E j \in 1..Len(u) : u[j] = i
                         \/ \E j \in 1..Len(w) : w[j] = i
    <3>1. \A l \in 1..(n - 1) : l \in 1..(n + 1)
      OBVIOUS
    <3> QED
      BY ONLY <1>1, <1>4, <3>1 DEF Listed, u, w
  <2> HIDE DEF Below
  <2> QED
    BY ONLY <2>1, <2>2, <2>3
<1> QED
  BY <1>2, <1>3, <1>15, <1>16, <1>17 DEF Lengthens, SameListed

\* The two messages that hold a block together.
LEMMA BlockFacts ==
    ASSUME NEW ms \in Seq(Message), NEW be \in Blocks(ms)
    PROVE  /\ be[1] \in 1..Len(ms) /\ be[2] \in 1..Len(ms) /\ be[1] < be[2]
           /\ ms[be[2]].type \in EndTypes
<1>1. DOMAIN ms = 1..Len(ms)
  OBVIOUS
<1>2. be \in (DOMAIN ms) \X (DOMAIN ms) /\ Ends(ms, be[1], be[2])
  BY DEF Blocks
<1> QED
  BY <1>1, <1>2 DEF Ends

\* A position that no block which has ended takes away.
Remaining(ms, k, i) ==
    /\ IsIncluded(ms[i])
    /\ \A be \in Blocks(ms) : be[2] <= k /\ i \in be[1]..be[2] => Worthwhile(ms, be)

\* A block begins and ends with messages that are included.
LEMMA BlocksAreIncluded ==
    ASSUME NEW m, m.type \in BeginTypes \cup EndTypes
    PROVE  IsIncluded(m) /\ m.type \notin Work
  BY DEF IsIncluded, BeginTypes, EndTypes, Work

LEMMA RemainingMore ==
    ASSUME NEW ms \in Seq(Message), NEW k \in Nat, ms[k + 1].type \notin EndTypes
    PROVE  /\ \A i \in 1..k : Remaining(ms, k + 1, i) <=> Remaining(ms, k, i)
           /\ Remaining(ms, k + 1, k + 1) <=> IsIncluded(ms[k + 1])
<1>1. ASSUME NEW be \in Blocks(ms)
      PROVE  (be[2] <= k + 1 <=> be[2] <= k) /\ ~(be[2] <= k /\ k + 1 \in be[1]..be[2])
  <2>1. be[2] # k + 1 /\ be[1] \in 1..Len(ms) /\ be[2] \in 1..Len(ms)
    BY BlockFacts
  <2>2. be[1] \in Int /\ be[2] \in Int
    BY <2>1
  <2> QED
    BY ONLY k \in Nat, <2>1, <2>2
<1> QED
  BY <1>1 DEF Remaining

LEMMA RemainingEnd ==
    ASSUME NEW ms \in Seq(Message), NEW k \in Nat, ms[k + 1].type \in EndTypes,
           NEW o \in 1..k, <<o, k + 1>> \in Blocks(ms),
           \A be \in Blocks(ms) : be[2] = k + 1 => be = <<o, k + 1>>
    PROVE  /\ \A i \in 1..k :
                 Remaining(ms, k + 1, i)
                    <=> Remaining(ms, k, i) /\ (i >= o => Worthwhile(ms, <<o, k + 1>>))
           /\ Remaining(ms, k + 1, k + 1) <=> Worthwhile(ms, <<o, k + 1>>)
<1>1. ASSUME NEW be \in Blocks(ms)
      PROVE  /\ be[2] <= k + 1 <=> be[2] <= k \/ be = <<o, k + 1>>
             /\ be[2] <= k => ~(k + 1 \in be[1]..be[2])
  <2>1. be[1] \in 1..Len(ms) /\ be[2] \in 1..Len(ms)
    BY BlockFacts
  <2>2. be[1] \in Int /\ be[2] \in Int
    BY <2>1
  <2>3. be[2] = k + 1 <=> be = <<o, k + 1>>
    OBVIOUS
  <2> QED
    BY ONLY k \in Nat, <2>2, <2>3
<1>2. \A i \in 1..k : i \in o..(k + 1) <=> i >= o
  OBVIOUS
<1>3. k + 1 \in o..(k + 1)
  OBVIOUS
<1>4. IsIncluded(ms[k + 1])
  BY BlocksAreIncluded
<1> DEFINE e == <<o, k + 1>>
<1>5. e \in Blocks(ms) /\ e[1] = o /\ e[2] = k + 1
  OBVIOUS
<1> HIDE DEF e
<1>6. \A be \in Blocks(ms) : /\ be[2] <= k + 1 <=> be[2] <= k \/ be = e
                             /\ be[2] <= k => ~(k + 1 \in be[1]..be[2])
  BY <1>1 DEF e
<1>7. ASSUME NEW i \in 1..k
      PROVE  Remaining(ms, k + 1, i) <=> Remaining(ms, k, i) /\ (i >= o => Worthwhile(ms, e))
  <2>1. e[2] <= k + 1
    BY <1>5
  <2>2. i \in e[1]..e[2] <=> i >= o
    BY <1>2, <1>5
  <2> QED
    BY ONLY <1>5, <1>6, <2>1, <2>2 DEF Remaining
<1>8. Remaining(ms, k + 1, k + 1) <=> Worthwhile(ms, e)
  <2>1. e[2] <= k + 1
    BY <1>5
  <2>2. k + 1 \in e[1]..e[2]
    BY <1>3, <1>5
  <2> QED
    BY ONLY <1>4, <1>5, <1>6, <2>1, <2>2 DEF Remaining
<1> QED
  BY <1>7, <1>8 DEF e

\* The list above the first starts with the first position of b, and so on.
Starts(g, b) == \A l \in 1..Len(b) : Len(g[l + 1]) >= 1 /\ g[l + 1][1] = b[l]

\* After k messages: the open blocks begin at b, each of them is collected in a
\* list of its own, and the lists hold what no ended block takes away.
Collects(ms, k, c, g, b) ==
    /\ Openings(ms, k, b)
    /\ Traces(ms, k, c, g)
    /\ Len(c) = Len(b) + 1
    /\ Starts(g, b)
    /\ \A i \in 1..k : Listed(g, i) <=> Remaining(ms, k, i)

LEMMA CollectsLengths ==
    ASSUME NEW ms, NEW k \in Nat, NEW c, NEW g, NEW b, Collects(ms, k, c, g, b)
    PROVE  /\ Traces(ms, k, c, g) /\ b \in Seq(1..k) /\ Len(b) \in Nat
           /\ Len(c) = Len(b) + 1 /\ Len(g) = Len(c) /\ c # <<>>
<1>1. Traces(ms, k, c, g) /\ Len(c) = Len(b) + 1 /\ Openings(ms, k, b)
  BY DEF Collects
<1>2. b \in Seq(1..k)
  BY <1>1 DEF Openings
<1>3. Len(b) \in Nat
  BY <1>2
<1>4. Len(g) = Len(c)
  BY <1>1 DEF Traces
<1>5. c # <<>>
  BY ONLY <1>1, <1>3
<1> QED
  BY <1>1, <1>2, <1>3, <1>4, <1>5

\* A position that is listed is one of the first k.
LEMMA ListedRange ==
    ASSUME NEW ms, NEW k \in Nat, NEW c, NEW g, Traces(ms, k, c, g), NEW i, Listed(g, i)
    PROVE  i \in 1..k
<1>1. PICK l \in 1..Len(g) : \E j \in 1..Len(g[l]) : g[l][j] = i
  BY DEF Listed
<1> QED
  BY <1>1, TraceRange

\* A call that is excluded.
LEMMA CollectsSkip ==
    ASSUME NEW ms \in Seq(Message), NEW k \in Nat, NEW c, NEW g, NEW b,
           Collects(ms, k, c, g, b), ~IsIncluded(ms[k + 1])
    PROVE  Collects(ms, k + 1, c, g, b)
<1>1. ms[k + 1].type \notin BeginTypes \cup EndTypes
  BY BlocksAreIncluded
<1>2. Openings(ms, k + 1, b)
  BY <1>1, OpeningsStay DEF Collects
<1>3. Traces(ms, k + 1, c, g)
  <2>1. g \in Seq(Seq(1..k)) /\ Len(g) \in Nat
    BY DEF Collects, Traces
  <2>2. \A s \in Seq(1..k) : s \in Seq(1..(k + 1))
    OBVIOUS
  <2>3. \A l \in 1..Len(g) : g[l] \in Seq(1..(k + 1))
    BY <2>1, <2>2, ElementOfSeq
  <2>4. g \in Seq(Seq(1..(k + 1)))
    BY <2>1, <2>3
  <2> QED
    BY <2>4 DEF Collects, Traces
<1>4. ASSUME NEW i \in 1..(k + 1) PROVE Listed(g, i) <=> Remaining(ms, k + 1, i)
  <2>1. CASE i = k + 1
    <3>1. ~Remaining(ms, k + 1, i)
      BY <1>1, <2>1, RemainingMore
    <3>2. i \notin 1..k
      BY <2>1
    <3> QED
      BY <3>1, <3>2, ListedRange DEF Collects
  <2>2. CASE i # k + 1
    <3>1. i \in 1..k
      BY <2>2
    <3> QED
      BY <1>1, <3>1, RemainingMore DEF Collects
  <2> QED
    BY <2>1, <2>2
<1> QED
  BY <1>2, <1>3, <1>4 DEF Collects

\* What the step before knows of the positions, and of one more.
LEMMA ListedMore ==
    ASSUME NEW ms \in Seq(Message), NEW k \in Nat, NEW c, NEW g, NEW b, NEW h,
           Collects(ms, k, c, g, b), IsIncluded(ms[k + 1]), ms[k + 1].type \notin EndTypes,
           \A i : Listed(h, i) <=> Listed(g, i) \/ i = k + 1
    PROVE  \A i \in 1..(k + 1) : Listed(h, i) <=> Remaining(ms, k + 1, i)
<1> TAKE i \in 1..(k + 1)
<1>1. CASE i = k + 1
  BY <1>1, RemainingMore
<1>2. CASE i # k + 1
  <2>1. i \in 1..k
    BY <1>2
  <2> QED
    BY <1>2, <2>1, RemainingMore DEF Collects
<1> QED
  BY <1>1, <1>2

\* One position more is listed.
ListsAlso(h, g, p) == Listed(h, p) /\ \A i : Listed(h, i) <=> Listed(g, i) \/ i = p

\* A message goes to the last list.
LEMMA CollectsExtended ==
    ASSUME NEW ms \in Seq(Message), NEW k \in Nat, NEW c, NEW g, NEW b, NEW d, NEW h,
           Collects(ms, k, c, g, b), ms[k + 1] \in Message,
           d = Extended(c, ms[k + 1]), h = Extended(g, k + 1)
    PROVE  /\ Traces(ms, k + 1, d, h) /\ Len(d) = Len(b) + 1 /\ Starts(h, b)
           /\ ListsAlso(h, g, k + 1)
<1>1. /\ Traces(ms, k, c, g) /\ Len(c) = Len(b) + 1 /\ Len(b) \in Nat /\ Len(g) = Len(c)
      /\ c # <<>>
  BY CollectsLengths
<1>2. ms[k + 1] \in Message /\ d = Extended(c, ms[k + 1]) /\ h = Extended(g, k + 1)
      /\ k \in Nat
  OBVIOUS
<1>3. Traces(ms, k + 1, d, h)
  BY ONLY <1>1, <1>2, TraceMore
<1>4. Len(h) = Len(g)
  BY ONLY <1>1, <1>2, TraceMore
<1>5. \A l \in 1..Len(g) : /\ Len(h[l]) >= Len(g[l])
                           /\ \A j \in 1..Len(g[l]) : h[l][j] = g[l][j]
  BY ONLY <1>1, <1>2, TraceMore
<1>6. ListsAlso(h, g, k + 1)
  <2>1. ASSUME NEW i PROVE Listed(h, i) <=> Listed(g, i) \/ i = k + 1
    <3>1. Listed(h, i) => Listed(g, i) \/ i = k + 1
      BY ONLY <1>1, <1>2, TraceMore
    <3>2. Listed(g, i) => Listed(h, i)
      BY ONLY <1>1, <1>2, TraceMore
    <3>3. Listed(h, k + 1)
      BY ONLY <1>1, <1>2, TraceMore
    <3> QED
      BY <3>1, <3>2, <3>3
  <2> QED
    BY <2>1 DEF ListsAlso
<1>7. ASSUME NEW l \in 1..Len(b) PROVE Len(h[l + 1]) >= 1 /\ h[l + 1][1] = b[l]
  <2>1. l + 1 \in 1..Len(g)
    BY ONLY <1>1
  <2>2. Len(g[l + 1]) >= 1 /\ g[l + 1][1] = b[l] /\ Len(g[l + 1]) \in Nat
    BY <1>1, <2>1, TraceRange DEF Collects, Starts
  <2>3. Len(h[l + 1]) \in Nat /\ Len(h[l + 1]) >= Len(g[l + 1])
    BY <1>3, <1>4, <1>5, <2>1, TraceRange
  <2>4. 1 \in 1..Len(g[l + 1])
    BY ONLY <2>2
  <2> QED
    BY <1>5, <2>1, <2>2, <2>3, <2>4
<1>8. Len(d) = Len(b) + 1
  BY <1>1, <1>3, <1>4 DEF Traces
<1> QED
  BY <1>3, <1>6, <1>7, <1>8 DEF Starts

\* A message that neither begins nor ends a block.
LEMMA CollectsPlain ==
    ASSUME NEW ms \in Seq(Message), NEW k \in Nat, NEW c, NEW g, NEW b, NEW d,
           Collects(ms, k, c, g, b), IsIncluded(ms[k + 1]), ms[k + 1] \in Message,
           ms[k + 1].type \notin BeginTypes \cup EndTypes, d = Extended(c, ms[k + 1])
    PROVE  \E h : Collects(ms, k + 1, d, h, b)
<1> DEFINE h == Extended(g, k + 1)
<1>1. Openings(ms, k + 1, b)
  BY OpeningsStay DEF Collects
<1>2. /\ Traces(ms, k + 1, d, h) /\ Len(d) = Len(b) + 1 /\ Starts(h, b)
      /\ ListsAlso(h, g, k + 1)
  BY CollectsExtended
<1> HIDE DEF h
<1>3. \A i \in 1..(k + 1) : Listed(h, i) <=> Remaining(ms, k + 1, i)
  BY <1>2, ListedMore DEF ListsAlso
<1> QED
  BY <1>1, <1>2, <1>3 DEF Collects

\* A message that begins a block.
LEMMA CollectsBegin ==
    ASSUME NEW ms \in Seq(Message), NEW k \in Nat, NEW c, NEW g, NEW b,
           Collects(ms, k, c, g, b), ms[k + 1] \in Message, ms[k + 1].type \in BeginTypes,
           NEW d, d = Pushed(c, ms[k + 1])
    PROVE  \E h : Collects(ms, k + 1, d, h, Append(b, k + 1))
<1> DEFINE h == Pushed(g, k + 1)
           a == Append(b, k + 1)
<1>1. Openings(ms, k + 1, a)
  BY OpeningsMore DEF Collects
<1>2. /\ Traces(ms, k, c, g) /\ Len(c) = Len(b) + 1 /\ Len(b) \in Nat /\ Len(g) = Len(c)
      /\ b \in Seq(1..k)
  BY CollectsLengths
<1>3. /\ Traces(ms, k + 1, d, h) /\ Len(d) = Len(c) + 1
      /\ h[Len(g) + 1] = <<k + 1>>
      /\ \A l \in 1..Len(g) : h[l] = g[l]
      /\ \A i : Listed(h, i) <=> Listed(g, i) \/ i = k + 1
  <2> HIDE DEF h
  <2>1. h = Pushed(g, k + 1)
    BY DEF h
  <2>2. Traces(ms, k, c, g)
    BY <1>2
  <2>3. ms[k + 1] \in Message /\ d = Pushed(c, ms[k + 1]) /\ k \in Nat
    OBVIOUS
  <2>4. Traces(ms, k + 1, d, h)
    BY ONLY <2>1, <2>2, <2>3, TracePush
  <2>5. Len(d) = Len(c) + 1
    BY ONLY <2>1, <2>2, <2>3, TracePush
  <2>6. h[Len(g) + 1] = <<k + 1>> /\ \A l \in 1..Len(g) : h[l] = g[l]
    BY ONLY <2>1, <2>2, <2>3, TracePush
  <2>7. ASSUME NEW i PROVE Listed(h, i) <=> Listed(g, i) \/ i = k + 1
    BY ONLY <2>1, <2>2, <2>3, TracePush
  <2> QED
    BY <2>4, <2>5, <2>6, <2>7
<1>4. Len(a) = Len(b) + 1 /\ a[Len(b) + 1] = k + 1 /\ \A l \in 1..Len(b) : a[l] = b[l]
  BY <1>2
<1> HIDE DEF h, a
<1>5. ms[k + 1].type \notin EndTypes /\ IsIncluded(ms[k + 1])
  BY BlocksMatch, BlocksAreIncluded
<1>6. \A i \in 1..(k + 1) : Listed(h, i) <=> Remaining(ms, k + 1, i)
  BY <1>3, <1>5, ListedMore
<1>7. ASSUME NEW l \in 1..Len(a) PROVE Len(h[l + 1]) >= 1 /\ h[l + 1][1] = a[l]
  <2>1. CASE l = Len(b) + 1
    <3>1. h[l + 1] = <<k + 1>>
      BY <1>2, <1>3, <2>1
    <3> QED
      BY <1>4, <2>1, <3>1
  <2>2. CASE l # Len(b) + 1
    <3>1. l \in 1..Len(b) /\ l + 1 \in 1..Len(g)
      BY ONLY <1>2, <1>4, <2>2
    <3> QED
      BY <1>3, <1>4, <3>1 DEF Collects, Starts
  <2> QED
    BY <2>1, <2>2
<1>8. Len(d) = Len(a) + 1
  BY <1>2, <1>3, <1>4
<1> QED
  BY <1>1, <1>3, <1>6, <1>7, <1>8 DEF Collects, Starts, a

\* What finalize() does to its stack of lists with a message it copied.
LEMMA CollapseOf ==
    ASSUME NEW c \in Seq(Seq(Message)), c # <<>>, NEW m \in Message
    PROVE  /\ m.type \in BeginTypes => CollapseStep(c, m) = Pushed(c, m)
           /\ m.type \notin BeginTypes \cup EndTypes => CollapseStep(c, m) = Extended(c, m)
           /\ m.type \in EndTypes =>
                 CollapseStep(c, m) = IF Holds(Extended(c, m)[Len(c)], Work)
                                      THEN Joined(Extended(c, m))
                                      ELSE Front(Extended(c, m))
<1> DEFINE n == Len(c) - 1
           f == Front(c)
           y == Append(Last(c), m)
           e == Append(f, y)
<1>1. /\ f \in Seq(Seq(Message)) /\ DOMAIN f = 1..n /\ n \in Nat /\ Len(c) = n + 1
      /\ Last(c) \in Seq(Message)
  BY FrontFacts
<1>2. y \in Seq(Message)
  BY <1>1
<1> HIDE DEF n, f, y
<1>3. Len(f) = n
  BY ONLY <1>1
<1>4. /\ e \in Seq(Seq(Message)) /\ Len(e) = n + 1 /\ e[n + 1] = y
      /\ \A l \in 1..n : e[l] = f[l]
  BY <1>1, <1>2, <1>3
<1>5. e = Extended(c, m)
  BY DEF Extended, f, y
<1> HIDE DEF e
<1>6. Last(e) = y /\ Front(e) = f
  <2>1. n + 1 # 0 /\ (n + 1) - 1 = n
    BY ONLY <1>1
  <2>2. e # <<>>
    BY ONLY <1>4, <2>1
  <2>3. /\ Front(e) \in Seq(Seq(Message)) /\ DOMAIN Front(e) = 1..n
        /\ \A i \in 1..n : Front(e)[i] = e[i]
        /\ Last(e) = e[n + 1]
    BY ONLY <1>4, <2>1, <2>2, FrontFacts
  <2>4. Len(Front(e)) = n
    BY ONLY <1>1, <2>3
  <2>5. Front(e) = f
    BY ONLY <1>1, <1>3, <1>4, <2>3, <2>4, SeqEqual
  <2> QED
    BY ONLY <1>4, <2>3, <2>5
<1>7. m.type \in EndTypes => m.type \notin BeginTypes
  BY BlocksMatch
<1>8. CASE m.type \in BeginTypes
  BY <1>7, <1>8 DEF CollapseStep, Pushed
<1>9. CASE m.type \notin BeginTypes \cup EndTypes
  BY <1>9 DEF CollapseStep, Extended
<1>10. CASE m.type \in EndTypes
  <2>1. CollapseStep(c, m) = IF Holds(y, Work) THEN [f EXCEPT ![Len(f)] = @ \o y] ELSE f
    BY <1>7, <1>10 DEF CollapseStep, f, y
  <2>2. Joined(e) = [f EXCEPT ![Len(f)] = @ \o y]
    BY <1>6 DEF Joined
  <2>3. e[Len(c)] = y
    BY <1>1, <1>4
  <2> QED
    BY <1>5, <1>6, <1>7, <1>10, <2>1, <2>2, <2>3
<1> QED
  BY <1>8, <1>9, <1>10

\* The last list holds what is listed from position o on, the others what is
\* listed before it.
SplitAt(g, n, o) ==
    /\ \A i : (\E j \in 1..Len(g[n + 1]) : g[n + 1][j] = i) <=> Listed(g, i) /\ i >= o
    /\ \A i : Listed(Front(g), i) <=> Listed(g, i) /\ i < o

LEMMA LastListed ==
    ASSUME NEW ms, NEW k \in Nat, NEW c, NEW g, NEW n, NEW o,
           Traces(ms, k, c, g), HasBelow(c, n), Len(g[n + 1]) >= 1, o = g[n + 1][1]
    PROVE  o \in 1..k /\ SplitAt(g, n, o)
<1> n \in Nat /\ Len(c) = n + 1 /\ c # <<>>
  BY DEF HasBelow, Traces
<1> DEFINE u == g[n + 1]
           h == Front(g)
<1>1. /\ Len(g) = n + 1 /\ Len(u) \in Nat /\ 1 \in 1..Len(u)
      /\ \A i \in 1..Len(u) : u[i] \in 1..k
  <2>1. Len(g) = n + 1 /\ n + 1 \in 1..Len(c)
    <3>1. Len(g) = Len(c)
      BY DEF Traces
    <3> QED
      BY <3>1
  <2>2. Len(u) \in Nat /\ \A i \in 1..Len(u) : u[i] \in 1..k
    BY <2>1, TraceRange
  <2>3. Len(u) >= 1
    OBVIOUS
  <2>4. 1 \in 1..Len(u)
    BY ONLY <2>2, <2>3
  <2> QED
    BY <2>1, <2>2, <2>4
<1>2. o = u[1] /\ o \in 1..k
  BY <1>1
<1>3. /\ Len(h) = n /\ \A l \in 1..n : h[l] = g[l]
      /\ \A i : Listed(g, i) <=> Listed(h, i) \/ \E j \in 1..Len(u) : u[j] = i
  <2>1. g \in Seq(Seq(1..k)) /\ Len(g) = n + 1 /\ g # <<>> /\ Len(g) - 1 = n
    BY DEF Traces
  <2>2. h \in Seq(Seq(1..k)) /\ DOMAIN h = 1..n /\ \A l \in 1..n : h[l] = g[l]
    BY <2>1, FrontFacts
  <2> HIDE DEF h, u
  <2>3. Len(h) = n
    BY ONLY n \in Nat, <2>2
  <2>4. /\ \A l \in 1..n : l \in 1..(n + 1)
        /\ \A l \in 1..(n + 1) : l \in 1..n \/ l = n + 1
        /\ n + 1 \in 1..(n + 1)
    OBVIOUS
  <2>5. ASSUME NEW i
        PROVE  Listed(g, i) <=> Listed(h, i) \/ \E j \in 1..Len(u) : u[j] = i
    BY ONLY <2>1, <2>2, <2>3, <2>4 DEF Listed, u
  <2> QED
    BY <2>2, <2>3, <2>5
<1>4. ASSUME NEW j \in 1..Len(u) PROVE u[j] >= o
  <2>1. CASE j = 1
    BY <1>2, <2>1
  <2>2. CASE j # 1
    <3>1. 1 < j
      BY ONLY <1>1, <2>2
    <3>2. n + 1 \in 1..Len(c)
      OBVIOUS
    <3>3. u[1] < u[j]
      BY <1>1, <3>1, <3>2 DEF Traces
    <3> QED
      BY <1>1, <1>2, <3>3
  <2> QED
    BY <2>1, <2>2
<1>5. ASSUME NEW l \in 1..n, NEW j \in 1..Len(g[l]) PROVE g[l][j] \in 1..k /\ g[l][j] < o
  <2>1. l \in 1..Len(c) /\ n + 1 \in 1..Len(c) /\ l < n + 1
    OBVIOUS
  <2>2. g[l][j] \in 1..k
    BY <2>1, TraceRange
  <2>3. g[l][j] < u[1]
    BY <1>1, <2>1 DEF Traces
  <2> QED
    BY <1>2, <2>2, <2>3
<1> HIDE DEF u, h
<1>6. ASSUME NEW i, \E j \in 1..Len(u) : u[j] = i PROVE i \in 1..k /\ i >= o
  BY <1>1, <1>4, <1>6
<1>7. ASSUME NEW i, Listed(h, i) PROVE i \in 1..k /\ i < o
  <2>1. PICK l \in 1..n : \E j \in 1..Len(g[l]) : g[l][j] = i
    BY <1>3, <1>7 DEF Listed
  <2> QED
    BY <1>5, <2>1
<1>8. \A i \in 1..k : ~(i >= o /\ i < o)
  BY <1>2
<1>9. ASSUME NEW i
      PROVE  /\ (\E j \in 1..Len(u) : u[j] = i) <=> Listed(g, i) /\ i >= o
             /\ Listed(h, i) <=> Listed(g, i) /\ i < o
  BY ONLY <1>3, <1>6, <1>7, <1>8
<1> QED
  BY <1>2, <1>9 DEF u, h, SplitAt

\* The block that ends holds an included call or return if its list does.
LEMMA WorthwhileBlock ==
    ASSUME NEW ms \in Seq(Message), NEW k \in Nat, NEW c, NEW g, NEW b,
           Collects(ms, k, c, g, b), ms[k + 1].type \in EndTypes,
           NEW n \in Nat, NEW o \in 1..k, NEW d, NEW h,
           Traces(ms, k + 1, d, h), ListsAlso(h, g, k + 1), d # <<>>, Len(d) = n + 1,
           SplitAt(h, n, o)
    PROVE  Holds(d[n + 1], Work) <=> Worthwhile(ms, <<o, k + 1>>)
<1> DEFINE u == h[n + 1]
           x == d[n + 1]
           e == <<o, k + 1>>
<1>1. ms[k + 1].type \notin Work
  BY BlocksAreIncluded
<1>2. /\ DOMAIN x = 1..Len(u) /\ \A j \in 1..Len(u) : x[j] = ms[u[j]] /\ u[j] \in 1..(k + 1)
  <2>1. n + 1 \in 1..Len(d)
    OBVIOUS
  <2>2. /\ x \in Seq(Message) /\ Len(u) = Len(x)
        /\ \A j \in 1..Len(u) : u[j] \in 1..(k + 1)
    <3>1. /\ h \in Seq(Seq(1..(k + 1))) /\ d \in Seq(Seq(Message)) /\ Len(h) = Len(d)
          /\ Len(u) = Len(x)
      BY <2>1 DEF Traces
    <3>2. u \in Seq(1..(k + 1)) /\ x \in Seq(Message)
      BY <2>1, <3>1
    <3> QED
      BY <3>1, <3>2
  <2>3. \A j \in 1..Len(x) : x[j] = ms[u[j]]
    BY <2>1 DEF Traces
  <2> QED
    BY <2>2, <2>3
<1>3. e[1] = o /\ e[2] = k + 1
  OBVIOUS
<1>4. \A i : (\E j \in 1..Len(u) : u[j] = i) <=> Listed(h, i) /\ i >= o
  BY DEF SplitAt
<1> HIDE DEF u, x, e
<1>5. ASSUME Holds(x, Work) PROVE Worthwhile(ms, e)
  <2>1. PICK j \in 1..Len(u) : x[j].type \in Work
    BY <1>2, <1>5 DEF Holds
  <2> DEFINE w == u[j]
  <2>2. ms[w].type \in Work /\ w \in 1..(k + 1)
    BY <1>2, <2>1
  <2>3. Listed(h, w) /\ w >= o
    BY <1>4
  <2> HIDE DEF w
  <2>4. w # k + 1
    BY <1>1, <2>2
  <2>5. w \in 1..k /\ w \in o..(k + 1)
    BY <2>2, <2>3, <2>4
  <2>6. Remaining(ms, k, w)
    BY <2>3, <2>4, <2>5 DEF ListsAlso, Collects
  <2> QED
    BY <1>3, <2>2, <2>5, <2>6 DEF Remaining, Worthwhile
<1>6. ASSUME Worthwhile(ms, e) PROVE Holds(x, Work)
  <2>1. PICK w \in o..(k + 1) : IsIncluded(ms[w]) /\ ms[w].type \in Work
    BY <1>3, <1>6 DEF Worthwhile
  <2>2. w \in 1..k /\ w >= o
    BY <1>1, <2>1
  <2>3. Remaining(ms, k, w)
    BY <2>1 DEF Remaining, Worthwhile
  <2>4. Listed(h, w)
    BY <2>2, <2>3 DEF Collects, ListsAlso
  <2>5. PICK j \in 1..Len(u) : u[j] = w
    BY <1>4, <2>2, <2>4
  <2> QED
    BY <1>2, <2>1, <2>5 DEF Holds
<1> QED
  BY <1>5, <1>6 DEF u, x, e

\* A message that ends a block: its list is dropped, or joins the one below.
LEMMA CollectsEnd ==
    ASSUME NEW ms \in Seq(Message), NEW k \in Nat, NEW c, NEW g, NEW b, NEW f,
           Collects(ms, k, c, g, b), ms[k + 1] \in Message, ms[k + 1].type \in EndTypes,
           k + 1 \in DOMAIN ms, b # <<>>, f = CollapseStep(c, ms[k + 1])
    PROVE  \E h : Collects(ms, k + 1, f, h, Front(b))
<1> DEFINE n == Len(b)
           a == Front(b)
           o == b[n]
           d == Extended(c, ms[k + 1])
           h == Extended(g, k + 1)
           block == <<o, k + 1>>
<1>1. /\ Traces(ms, k, c, g) /\ Len(c) = n + 1 /\ c # <<>> /\ b \in Seq(1..k)
      /\ c \in Seq(Seq(Message)) /\ Openings(ms, k, b)
  <2>1. Traces(ms, k, c, g) /\ Len(c) = n + 1 /\ c # <<>> /\ b \in Seq(1..k)
    BY CollectsLengths
  <2> QED
    BY <2>1 DEF Traces, Collects
<1>2. /\ n \in Nat /\ n >= 1 /\ n # 0 /\ o \in 1..k /\ n \in 1..n
  BY <1>1
<1>3. DOMAIN ms = 1..Len(ms) /\ Len(ms) \in Nat
  OBVIOUS
<1>4. /\ Openings(ms, k + 1, a) /\ block \in Blocks(ms)
      /\ \A be \in Blocks(ms) : be[2] = k + 1 => be = block
  BY <1>1, <1>3, OpeningsLess
<1>5. /\ Traces(ms, k + 1, d, h) /\ Len(d) = n + 1 /\ Starts(h, b)
      /\ ListsAlso(h, g, k + 1)
  BY CollectsExtended
<1>6. /\ Len(a) = n - 1 /\ \A l \in 1..(n - 1) : a[l] = b[l]
  <2>1. a \in Seq(1..k) /\ DOMAIN a = 1..(n - 1) /\ \A l \in 1..(n - 1) : a[l] = b[l]
    BY <1>1, FrontFacts
  <2> HIDE DEF n, a
  <2> QED
    BY ONLY <1>2, <2>1
<1>7. f = IF Holds(d[n + 1], Work) THEN Joined(d) ELSE Front(d)
  BY <1>1, CollapseOf
<1>8. /\ \A i \in 1..k :
            Remaining(ms, k + 1, i)
               <=> Remaining(ms, k, i) /\ (i >= o => Worthwhile(ms, block))
      /\ Remaining(ms, k + 1, k + 1) <=> Worthwhile(ms, block)
  BY <1>2, <1>4, RemainingEnd
<1> HIDE DEF n, a, o, d, h
<1>9. Len(h[n + 1]) >= 1 /\ h[n + 1][1] = o /\ Len(h) = n + 1
  BY <1>2, <1>5 DEF Starts, Traces, n, o
<1>10. /\ d # <<>> /\ k + 1 \in Nat
       /\ HasBelow(d, n)
  <2>1. d # <<>>
    BY ONLY <1>2, <1>5
  <2> QED
    BY <1>2, <1>5, <2>1 DEF HasBelow
<1>11. SplitAt(h, n, o)
  BY <1>2, <1>5, <1>9, <1>10, LastListed
<1>12. Holds(d[n + 1], Work) <=> Worthwhile(ms, block)
  BY <1>2, <1>5, <1>10, <1>11, WorthwhileBlock
<1>13. \A i \in 1..(k + 1) : i \in 1..k \/ i = k + 1
  OBVIOUS
<1> HIDE DEF block
<1>14. \A l \in 1..(n - 1) : l \in 1..n /\ l + 1 \in 1..n
  BY <1>2
<1>15. ASSUME Worthwhile(ms, block) PROVE \E q : Collects(ms, k + 1, f, q, a)
  <2> DEFINE q == Joined(h)
  <2>1. f = Joined(d)
    BY <1>7, <1>12, <1>15
  <2>2. Traces(ms, k + 1, f, q) /\ Len(f) = n /\ Lengthens(n, q, h) /\ SameListed(q, h)
    BY <1>2, <1>5, <1>10, <2>1, TraceJoin
  <2> HIDE DEF q
  <2>3. \A i \in 1..(k + 1) : Listed(q, i) <=> Remaining(ms, k + 1, i)
    BY <1>5, <1>8, <1>13, <1>15, <2>2 DEF SameListed, ListsAlso, Collects
  <2>4. ASSUME NEW l \in 1..Len(a) PROVE Len(q[l + 1]) >= 1 /\ q[l + 1][1] = a[l]
    <3>1. l \in 1..n /\ l + 1 \in 1..n /\ a[l] = b[l]
      BY <1>6, <1>14
    <3>2. Len(h[l + 1]) >= 1 /\ h[l + 1][1] = b[l]
      BY <1>5, <3>1 DEF Starts, n
    <3>3. Len(h[l + 1]) \in Nat /\ Len(q[l + 1]) \in Nat
      BY <1>2, <1>5, <1>10, <2>2, <3>1, TraceRange
    <3>4. 1 \in 1..Len(h[l + 1])
      BY ONLY <3>2, <3>3
    <3> QED
      BY <2>2, <3>1, <3>2, <3>3, <3>4 DEF Lengthens
  <2>7. Starts(q, a) /\ Len(f) = Len(a) + 1
    BY <1>2, <1>6, <2>2, <2>4 DEF Starts
  <2> QED
    BY <1>4, <2>2, <2>3, <2>7 DEF Collects
<1>16. ASSUME ~Worthwhile(ms, block) PROVE \E q : Collects(ms, k + 1, f, q, a)
  <2> DEFINE q == Front(h)
  <2>1. f = Front(d)
    BY <1>7, <1>12, <1>16
  <2>2. Traces(ms, k + 1, f, q) /\ Len(f) = n
    BY <1>5, <1>10, <2>1, TraceDrop
  <2>3. \A l \in 1..n : q[l] = h[l]
    <3>1. h \in Seq(Seq(1..(k + 1))) /\ h # <<>> /\ Len(h) - 1 = n
      BY <1>2, <1>5, <1>9 DEF Traces
    <3> QED
      BY <3>1, FrontFacts
  <2>4. \A i : Listed(q, i) <=> Listed(h, i) /\ i < o
    BY <1>11 DEF SplitAt
  <2> HIDE DEF q
  <2>5. ASSUME NEW i \in 1..(k + 1) PROVE Listed(q, i) <=> Remaining(ms, k + 1, i)
    <3>1. i < o <=> ~(i >= o)
      BY <1>2
    <3>2. CASE i = k + 1
      <4>1. ~(i < o)
        BY <1>2, <3>2
      <4> QED
        BY <1>8, <1>16, <2>4, <3>2, <4>1
    <3>3. CASE i # k + 1
      <4>1. i \in 1..k
        BY <3>3
      <4>2. Listed(h, i) <=> Remaining(ms, k, i)
        BY <1>5, <3>3, <4>1 DEF ListsAlso, Collects
      <4> QED
        BY <1>8, <1>16, <2>4, <3>1, <4>1, <4>2
    <3> QED
      BY <3>2, <3>3
  <2>6. ASSUME NEW l \in 1..Len(a) PROVE Len(q[l + 1]) >= 1 /\ q[l + 1][1] = a[l]
    <3>1. l \in 1..n /\ l + 1 \in 1..n /\ a[l] = b[l]
      BY <1>6, <1>14
    <3> QED
      BY <1>5, <2>3, <3>1 DEF Starts, n
  <2>7. Starts(q, a) /\ Len(f) = Len(a) + 1
    BY <1>2, <1>6, <2>2, <2>6 DEF Starts
  <2> QED
    BY <1>4, <2>2, <2>5, <2>7 DEF Collects
<1> QED
  BY <1>15, <1>16 DEF a

\* What finalize() has collected of the first k messages.
Collected(ms, k) ==
    LET s == SubSeq(ms, 1, k)
    IN \E g, b : /\ Collects(ms, k, Collapsed(Included(s)), g, b)
                 /\ Len(b) = Len(Opened(<<>>, s))

LEMMA CollectedNone ==
    ASSUME NEW ms \in Seq(Message)
    PROVE  Collected(ms, 0)
<1> DEFINE c == << <<>> >>
<1>1. SubSeq(ms, 1, 0) = <<>>
  OBVIOUS
<1>2. Opened(<<>>, <<>>) = <<>> /\ Collapsed(Included(<<>>)) = c
  BY BracketNone, IncludedNone, CollapseNone
<1>3. Openings(ms, 0, <<>>)
  <2>1. Nesting(ms, 0) = 0
    BY NestingFacts
  <2> QED
    BY <2>1 DEF Openings
<1>4. /\ c \in Seq(Seq(Message)) /\ c \in Seq(Seq(1..0)) /\ Len(c) = 1
      /\ \A l \in 1..1 : c[l] = <<>>
  OBVIOUS
<1> HIDE DEF c
<1>5. Len(<<>>) = 0 /\ \A i : ~(i \in 1..0)
  OBVIOUS
<1>6. \A l, n \in 1..1 : ~(l < n)
  OBVIOUS
<1>7. Traces(ms, 0, c, c)
  BY ONLY <1>4, <1>5, <1>6 DEF Traces
<1>8. Starts(c, <<>>) /\ Len(c) = Len(<<>>) + 1
  BY ONLY <1>4, <1>5 DEF Starts
<1>9. Collects(ms, 0, c, c, <<>>)
  BY ONLY <1>3, <1>5, <1>7, <1>8 DEF Collects
<1> QED
  BY <1>1, <1>2, <1>9 DEF Collected

LEMMA CollectedMore ==
    ASSUME NEW ms \in Seq(Message), NEW k \in 0..(Len(ms) - 1),
           NEW x, x = Opened(<<>>, SubSeq(ms, 1, k)),
           x \in Seq(BeginTypes \cup {"unmatched"}), x \in Stack => Collected(ms, k)
    PROVE  /\ Opened(<<>>, SubSeq(ms, 1, k + 1)) \in Seq(BeginTypes \cup {"unmatched"})
           /\ Opened(<<>>, SubSeq(ms, 1, k + 1)) \in Stack => Collected(ms, k + 1)
<1> DEFINE s == SubSeq(ms, 1, k)
           t == SubSeq(ms, 1, k + 1)
           m == ms[k + 1]
           y == Opened(<<>>, t)
           c == Collapsed(Included(s))
<1>1. /\ s \in Seq(Message) /\ m \in Message /\ t = Append(s, m) /\ t \in Seq(Message)
      /\ k \in Nat /\ k + 1 \in DOMAIN ms
  <2>1. k \in Nat /\ k + 1 \in 1..Len(ms)
    OBVIOUS
  <2>2. m \in Message
    BY <2>1
  <2>3. s \in Seq(Message) /\ Len(s) = k /\ \A i \in 1..k : s[i] = ms[i]
    BY <2>1
  <2>4. t \in Seq(Message) /\ Len(t) = k + 1 /\ \A i \in 1..(k + 1) : t[i] = ms[i]
    BY <2>1
  <2>5. t = Append(s, m)
    <3> HIDE DEF s, t, m
    <3>1. /\ Append(s, m) \in Seq(Message) /\ Len(Append(s, m)) = k + 1
          /\ \A i \in 1..k : Append(s, m)[i] = s[i]
          /\ Append(s, m)[k + 1] = m
      BY <2>1, <2>2, <2>3
    <3>2. \A i \in 1..(k + 1) : i \in 1..k \/ i = k + 1
      OBVIOUS
    <3>3. \A i \in 1..(k + 1) : t[i] = Append(s, m)[i]
      BY <2>3, <2>4, <3>1, <3>2 DEF m
    <3> QED
      BY <2>4, <3>1, <3>3, SeqEqual
  <2> QED
    BY <2>1, <2>2, <2>3, <2>4, <2>5
<1> HIDE DEF s, t, m, y, c
<1>2. y = Bracket(x, m)
  BY <1>1, BracketMore DEF y, s
<1>3. y \in Seq(BeginTypes \cup {"unmatched"})
  BY <1>1, <1>2, OpenedIs
<1>4. Included(s) \in Seq(Message)
  BY <1>1, IncludedOpensTheSame
<1>5. Included(t) = TakeIncluded(Included(s), m)
  BY <1>1, IncludedMore
<1>6. ASSUME y \in Stack PROVE Collected(ms, k + 1)
  <2>1. /\ x \in Stack
        /\ m.type \in BeginTypes => y = Append(x, m.type)
        /\ m.type \notin BeginTypes \cup EndTypes => y = x
        /\ m.type \in EndTypes => x # <<>> /\ Len(y) = Len(x) - 1
    BY <1>1, <1>2, <1>6, BracketBack
  <2>2. PICK g, b : Collects(ms, k, c, g, b) /\ Len(b) = Len(x)
    BY <2>1 DEF Collected, c, s
  <2>3. /\ c \in Seq(Seq(Message)) /\ c # <<>> /\ b \in Seq(1..k) /\ Len(b) \in Nat
    <3>1. Traces(ms, k, c, g) /\ b \in Seq(1..k) /\ Len(b) \in Nat /\ c # <<>>
      BY <1>1, <2>2, CollectsLengths
    <3> QED
      BY <3>1 DEF Traces
  <2> DEFINE d == Collapsed(Included(t))
  <2> HIDE DEF d
  <2>4. SUFFICES \E h, a : Collects(ms, k + 1, d, h, a) /\ Len(a) = Len(y)
    BY DEF Collected, d, y, t
  <2>5. CASE ~IsIncluded(m)
    <3>1. d = c
      BY <1>5, <2>5 DEF TakeIncluded, d, c
    <3>2. m.type \notin BeginTypes \cup EndTypes
      BY <2>5, BlocksAreIncluded
    <3>3. Collects(ms, k + 1, c, g, b)
      BY <1>1, <2>2, <2>5, CollectsSkip DEF m
    <3> QED
      BY <2>1, <2>2, <3>1, <3>2, <3>3
  <2>6. CASE IsIncluded(m)
    <3>1. d = CollapseStep(c, m)
      <4>1. Included(t) = Append(Included(s), m)
        BY <1>5, <2>6 DEF TakeIncluded
      <4> QED
        BY <1>1, <1>4, <4>1, CollapseMore DEF d, c
    <3>2. CASE m.type \in BeginTypes
      <4>1. d = Pushed(c, m)
        BY <1>1, <2>3, <3>1, <3>2, CollapseOf
      <4>2. \E h : Collects(ms, k + 1, d, h, Append(b, k + 1))
        BY <1>1, <2>2, <3>2, <4>1, CollectsBegin DEF m
      <4>3. Len(Append(b, k + 1)) = Len(y)
        <5>1. Len(Append(b, k + 1)) = Len(b) + 1
          BY <2>3
        <5>2. Len(Append(x, m.type)) = Len(x) + 1
          BY <2>1 DEF Stack
        <5> QED
          BY <2>1, <2>2, <3>2, <5>1, <5>2
      <4> QED
        BY <4>2, <4>3
    <3>3. CASE m.type \notin BeginTypes \cup EndTypes
      <4>1. d = Extended(c, m)
        BY <1>1, <2>3, <3>1, <3>3, CollapseOf
      <4>2. \E h : Collects(ms, k + 1, d, h, b)
        BY <1>1, <2>2, <2>6, <3>3, <4>1, CollectsPlain DEF m
      <4> QED
        BY <2>1, <2>2, <3>3, <4>2
    <3>4. CASE m.type \in EndTypes
      <4>1. b # <<>>
        <5>1. Len(x) # 0
          BY <2>1, <3>4 DEF Stack
        <5> QED
          BY <2>2, <5>1
      <4>2. \E h : Collects(ms, k + 1, d, h, Front(b))
        BY <1>1, <2>2, <3>1, <3>4, <4>1, CollectsEnd DEF m
      <4>3. Len(Front(b)) = Len(b) - 1
        <5> DEFINE K == 1..k
        <5>1. b \in Seq(K)
          BY <2>3
        <5> HIDE DEF K
        <5>2. /\ Front(b) \in Seq(K) /\ DOMAIN Front(b) = 1..(Len(b) - 1)
              /\ Len(b) \in Nat \ {0}
          BY ONLY <4>1, <5>1, FrontFacts
        <5>3. Len(b) - 1 \in Nat
          BY ONLY <5>2
        <5> QED
          BY ONLY <5>2, <5>3
      <4> QED
        BY <2>1, <2>2, <3>4, <4>2, <4>3
    <3> QED
      BY <3>2, <3>3, <3>4
  <2> QED
    BY <2>5, <2>6
<1> QED
  BY <1>3, <1>6 DEF y, t

\* When begins and ends match, finalize() has collected all of the messages.
LEMMA CollectedAll ==
    ASSUME NEW ms \in Seq(Message), Opened(<<>>, ms) = <<>>
    PROVE  Collected(ms, Len(ms))
<1> DEFINE n == Len(ms)
           x(k) == Opened(<<>>, SubSeq(ms, 1, k))
           S == {k \in Nat : /\ x(k) \in Seq(BeginTypes \cup {"unmatched"})
                             /\ x(k) \in Stack => Collected(ms, k)}
<1>1. n \in Nat
  OBVIOUS
<1>2. 0 \in S
  <2>1. SubSeq(ms, 1, 0) = <<>>
    OBVIOUS
  <2>2. x(0) = <<>>
    BY <2>1, BracketNone
  <2>3. <<>> \in Seq(BeginTypes \cup {"unmatched"})
    OBVIOUS
  <2>4. Collected(ms, 0) /\ 0 \in Nat
    BY CollectedNone
  <2> HIDE DEF x
  <2> QED
    BY ONLY <2>2, <2>3, <2>4 DEF S
<1>3. ASSUME NEW k \in 0..(n - 1), k \in S PROVE k + 1 \in S
  <2>1. k + 1 \in Nat
    OBVIOUS
  <2>2. /\ x(k + 1) \in Seq(BeginTypes \cup {"unmatched"})
        /\ x(k + 1) \in Stack => Collected(ms, k + 1)
    BY <1>3, CollectedMore
  <2> QED
    BY <2>1, <2>2
<1> HIDE DEF S
<1>4. \A k \in 0..n : k \in S
  BY <1>1, <1>2, <1>3, Upwards
<1>5. n \in S
  BY <1>1, <1>4
<1>6. SubSeq(ms, 1, n) = ms
  OBVIOUS
<1>7. x(n) \in Stack
  <2>1. x(n) = <<>>
    BY <1>6
  <2>2. <<>> \in Seq(BeginTypes)
    OBVIOUS
  <2> HIDE DEF x
  <2> QED
    BY ONLY <2>1, <2>2 DEF Stack
<1> QED
  BY <1>5, <1>7 DEF S

\* An ascending sequence of numbers counts the elements it lists.
LEMMA AscendingCounts ==
    ASSUME NEW u \in Seq(Nat), \A i, j \in 1..Len(u) : i < j => u[i] < u[j],
           NEW n \in 0..Len(u)
    PROVE  Cardinality({u[j] : j \in 1..n}) = n
<1> DEFINE X == {u[j] : j \in 1..n}
           f == [j \in 1..n |-> u[j]]
<1>1. n \in Nat /\ \A j \in 1..n : j \in 1..Len(u)
  OBVIOUS
<1>2. f \in [1..n -> X]
  OBVIOUS
<1>3. \A x \in X : \E j \in 1..n : f[j] = x
  OBVIOUS
<1>4. ASSUME NEW i \in 1..n, NEW j \in 1..n, f[i] = f[j] PROVE i = j
  <2>1. /\ u[i] = u[j] /\ u[i] \in Nat
        /\ i < j => u[i] < u[j]
        /\ j < i => u[j] < u[i]
    BY <1>1, <1>4
  <2> QED
    BY ONLY <1>1, <2>1, i \in 1..n, j \in 1..n
<1> HIDE DEF f, X
<1>5. f \in Bijection(1..n, X)
  BY <1>2, <1>3, <1>4 DEF Bijection, Injection, Surjection, IsInjective
<1>6. ExistsBijection(1..n, X)
  BY <1>5 DEF ExistsBijection
<1> QED
  BY <1>1, <1>6, FS_CountingElements DEF X

\* What is left at the end is what the blocks leave.
LEMMA RemainingIsKept ==
    ASSUME NEW ms \in Seq(Message)
    PROVE  Kept(ms) = {i \in 1..Len(ms) : Remaining(ms, Len(ms), i)}
<1>1. \A be \in Blocks(ms) : be[2] <= Len(ms)
  BY BlockFacts
<1>2. DOMAIN ms = 1..Len(ms)
  OBVIOUS
<1> QED
  BY <1>1, <1>2 DEF Kept, Remaining

\* finalize() leaves of well bracketed messages exactly those worth keeping.
LEMMA FinalizedIsSelection ==
    ASSUME NEW ms \in Seq(Message), Opened(<<>>, ms) = <<>>
    PROVE  IsSelection(Finalized(ms), ms, Kept(ms))
<1> DEFINE N == Len(ms)
           c == Collapsed(Included(ms))
           K == Kept(ms)
<1>1. N \in Nat /\ SubSeq(ms, 1, N) = ms
  OBVIOUS
<1>2. PICK g, b : Collects(ms, N, c, g, b) /\ Len(b) = 0
  <2>1. Collected(ms, N)
    BY CollectedAll
  <2>2. Len(<<>>) = 0
    OBVIOUS
  <2> HIDE DEF N
  <2> QED
    BY <1>1, <2>1, <2>2 DEF Collected
<1> HIDE DEF N, c, K
<1>3. Traces(ms, N, c, g) /\ Len(c) = 1 /\ Len(g) = 1
  <2>1. Traces(ms, N, c, g) /\ Len(c) = Len(b) + 1
    BY <1>2 DEF Collects
  <2>2. Len(g) = Len(c)
    BY <2>1 DEF Traces
  <2> QED
    BY ONLY <1>2, <2>1, <2>2
<1> DEFINE u == g[1]
           v == c[1]
<1>4. /\ g \in Seq(Seq(1..N)) /\ 1 \in 1..Len(c)
      /\ Len(u) = Len(v)
      /\ \A i \in 1..Len(v) : v[i] = ms[u[i]]
      /\ \A i, j \in 1..Len(u) : i < j => u[i] < u[j]
  <2>1. 1 \in 1..Len(c)
    BY <1>3
  <2> QED
    BY <1>3, <2>1 DEF Traces
<1>5. u \in Seq(1..N) /\ Len(u) \in Nat
  <2> DEFINE T == 1..N
  <2>1. g \in Seq(Seq(T)) /\ 1 \in 1..Len(g)
    BY <1>3, <1>4
  <2> HIDE DEF T
  <2>2. u \in Seq(T)
    BY ONLY <2>1
  <2>3. Len(u) \in Nat
    BY ONLY <2>2
  <2> QED
    BY <2>2, <2>3 DEF T
<1>6. \A i : Listed(g, i) <=> \E j \in 1..Len(u) : u[j] = i
  <2>1. 1..Len(g) = {1}
    BY <1>3
  <2> QED
    BY ONLY <2>1 DEF Listed, u
<1> HIDE DEF u, v
<1>7. \A j \in 1..Len(u) : u[j] \in 1..N
  BY ONLY <1>1, <1>5
<1>8. K = {u[j] : j \in 1..Len(u)}
  <2>1. K = {i \in 1..N : Remaining(ms, N, i)}
    BY RemainingIsKept DEF K, N
  <2>2. \A i \in 1..N : Listed(g, i) <=> Remaining(ms, N, i)
    BY <1>2 DEF Collects
  <2> QED
    BY ONLY <1>6, <1>7, <2>1, <2>2
<1>9. u \in Seq(Nat)
  <2>1. \A j \in 1..Len(u) : u[j] \in Nat
    BY ONLY <1>1, <1>7
  <2> QED
    BY ONLY <1>1, <1>5, <2>1
<1>10. \A n \in 0..Len(u) : Cardinality({u[j] : j \in 1..n}) = n
  BY ONLY <1>4, <1>9, AscendingCounts
<1>11. Len(v) = Cardinality(K)
  <2>1. Len(u) \in 0..Len(u)
    BY <1>5
  <2> QED
    BY <1>4, <1>8, <1>10, <2>1
<1>12. ASSUME NEW i \in K PROVE v[Cardinality({j \in K : j <= i})] = ms[i]
  <2>1. PICK q \in 1..Len(u) : u[q] = i
    BY <1>8
  <2>2. {j \in K : j <= i} = {u[j] : j \in 1..q}
    <3>1. ASSUME NEW j \in 1..Len(u) PROVE u[j] <= i <=> j \in 1..q
      <4>1. /\ u[j] \in 1..N /\ u[q] \in 1..N
            /\ j < q => u[j] < u[q]
            /\ q < j => u[q] < u[j]
        BY <1>4, <1>7
      <4> QED
        BY ONLY <1>1, <1>5, <2>1, <4>1, j \in 1..Len(u), q \in 1..Len(u)
    <3>2. \A j \in 1..q : j \in 1..Len(u)
      BY ONLY <1>5, q \in 1..Len(u)
    <3> QED
      BY ONLY <1>8, <3>1, <3>2
  <2>3. q \in 0..Len(u)
    BY ONLY <1>5, q \in 1..Len(u)
  <2>4. Cardinality({j \in K : j <= i}) = q
    BY <1>10, <2>2, <2>3
  <2> QED
    BY <1>4, <2>1, <2>4
<1>13. Finalized(ms) = v
  BY DEF Finalized, v, c
<1> QED
  BY <1>11, <1>12, <1>13 DEF IsSelection, K

\* When finalize() runs it keeps, in their order, exactly the messages that are
\* included and lie in no block without an included call or return, for
\* activities of any length and blocks nested to any depth.
THEOREM FinalizeKeepsWork == Spec => FinalizePrunes
<1>1. Init => BracketInv
  BY InitBracketInv
<1>2. BracketInv /\ [Next]_vars => BracketInv'
  BY NextBracketInv
<1>3. BracketInv /\ [Next]_vars
         => [final' /\ ~final => IsSelection(messages', messages, Kept(messages))]_vars
  <2> SUFFICES ASSUME BracketInv, Next, final', ~final
               PROVE  IsSelection(messages', messages, Kept(messages))
    OBVIOUS
  <2>1. Finalize
    BY DEF Next, Add, AddBlock, AddCase, EndBlock
  <2>2. /\ messages \in Seq(Message) /\ open = <<>>
        /\ messages' = Finalized(messages)
    BY <2>1 DEF Finalize, BracketInv, IInv
  <2>3. Opened(<<>>, messages) = <<>>
    <3>1. [k \in DOMAIN open |-> open[k].type] = <<>>
      BY <2>2
    <3> QED
      BY <3>1 DEF BracketInv, MessagesAreBracketed
  <2> QED
    BY <2>2, <2>3, FinalizedIsSelection
<1> QED
  BY <1>1, <1>2, <1>3, PTL DEF Spec, FinalizePrunes
================================================================================
