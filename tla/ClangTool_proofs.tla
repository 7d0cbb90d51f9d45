---------------------------- MODULE ClangTool_proofs ----------------------------
(***************************************************************************)
(* What clang_tool::run() promises, for any diagrams and directories, when *)
(* the program was started in one of the two ways in which the shared      *)
(* working directory does no harm. The run tool_parallel_output shows that *)
(* OutputWhereAsked fails without that restriction.                        *)
(***************************************************************************)
EXTENDS ClangTool, FiniteSetTheorems, TLAPS

\* One worker, and nothing throws through run().
Alone == setting.threads = 1 /\ ~setting.throws

\* Every command is to be run where the program was started.
AtHome == \A d \in Diagram : \A i \in 1..Len(DirsOf[d]) : DirsOf[d][i] = Home

\* The settings the theorems are about.
Harmless(s) ==
    \/ s.threads = 1 /\ ~s.throws
    \/ \A d \in Diagram : \A i \in 1..Len(s.dirs[d]) : s.dirs[d][i] = Home

HarmlessSettings == \A s \in Settings : Harmless(s)
--------------------------------------------------------------------------------
(* The inductive invariant. *)

\* One of the two ways holds; the setting never changes.
StartedHarmlessly == Alone \/ AtHome

\* With every command at home nobody ever leaves it.
NobodyLeaves == AtHome => cwd = Home /\ \A d \in Diagram : initial[d] = Home

\* A single worker has at most one tool.
AtMostOneTool == Alone => \A d, e \in Active : d = e

\* A single worker's tool remembers Home, and is there whenever it is not
\* between two commands.
AloneComesHome ==
    Alone =>
        /\ Active = {} => cwd = Home
        /\ \A d \in Active :
             /\ pc[d] # "remember" => initial[d] = Home
             /\ pc[d] \in {"remember", "write"} => cwd = Home

\* A command is parsed in its directory, after those before it.
Progress ==
    \A d \in Diagram :
        /\ next[d] = Len(parsedIn[d]) + 1
        /\ pc[d] = "invoke" => next[d] <= Len(DirsOf[d])
                               /\ cwd = DirsOf[d][next[d]]
        /\ pc[d] \in {"write", "done"} => Len(parsedIn[d]) = Len(DirsOf[d])
        /\ pc[d] # "done" => wroteIn[d] = {}

IInv ==
    /\ TypeOK
    /\ StartedHarmlessly
    /\ NobodyLeaves
    /\ AtMostOneTool
    /\ AloneComesHome
    /\ Progress
    /\ ParsedInItsDirectory
    /\ \A d \in Diagram : wroteIn[d] \subseteq {Home}
--------------------------------------------------------------------------------
\* The initial state satisfies the inductive invariant.
LEMMA InitIInv ==
    ASSUME HarmlessSettings
    PROVE  Init => IInv
<1> SUFFICES ASSUME Init PROVE IInv
  OBVIOUS
<1> USE ToolAssumption DEF Init
<1>1. setting \in Setting /\ Harmless(setting)
  BY DEF HarmlessSettings
<1>2. TypeOK
  BY <1>1 DEF TypeOK, ToolPcs, Setting, DirsOf
<1>3. StartedHarmlessly
  BY <1>1 DEF StartedHarmlessly, Harmless, Alone, AtHome, DirsOf
<1>4. Active = {}
  BY DEF Active
<1>5. NobodyLeaves /\ AtMostOneTool /\ AloneComesHome
  BY <1>4 DEF NobodyLeaves, AtMostOneTool, AloneComesHome
<1>6. Progress /\ ParsedInItsDirectory
  BY DEF Progress, ParsedInItsDirectory
<1> QED
  BY <1>2, <1>3, <1>5, <1>6 DEF IInv

\* A worker that is free when there is only one means that no tool runs.
LEMMA FreeWorker ==
    ASSUME IsFiniteSet(Diagram), setting.threads = 1,
           Cardinality(Active) < setting.threads
    PROVE  Active = {}
<1>1. IsFiniteSet(Active)
  BY FS_Subset DEF Active
<1>2. Cardinality(Active) \in Nat
  BY <1>1, FS_CardinalityType
<1>3. Cardinality(Active) = 0
  BY <1>2
<1> QED
  BY <1>1, <1>3, FS_EmptySet

\* What a step that moves one diagram from a place to another does to pc.
LEMMA GotoMoves ==
    ASSUME TypeOK, NEW d \in Diagram, NEW from, NEW to \in ToolPcs, Goto(d, from, to)
    PROVE  /\ pc' \in [Diagram -> ToolPcs]
           /\ pc[d] = from /\ pc'[d] = to
           /\ \A e \in Diagram : e # d => pc'[e] = pc[e]
  BY DEF TypeOK, Goto

\* A step of an active tool starts no other one; of a single worker's it leaves
\* that tool or none.
LEMMA StillOneTool ==
    ASSUME IInv, NEW d \in Active, NEW to \in ToolPcs, Goto(d, pc[d], to),
           setting' = setting
    PROVE  /\ Active' \subseteq Active
           /\ d \in Active' <=> to \notin {"idle"} \cup Finished
           /\ Alone => Active' \subseteq {d}
           /\ StartedHarmlessly'
           /\ AtMostOneTool'
<1>1. d \in Diagram
  BY DEF Active
<1>2. \A e \in Diagram : e # d => pc'[e] = pc[e]
  BY <1>1, GotoMoves DEF IInv
<1>3. pc'[d] = to
  BY <1>1, GotoMoves DEF IInv
<1>4. Active' \subseteq Active
  BY <1>2 DEF Active
<1>5. d \in Active' <=> to \notin {"idle"} \cup Finished
  BY <1>1, <1>3 DEF Active
<1>6. Alone => Active' \subseteq {d}
  BY <1>4 DEF IInv, AtMostOneTool
<1>7. StartedHarmlessly' /\ AtMostOneTool'
  BY <1>4 DEF IInv, StartedHarmlessly, AtMostOneTool, Alone, AtHome, DirsOf
<1> QED
  BY <1>4, <1>5, <1>6, <1>7
--------------------------------------------------------------------------------
\* Enter: the only worker was free, so the process is at home; nothing that the
\* other conjuncts speak of changes.
LEMMA EnterStep ==
    ASSUME IsFiniteSet(Diagram), IInv, NEW d \in Diagram, Enter(d)
    PROVE  IInv'
<1> USE DEF IInv, Enter
<1>1. /\ pc' \in [Diagram -> ToolPcs]
      /\ pc[d] = "idle" /\ pc'[d] = "remember"
      /\ \A e \in Diagram : e # d => pc'[e] = pc[e]
  BY GotoMoves DEF ToolPcs
<1>2. TypeOK'
  BY <1>1 DEF TypeOK, DirsOf
<1>3. Active' = Active \cup {d}
  BY <1>1 DEF Active, Finished
<1>4. Alone => Active = {}
  BY FreeWorker DEF Alone
<1>5. StartedHarmlessly' /\ NobodyLeaves'
  BY DEF StartedHarmlessly, NobodyLeaves, Alone, AtHome, DirsOf
<1>6. AtMostOneTool'
  BY <1>3, <1>4 DEF AtMostOneTool, Alone
<1>7. AloneComesHome'
  BY <1>1, <1>3, <1>4 DEF AloneComesHome, Alone
<1>8. Progress' /\ ParsedInItsDirectory'
  BY <1>1 DEF Progress, ParsedInItsDirectory, DirsOf
<1> QED
  BY <1>2, <1>5, <1>6, <1>7, <1>8

\* Remember: a single worker is at home here, so that is what it remembers.
LEMMA RememberStep ==
    ASSUME IInv, NEW d \in Diagram, Remember(d)
    PROVE  IInv'
<1> USE DEF IInv, Remember
<1>1. /\ pc' \in [Diagram -> ToolPcs]
      /\ pc[d] = "remember" /\ pc'[d] = "command"
      /\ \A e \in Diagram : e # d => pc'[e] = pc[e]
  BY GotoMoves DEF ToolPcs
<1>2. /\ initial'[d] = cwd
      /\ \A e \in Diagram : e # d => initial'[e] = initial[e]
      /\ initial' \in [Diagram -> Dir]
  BY DEF TypeOK
<1>3. TypeOK'
  BY <1>1, <1>2 DEF TypeOK, DirsOf
<1>4. d \in Active
  BY <1>1 DEF Active, Finished
<1>5. Alone => Active' \subseteq {d}
  BY <1>1, <1>4, StillOneTool DEF ToolPcs
<1>6. d \in Active' /\ StartedHarmlessly' /\ AtMostOneTool'
  BY <1>1, <1>4, StillOneTool DEF ToolPcs, Finished
<1>7. NobodyLeaves'
  BY <1>2 DEF NobodyLeaves, AtHome, DirsOf
<1>8. AloneComesHome'
  BY <1>1, <1>2, <1>4, <1>5, <1>6 DEF AloneComesHome, Alone
<1>9. Progress' /\ ParsedInItsDirectory'
  BY <1>1 DEF Progress, ParsedInItsDirectory, DirsOf
<1> QED
  BY <1>3, <1>6, <1>7, <1>8, <1>9

\* LookupThrows: possible only when every command is at home.
LEMMA LookupThrowsStep ==
    ASSUME IInv, NEW d \in Diagram, LookupThrows(d)
    PROVE  IInv'
<1> USE DEF IInv, LookupThrows
<1>1. /\ pc' \in [Diagram -> ToolPcs]
      /\ pc[d] = "command" /\ pc'[d] = "failed"
      /\ \A e \in Diagram : e # d => pc'[e] = pc[e]
  BY GotoMoves DEF ToolPcs, Finished
<1>2. TypeOK'
  BY <1>1 DEF TypeOK, DirsOf
<1>3. d \in Active
  BY <1>1 DEF Active, Finished
<1>4. StartedHarmlessly' /\ AtMostOneTool'
  BY <1>1, <1>3, StillOneTool DEF ToolPcs, Finished
<1>5. NobodyLeaves' /\ AloneComesHome'
  BY DEF NobodyLeaves, AloneComesHome, Alone, AtHome, DirsOf
<1>6. Progress' /\ ParsedInItsDirectory'
  BY <1>1 DEF Progress, ParsedInItsDirectory, DirsOf
<1> QED
  BY <1>2, <1>4, <1>5, <1>6

\* ChangeDirectory: no other tool is about to parse, or all directories are Home.
LEMMA ChangeDirectoryStep ==
    ASSUME IInv, NEW d \in Diagram, ChangeDirectory(d)
    PROVE  IInv'
<1> USE DEF IInv, ChangeDirectory
<1>1. /\ pc' \in [Diagram -> ToolPcs]
      /\ pc[d] = "command" /\ pc'[d] = "invoke"
      /\ \A e \in Diagram : e # d => pc'[e] = pc[e]
  BY GotoMoves DEF ToolPcs
<1>2. /\ DirsOf[d] \in Seq(Dir)
      /\ next[d] \in 1..Len(DirsOf[d])
      /\ cwd' = DirsOf[d][next[d]]
  BY DEF TypeOK, Setting, DirsOf, MoreCommands
<1>3. TypeOK'
  BY <1>1, <1>2 DEF TypeOK, DirsOf
<1>4. d \in Active
  BY <1>1 DEF Active, Finished
<1>5. Alone => Active' \subseteq {d}
  BY <1>1, <1>4, StillOneTool DEF ToolPcs
<1>6. d \in Active' /\ StartedHarmlessly' /\ AtMostOneTool'
  BY <1>1, <1>4, StillOneTool DEF ToolPcs, Finished
<1>7. AtHome => cwd' = cwd
  BY <1>2 DEF NobodyLeaves, AtHome
<1>8. NobodyLeaves'
  BY <1>7 DEF NobodyLeaves, AtHome, DirsOf
<1>9. AloneComesHome'
  BY <1>1, <1>4, <1>5, <1>6 DEF AloneComesHome, Alone
<1>10. \A e \in Diagram : pc'[e] = "invoke" => cwd' = DirsOf[e][next[e]]
  <2>1. CASE Alone
    BY <1>1, <1>2, <1>5, <2>1 DEF Active, Finished
  <2>2. CASE AtHome
    BY <1>1, <1>2, <1>7, <2>2 DEF Progress
  <2> QED
    BY <2>1, <2>2 DEF StartedHarmlessly
<1>11. Progress' /\ ParsedInItsDirectory'
  BY <1>1, <1>2, <1>10 DEF Progress, ParsedInItsDirectory, DirsOf
<1> QED
  BY <1>3, <1>6, <1>8, <1>9, <1>11

\* Invoke: the command is appended with the directory Progress says it is in.
LEMMA InvokeStep ==
    ASSUME IInv, NEW d \in Diagram, Invoke(d)
    PROVE  IInv'
<1> USE DEF IInv, Invoke
<1>1. PICK to \in {"command", "giveup", "failed"} :
          /\ Goto(d, "invoke", to)
          /\ to = "failed" => setting.throws
  OBVIOUS
<1>2. /\ pc' \in [Diagram -> ToolPcs]
      /\ pc[d] = "invoke" /\ pc'[d] = to
      /\ \A e \in Diagram : e # d => pc'[e] = pc[e]
  BY <1>1, GotoMoves DEF ToolPcs, Finished
<1>3. /\ next[d] \in Nat /\ next[d] = Len(parsedIn[d]) + 1
      /\ next[d] <= Len(DirsOf[d]) /\ cwd = DirsOf[d][next[d]]
      /\ parsedIn[d] \in Seq(Dir) /\ DirsOf[d] \in Seq(Dir) /\ cwd \in Dir
  BY <1>2 DEF Progress, TypeOK, Setting, DirsOf
<1>4. /\ next'[d] = next[d] + 1
      /\ next' \in [Diagram -> Nat \ {0}]
      /\ \A e \in Diagram : e # d => next'[e] = next[e]
  BY <1>3 DEF TypeOK
<1>5. /\ parsedIn'[d] = Append(parsedIn[d], cwd)
      /\ parsedIn' \in [Diagram -> Seq(Dir)]
      /\ \A e \in Diagram : e # d => parsedIn'[e] = parsedIn[e]
  BY <1>3 DEF TypeOK
<1>6. /\ Len(parsedIn'[d]) = Len(parsedIn[d]) + 1
      /\ \A i \in 1..Len(parsedIn[d]) : parsedIn'[d][i] = parsedIn[d][i]
      /\ parsedIn'[d][next[d]] = cwd
  BY <1>3, <1>5
<1>7. TypeOK'
  <2>1. \A e \in Diagram : next'[e] <= Len(DirsOf[e]) + 1
    BY <1>3, <1>4 DEF TypeOK
  <2> QED
    BY <1>2, <1>4, <1>5, <2>1 DEF TypeOK, DirsOf
<1>8. d \in Active
  BY <1>2 DEF Active, Finished
<1>9. Goto(d, pc[d], to) /\ to \in ToolPcs
  BY <1>1, <1>2 DEF ToolPcs, Finished
<1>10. StartedHarmlessly' /\ AtMostOneTool' /\ (Alone => Active' \subseteq {d})
  BY <1>8, <1>9, StillOneTool
<1>11. d \in Active' <=> to # "failed"
  BY <1>8, <1>9, StillOneTool DEF Finished
<1>12. NobodyLeaves'
  BY DEF NobodyLeaves, AtHome, DirsOf
<1>13. AloneComesHome'
  BY <1>1, <1>2, <1>8, <1>10, <1>11 DEF AloneComesHome, Alone
<1>14. Progress'
  <2>1. next'[d] = Len(parsedIn'[d]) + 1
    BY <1>3, <1>4, <1>6
  <2>2. pc'[d] \notin {"invoke", "write", "done"} /\ wroteIn[d] = {}
    BY <1>1, <1>2 DEF Progress
  <2> QED
    BY <1>2, <1>4, <1>5, <2>1, <2>2 DEF Progress, DirsOf
<1>15. ParsedInItsDirectory'
  <2>1. \A i \in 1..Len(parsedIn'[d]) : parsedIn'[d][i] = DirsOf[d][i]
    BY <1>3, <1>6 DEF ParsedInItsDirectory
  <2> QED
    BY <1>5, <2>1 DEF ParsedInItsDirectory, DirsOf
<1> QED
  BY <1>7, <1>10, <1>12, <1>13, <1>14, <1>15

\* Both restorations bring a single worker's process home.
LEMMA RestoreAndThrowStep ==
    ASSUME IInv, NEW d \in Diagram, RestoreAndThrow(d)
    PROVE  IInv'
<1> USE DEF IInv, RestoreAndThrow
<1>1. /\ pc' \in [Diagram -> ToolPcs]
      /\ pc[d] = "giveup" /\ pc'[d] = "failed"
      /\ \A e \in Diagram : e # d => pc'[e] = pc[e]
  BY GotoMoves DEF ToolPcs, Finished
<1>2. TypeOK'
  BY <1>1 DEF TypeOK, DirsOf
<1>3. d \in Active
  BY <1>1 DEF Active, Finished
<1>4. cwd' = Home
  BY <1>1, <1>3 DEF StartedHarmlessly, NobodyLeaves, AloneComesHome
<1>5. StartedHarmlessly' /\ AtMostOneTool' /\ (Alone => Active' = {})
  BY <1>1, <1>3, StillOneTool DEF ToolPcs, Finished
<1>6. NobodyLeaves' /\ AloneComesHome'
  BY <1>4, <1>5 DEF NobodyLeaves, AloneComesHome, AtHome, Alone, DirsOf
<1>7. \A e \in Diagram : pc'[e] = "invoke" => cwd' = DirsOf[e][next[e]]
  <2>1. CASE Alone
    BY <1>5, <2>1 DEF Active, Finished
  <2>2. CASE AtHome
    BY <1>1, <1>4, <2>2 DEF Progress, NobodyLeaves
  <2> QED
    BY <2>1, <2>2 DEF StartedHarmlessly
<1>8. Progress' /\ ParsedInItsDirectory'
  BY <1>1, <1>7 DEF Progress, ParsedInItsDirectory, DirsOf
<1> QED
  BY <1>2, <1>5, <1>6, <1>8

\* Restore: every command is parsed, and the process is brought home.
LEMMA RestoreStep ==
    ASSUME IInv, NEW d \in Diagram, Restore(d)
    PROVE  IInv'
<1> USE DEF IInv, Restore
<1>1. /\ pc' \in [Diagram -> ToolPcs]
      /\ pc[d] = "command" /\ pc'[d] = "write"
      /\ \A e \in Diagram : e # d => pc'[e] = pc[e]
  BY GotoMoves DEF ToolPcs
<1>2. TypeOK'
  BY <1>1 DEF TypeOK, DirsOf
<1>3. d \in Active
  BY <1>1 DEF Active, Finished
<1>4. cwd' = Home
  BY <1>1, <1>3 DEF StartedHarmlessly, NobodyLeaves, AloneComesHome
<1>5. /\ d \in Active' /\ Active' \subseteq Active
      /\ StartedHarmlessly' /\ AtMostOneTool' /\ (Alone => Active' \subseteq {d})
  BY <1>1, <1>3, StillOneTool DEF ToolPcs, Finished
<1>6. NobodyLeaves' /\ AloneComesHome'
  BY <1>4, <1>5 DEF NobodyLeaves, AloneComesHome, AtHome, Alone, DirsOf
<1>7. \A e \in Diagram : pc'[e] = "invoke" => cwd' = DirsOf[e][next[e]]
  <2>1. CASE Alone
    BY <1>1, <1>5, <2>1 DEF Active, Finished
  <2>2. CASE AtHome
    BY <1>1, <1>4, <2>2 DEF Progress, NobodyLeaves
  <2> QED
    BY <2>1, <2>2 DEF StartedHarmlessly
<1>8. Len(parsedIn[d]) = Len(DirsOf[d])
  <2>1. /\ Len(parsedIn[d]) \in Nat /\ Len(DirsOf[d]) \in Nat
        /\ next[d] = Len(parsedIn[d]) + 1
        /\ next[d] <= Len(DirsOf[d]) + 1 /\ ~(next[d] <= Len(DirsOf[d]))
    BY DEF TypeOK, Setting, DirsOf, Progress, MoreCommands
  <2> QED
    BY <2>1
<1>9. Progress' /\ ParsedInItsDirectory'
  BY <1>1, <1>7, <1>8 DEF Progress, ParsedInItsDirectory, DirsOf
<1> QED
  BY <1>2, <1>5, <1>6, <1>9

\* Write: whatever -o was, the process is at home.
LEMMA WriteStep ==
    ASSUME IInv, NEW d \in Diagram, Write(d)
    PROVE  IInv'
<1> USE ToolAssumption DEF IInv, Write
<1>1. /\ pc' \in [Diagram -> ToolPcs]
      /\ pc[d] = "write" /\ pc'[d] = "done"
      /\ \A e \in Diagram : e # d => pc'[e] = pc[e]
  BY GotoMoves DEF ToolPcs, Finished
<1>2. d \in Active
  BY <1>1 DEF Active, Finished
<1>3. cwd = Home
  BY <1>1, <1>2 DEF StartedHarmlessly, NobodyLeaves, AloneComesHome
<1>4. /\ wroteIn'[d] = {Home}
      /\ \A e \in Diagram : e # d => wroteIn'[e] = wroteIn[e]
      /\ wroteIn' \in [Diagram -> SUBSET Dir]
  BY <1>1, <1>3 DEF TypeOK, Progress, OutputBase
<1>5. TypeOK'
  BY <1>1, <1>4 DEF TypeOK, DirsOf
<1>6. StartedHarmlessly' /\ AtMostOneTool' /\ (Alone => Active' = {})
  BY <1>1, <1>2, StillOneTool DEF ToolPcs, Finished
<1>7. NobodyLeaves' /\ AloneComesHome'
  BY <1>3, <1>6 DEF NobodyLeaves, AloneComesHome, AtHome, Alone, DirsOf
<1>8. Progress' /\ ParsedInItsDirectory'
  BY <1>1, <1>4 DEF Progress, ParsedInItsDirectory, DirsOf
<1> QED
  BY <1>4, <1>5, <1>6, <1>7, <1>8

\* GeneratorThrows: the tool is over, at home, without a file.
LEMMA GeneratorThrowsStep ==
    ASSUME IInv, NEW d \in Diagram, GeneratorThrows(d)
    PROVE  IInv'
<1> USE DEF IInv, GeneratorThrows
<1>1. /\ pc' \in [Diagram -> ToolPcs]
      /\ pc[d] = "write" /\ pc'[d] = "failed"
      /\ \A e \in Diagram : e # d => pc'[e] = pc[e]
  BY GotoMoves DEF ToolPcs, Finished
<1>2. TypeOK'
  BY <1>1 DEF TypeOK, DirsOf
<1>3. d \in Active
  BY <1>1 DEF Active, Finished
<1>4. cwd = Home
  BY <1>1, <1>3 DEF StartedHarmlessly, NobodyLeaves, AloneComesHome
<1>5. StartedHarmlessly' /\ AtMostOneTool' /\ (Alone => Active' = {})
  BY <1>1, <1>3, StillOneTool DEF ToolPcs, Finished
<1>6. NobodyLeaves' /\ AloneComesHome'
  BY <1>4, <1>5 DEF NobodyLeaves, AloneComesHome, AtHome, Alone, DirsOf
<1>7. Progress' /\ ParsedInItsDirectory'
  BY <1>1 DEF Progress, ParsedInItsDirectory, DirsOf
<1> QED
  BY <1>2, <1>5, <1>6, <1>7
--------------------------------------------------------------------------------
\* IInv is inductive.
LEMMA NextIInv ==
    ASSUME IsFiniteSet(Diagram)
    PROVE  IInv /\ [Next]_vars => IInv'
<1> SUFFICES ASSUME IInv, [Next]_vars PROVE IInv'
  OBVIOUS
<1>1. ASSUME NEW d \in Diagram,
             \/ Enter(d) \/ Remember(d) \/ LookupThrows(d) \/ ChangeDirectory(d)
             \/ Invoke(d) \/ RestoreAndThrow(d) \/ Restore(d) \/ Write(d)
             \/ GeneratorThrows(d)
      PROVE  IInv'
  BY <1>1, EnterStep, RememberStep, LookupThrowsStep, ChangeDirectoryStep, InvokeStep,
     RestoreAndThrowStep, RestoreStep, WriteStep, GeneratorThrowsStep
<1>2. CASE UNCHANGED vars
  BY <1>2 DEF vars, IInv, TypeOK, StartedHarmlessly, NobodyLeaves, AtMostOneTool,
     AloneComesHome, Progress, ParsedInItsDirectory, Alone, AtHome, Active, DirsOf
<1> QED
  BY <1>1, <1>2 DEF Next, Terminated

\* Hence it holds throughout.
THEOREM Invariance ==
    ASSUME IsFiniteSet(Diagram), HarmlessSettings
    PROVE  Spec => []IInv
<1>1. Init => IInv
  BY InitIInv
<1>2. IInv /\ [Next]_vars => IInv'
  BY NextIInv
<1> QED
  BY <1>1, <1>2, PTL DEF Spec

\* The variables keep their types.
THEOREM TypeCorrect ==
    ASSUME IsFiniteSet(Diagram), HarmlessSettings
    PROVE  Spec => []TypeOK
<1>1. IInv => TypeOK
  BY DEF IInv
<1> QED
  BY <1>1, Invariance, PTL

\* run() parses each command in the directory its entry names.
THEOREM EachInItsDirectory ==
    ASSUME IsFiniteSet(Diagram), HarmlessSettings
    PROVE  Spec => []ParsedInItsDirectory
<1>1. IInv => ParsedInItsDirectory
  BY DEF IInv
<1> QED
  BY <1>1, Invariance, PTL

\* Files are written below the directory -o meant where the program was started.
THEOREM OutputInPlace ==
    ASSUME IsFiniteSet(Diagram), HarmlessSettings
    PROVE  Spec => []OutputWhereAsked
<1>1. IInv => OutputWhereAsked
  BY DEF IInv, OutputWhereAsked, Progress
<1> QED
  BY <1>1, Invariance, PTL

\* Between tools the process is where it was started.
THEOREM ComesHome ==
    ASSUME IsFiniteSet(Diagram), HarmlessSettings
    PROVE  Spec => []WorkdirRestored
<1>1. IInv => WorkdirRestored
  BY DEF IInv, WorkdirRestored, StartedHarmlessly, NobodyLeaves, AloneComesHome
<1> QED
  BY <1>1, Invariance, PTL

================================================================================
