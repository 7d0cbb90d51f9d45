-------------------------------- MODULE ClangTool --------------------------------
(***************************************************************************)
(* The pool's workers each run clang_tool::run() for one diagram and then  *)
(* write its files. overlay_fs_ sits on llvm::vfs::getRealFileSystem(),    *)
(* whose working directory is the PROCESS's, so what looks like a member   *)
(* of one tool is shared by all of them: setCurrentWorkingDirectory() is   *)
(* chdir(), and nothing serialises it.                                     *)
(***************************************************************************)
EXTENDS Naturals, Sequences, FiniteSets

CONSTANTS Diagram,      \* the diagrams being generated
          Dir,          \* directories
          Home,         \* where clang-uml was started
          Settings      \* the ways the program is started that are explored

\* dirs[d] is the CompileCommand.Directory of each command run() executes for d
\* (a sequence diagram uses the first command of a file only), threads the number
\* of worker threads; relative says that -o was given a relative path, throws that
\* getCompileCommands() or a visitor may throw.
Setting == [dirs : [Diagram -> Seq(Dir)], threads : Nat \ {0},
            relative : BOOLEAN, throws : BOOLEAN]

ASSUME ToolAssumption ==
    /\ Home \in Dir
    /\ Settings \subseteq Setting

VARIABLES setting,      \* how the program was started; never changes
          cwd,          \* the working directory of the process
          pc,           \* pc[d]: where the thread working on d is
          initial,      \* initial[d]: initial_workdir in d's run()
          next,         \* next[d]: the next compile command of d
          parsedIn,     \* parsedIn[d]: the cwd each parsed command saw
          wroteIn       \* wroteIn[d]: the directories d's file was written to

vars == <<setting, cwd, pc, initial, next, parsedIn, wroteIn>>

DirsOf == setting.dirs

Finished == {"done", "failed"}
ToolPcs == {"idle", "remember", "command", "invoke", "giveup", "write"} \cup Finished

TypeOK ==
    /\ setting \in Setting
    /\ cwd \in Dir
    /\ pc \in [Diagram -> ToolPcs]
    /\ initial \in [Diagram -> Dir]
    /\ next \in [Diagram -> Nat \ {0}]
    /\ \A d \in Diagram : next[d] <= Len(DirsOf[d]) + 1
    /\ parsedIn \in [Diagram -> Seq(Dir)]
    /\ wroteIn \in [Diagram -> SUBSET Dir]

Init ==
    /\ setting \in Settings
    /\ cwd = Home
    /\ pc = [d \in Diagram |-> "idle"]
    /\ initial = [d \in Diagram |-> Home]
    /\ next = [d \in Diagram |-> 1]
    /\ parsedIn = [d \in Diagram |-> <<>>]
    /\ wroteIn = [d \in Diagram |-> {}]

Active == {d \in Diagram : pc[d] \notin {"idle"} \cup Finished}

MoreCommands(d) == next[d] <= Len(DirsOf[d])

Goto(d, from, to) == pc[d] = from /\ pc' = [pc EXCEPT ![d] = to]
--------------------------------------------------------------------------------
(***************************************************************************)
(* Slips the properties have to catch; none of them is part of Next.       *)
(***************************************************************************)

\* Only the first command's directory is entered.
ChangeDirectory_FirstOnly(d) ==
    /\ MoreCommands(d)
    /\ Goto(d, "command", "invoke")
    /\ cwd' = DirsOf[d][1]
    /\ UNCHANGED <<setting, initial, next, parsedIn, wroteIn>>

\* The command is run in some other directory, a scratch one say.
ChangeDirectory_Scratch(d) ==
    /\ MoreCommands(d)
    /\ Goto(d, "command", "invoke")
    /\ cwd' \in Dir \ {DirsOf[d][next[d]]}
    /\ UNCHANGED <<setting, initial, next, parsedIn, wroteIn>>

\* The error path does not restore the directory.
RestoreAndThrow_Forgets(d) ==
    /\ Goto(d, "giveup", "failed")
    /\ UNCHANGED <<setting, cwd, initial, next, parsedIn, wroteIn>>

\* The good path does not.
Restore_Forgets(d) ==
    /\ ~MoreCommands(d)
    /\ Goto(d, "command", "write")
    /\ UNCHANGED <<setting, cwd, initial, next, parsedIn, wroteIn>>
--------------------------------------------------------------------------------
\* A free worker takes the diagram's task.
Enter(d) ==
    /\ Cardinality(Active) < setting.threads
    /\ Goto(d, "idle", "remember")
    /\ UNCHANGED <<setting, cwd, initial, next, parsedIn, wroteIn>>

\* initial_workdir = overlay_fs_->getCurrentWorkingDirectory()
Remember(d) ==
    /\ Goto(d, "remember", "command")
    /\ initial' = [initial EXCEPT ![d] = cwd]
    /\ UNCHANGED <<setting, cwd, next, parsedIn, wroteIn>>

\* compilations_.getCompileCommands(file) queries the compiler driver and may
\* throw; nothing on the way out restores the directory.
LookupThrows(d) ==
    /\ setting.throws
    /\ MoreCommands(d)
    /\ Goto(d, "command", "failed")
    /\ UNCHANGED <<setting, cwd, initial, next, parsedIn, wroteIn>>

\* overlay_fs_->setCurrentWorkingDirectory(compile_command.Directory)
ChangeDirectory(d) ==
    /\ MoreCommands(d)
    /\ Goto(d, "command", "invoke")
    /\ cwd' = DirsOf[d][next[d]]
    /\ UNCHANGED <<setting, initial, next, parsedIn, wroteIn>>

\* invocation.run(): relative names in the command and in #include are looked
\* up from the working directory. The parse is fine, ends in diagnostics, or a
\* visitor throws through run().
Invoke(d) ==
    /\ \/ Goto(d, "invoke", "command")
       \/ Goto(d, "invoke", "giveup")
       \/ setting.throws /\ Goto(d, "invoke", "failed")
    /\ next' = [next EXCEPT ![d] = @ + 1]
    /\ parsedIn' = [parsedIn EXCEPT ![d] = Append(@, cwd)]
    /\ UNCHANGED <<setting, cwd, initial, wroteIn>>

\* A failed command: restore the directory, then throw clang_tool_exception.
RestoreAndThrow(d) ==
    /\ Goto(d, "giveup", "failed")
    /\ cwd' = initial[d]
    /\ UNCHANGED <<setting, initial, next, parsedIn, wroteIn>>

\* All commands are done: restore the directory.
Restore(d) ==
    /\ ~MoreCommands(d)
    /\ Goto(d, "command", "write")
    /\ cwd' = initial[d]
    /\ UNCHANGED <<setting, initial, next, parsedIn, wroteIn>>

\* What output_directory is resolved against: an absolute path means everywhere
\* what it meant at Home, a relative one (-o is passed on as typed) does not.
OutputBase == IF setting.relative THEN cwd ELSE Home

\* generate_diagram_select_generator(): the text is complete before the file is
\* opened, at output_directory / name.
Write(d) ==
    /\ Goto(d, "write", "done")
    /\ wroteIn' = [wroteIn EXCEPT ![d] = @ \cup {OutputBase}]
    /\ UNCHANGED <<setting, cwd, initial, next, parsedIn>>

\* The generator throws: no file is opened.
GeneratorThrows(d) ==
    /\ Goto(d, "write", "failed")
    /\ UNCHANGED <<setting, cwd, initial, next, parsedIn, wroteIn>>

Terminated == (\A d \in Diagram : pc[d] \in Finished) /\ UNCHANGED vars

Next ==
    \/ \E d \in Diagram :
         \/ Enter(d) \/ Remember(d) \/ LookupThrows(d) \/ ChangeDirectory(d)
         \/ Invoke(d) \/ RestoreAndThrow(d) \/ Restore(d) \/ Write(d)
         \/ GeneratorThrows(d)
    \/ Terminated

Spec == Init /\ [][Next]_vars
--------------------------------------------------------------------------------
\* Each command is parsed in the directory its compilation database entry names.
ParsedInItsDirectory ==
    \A d \in Diagram : \A i \in 1..Len(parsedIn[d]) : parsedIn[d][i] = DirsOf[d][i]

\* A diagram's file is written under the directory -o meant where the program
\* was started, and only when all its commands were parsed.
OutputWhereAsked ==
    \A d \in Diagram :
        /\ wroteIn[d] \subseteq {Home}
        /\ wroteIn[d] # {} => Len(parsedIn[d]) = Len(DirsOf[d])

\* When no tool runs, the process is where it was started.
WorkdirRestored == Active = {} => cwd = Home

================================================================================
