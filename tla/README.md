# clang-uml in TLA+

clang-uml reads a compilation database, parses C++ with Clang, fills one model
per configured diagram, and writes each model as PlantUML, Mermaid, JSON or
GraphML text. This directory holds TLA+ models of the parts of it whose
correctness depends on an *order of steps*: threads that share a pool, a
progress indicator and the process's working directory; a visitor that keeps
stacks while Clang's traversal enters and leaves nodes; a model whose message
list is cut back and folded, and which several translation units fill one after
the other; filters that search a model while it shrinks; a generator that
recurses over a call graph.

Paths are relative to the repository.

1. [Inventory of the system](#1-inventory-of-the-system)
2. [Modules](#2-modules)
3. [Runs](#3-runs)
4. [Bounds and fairness](#4-bounds-and-fairness)
5. [Proofs](#5-proofs)
6. [Disagreements with the code's own words](#6-disagreements-with-the-codes-own-words)
7. [What is not modelled](#7-what-is-not-modelled)
8. [Plan](#8-plan)

## 1. Inventory of the system

`main()` hands the command line to `cli_handler`, loads the configuration and the
compilation database, and calls `generators::generate_diagrams()`. That loops
over the configured diagrams and adds one task per diagram to a
`thread_pool_executor`. A task builds a model: `clang_tool::run()` parses each
matching compile command, and for each translation unit a visitor of the
diagram's type fills the model; `finalize()` completes and filters it. Then one
generator per requested output format writes a file. The main thread reads all
futures and turns failures into the exit code.

| Component (`src/`) | State | Operations | Interacts by | Correct if |
|---|---|---|---|---|
| thread pool (`util/thread_pool_executor`) | deque, `done_`, mutex, condition variable, threads | `add`, `stop`, destructor, `worker`, `get` | mutex and `wait_for`; futures | no task lost or run twice; every future settles; `stop()` ends |
| generation orchestration (`common/generators/generators`) | futures, error list, indicator, executor: locals of one call | the scheduling loop, the tasks, reading the futures | tasks capture locals by reference | exit code tells failures; the indicator outlives its users |
| progress indicator (`common/generators/progress_indicator`) | a map of bars under a mutex | `add_progress_bar`, `increment`, `complete`, `fail` | called by workers and the main thread | a bar agrees with its task |
| clang tool runner (`common/generators/clang_tool`) | the **process's** working directory, the next command | `run()` | all workers share the directory | a command is parsed in its own directory, output goes where it was asked to |
| sequence diagram visitor (`sequence_diagram/visitor`) | `call_expression_context` (eight stacks), waiting messages, local ids | `Traverse*`/`Visit*`, called back by Clang | writes to the sequence diagram model | stacks follow the traversal; no message lost |
| sequence diagram model (`sequence_diagram/model`) | activities with their messages and callers, participants | `add_*message`, `end_block_message`, `finalize`, chain searches, lambda inlining | filled by the visitor, read by generators | folding removes only what is empty |
| sequence diagram generators (`sequence_diagram/generators`) | list of callers, generated activities, static messages | `generate_from_sequences`, `generate_activity` | read the model | text well nested; recursion ends; nothing reachable lost |
| class diagram visitor (`class_diagram/visitor`) | id map and forward declarations of one unit | `Visit*`, `add_or_update`, `finalize` | a new visitor per translation unit, one model for all | the model is the union of what the units declare |
| class diagram model (`class_diagram/model`) | elements in views and in a tree, added ids, relationships | `add`, `move`, `remove_redundant_dependencies`, `get_parents`, `apply_filter` | filters, visitor | views and tree agree; filtering ends in the largest admissible model |
| class diagram generators | relationships already written | `generate` | read the model | |
| package and include diagrams (`package_diagram`, `include_diagram`) | nested elements, dependencies | `add_*`, `apply_filter` | preprocessor callbacks, `nested_trait` | no relationship without its end; emptied packages go |
| diagram model base (`common/model`) | nested elements, three-valued logic, memoized names | `nested_trait`, `element_view`, `tvl`, `finalize` | base class of all models | no stale name, no reference to a destroyed element |
| diagram filters (`common/model/filters`) | filters per mode, caches of searches | `should_include`, `match`, `reset` | consulted by visitors, models, generators | a search finds what is reachable in the model of the moment |
| generator base, visitor base, clang helpers | id map | formatting, traversal helpers | | |
| compilation database (`common/compilation_database`) | the commands, flags | `getCompileCommands`, edits of a command | called by tools; starts a compiler driver | edits in the documented order |
| configuration (`config`) | options with `has_value`, inheritance | `inherit`, `override`, decoding | read by everything | a diagram's own value wins over the inherited one |
| command line (`cli`, `main.cc`) | options, the runtime configuration | `handle_options`, pre- and post-config actions | sets up all the rest | early returns in the right order |
| utilities, decorators, version | | | | |

The status of each is in the `components` of `PROJECT.json`.

**Hard behaviour.** Interleavings in the thread pool, whose `stop()` writes
`done_` without the mutex and notifies nobody; one working directory for all
workers; a progress indicator destroyed before the pool whose tasks refer to it;
exceptions in a task, in the scheduling loop and in the middle of
`clang_tool::run()`. In the sequence diagram: state that outlives the node it
belongs to (context stacks, the current else-if), messages that wait while
lambdas and blocks change the activity they go to, a backward search that
compares message types only, recursion through a call graph that has cycles, and
callers that every unit finds a part of. In class, package and include diagrams:
declarations and definitions met in any order by several units, ids that mean
something in one unit only, and searches that keep references to elements which
the next step of `apply_filter()` destroys.
Nothing is persisted and there is no network: crash recovery and message loss do
not arise. `hazards` in `PROJECT.json` lists each at its line, with the
properties about it.

## 2. Modules

```
TaskService  <--refines--  ThreadPool
     |  INSTANCE
GenerateDiagrams            ClangTool        GenerateDiagrams_proofs (and ThreadPool's),
                                             ClangTool_proofs

ActivityMessages --EXTENDS--> SequenceModel, SequenceVisitor
SequenceModel <--refines (VisitorActivities)-- SequenceVisitor
     |                                       SequenceModel_proofs, SequenceVisitor_proofs
     |  bracketing of a finished activity (an assumption on Bodies)
SequenceGenerator                            SequenceGenerator_proofs

CallUnits     ClassUnits --the finished model--> ModelFilter
                                             CallUnits_proofs, ClassUnits_proofs,
                                             ModelFilter_proofs
```

The `MC*` modules give TLC the constants a `.cfg` cannot write.
Definitions named `X_SomeSlip` are variants of `X` with a plausible bug; none is
part of a `Next`. Each shows that some property would notice that bug. The
`TypeOK` of a module documents the types of its variables; it is proved where
there is a proof module, and documentation elsewhere.

### ThreadPool and TaskService

`ThreadPool` is `util::thread_pool_executor` with the C++ names: `tasks`, `done`,
a mutex, and per worker a program counter in `worker()`/`get()`. Code under the
mutex that touches only `tasks_` is one step (`Add`, `TakeFront`). `get()` is cut
between its test of `tasks_` (`TestEmpty`) and its test of `done_`
(`ThrowClosing`, `BeginWait`), since `Stop` writes `done_` in between without
the lock. `wait_for(1s)` is `BeginWait`, which releases the mutex and waits at
once, and `WakeUp`, which may happen at any time: by the timeout, spuriously, or through
`NotifyOne`. `Destroy` is the destructor after its `stop()`: the deque goes and
breaks the promises in it. `late` is a history variable: how many tasks a worker
took after `stop()`.

`TaskService` is what a user relies on: a task is new, queued, running, ready or
broken, and moves along that line once. `ThreadPool` implements it under
`fate <- FateOf`, `open <- ~done` (checked and proved).

### GenerateDiagrams

`generate_diagrams()` on top of a `TaskService`: the loop (`Skip`, `NoCommands`,
`Schedule`, `LoopThrows`), `GetFuture` in scheduling order, `AllRead` deciding the
exit code, and then the destructors in the order C++ runs them
(`DestroyIndicator`, `StopPool`, `JoinPool`). A task begins (`JobBegin`), parses
commands (`JobUnit`) and succeeds or fails (`JobSucceeds`, `JobFails`), reporting
to the bars each time. The bars' methods are operators, since each holds
`progress_bars_mutex_` throughout.

The indicator is destroyed before the executor joins. A task that uses it then
dereferences a dangling reference; the model records it in `dangling` and lets
the call do nothing.

### ClangTool

`clang_tool::run()` per diagram, a step per call that reads or writes the working
directory: `Remember`, `ChangeDirectory`, `Invoke`, `Restore` or
`RestoreAndThrow`, then the generator's `Write`. `cwd` is one variable because
`llvm::vfs::getRealFileSystem()` changes the directory of the process. `Settings` holds
the ways of starting the program that a run explores: each diagram's commands
with their directories, the number of threads, whether `-o` is relative, whether
`getCompileCommands()` or a visitor may throw.

### ActivityMessages and SequenceModel

`ActivityMessages` has what `diagram.cc` does to a list of messages, as operators:
`FoldOrEnd`, `AddCaseTo`, and the two halves of `finalize()`, `Included` and `Collapsed`,
which are folds. `SequenceModel` makes the steps of one activity from them.
`FoldOrEnd` is `fold_or_end_block_statement()`: the backward search for the beginning of
the block, erasing from there to the end if it met no call or return, else appending the
end message. The search compares types only; that it finds the *right* beginning is the
content of `OwnBlockStands` and `ClosedBlocksHoldWork`, stated with the history variable
`open`. `Finalized` is `finalize()`: excluded calls go, then blocks are collected on
a stack of message lists and those without work are left out. It is compared with a
reference definition, `Kept`, which has no stack: it pairs begins and ends by depth, looks at
each block as a whole, and says which positions of the activity stay.

### SequenceVisitor

The `Traverse*` and `Visit*` methods over one function's body. The syntax tree
is not an input: each step opens, continues or closes a node, so TLC goes
through all trees of `MaxNodes` nodes within the grammar of C++ (`Fits`).
`walk` is the recursion's stack together with the locals of the `Traverse*`
methods; `ctx` is `call_expression_context_`; `pending`, on a frame of `walk`,
is the entry of the map in which a call's or return's message waits until its
expression is left. `backups` are the copies `TraverseLambdaExpr()` takes.
In `VisitorActivities` a variable `of`, which never changes (`LookSpec`), is any one of the
activities, and `Model` instantiates `SequenceModel` for it: its messages, and as `open`
the blocks of the frames that record in it, outermost first (`OpenIn`).
`ImplementsSequenceModel` says that the activity goes through the steps of that module: what
`SequenceModel` assumes of its caller (blocks closed innermost first, labels in switches
only, nothing open when it is finalized) is thus shown and not only assumed.

A kind of node is one representative where methods are copies of each other:
`While`, `Do`, `For` share `EnterLoop`; the range-based for is `For`; `Call`
stands for the call-like expressions (constructor, operator and member calls) that
`TraverseCallExpr()`'s siblings handle alike. Whether a call yields a
message at all, and whether the filters include it, are choices.

### SequenceGenerator

`generate_from_sequences()` and the recursion of `generate_activity()` in the
PlantUML generator, whose control Mermaid shares. `frames` is the recursion,
`visited`, `generated` and `statics` are the three collections in the code.
`open` is what is open in the text: bars and groups. `Bodies` are
the activities, any call graph over them being possible. The assumption that
every `end` in a body has its `begin` is `MessagesAreBracketed` of `SequenceModel`, proved there.

Left out: separators (`kElse`, `kCase`, ...), which print a line and change no
state; the declaration lines of participants; the empty return line of a void
function; a participant without an activity, which is drawn as an empty body.

### CallUnits

The call graph of a sequence diagram, which is recorded twice: as messages of the
caller's activity while a body is visited, and as callers of the callee, collected
by a visitor in `activityCallers` and written into the model by its `Finalize`. A
program is data: who calls whom, and what each translation unit declares and
defines in which order. `KeyOf` is the choice the code makes between the id of the
AST and that of the model; `Finalize` resolves ids, replaces callers
(`WithCallers`: one key's, chosen by the order of ids, hence `\E first`) and
inlines lambdas (`Inlined`; `Reattached` follows lambdas that call lambdas, as
`inline_lambda_operator_call()` does). What that should give is stated by `CalledBy`, without
recursion: the least set of lambdas reached from a function (`LambdasOf`), and what they call.
Then `WaysUp` (a recursive function of a node and the
functions below it) is the depth-first search over the reverse call graph, `MessageChain`
turns a way into messages, and `ToChains` and
`FromToChains` are what the generators of all three text formats draw for `to` and
`from_to`. `Method` are the functions whose calls always use the local id. A
message that two visits of one body record twice is one member of a set.

### ClassUnits

The model of a class diagram while units are visited: `VisitNamespace`,
`VisitDeclaration`, `DefineNew` and `DefineAgain` (`add_or_update()` for a declaration, a
definition new to the model, and one of an element an earlier unit added), and
the visitor's `Finalize`. `elements` are the views, `place` the position in the
tree of packages, `added` the set `added_elements_`, which are three records of
one thing. A relationship's destination is an id of the AST (`Ast`) or of the model
(`Uml`): bases are known by name, types of members by their declarations' ids until
`Resolve`. `Outside` are entities the visitor never looks at, `Rejected` those
it visits and refuses to add; in both cases relationships may lead to them.

### ModelFilter

`finalize()` of class, package and include diagrams, that is `apply_filter()`
with the filters in it. A filter is one of three types, told apart by what it keeps:
a `verdict` on one element (namespaces, paths, types, ...), a `graph` search
(`edge_traversal_filter`, cached; `subclass_filter` and `parents_filter`, not), or
a `context`. A search is a sequence of steps (`Seed`, `Grow`, `Grown`), because the
code inserts into the `unordered_set` that it iterates over: which elements a
pass still visits after an insertion is left open, and `ClosureIsExact` says
that it does not matter. `Judge` and `Remove*` alternate; `Kept` tells which
searches survive a round: `reset()` is called for class diagrams and reaches
`edge_traversal_filter` only. All searches of a round are filled before its first element is
judged. The code fills a search when it is first asked, and `tvl::any_of()` and `all_of()`
stop early: a search that no element of the first round gets to, because another member of its
`anyof` group or an earlier filter decided for each, is filled later, in the smaller model.
What the properties say of searches is not claimed of that case. `setting` has the configuration and the tree of
packages; `view` and `tree` are `element_view` and `nested_trait`, the second owning
the elements the first refers to.

## 3. Runs

| Run | Module | Shows |
|---|---|---|
| `pool` | ThreadPool | three workers and three tasks, every interleaving of add, stop, destructor and get: tasks in one place, at most one late task per worker, nothing runs after stop, futures settle once and always, stop returns, refinement of TaskService |
| `tool` | ClangTool | the two ways of starting the program in which the shared directory is harmless: one thread without exceptions, or all commands in the directory clang-uml was started in |
| `tool_parallel_output` | ClangTool | *violation*: two threads, relative `-o` |
| `generate` | GenerateDiagrams | three diagrams, two threads, the loop left by an exception or not: exit code, indicator's lifetime, bars, termination |
| `model_blocks` | SequenceModel | every activity of up to seven messages: folding and `finalize()` |
| `visit_body` | SequenceVisitor | every body of up to four nodes of ten kinds: context, messages, else branches, refinement of SequenceModel |
| `draw` | SequenceGenerator | every call graph over three functions: recursion, returns, nesting, completeness, termination |
| `call_units` | CallUnits | nine programs of three functions and two lambdas spread over two units: every chain is a path of calls, lambdas inlined into one another or not, and `to` loses none where callers are kept |
| `from_to_chains` | CallUnits | *violation*: `from_to` from a function that is itself called |
| `class_units` | ClassUnits | three units out of five sources, packages by namespace or directory, redundant dependencies removed or not: the model is the union, elements lie where they are defined, relationships are the declared ones |
| `class_foreign_ids` | ClassUnits | *violation*: an unresolved id of one unit is resolved by the next |
| `filter` | ModelFilter | eleven configurations of class, package and include diagrams over 24 models: no use of what was removed, exact searches, the largest admissible class diagram, no relationship without its end, emptied packages, termination |

What each property says stands above it in its module.

Two properties have preconditions worth knowing. `IndicatorOutlivesItsUsers`
excludes the runs in which the loop was left by an exception: there the dangling
use does happen in the model. `BracedElseIsMarked` is about an else in braces, or
an `else if`, after a then in braces; the two cases it leaves out are in
section 6. Coroutine suspensions are
exempt from `EachMessageInOnePlace`, as the code folds blocks that hold nothing else.
`ToChainsAreExact` is about functions whose callers the code keeps
(`CallersAreKept`: in one unit, not before the callee's activity, named in one way) and
`ModelIsUnion` about classes whose namespace every unit opens first; outside of
these conditions the code does lose chains and classes (section 6).
`LargestConsistent` needs that no search excludes: what an excluding search finds
may vanish in a later round, with the reason for a removal. `RelationshipsHaveEnds`
is about package and include diagrams; class diagrams keep relationships to removed
classes, which their generators skip. Of package diagrams it speaks, as `NoDanglingUse`
does, only where the inner packages go with an outer one (`InsideGoesToo`: no filter says of
an outer name what it does not say of the inner ones, no search excludes, contexts stand in
groups of their own); elsewhere destroyed packages do stay in the view (section 6).

## 4. Bounds and fairness

| Run | Bound | Why it is enough |
|---|---|---|
| `pool` | 3 workers, 3 tasks | one worker can be late, one waiting and one running at once; three tasks let one be taken, one queued and one added after `stop()` |
| `tool` | 3 diagrams, at most 2 commands each, 3 directories | two overlapping tools and one that starts after them; a second command shows the change between commands |
| `generate` | 3 diagrams, 2 threads, `MaxUnits` = 2 | one diagram must queue behind two running ones; two units are the least at which a bar is neither empty nor full |
| `model_blocks` | `MaxMessages` = 7 (of `BoundedNext`, in `MCSequenceModel`; the module itself has no bound), two block types | two nested blocks of one type with work in the inner and after it fit, and so do three nested ones with a call; one ordinary block type and the one with labels are told apart by nothing else. The proofs cover any length |
| `visit_body` | `MaxNodes` = 4, `MaxLambdas` = 2 | an if in an if in an if with a call, a lambda in a call in a block in a lambda |
| `filter` | 4 elements, 3 filters, eleven configurations, 24 models with up to five relationships | a search of three passes, a cycle, an element that leaves another one unreachable two rounds later, packages nested three deep |
| `class_units` | 5 entities, 3 units of up to 8 declarations, 2 directories | an entity declared, defined and declared again in any order, one in two directories, one refused, one never looked at; a third unit meets what two have left |
| `class_foreign_ids` | 2 units | one leaves an id, the other has a class with that id |
| `call_units`, `from_to_chains` | 3 functions and 2 lambdas, 2 units, calls of one function to at most two others | a shared callee, direct and mutual recursion, a recursive target, a lambda that calls and is called, by a function or by another lambda; headers (bodies in both units). Both lambdas stand in the same units. `MaxChain` = 4 bounds the paths that chains are compared with: none that repeats no function is longer |
| `draw` | 3 functions, bodies of `SmallBodies`, 2 root lists | direct, mutual and three-cycle recursion, two calls to one function, a static call repeated, an absent callee, nested groups, several roots of which one is absent |

`Modes` leaves out `"json"`, which differs from `"text"` in wording only.
`Place` has one member: no operator compares places. A `Diagram`'s
position in the loop is arbitrary, so the order of names needs no model.

Fairness. `ThreadPool`: weak fairness of each worker (the threads are scheduled, tasks
return and `wait_for()` times out after a second), of the owner's `NotifyOne`
and `Join`, which it is in the middle of, and of `Destroy`, since the pool is a
local variable. There is no fairness on `Add` or `Stop`, and none that promises
a worker the mutex. `GenerateDiagrams`: weak fairness of the main thread and of each
task, i.e. parsing and generating end. `SequenceGenerator` and `ModelFilter`: weak
fairness of the one thread; that `Grow` ends is shown, not assumed, since it
needs something new each time. `CHECK_DEADLOCK FALSE` appears where the model stops by
design: a finalized activity, a syntax tree at its bound, the last unit, a filtered model.

## 5. Proofs

All are checked by `tlapm` for every value of the constants that the named
assumptions allow.

**GenerateDiagrams_proofs** (`GenerateAssumption`: at least one thread, the modes are
the code's). The invariant follows an exception from its task to the exit code:
`FuturesPending` says that a scheduled diagram's future is still in `futs` or was
read, with its exception in `errors`; `ErrorsAreReal` that nothing else gets there;
`MainShape` that the loop over `futs` is over, or was thrown out of, when the exit code
is computed. The same loop is why a task that is left when the indicator goes means
an exception (`TaskOutlivesIndicator`). Theorems: `TypeCorrect`, `ExitCode`,
`IndicatorSafe`, `BarsTruthful`, that is all safety properties of the module, for any
number of diagrams, threads and commands.

Its second half is about the executor, module `ThreadPool` (`ConstantsAssumption`: the
two "nobody" values are no tasks or workers). The inductive invariant
`PoolIInv` consists of the types; each task in one
place; the mutex owned by the worker inside `get()`; a quiet pool after `stop()`;
no early exit; at most one late task; and two facts that none of these implies:
`WorkerShape` (a worker with a late task runs it or is on its way to the test of
`done_`, which is set) and `OwnerShape` (where the owner is tells `done` and
`joined`). `EachTaskInOnePlace` alone would not do: popping the front is safe only
because the deque has no duplicates, which the guard of `Add` (a future is new)
keeps. Theorems: `ExecutorTypes`, `TasksInOnePlace`, `MutexCorrect`,
`StopLeavesQuiet`, `ThreadsStay`, `OneLateTask`, `SettleOnce` (an action
property), and `Refinement`, that the pool implements `TaskService`.
`PoolIsTaskService` is the other side of that contract: every behaviour of
`GenerateDiagrams` is one of `TaskService` on a task per diagram, so the orchestration
relies on nothing that the executor does not promise.

**ClangTool_proofs** (`ToolAssumption`). What the run `tool` checks for two settings
is proved for every finite set of diagrams and any commands, provided each setting is
`Harmless`: one thread and nothing that throws, or every command at home. In the first
case `AtMostOneTool` and `AloneComesHome` carry the argument (a free worker among one
means that nothing runs, and then the process is at home), in the second nobody ever
leaves (`NobodyLeaves`). `Progress` ties the directory to the command about to be
parsed. Theorems: `TypeCorrect`, `EachInItsDirectory`, `OutputInPlace`,
`ComesHome`. The run `tool_parallel_output` is the counterexample without the condition.

**ClassUnits_proofs** (`UnitsAssumption`: the tables have their types). `PlacedByFile`
and `FileOfDefinition` say where an element is, and that its file is a definition's once
it is complete: `PackageOfDefinition`. `UnionOfUnits` (`ModelIsUnion`) needs, in the
middle of a unit, what the visitor owes: `UnionOf` says of each entity that its
definition is in the model as soon as it was met, and its declaration at the latest when
the visitor finalizes; `NamespacesThere`, that the packages needed for that exist. `Traced`
says of each relationship that its end is mentioned by the definition, as an entity or as the
id of one in some unit so far: `OnlyDeclaredRelationships`. That nothing is missing either is
`ExactRelationships` (`RelationshipsAreExact`): an element has all that was declared until
the unit that completed it is finalized (`Fresh`), and what is exact ever after (`Settled`),
because an id that is left by then belongs to an entity outside. Resolving an id by
another unit's map keeps all this only if no id stands for two entities
(`IdsTellEntities`), which the last two theorems assume and `class_foreign_ids` shows to be
needed; `ExactRelationships` also assumes that a unit that defines a class declares what the
definition mentions (`MentionedAreDeclared`), as C++ demands. Both are true of the run's
units.

**CallUnits_proofs** (`CallsAssumption`: a unit declares what it calls, and lambdas call one
another in no cycle, which `inline_lambda_operator_call()` would follow for ever). First the search: `WaysUpAreWays` says that `WaysUp` returns exactly the ways up
that repeat no function and cannot be prolonged (`Ways`, defined without recursion). Its
recursion ends since each call has fewer functions left; of the nodes that would return
something else, one with the fewest functions left is refuted by its own calls.
`MessagesAreCalls` does the same for `MessageChain`: of a way whose calls are all recorded
no message is lost. Then what is searched. The invariant
follows a call from a body to the model: `VisitorKnows`, under which key the present
visitor recorded it; `Recorded`, which messages and callers the activities have; `Kept`,
that a function has all its callers once the one unit that calls it was finalized;
`InlinedCalls`, that what inlining leaves is still a call the program makes. `InlinedIsCalled`
is the step for it, to any depth: of the lambdas into which a call came that the program does
not make, one calls no other of them, as there is no cycle, and its own calls refute it.
Theorems: `TypeCorrect`, `ChainsAreCallPathsCorrect`
(`ChainsAreCallPaths`, for any finite set of functions) and `ToChainsAreExactCorrect`
(`ToChainsAreExact`, which compares with the paths of up to `MaxChain` calls, for no more
functions than that).

**SequenceModel_proofs** (`ModelAssumption`: blocks and plain messages are among
the code's types). `SearchStaysInside`: when a block ends, its beginning stands,
so the backward search never leaves the vector. The invariant needs both halves:
`OwnBlockStands` says the innermost block's beginning is there;
`ClosedBlocksHoldWork` says a beginning of the same type behind it is followed by
work, which stops the search first. Hence what is erased starts at the innermost open
block and holds no work: `NoWorkIsErased`. `NoEmptyBlockIsKept` is the other half.
`BracketsMatch` (`MessagesAreBracketed`, also of what `finalize()` leaves) is about folds;
each fold is shown, by induction, to do its step for one element more. Erasing
takes the messages back to where a block began, so the invariant `BracketInv` knows which
blocks were open there (`BracketsAround`). In `finalize()` the lowest list of the stack is
balanced and each other one opens exactly the block it collects (`Levels`), so a block that
is dropped is dropped whole. Which messages stay is `FinalizeKeepsWork` (`FinalizePrunes`),
by induction over how many of them were read: the list of each open block starts with the
message that began it (`Openings`, `Collects`), each list holds positions in ascending order
(`Traces`), and a message is listed if no block that has ended takes it away. Stack and
reference definition meet in the depth: a block is open while no end came at its depth, so the
next end closes the innermost one. Its list is all that is listed from its begin on, and
therefore holds work exactly if the block does.

**SequenceVisitor_proofs**. `ContextIsExact` (`ContextFollowsWalk`): at every point of the
traversal of any tree the context's stacks hold the statements being visited. Statements are
numbered as they are entered, so a walk from the root ascends (`IsWalk`), and
a stack that ascends is known by its set of numbers. A lambda is left with the
context it was entered with, so the invariant says of each backup that it knew the walk up to
its lambda (`Restores`), which is the walk there is when the lambda is left.
`OnePlace` (`EachMessageInOnePlace`, while the code is traversed) rests on `PlacesInv`. Its
core is `Tidy`, which says of every activity what `IInv` of `SequenceModel` says of one:
the beginnings of the blocks being visited stand and ascend (`BlocksStand`), and a beginning
no visited block owns is followed by work (`ClosedHoldWork`). So the backward search at the
end of a block finds that block's own beginning or work before it, what is erased is the
tail from there on, and no work is in it (`FoldFacts`, `TidyEnd`). `Placed` says where messages
are, by position: none waits twice, stands twice, or does both. That a message is new when
it is pushed, as the equality of messages demands, is `Pushed`: messages carry the number
of the node they were recorded at. A lambda changes the activity messages go to, so
`CallersInv` keeps the caller one of them, and `Waiting` makes an expression that is being left
one that still has something to deliver.
`ElseIsMarked` (`BracedElseIsMarked`) rests on a third invariant, `ElseInv`. Whether a step
enters a node, goes on in it or leaves it, it is one of three moves of the walk (`Entering`,
`Turning`, `Leaving`), and each part of the invariant is shown once for each move. `Shaped`:
an if is noted as without braces when its then is, and the frames above a lambda have one
caller. `Recalls` is what an else needs of the context, of each if whose branches are still
told apart (`Clean`): that `elseifs` knows an if which is an else-if as the last one of its
chain (`IsBase`), and knows nothing of any other. `Backed` says the same of every copy of the
context that waits for the end of a lambda, of the walk up to that lambda. `Divided`: the
mark stands where the else began, and a block opened inside of the else begins behind it, so
folding that block, which erases from its beginning on, leaves the mark.
`VisitorImplementsModel` (`ImplementsSequenceModel`, and with it `ActivitiesAreModels`: each
activity goes through a behaviour of `SequenceModel`) compares the walk before and after a
step. Either one continues the other by a frame that opens no block of the activity
(`PassingStep`), and then at most a plain message is added; or the frame that is new opens one
(`BeginningStep`), or the frame that is gone had opened one (`EndingStep`). That a frame which
begins or ends a block is the innermost of its activity needs lemmas on ranks in a finite
set of numbers, since `OpenIn` leaves out the frames that record elsewhere. The invariant
`LookInv` is the two above and `RoomInv`. The two modules share
`ActivityMessages`; that the instance's operators are the visitor's own is shown one by one.

**SequenceGenerator_proofs** (`GeneratorAssumption`). `VisitedIsPath`: although
the code pushes the caller before, and pops it after, the recursive call, and
never pushes the function being drawn, `visited` is exactly the path below the
innermost frame. From it follow `NoRecursion` (no activity inside itself, so the
recursion is no deeper than there are participants) and `ReturnsCorrect` (a return
goes to the function that called). `NothingIsLost` (`EverythingIsDrawn`) follows what the
generator knows at any moment (`History`): a message of an activity that was begun is covered
or ahead, the callee of a drawn call was begun, and a static message that hides its
equals was drawn; at the end nothing is ahead, so what was begun is closed under calls.
`TextIsNested` (`WellNested`): what is open in the text is a tower with one entry and its
groups per frame, and a step changes the top only (`Stacked`).

**ModelFilter_proofs** (`FilterAssumption`: settings and models have their types;
classes and files are not nested in one another). The invariant says of
every search under way that it has its roots and nothing that cannot be reached
in the view (`Reach` is the least closed set, so soundness is: every closed set
contains what was found), and of every finished one that it is closed too: `Exactness`
(`ClosureIsExact`, for any number of elements and any order of visits to the growing set).
For class diagrams it says that every set of elements the configuration includes all of is
still in the view. That holds over a round because a search can only shrink with
the model, and a search that includes therefore answers "no" in the larger
model only if it does in the smaller: `Largest` (`LargestConsistent`). For package diagrams
with `InsideGoesToo`, whatever refuses a package refuses those inside of it
(`InnerIsRefused`): a search that includes knows the packages around its matches
(`AroundMatches`), and the others say of inner names what they say of outer ones. So a round
destroys exactly what it found and view and tree agree (`ViewIsTree`): `NothingDangles`
(`NoDanglingUse`) and, with `EndsExist`, `EndsOfRelationships` (`RelationshipsHaveEnds`).
`EmptiedAreJudged` (`EmptyPackagesAreJudged`) needs that the last round judged what is left
as it is (`Judged`).

**Induction over data** is done without the library's induction theorems, whose predicate is
an operator: a counterexample of least length would have a predecessor that is none (`WFMin`
and `NatLessThanWellFounded`, with the set of counterexamples as a set). What this needs is
that the operator under a quantifier is first-order; hence `Opened`, `Included` and
`Collapsed` in place of `FoldLeft` and `SelectSeq` with an operator argument.

**Only model-checked.** Liveness and anything with `ENABLED`
(`EveryFutureSettles`, `StopReturns`, `Returns`, `Finishes`), which are beyond the prover.
Every other property of the passing runs is a theorem.

## 6. Disagreements with the code's own words

Each of the three violation runs stands for one; `findings` quotes the line.

- `-o` given as a relative path is resolved when the file is opened, by a worker,
  against whatever directory another worker's tool is in.
- A relationship whose end is outside of the diagram keeps the id its unit's AST
  gave it; a later unit in which another class has that id makes it a relationship
  with that class.
- `from_to` finds chains only from functions that nobody calls, or nobody but
  functions further down.

Seen while modelling, with no run of their own.

- An exception that passes through `clang_tool::run()` (`clang_tool.cc:187`) leaves the
  process in the compile directory; with several threads and directories one tool may
  take another's directory for the initial one and restore it last.
- A diagram without translation units makes the exit code 1 with `--progress`, 0
  without (`generators.cc:335`), where `generators.h:484` promises 0 for success only.
- `kElse` is recorded for else branches in braces only
  (sequence `translation_unit_visitor.cc:947`); an `if` directly in the then branch of another
  one is recorded as `kElseIf` (`:998`), and the outer's braced else then lacks its `kElse`.
- `leave_trystmt()` and `leave_switchstmt()` never pop (`call_expression_context.cc:344`).
- A case label after an arm that recorded nothing is dropped. Two calls of one function
  to another in static declarations are one message to `operator==`, so the second
  is not drawn.
- `set_callers()` (`:3014`) replaces the callers earlier units found, and only where
  the callee has an activity by then, so the chains of `to` depend on the order of
  units; of the callers under two ids of one function `emplace()` (`:3006`)
  keeps one. Inlining lambdas makes activities without callers, so with it every
  chain of `to` is one call long.
- A body visited in two units is recorded twice.
- `added_elements_` remembers a class whose package is not there (a namespace that
  one unit skips), and no later unit can add it.
- Package diagrams do not `reset()` filters between rounds, as class diagrams do.
  Removing a package destroys those inside, to which the view still refers; the
  prefixes namespace filters match never remove an outer package and keep an inner one.
- Class diagrams drop no relationship to a removed class: `to_remove` is empty in the
  loop that would (`class_diagram/model/diagram.cc:300`).

## 7. What is not modelled

Each component's reason is in `PROJECT.json`. In short: what a declaration or type
means to Clang (members, templates, concepts, Objective-C, CUDA) is a translation of
its syntax tree, of which a small model would prove nothing; text generators,
YAML, logging and decorators are formatting or parsing without a protocol. Inside the
modelled parts: how a call's callee is found, code outside functions (caller id 0),
local classes in function bodies, packages from C++20 modules, the preprocessor
callbacks of include diagrams and the declarations package diagrams depend on, the JSON
generator, and the listing and printing commands of the orchestration.

## 8. Plan

Written, in this order, because a fault in the first affects every diagram:
TaskService, ThreadPool, GenerateDiagrams, ClangTool; then the sequence diagram,
the part with the most state: SequenceModel, SequenceVisitor, SequenceGenerator; then
what several units and the filters do to a model: ModelFilter, ClassUnits, CallUnits.

Every safety property of the passing runs is proved; liveness is model-checked.

Modules that could follow: **Names** (`memoized.h` under `set_name()`, `complete()` and
`full_name()`), **Options** (inheritance and overriding), **CommandLine** (the order of
early returns) and **CompileCommand** (the edits of a command). All four are
sequential and small. The number of runs and of checked properties is kept
small on purpose: a new component takes over from the least telling of the present ones.
