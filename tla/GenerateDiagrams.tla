---------------------------- MODULE GenerateDiagrams ----------------------------
(***************************************************************************)
(* generators::generate_diagrams(): the main thread walks the configured   *)
(* diagrams, hands one task per diagram to a thread pool, waits for all    *)
(* futures and turns what went wrong into an exit code, while the tasks    *)
(* report to a progress indicator. The pool is the TaskService of module   *)
(* ThreadPool's refinement: a task per diagram, started at most once.      *)
(*                                                                         *)
(* The locals of generate_diagrams() are destroyed in the reverse of their *)
(* declaration: indicator first, generator_executor (which joins) last.    *)
(***************************************************************************)
EXTENDS Integers, Sequences, FiniteSets

CONSTANTS Diagram,      \* config.diagrams
          Threads,      \* runtime_config.thread_count
          MaxUnits,     \* bound on count_matching_commands()
          Modes,        \* which progress modes are explored
          MayThrow      \* the scheduling loop may be left by an exception

ASSUME GenerateAssumption ==
    /\ Threads \in Nat \ {0} /\ MaxUnits \in Nat \ {0}
    /\ Modes \subseteq {"off", "text", "json"}
    /\ MayThrow \in BOOLEAN

VARIABLES mode,         \* --progress and --logger: "off", "text" or "json"
          main,         \* where the main thread is
          outcome,      \* outcome[d]: what the loop decided for d
          futs,         \* futs: the diagrams whose futures are not yet read
          errors,       \* errors: the diagrams with an exception_ptr in it
          exit,         \* the exit code of main(), -1 while there is none
          fate, open,   \* the pool
          count,        \* count[d]: matching_commands_count, 0 before the loop
          units,        \* units[d]: commands of d whose parsing began
          result,       \* result[d]: how generate_diagram() ended
          indicator,    \* "null", "alive" or "dead"
          bar,          \* progress_bar_index_
          dangling      \* a task used the indicator after its destruction

vars == <<mode, main, outcome, futs, errors, exit, fate, open, count, units,
          result, indicator, bar, dangling>>
mainVars == <<mode, main, outcome, futs, errors, exit, count>>
pool == <<fate, open>>
jobs == <<units, result, dangling>>

Pool == INSTANCE TaskService WITH Task <- Diagram

NoBar == [progress |-> 0, max |-> 0, status |-> "none"]
Bars == [progress : Nat, max : Nat,
         status : {"none", "started", "ongoing", "completed", "failed"}]
Outcomes == {"todo", "skipped", "nocommands", "scheduled"}

TypeOK ==
    /\ mode \in Modes
    /\ main \in {"loop", "await", "unwind", "stop", "join", "returned"}
    /\ outcome \in [Diagram -> Outcomes]
    /\ futs \in Seq(Diagram)
    /\ errors \subseteq Diagram
    /\ exit \in {-1, 0, 1}
    /\ Pool!SvcTypeOK
    /\ count \in [Diagram -> 0..MaxUnits] /\ units \in [Diagram -> 0..MaxUnits]
    /\ result \in [Diagram -> {"none", "ok", "failed"}]
    /\ dangling \in BOOLEAN
    /\ indicator \in {"null", "alive", "dead"}
    /\ bar \in [Diagram -> Bars]

Init ==
    /\ mode \in Modes
    /\ main = "loop"
    /\ outcome = [d \in Diagram |-> "todo"]
    /\ futs = <<>>
    /\ errors = {}
    /\ exit = -1
    /\ Pool!SvcInit
    /\ count = [d \in Diagram |-> 0] /\ units = [d \in Diagram |-> 0]
    /\ result = [d \in Diagram |-> "none"]
    /\ dangling = FALSE
    /\ indicator = IF mode = "off" THEN "null" ELSE "alive"
    /\ bar = [d \in Diagram |-> NoBar]

Running == {d \in Diagram : fate[d] = "running"}
--------------------------------------------------------------------------------
(***************************************************************************)
(* The progress indicator. Its methods hold progress_bars_mutex_, and a    *)
(* call for a name it does not know does nothing.                          *)
(***************************************************************************)
\* A task looks at the indicator in each of its steps, through a reference to the
\* local variable of generate_diagrams(). Once that is gone the outcome is
\* undefined; the model lets the call do nothing and remembers it.
UseIndicator == dangling' = (dangling \/ indicator = "dead")

Known(d) == indicator = "alive" /\ bar[d].status # "none"

\* progress_bar_index_.emplace(): a second bar of that name is not taken.
AddBar(d, max) ==
    bar' = IF indicator = "alive" /\ ~Known(d)
           THEN [bar EXCEPT ![d] = [progress |-> 0, max |-> max,
                                    status |-> "started"]]
           ELSE bar

Increment(d) ==
    bar' = IF Known(d) THEN [bar EXCEPT ![d].progress = @ + 1,
                                        ![d].status = "ongoing"]
           ELSE bar

Complete(d) ==
    bar' = IF Known(d) THEN [bar EXCEPT ![d].progress = bar[d].max,
                                        ![d].status = "completed"]
           ELSE bar

FailBar(d) ==
    bar' = IF Known(d) THEN [bar EXCEPT ![d].status = "failed"] ELSE bar
--------------------------------------------------------------------------------
(***************************************************************************)
(* Slips the properties have to catch; none of them is part of Next.       *)
(***************************************************************************)
\* The exception rethrown by get() is dropped.
GetFuture_Swallows ==
    /\ main = "await" /\ futs # <<>>
    /\ fate[Head(futs)] = "ready"
    /\ futs' = Tail(futs)
    /\ UNCHANGED <<mode, main, outcome, errors, exit, count, pool, jobs,
                   indicator, bar>>

\* The exit code is computed before all futures were read.
AllRead_TooEarly ==
    /\ main = "await"
    /\ main' = "unwind"
    /\ exit' = IF errors = {} THEN 0 ELSE 1
    /\ UNCHANGED <<mode, outcome, futs, errors, count, pool, jobs, indicator, bar>>

\* The catch block completes the bar.
JobFails_Completes(d) ==
    /\ Pool!Finish(d)
    /\ result' = [result EXCEPT ![d] = "failed"]
    /\ Complete(d)
    /\ UseIndicator
    /\ UNCHANGED <<mainVars, units, indicator>>

\* The exception ends the thread and the future is never settled.
JobFails_LosesFuture(d) ==
    /\ fate[d] = "running" /\ result[d] = "none"
    /\ result' = [result EXCEPT ![d] = "failed"]
    /\ FailBar(d)
    /\ UseIndicator
    /\ UNCHANGED <<mainVars, pool, units, indicator>>
--------------------------------------------------------------------------------
(***************************************************************************)
(* The main thread: the loop over config.diagrams, in the order of names,  *)
(* which is any order as far as this module is concerned.                  *)
(***************************************************************************)
Decide(d, what) ==
    /\ main = "loop" /\ outcome[d] = "todo"
    /\ outcome' = [outcome EXCEPT ![d] = what]
    /\ UNCHANGED <<mode, main, exit, jobs, indicator>>

\* Not named on the command line, or no selected generator supports its type.
Skip(d) ==
    /\ Decide(d, "skipped")
    /\ UNCHANGED <<futs, errors, pool, count, bar>>

\* count_matching_commands() = 0: an error entry only when there is an
\* indicator, otherwise a line in the log. The bar is added and failed at once.
NoCommands(d) ==
    /\ Decide(d, "nocommands")
    /\ IF indicator = "alive"
       THEN /\ errors' = errors \cup {d}
            /\ bar' = [bar EXCEPT ![d] = [NoBar EXCEPT !.status = "failed"]]
       ELSE UNCHANGED <<errors, bar>>
    /\ UNCHANGED <<futs, pool, count>>

\* generator_executor.add(generator)
Schedule(d) ==
    /\ Decide(d, "scheduled")
    /\ \E n \in 1..MaxUnits : count' = [count EXCEPT ![d] = n]
    /\ Pool!Accept(d)
    /\ futs' = Append(futs, d)
    /\ UNCHANGED <<errors, bar>>

\* count_matching_commands() queries the compiler driver and throws: the loop is
\* left by the exception, and main() returns 1.
LoopThrows ==
    /\ MayThrow
    /\ main = "loop"
    /\ \E d \in Diagram : outcome[d] = "todo"
    /\ main' = "unwind" /\ exit' = 1
    /\ UNCHANGED <<mode, outcome, futs, errors, count, pool, jobs, indicator, bar>>

LoopDone ==
    /\ main = "loop"
    /\ \A d \in Diagram : outcome[d] # "todo"
    /\ main' = "await"
    /\ UNCHANGED <<mode, outcome, futs, errors, exit, count, pool, jobs, indicator,
                   bar>>

\* fut.get(), in the order of scheduling; it rethrows the task's exception.
GetFuture ==
    /\ main = "await" /\ futs # <<>>
    /\ fate[Head(futs)] = "ready"
    /\ futs' = Tail(futs)
    /\ errors' = IF result[Head(futs)] = "failed"
                 THEN errors \cup {Head(futs)} ELSE errors
    /\ UNCHANGED <<mode, main, outcome, exit, count, pool, jobs, indicator, bar>>

\* The return value is decided; the locals go.
AllRead ==
    /\ main = "await" /\ futs = <<>>
    /\ main' = "unwind"
    /\ exit' = IF errors = {} THEN 0 ELSE 1
    /\ UNCHANGED <<mode, outcome, futs, errors, count, pool, jobs, indicator, bar>>

\* ~unique_ptr<progress_indicator_base>, ahead of the executor's destructor.
DestroyIndicator ==
    /\ main = "unwind"
    /\ main' = "stop"
    /\ indicator' = IF indicator = "alive" THEN "dead" ELSE indicator
    /\ UNCHANGED <<mode, outcome, futs, errors, exit, count, pool, jobs, bar>>

StopPool ==
    /\ main = "stop"
    /\ Pool!Close
    /\ main' = "join"
    /\ UNCHANGED <<mode, outcome, futs, errors, exit, count, jobs, indicator, bar>>

JoinPool ==
    /\ main = "join"
    /\ Pool!Abandon
    /\ main' = "returned"
    /\ UNCHANGED <<mode, outcome, futs, errors, exit, count, jobs, indicator, bar>>
--------------------------------------------------------------------------------
(***************************************************************************)
(* A worker running the task of diagram d.                                 *)
(***************************************************************************)
\* A free thread of the pool, which is still there, takes the task, which adds
\* its bar.
JobBegin(d) ==
    /\ main # "returned"
    /\ Cardinality(Running) < Threads
    /\ Pool!Start(d)
    /\ AddBar(d, count[d])
    /\ UseIndicator
    /\ UNCHANGED <<mainVars, units, result, indicator>>

\* BeginSourceFileAction(): one more command is being parsed. clang_tool::run()
\* executes at most the commands that were counted (LookupThrows, a missing
\* command or a sequence diagram's second command make it fewer).
JobUnit(d) ==
    /\ d \in Running
    /\ units[d] < count[d]
    /\ units' = [units EXCEPT ![d] = @ + 1]
    /\ Increment(d)
    /\ UseIndicator
    /\ UNCHANGED <<mainVars, pool, result, indicator>>

\* generate_diagram() returned: the bar is completed, then the future is ready.
JobSucceeds(d) ==
    /\ result[d] = "none"
    /\ Pool!Finish(d)
    /\ result' = [result EXCEPT ![d] = "ok"]
    /\ Complete(d)
    /\ UseIndicator
    /\ UNCHANGED <<mainVars, units, indicator>>

\* It threw: the bar is failed, and the exception is left in the future.
JobFails(d) ==
    /\ result[d] = "none"
    /\ Pool!Finish(d)
    /\ result' = [result EXCEPT ![d] = "failed"]
    /\ FailBar(d)
    /\ UseIndicator
    /\ UNCHANGED <<mainVars, units, indicator>>

Job(d) == JobBegin(d) \/ JobUnit(d) \/ JobSucceeds(d) \/ JobFails(d)

MainStep ==
    \/ \E d \in Diagram : Skip(d) \/ NoCommands(d) \/ Schedule(d)
    \/ LoopThrows \/ LoopDone \/ GetFuture \/ AllRead
    \/ DestroyIndicator \/ StopPool \/ JoinPool

Terminated == main = "returned" /\ UNCHANGED vars

Next == MainStep \/ (\E d \in Diagram : Job(d)) \/ Terminated

Spec == Init /\ [][Next]_vars

\* The threads are scheduled, and parsing and generating a diagram ends.
FairSpec == Spec /\ WF_vars(MainStep) /\ \A d \in Diagram : WF_vars(Job(d))
--------------------------------------------------------------------------------
(***************************************************************************)
(* Properties                                                              *)
(***************************************************************************)
\* The exit code is 0 exactly when every scheduled diagram was generated and,
\* with --progress, none was left without compile commands.
ExitCodeTellsFailure ==
    main = "returned" =>
        (exit = 0 <=> \A d \in Diagram :
                         \/ outcome[d] = "skipped"
                         \/ outcome[d] = "scheduled" /\ result[d] = "ok"
                         \/ outcome[d] = "nocommands" /\ mode = "off")

\* The loop over the diagrams was left by an exception.
LoopThrown == main # "loop" /\ \E d \in Diagram : outcome[d] = "todo"

\* Unless the loop was left by an exception, no task uses the progress indicator
\* after it was destroyed. It is destroyed while the pool still runs, so this
\* rests on every future having been read.
IndicatorOutlivesItsUsers == dangling => LoopThrown

\* The bar a user sees agrees with the task behind it, at any moment.
BarTellsTheTruth ==
    \A d \in Diagram : bar[d].status # "none" =>
        /\ bar[d].progress <= bar[d].max
        /\ bar[d].status = "completed" =>
              result[d] = "ok" /\ bar[d].progress = count[d]
        /\ bar[d].status = "failed" =>
              (result[d] = "failed" \/ outcome[d] = "nocommands")
        /\ bar[d].status \in {"started", "ongoing"} /\ indicator = "alive" =>
              d \in Running /\ bar[d].progress = units[d] /\ bar[d].max > 0

\* generate_diagrams() returns, whatever fails.
Returns == <>(main = "returned")

================================================================================
