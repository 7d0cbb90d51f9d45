------------------------- MODULE GenerateDiagrams_proofs -------------------------
(***************************************************************************)
(* The exit code, the progress bars and the lifetime of the indicator, for *)
(* any diagrams, number of threads and commands.                           *)
(*                                                                         *)
(* The argument follows an exception from its task to the exit code:       *)
(* FuturesPending says that a scheduled diagram's future is either still   *)
(* in futs or was read with its exception put into errors, ErrorsAreReal   *)
(* that nothing else gets there, MainShape that the loop over futs is over *)
(* when the exit code is computed. That loop is also why no task is left   *)
(* when the indicator goes.                                                *)
(*                                                                         *)
(* The second part is about the executor, module ThreadPool, whose tasks   *)
(* these are.                                                              *)
(***************************************************************************)
EXTENDS GenerateDiagrams, ThreadPool, SequenceTheorems, TLAPS

\* The indicator is there from the loop to the destructor, unless there is none.
IndicatorLife ==
    /\ indicator = "null" <=> mode = "off"
    /\ main \in {"loop", "await", "unwind"} => indicator # "dead"

\* What the loop decided, the pool's view of the task and the task's own agree.
TasksOfLoop ==
    \A d \in Diagram :
        /\ outcome[d] = "scheduled" <=> fate[d] # "new"
        /\ outcome[d] = "scheduled" => count[d] > 0
        /\ result[d] # "none" <=> fate[d] = "ready"

\* get() returned for d, and what it threw was kept.
Read(d) == fate[d] = "ready" /\ (result[d] = "failed" => d \in errors)

FuturesPending ==
    \A d \in Diagram :
        outcome[d] = "scheduled" => (\E i \in 1..Len(futs) : futs[i] = d) \/ Read(d)

\* An error entry is a failed task or, with an indicator, a diagram without commands.
Missed(d) == outcome[d] = "nocommands" /\ mode # "off"

ErrorsAreReal ==
    \A d \in Diagram : /\ d \in errors => result[d] = "failed" \/ Missed(d)
                       /\ Missed(d) => d \in errors

\* After the loop: left by an exception, or every diagram decided and, from
\* AllRead on, every future read and the exit code computed.
MainShape ==
    main # "loop" =>
        \/ LoopThrown /\ main # "await" /\ exit = 1
        \/ /\ \A d \in Diagram : outcome[d] # "todo"
           /\ main # "await" => futs = <<>> /\ exit = IF errors = {} THEN 0 ELSE 1

\* A bar exists from the start of its task, or for a diagram without commands.
BarShape ==
    \A d \in Diagram :
        /\ outcome[d] \in {"todo", "skipped"} => bar[d].status = "none"
        /\ fate[d] = "queued" => bar[d].status = "none"
        /\ outcome[d] = "scheduled" /\ bar[d].status # "none" => bar[d].max = count[d]
        /\ fate[d] \in {"new", "queued"} => units[d] = 0

IInv ==
    /\ TypeOK
    /\ IndicatorLife
    /\ TasksOfLoop
    /\ FuturesPending
    /\ ErrorsAreReal
    /\ MainShape
    /\ IndicatorOutlivesItsUsers
    /\ BarShape
    /\ BarTellsTheTruth
--------------------------------------------------------------------------------
\* The initial state satisfies the inductive invariant.
LEMMA InitIInv == Init => IInv
<1> SUFFICES ASSUME Init PROVE IInv
  OBVIOUS
<1> USE GenerateAssumption DEF Init, Pool!SvcInit
<1>1. TypeOK
  <2>1. /\ outcome \in [Diagram -> Outcomes]
        /\ bar \in [Diagram -> Bars]
        /\ Pool!SvcTypeOK
    BY DEF Outcomes, NoBar, Bars, Pool!SvcTypeOK, Pool!Fates
  <2>2. futs \in Seq(Diagram) /\ count \in [Diagram -> 0..MaxUnits]
        /\ units \in [Diagram -> 0..MaxUnits]
    OBVIOUS
  <2> QED
    BY <2>1, <2>2 DEF TypeOK
<1>2. IndicatorLife /\ MainShape /\ IndicatorOutlivesItsUsers
  BY DEF IndicatorLife, MainShape, IndicatorOutlivesItsUsers
<1>3. TasksOfLoop /\ FuturesPending /\ ErrorsAreReal
  BY DEF TasksOfLoop, FuturesPending, ErrorsAreReal, Missed
<1>4. BarShape /\ BarTellsTheTruth
  BY DEF BarShape, BarTellsTheTruth, NoBar
<1> QED
  BY <1>1, <1>2, <1>3, <1>4 DEF IInv

\* What the pool does to one task.
LEMMA PoolMoves ==
    ASSUME TypeOK, NEW d \in Diagram, NEW from, NEW to \in Pool!Fates,
           Pool!Move(d, from, to), UNCHANGED open
    PROVE  /\ Pool!SvcTypeOK'
           /\ fate[d] = from /\ fate'[d] = to
           /\ \A e \in Diagram : e # d => fate'[e] = fate[e]
  BY DEF TypeOK, Pool!SvcTypeOK, Pool!Move

\* An indicator that is gone while a task is left: the loop was left by an
\* exception, as otherwise the future would have been waited for.
LEMMA TaskOutlivesIndicator ==
    ASSUME IInv, NEW d \in Diagram, fate[d] \in {"queued", "running"}
    PROVE  /\ outcome[d] = "scheduled"
           /\ main \notin {"loop", "await"} => LoopThrown
           /\ indicator = "dead" => LoopThrown
<1>1. outcome[d] = "scheduled"
  BY DEF IInv, TasksOfLoop
<1>2. futs # <<>>
  BY <1>1 DEF IInv, FuturesPending, Read
<1> QED
  BY <1>1, <1>2 DEF IInv, MainShape, IndicatorLife

\* A step of a task leaves alone what the main thread decided.
LEMMA JobKeepsMain ==
    ASSUME IInv, NEW d \in Diagram, fate[d] \in {"queued", "running"},
           UseIndicator, UNCHANGED <<mainVars, indicator>>
    PROVE  /\ IndicatorLife' /\ MainShape' /\ IndicatorOutlivesItsUsers'
           /\ dangling' \in BOOLEAN
<1>1. indicator = "dead" => LoopThrown
  BY TaskOutlivesIndicator
<1> QED
  BY <1>1 DEF IInv, TypeOK, UseIndicator, mainVars, IndicatorLife, MainShape,
     IndicatorOutlivesItsUsers, LoopThrown
--------------------------------------------------------------------------------
\* JobBegin: the bar is new, with the count Schedule took.
LEMMA JobBeginStep ==
    ASSUME IInv, NEW d \in Diagram, JobBegin(d)
    PROVE  IInv'
<1> USE DEF IInv, JobBegin
<1>1. /\ Pool!SvcTypeOK'
      /\ fate[d] = "queued" /\ fate'[d] = "running"
      /\ \A e \in Diagram : e # d => fate'[e] = fate[e]
  BY PoolMoves DEF Pool!Start, Pool!Fates
<1>2. /\ IndicatorLife' /\ MainShape' /\ IndicatorOutlivesItsUsers'
      /\ dangling' \in BOOLEAN
  BY <1>1, JobKeepsMain
<1>3. outcome[d] = "scheduled" /\ count[d] \in 1..MaxUnits /\ count[d] \in Nat
      /\ bar[d].status = "none" /\ units[d] = 0
  BY <1>1, TaskOutlivesIndicator, GenerateAssumption DEF TypeOK, TasksOfLoop, BarShape
<1>4. /\ bar' \in [Diagram -> Bars]
      /\ indicator = "alive" =>
            bar'[d] = [progress |-> 0, max |-> count[d], status |-> "started"]
      /\ indicator # "alive" => bar'[d] = bar[d]
      /\ \A e \in Diagram : e # d => bar'[e] = bar[e]
  BY <1>3 DEF TypeOK, AddBar, Known, Bars
<1>5. TypeOK'
  BY <1>1, <1>2, <1>4 DEF TypeOK, mainVars
<1>6. TasksOfLoop' /\ ErrorsAreReal'
  BY <1>1, <1>3 DEF TasksOfLoop, ErrorsAreReal, Missed, mainVars
<1>7. FuturesPending'
  BY <1>1 DEF FuturesPending, Read, mainVars
<1>8. BarShape'
  BY <1>1, <1>3, <1>4 DEF BarShape, mainVars
<1>9. BarTellsTheTruth'
  BY <1>1, <1>3, <1>4 DEF BarTellsTheTruth, Running, mainVars
<1> QED
  BY <1>2, <1>5, <1>6, <1>7, <1>8, <1>9

\* What Increment() leaves in a bar.
LEMMA AdvancedBar ==
    ASSUME NEW b \in Bars, NEW one,
           one = [b EXCEPT !.progress = @ + 1, !.status = "ongoing"]
    PROVE  /\ one \in Bars
           /\ one.progress = b.progress + 1 /\ one.max = b.max
           /\ one.status = "ongoing"
<1>1. b.progress + 1 \in Nat
  BY DEF Bars
<1> QED
  BY <1>1 DEF Bars

\* JobUnit: the bar advances with the commands, which are no more than counted.
LEMMA JobUnitStep ==
    ASSUME IInv, NEW d \in Diagram, JobUnit(d)
    PROVE  IInv'
<1> USE DEF IInv, JobUnit
<1>1. fate[d] = "running"
  BY DEF Running
<1>2. /\ IndicatorLife' /\ MainShape' /\ IndicatorOutlivesItsUsers'
      /\ dangling' \in BOOLEAN
  BY <1>1, JobKeepsMain
<1>3. outcome[d] = "scheduled" /\ result[d] = "none"
  BY <1>1, TaskOutlivesIndicator DEF TypeOK, TasksOfLoop
<1>4. /\ units[d] \in Nat /\ count[d] \in Nat /\ units[d] < count[d]
      /\ units'[d] = units[d] + 1
      /\ units' \in [Diagram -> 0..MaxUnits]
      /\ \A e \in Diagram : e # d => units'[e] = units[e]
  BY GenerateAssumption DEF TypeOK
<1>5. bar[d] \in Bars
  BY DEF TypeOK
<1>6. Known(d) => bar[d].status \in {"started", "ongoing"}
                  /\ bar[d].progress = units[d] /\ bar[d].max = count[d]
  BY <1>1, <1>3, <1>5 DEF Known, BarTellsTheTruth, BarShape, Bars
<1>7. /\ bar' \in [Diagram -> Bars]
      /\ Known(d) => /\ bar'[d].progress = bar[d].progress + 1
                     /\ bar'[d].max = bar[d].max /\ bar'[d].status = "ongoing"
      /\ ~Known(d) => bar'[d] = bar[d]
      /\ \A e \in Diagram : e # d => bar'[e] = bar[e]
  <2>1. bar \in [Diagram -> Bars] /\ bar[d].progress + 1 \in Nat
    BY <1>5 DEF TypeOK, Bars
  <2>2. CASE ~Known(d)
    BY <2>1, <2>2 DEF Increment
  <2>3. CASE Known(d)
    <3> DEFINE one == [bar[d] EXCEPT !.progress = bar[d].progress + 1,
                                     !.status = "ongoing"]
    <3>1. /\ one \in Bars
          /\ one.progress = bar[d].progress + 1 /\ one.max = bar[d].max
          /\ one.status = "ongoing"
      BY <1>5, AdvancedBar
    <3>2. bar' = [bar EXCEPT ![d] = one]
      BY <2>1, <2>3 DEF Increment
    <3> HIDE DEF one
    <3> QED
      BY <2>1, <2>3, <3>1, <3>2
  <2> QED
    BY <2>2, <2>3
<1>8. TypeOK'
  <2>1. Pool!SvcTypeOK'
    BY DEF TypeOK, Pool!SvcTypeOK, pool
  <2> QED
    BY <1>2, <1>4, <1>7, <2>1 DEF TypeOK, mainVars
<1>9. TasksOfLoop' /\ ErrorsAreReal' /\ FuturesPending'
  BY DEF TasksOfLoop, ErrorsAreReal, Missed, FuturesPending, Read, mainVars, pool
<1>10. BarShape'
  BY <1>1, <1>3, <1>4, <1>6, <1>7 DEF BarShape, mainVars, pool
<1>11. BarTellsTheTruth'
  <2>1. CASE Known(d)
    BY <1>1, <1>3, <1>4, <1>6, <1>7, <2>1
       DEF BarTellsTheTruth, Running, mainVars, pool, Known
  <2>2. CASE ~Known(d)
    BY <1>1, <1>3, <1>4, <1>7, <2>2
       DEF BarTellsTheTruth, Running, mainVars, pool, Known
  <2> QED
    BY <2>1, <2>2
<1> QED
  BY <1>2, <1>8, <1>9, <1>10, <1>11

\* A finished task's future is ready together with its result; the bar was
\* completed or failed before that.
LEMMA JobSucceedsStep ==
    ASSUME IInv, NEW d \in Diagram, JobSucceeds(d)
    PROVE  IInv'
<1> USE DEF IInv, JobSucceeds
<1>1. /\ Pool!SvcTypeOK'
      /\ fate[d] = "running" /\ fate'[d] = "ready"
      /\ \A e \in Diagram : e # d => fate'[e] = fate[e]
  BY PoolMoves DEF Pool!Finish, Pool!Fates
<1>2. /\ IndicatorLife' /\ MainShape' /\ IndicatorOutlivesItsUsers'
      /\ dangling' \in BOOLEAN
  BY <1>1, JobKeepsMain
<1>3. outcome[d] = "scheduled"
  BY <1>1, TaskOutlivesIndicator
<1>4. /\ result[d] = "none" /\ result'[d] = "ok"
      /\ result' \in [Diagram -> {"none", "ok", "failed"}]
      /\ \A e \in Diagram : e # d => result'[e] = result[e]
  BY DEF TypeOK
<1>5. bar[d] \in Bars
  BY DEF TypeOK
<1>6. Known(d) => bar[d].max = count[d]
  BY <1>3 DEF Known, BarShape
<1>7. /\ bar' \in [Diagram -> Bars]
      /\ Known(d) => bar'[d] = [progress |-> bar[d].max, max |-> bar[d].max,
                                status |-> "completed"]
      /\ ~Known(d) => bar'[d] = bar[d]
      /\ \A e \in Diagram : e # d => bar'[e] = bar[e]
  BY <1>5 DEF TypeOK, Complete, Bars
<1>8. TypeOK'
  BY <1>1, <1>2, <1>4, <1>7 DEF TypeOK, mainVars
<1>9. TasksOfLoop' /\ ErrorsAreReal'
  BY <1>1, <1>3, <1>4 DEF TasksOfLoop, ErrorsAreReal, Missed, mainVars
<1>10. FuturesPending'
  BY <1>1, <1>4 DEF FuturesPending, Read, mainVars
<1>11. BarShape'
  <2>1. bar'[d].status # "none" => bar'[d].max = count[d]
    BY <1>3, <1>6, <1>7 DEF BarShape
  <2> QED
    BY <1>1, <1>3, <1>7, <2>1 DEF BarShape, mainVars
<1>12. BarTellsTheTruth'
  <2>1. count[d] \in Nat
    BY DEF TypeOK
  <2>2. CASE Known(d)
    BY <1>1, <1>3, <1>4, <1>6, <1>7, <2>1, <2>2
       DEF BarTellsTheTruth, Running, mainVars, Known
  <2>3. CASE ~Known(d)
    BY <1>1, <1>3, <1>4, <1>7, <2>3 DEF BarTellsTheTruth, Running, mainVars, Known
  <2> QED
    BY <2>2, <2>3
<1> QED
  BY <1>2, <1>8, <1>9, <1>10, <1>11, <1>12

\* JobFails: its future is still in futs, so the exception is yet to be read.
LEMMA JobFailsStep ==
    ASSUME IInv, NEW d \in Diagram, JobFails(d)
    PROVE  IInv'
<1> USE DEF IInv, JobFails
<1>1. /\ Pool!SvcTypeOK'
      /\ fate[d] = "running" /\ fate'[d] = "ready"
      /\ \A e \in Diagram : e # d => fate'[e] = fate[e]
  BY PoolMoves DEF Pool!Finish, Pool!Fates
<1>2. /\ IndicatorLife' /\ MainShape' /\ IndicatorOutlivesItsUsers'
      /\ dangling' \in BOOLEAN
  BY <1>1, JobKeepsMain
<1>3. /\ outcome[d] = "scheduled" /\ futs # <<>>
  BY <1>1, TaskOutlivesIndicator DEF FuturesPending, Read
<1>4. /\ result[d] = "none" /\ result'[d] = "failed"
      /\ result' \in [Diagram -> {"none", "ok", "failed"}]
      /\ \A e \in Diagram : e # d => result'[e] = result[e]
  BY DEF TypeOK
<1>5. bar[d] \in Bars
  BY DEF TypeOK
<1>6. /\ bar' \in [Diagram -> Bars]
      /\ Known(d) => bar'[d] = [progress |-> bar[d].progress, max |-> bar[d].max,
                                status |-> "failed"]
      /\ ~Known(d) => bar'[d] = bar[d]
      /\ \A e \in Diagram : e # d => bar'[e] = bar[e]
  BY <1>5 DEF TypeOK, FailBar, Bars
<1>7. TypeOK'
  BY <1>1, <1>2, <1>4, <1>6 DEF TypeOK, mainVars
<1>8. TasksOfLoop' /\ ErrorsAreReal'
  BY <1>1, <1>3, <1>4 DEF TasksOfLoop, ErrorsAreReal, Missed, mainVars
<1>9. FuturesPending'
  BY <1>1, <1>4 DEF FuturesPending, Read, mainVars
<1>10. BarShape'
  <2>1. bar'[d].status # "none" => bar'[d].max = count[d]
    BY <1>3, <1>6 DEF BarShape, Known
  <2> QED
    BY <1>1, <1>3, <1>6, <2>1 DEF BarShape, mainVars
<1>11. BarTellsTheTruth'
  <2>1. CASE Known(d)
    BY <1>1, <1>3, <1>4, <1>6, <2>1 DEF BarTellsTheTruth, Running, mainVars, Known
  <2>2. CASE ~Known(d)
    BY <1>1, <1>3, <1>4, <1>6, <2>2 DEF BarTellsTheTruth, Running, mainVars, Known
  <2> QED
    BY <2>1, <2>2
<1> QED
  BY <1>2, <1>7, <1>8, <1>9, <1>10, <1>11
--------------------------------------------------------------------------------
\* What Decide leaves as it was.
LEMMA DecideKeeps ==
    ASSUME IInv, NEW d \in Diagram, NEW what \in Outcomes, Decide(d, what)
    PROVE  /\ main = "loop" /\ main' = "loop"
           /\ outcome' \in [Diagram -> Outcomes]
           /\ outcome[d] = "todo" /\ outcome'[d] = what
           /\ \A e \in Diagram : e # d => outcome'[e] = outcome[e]
           /\ fate[d] = "new" /\ result[d] = "none" /\ bar[d].status = "none"
           /\ IndicatorLife' /\ MainShape' /\ IndicatorOutlivesItsUsers'
           /\ UNCHANGED <<mode, exit, units, result, dangling, indicator>>
<1>1. /\ main = "loop" /\ main' = "loop"
      /\ outcome' \in [Diagram -> Outcomes]
      /\ outcome[d] = "todo" /\ outcome'[d] = what
      /\ \A e \in Diagram : e # d => outcome'[e] = outcome[e]
      /\ UNCHANGED <<mode, exit, units, result, dangling, indicator>>
  BY DEF Decide, IInv, TypeOK, jobs
<1>2. fate[d] = "new" /\ result[d] = "none" /\ bar[d].status = "none"
  BY <1>1 DEF IInv, TasksOfLoop, BarShape
<1>3. IndicatorLife' /\ MainShape'
  BY <1>1 DEF IInv, IndicatorLife, MainShape
<1>4. ~LoopThrown
  BY <1>1 DEF LoopThrown
<1>5. IndicatorOutlivesItsUsers'
  BY <1>1, <1>4 DEF IInv, IndicatorOutlivesItsUsers
<1> QED
  BY <1>1, <1>2, <1>3, <1>5

\* Skip: a diagram that is left out has no task and no bar.
LEMMA SkipStep ==
    ASSUME IInv, NEW d \in Diagram, Skip(d)
    PROVE  IInv'
<1> USE DEF IInv, Skip
<1>1. /\ main = "loop" /\ main' = "loop"
      /\ outcome' \in [Diagram -> Outcomes]
      /\ outcome[d] = "todo" /\ outcome'[d] = "skipped"
      /\ \A e \in Diagram : e # d => outcome'[e] = outcome[e]
      /\ fate[d] = "new" /\ result[d] = "none" /\ bar[d].status = "none"
      /\ IndicatorLife' /\ MainShape' /\ IndicatorOutlivesItsUsers'
      /\ UNCHANGED <<mode, exit, units, result, dangling, indicator>>
  BY DecideKeeps DEF Outcomes
<1>2. TypeOK'
  BY <1>1 DEF TypeOK, Pool!SvcTypeOK, pool
<1>3. TasksOfLoop' /\ FuturesPending' /\ ErrorsAreReal'
  BY <1>1 DEF TasksOfLoop, FuturesPending, Read, ErrorsAreReal, Missed, pool
<1>4. BarShape' /\ BarTellsTheTruth'
  BY <1>1 DEF BarShape, BarTellsTheTruth, Running, pool
<1> QED
  BY <1>1, <1>2, <1>3, <1>4

\* NoCommands: an indicator that is not alive is none, in the loop.
LEMMA NoCommandsStep ==
    ASSUME IInv, NEW d \in Diagram, NoCommands(d)
    PROVE  IInv'
<1> USE DEF IInv, NoCommands
<1>1. /\ main = "loop" /\ main' = "loop"
      /\ outcome' \in [Diagram -> Outcomes]
      /\ outcome[d] = "todo" /\ outcome'[d] = "nocommands"
      /\ \A e \in Diagram : e # d => outcome'[e] = outcome[e]
      /\ fate[d] = "new" /\ result[d] = "none" /\ bar[d].status = "none"
      /\ IndicatorLife' /\ MainShape' /\ IndicatorOutlivesItsUsers'
      /\ UNCHANGED <<mode, exit, units, result, dangling, indicator>>
  BY DecideKeeps DEF Outcomes
<1>2. indicator = "alive" <=> mode # "off"
  BY <1>1 DEF IndicatorLife, TypeOK
<1>3. /\ errors' = IF mode # "off" THEN errors \cup {d} ELSE errors
      /\ bar' \in [Diagram -> Bars]
      /\ mode # "off" => bar'[d] = [progress |-> 0, max |-> 0, status |-> "failed"]
      /\ mode = "off" => bar'[d] = bar[d]
      /\ \A e \in Diagram : e # d => bar'[e] = bar[e]
  <2>1. bar \in [Diagram -> Bars]
    BY DEF TypeOK
  <2>2. CASE mode = "off"
    BY <1>2, <2>1, <2>2
  <2>3. CASE mode # "off"
    <3>1. [NoBar EXCEPT !.status = "failed"] =
              [progress |-> 0, max |-> 0, status |-> "failed"]
      BY DEF NoBar
    <3>2. [progress |-> 0, max |-> 0, status |-> "failed"] \in Bars
      BY DEF Bars
    <3>3. /\ errors' = errors \cup {d}
          /\ bar' = [bar EXCEPT ![d] = [progress |-> 0, max |-> 0, status |-> "failed"]]
      BY <1>2, <2>3, <3>1
    <3> QED
      BY <2>1, <2>3, <3>2, <3>3
  <2> QED
    BY <2>2, <2>3
<1>4. TypeOK'
  <2>1. Pool!SvcTypeOK'
    BY DEF TypeOK, Pool!SvcTypeOK, pool
  <2> QED
    BY <1>1, <1>3, <2>1 DEF TypeOK
<1>5. TasksOfLoop' /\ FuturesPending' /\ ErrorsAreReal'
  BY <1>1, <1>3 DEF TasksOfLoop, FuturesPending, Read, ErrorsAreReal, Missed, pool
<1>6. BarShape'
  BY <1>1, <1>3 DEF BarShape, pool
<1>7. BarTellsTheTruth'
  BY <1>1, <1>3 DEF BarTellsTheTruth, Running, pool
<1> QED
  BY <1>1, <1>4, <1>5, <1>6, <1>7

\* Schedule: the new future is pending, those before it stay so.
LEMMA ScheduleStep ==
    ASSUME IInv, NEW d \in Diagram, Schedule(d)
    PROVE  IInv'
<1> USE DEF IInv, Schedule
<1>1. /\ main = "loop" /\ main' = "loop"
      /\ outcome' \in [Diagram -> Outcomes]
      /\ outcome[d] = "todo" /\ outcome'[d] = "scheduled"
      /\ \A e \in Diagram : e # d => outcome'[e] = outcome[e]
      /\ fate[d] = "new" /\ result[d] = "none" /\ bar[d].status = "none"
      /\ IndicatorLife' /\ MainShape' /\ IndicatorOutlivesItsUsers'
      /\ UNCHANGED <<mode, exit, units, result, dangling, indicator>>
  BY DecideKeeps DEF Outcomes
<1>2. /\ Pool!SvcTypeOK'
      /\ fate'[d] = "queued"
      /\ \A e \in Diagram : e # d => fate'[e] = fate[e]
  BY PoolMoves DEF Pool!Accept, Pool!Fates
<1>3. /\ count' \in [Diagram -> 0..MaxUnits] /\ count'[d] > 0
      /\ \A e \in Diagram : e # d => count'[e] = count[e]
  <2>1. PICK n \in 1..MaxUnits : count' = [count EXCEPT ![d] = n]
    OBVIOUS
  <2> QED
    BY <2>1, GenerateAssumption DEF TypeOK
<1>4. /\ futs' \in Seq(Diagram)
      /\ \A e \in Diagram :
            (\E i \in 1..Len(futs) : futs[i] = e) => \E i \in 1..Len(futs') : futs'[i] = e
      /\ \E i \in 1..Len(futs') : futs'[i] = d
  <2>1. /\ futs \in Seq(Diagram) /\ futs' = Append(futs, d)
    BY DEF TypeOK
  <2>2. /\ Len(futs) \in Nat /\ Len(futs') = Len(futs) + 1
        /\ \A i \in 1..Len(futs) : futs'[i] = futs[i]
        /\ futs'[Len(futs) + 1] = d
    BY <2>1
  <2>3. \A i \in 1..Len(futs) : i \in 1..Len(futs')
    BY <2>2
  <2>4. Len(futs) + 1 \in 1..Len(futs')
    BY <2>2
  <2> QED
    BY <2>1, <2>2, <2>3, <2>4
<1>5. TypeOK'
  BY <1>1, <1>2, <1>3, <1>4 DEF TypeOK
<1>6. TasksOfLoop' /\ ErrorsAreReal'
  BY <1>1, <1>2, <1>3 DEF TasksOfLoop, ErrorsAreReal, Missed
<1>7. FuturesPending'
  BY <1>1, <1>2, <1>4 DEF FuturesPending, Read
<1>8. BarShape'
  BY <1>1, <1>2, <1>3 DEF BarShape
<1>9. BarTellsTheTruth'
  BY <1>1, <1>2, <1>3 DEF BarTellsTheTruth, Running
<1> QED
  BY <1>1, <1>5, <1>6, <1>7, <1>8, <1>9

\* GetFuture: the future read leaves futs and, if it threw, enters errors.
LEMMA GetFutureStep ==
    ASSUME IInv, GetFuture
    PROVE  IInv'
<1> USE DEF IInv, GetFuture
<1>1. /\ futs \in Seq(Diagram) /\ Len(futs) \in Nat /\ Len(futs) > 0
      /\ Head(futs) \in Diagram /\ Head(futs) = futs[1]
      /\ futs' \in Seq(Diagram) /\ Len(futs') = Len(futs) - 1
      /\ \A i \in 1..Len(futs') : futs'[i] = futs[i+1]
  BY DEF TypeOK
<1>2. TypeOK'
  BY <1>1 DEF TypeOK, pool, jobs, Pool!SvcTypeOK
<1>3. IndicatorLife' /\ MainShape'
  BY DEF IndicatorLife, MainShape, LoopThrown
<1>4. TasksOfLoop' /\ ErrorsAreReal'
  BY <1>1 DEF TasksOfLoop, ErrorsAreReal, Missed, pool, jobs
<1>5. FuturesPending'
  <2> SUFFICES ASSUME NEW d \in Diagram, outcome[d] = "scheduled",
                      ~(\E i \in 1..Len(futs') : futs'[i] = d)
               PROVE  Read(d)'
    BY DEF FuturesPending
  <2>1. CASE Read(d)
    BY <2>1 DEF Read, pool, jobs
  <2>2. CASE ~Read(d)
    <3>1. PICK i \in 1..Len(futs) : futs[i] = d
      BY <2>2 DEF FuturesPending
    <3>2. i = 1
      <4>1. i # 1 => i-1 \in 1..Len(futs') /\ futs'[i-1] = d
        BY <1>1, <3>1
      <4> QED
        BY <4>1
    <3> QED
      BY <1>1, <3>1, <3>2 DEF Read, pool, jobs
  <2> QED
    BY <2>1, <2>2
<1>6. IndicatorOutlivesItsUsers'
  BY DEF IndicatorOutlivesItsUsers, LoopThrown, jobs
<1>7. BarShape' /\ BarTellsTheTruth'
  BY DEF BarShape, BarTellsTheTruth, Running, pool, jobs
<1> QED
  BY <1>2, <1>3, <1>4, <1>5, <1>6, <1>7

\* The steps of the main thread that move it on and touch no diagram.
LEMMA MainOnStep ==
    ASSUME IInv, LoopThrows \/ LoopDone \/ AllRead \/ DestroyIndicator
    PROVE  IInv'
<1> USE DEF IInv, LoopThrows, LoopDone, AllRead, DestroyIndicator
<1>1. UNCHANGED <<mode, outcome, futs, errors, count, fate, open, units, result,
                  dangling, bar>>
  BY DEF pool, jobs
<1>2. TypeOK'
  BY <1>1 DEF TypeOK, Pool!SvcTypeOK
<1>3. IndicatorLife' /\ MainShape'
  BY <1>1 DEF TypeOK, IndicatorLife, MainShape, LoopThrown
<1>4. TasksOfLoop' /\ FuturesPending' /\ ErrorsAreReal' /\ BarShape'
  BY <1>1 DEF TasksOfLoop, FuturesPending, Read, ErrorsAreReal, Missed, BarShape
<1>5. IndicatorOutlivesItsUsers'
  BY <1>1 DEF IndicatorOutlivesItsUsers, LoopThrown
<1>6. indicator' = "alive" => indicator = "alive"
  OBVIOUS
<1>7. BarTellsTheTruth'
  BY <1>1, <1>6 DEF BarTellsTheTruth, Running
<1> QED
  BY <1>2, <1>3, <1>4, <1>5, <1>7

\* StopPool: stop() changes nothing but the pool.
LEMMA StopPoolStep ==
    ASSUME IInv, StopPool
    PROVE  IInv'
<1> USE DEF IInv, StopPool, Pool!Close
<1>1. UNCHANGED <<mode, outcome, futs, errors, exit, count, fate, units, result,
                  dangling, indicator, bar>>
  BY DEF jobs
<1>2. TypeOK'
  BY <1>1 DEF TypeOK, Pool!SvcTypeOK
<1>3. IndicatorLife' /\ MainShape'
  BY <1>1 DEF TypeOK, IndicatorLife, MainShape, LoopThrown
<1>4. TasksOfLoop' /\ FuturesPending' /\ ErrorsAreReal' /\ BarShape'
  BY <1>1 DEF TasksOfLoop, FuturesPending, Read, ErrorsAreReal, Missed, BarShape
<1>5. IndicatorOutlivesItsUsers' /\ BarTellsTheTruth'
  BY <1>1 DEF IndicatorOutlivesItsUsers, LoopThrown, BarTellsTheTruth, Running
<1> QED
  BY <1>2, <1>3, <1>4, <1>5

\* JoinPool: only what is still queued is given up.
LEMMA JoinPoolStep ==
    ASSUME IInv, JoinPool
    PROVE  IInv'
<1> USE DEF IInv, JoinPool, Pool!Abandon
<1>1. UNCHANGED <<mode, outcome, futs, errors, exit, count, open, units, result,
                  dangling, indicator, bar>>
  BY DEF jobs
<1>2. /\ Pool!SvcTypeOK'
      /\ \A d \in Diagram : fate'[d] = IF fate[d] = "queued" THEN "broken" ELSE fate[d]
  BY DEF TypeOK, Pool!SvcTypeOK, Pool!Fates
<1>3. TypeOK'
  BY <1>1, <1>2 DEF TypeOK
<1>4. IndicatorLife' /\ MainShape'
  BY <1>1 DEF TypeOK, IndicatorLife, MainShape, LoopThrown
<1>5. TasksOfLoop' /\ ErrorsAreReal'
  BY <1>1, <1>2 DEF TasksOfLoop, ErrorsAreReal, Missed
<1>6. FuturesPending'
  BY <1>1, <1>2 DEF FuturesPending, Read
<1>7. BarShape' /\ IndicatorOutlivesItsUsers'
  BY <1>1, <1>2 DEF BarShape, IndicatorOutlivesItsUsers, LoopThrown
<1>8. BarTellsTheTruth'
  BY <1>1, <1>2 DEF BarTellsTheTruth, Running
<1> QED
  BY <1>3, <1>4, <1>5, <1>6, <1>7, <1>8
--------------------------------------------------------------------------------
\* IInv is inductive.
LEMMA NextIInv == IInv /\ [Next]_vars => IInv'
<1> SUFFICES ASSUME IInv, [Next]_vars PROVE IInv'
  OBVIOUS
<1>1. ASSUME NEW d \in Diagram, Job(d) PROVE IInv'
  BY <1>1, JobBeginStep, JobUnitStep, JobSucceedsStep, JobFailsStep DEF Job
<1>2. CASE MainStep
  BY <1>2, SkipStep, NoCommandsStep, ScheduleStep, GetFutureStep, MainOnStep,
     StopPoolStep, JoinPoolStep DEF MainStep
<1>3. CASE UNCHANGED vars
  BY <1>3 DEF vars, IInv, TypeOK, Pool!SvcTypeOK, IndicatorLife, TasksOfLoop,
     FuturesPending, Read, ErrorsAreReal, Missed, MainShape, LoopThrown,
     IndicatorOutlivesItsUsers, BarShape, BarTellsTheTruth, Running
<1> QED
  BY <1>1, <1>2, <1>3 DEF Next, Terminated

\* Hence it holds throughout.
THEOREM Invariance == Spec => []IInv
<1>1. Init => IInv
  BY InitIInv
<1>2. IInv /\ [Next]_vars => IInv'
  BY NextIInv
<1> QED
  BY <1>1, <1>2, PTL DEF Spec

\* The variables keep their types.
THEOREM TypeCorrect == Spec => []TypeOK
<1>1. IInv => TypeOK
  BY DEF IInv
<1> QED
  BY <1>1, Invariance, PTL

\* main() returns 0 exactly when every scheduled diagram was generated.
THEOREM ExitCode == Spec => []ExitCodeTellsFailure
<1>1. IInv => ExitCodeTellsFailure
  <2> SUFFICES ASSUME IInv, main = "returned"
               PROVE  exit = 0 <=> \A d \in Diagram :
                         \/ outcome[d] = "skipped"
                         \/ outcome[d] = "scheduled" /\ result[d] = "ok"
                         \/ outcome[d] = "nocommands" /\ mode = "off"
    BY DEF ExitCodeTellsFailure
  <2>1. CASE LoopThrown /\ exit = 1
    BY <2>1 DEF LoopThrown
  <2>2. CASE /\ \A d \in Diagram : outcome[d] # "todo"
             /\ futs = <<>> /\ exit = IF errors = {} THEN 0 ELSE 1
    <3>1. \A d \in Diagram : outcome[d] = "scheduled" => Read(d)
      BY <2>2 DEF IInv, FuturesPending
    <3>2. \A d \in Diagram : outcome[d] = "scheduled" =>
              result[d] \in {"ok", "failed"} /\ (result[d] = "failed" => d \in errors)
      BY <3>1 DEF Read, IInv, TasksOfLoop, TypeOK
    <3>3. \A d \in Diagram : outcome[d] # "scheduled" => result[d] = "none"
      BY DEF IInv, TasksOfLoop
    <3>4. errors \subseteq Diagram /\ outcome \in [Diagram -> Outcomes]
      BY DEF IInv, TypeOK
    <3> QED
      BY <2>2, <3>2, <3>3, <3>4 DEF IInv, ErrorsAreReal, Missed, Outcomes
  <2> QED
    BY <2>1, <2>2 DEF IInv, MainShape
<1> QED
  BY <1>1, Invariance, PTL

\* No task uses the indicator after its destruction, if the loop was not thrown out of.
THEOREM IndicatorSafe == Spec => []IndicatorOutlivesItsUsers
<1>1. IInv => IndicatorOutlivesItsUsers
  BY DEF IInv
<1> QED
  BY <1>1, Invariance, PTL

\* Each bar agrees with the task behind it.
THEOREM BarsTruthful == Spec => []BarTellsTheTruth
<1>1. IInv => BarTellsTheTruth
  BY DEF IInv
<1> QED
  BY <1>1, Invariance, PTL

\* The pool is used as TaskService says, and does nothing else: a task per diagram.
THEOREM PoolIsTaskService == Spec => Pool!SvcSpec
<1>1. Init => Pool!SvcInit
  BY DEF Init
<1>2. [Next]_vars => [Pool!SvcNext]_(Pool!svcVars)
  <2> SUFFICES ASSUME [Next]_vars PROVE Pool!SvcNext \/ UNCHANGED Pool!svcVars
    OBVIOUS
  <2> USE DEF Pool!SvcNext, Pool!svcVars, pool
  <2>1. ASSUME NEW d \in Diagram, Skip(d) \/ NoCommands(d) \/ Schedule(d)
        PROVE  Pool!SvcNext \/ UNCHANGED Pool!svcVars
    BY <2>1 DEF Skip, NoCommands, Schedule
  <2>2. CASE LoopThrows \/ LoopDone \/ GetFuture \/ AllRead \/ DestroyIndicator
    BY <2>2 DEF LoopThrows, LoopDone, GetFuture, AllRead, DestroyIndicator
  <2>3. CASE StopPool \/ JoinPool
    BY <2>3 DEF StopPool, JoinPool
  <2>4. ASSUME NEW d \in Diagram, Job(d) PROVE Pool!SvcNext \/ UNCHANGED Pool!svcVars
    BY <2>4 DEF Job, JobBegin, JobUnit, JobSucceeds, JobFails
  <2>5. CASE UNCHANGED vars
    BY <2>5 DEF vars
  <2> QED
    BY <2>1, <2>2, <2>3, <2>4, <2>5 DEF Next, MainStep, Terminated
<1> QED
  BY <1>1, <1>2, PTL DEF Spec, Pool!SvcSpec
--------------------------------------------------------------------------------
(***************************************************************************)
(* The executor that is such a service: for every set of workers and of    *)
(* tasks, the safety invariants of ThreadPool, its action property, and    *)
(* that each of its steps is a step of TaskService or none.                *)
(*                                                                         *)
(* The argument rests on PoolIInv. EachTaskInOnePlace is preserved because *)
(* a task enters the deque only when its future is new, leaves it only to  *)
(* the worker that owns the mutex, and settles its future only from that   *)
(* worker's hands. QuietAfterStop needs that an exited worker holds        *)
(* nothing (PoolTypeOK); AtMostOneLateTask that a worker which took a task *)
(* after stop() can only run it and find done_ set.                        *)
(***************************************************************************)

\* Popping the front of the deque leaves the other tasks in their order.
LEMMA PopFront ==
    ASSUME NEW S, NEW s \in Seq(S), s # <<>>
    PROVE  /\ Head(s) \in S
           /\ Head(s) = s[1]
           /\ Tail(s) \in Seq(S)
           /\ Len(s) \in Nat /\ Len(s) > 0
           /\ Len(Tail(s)) = Len(s) - 1
           /\ \A i \in 1..Len(Tail(s)) : Tail(s)[i] = s[i+1]
  OBVIOUS

\* The set of queued tasks loses exactly the front one ...
LEMMA PopQueued ==
    ASSUME tasks \in Seq(Task), tasks # <<>>, tasks' = Tail(tasks),
           \A i, j \in 1..Len(tasks) : tasks[i] = tasks[j] => i = j
    PROVE  Queued' = Queued \ {Head(tasks)}
<1>1. /\ Len(tasks) \in Nat /\ Len(tasks) > 0
      /\ Head(tasks) = tasks[1]
      /\ Len(tasks') = Len(tasks) - 1
      /\ \A i \in 1..Len(tasks') : tasks'[i] = tasks[i+1]
  BY PopFront
<1>2. Queued' \subseteq Queued \ {Head(tasks)}
  BY <1>1 DEF Queued
<1>3. ASSUME NEW t \in Queued, t # Head(tasks)
      PROVE  t \in Queued'
  <2>1. PICK i \in 1..Len(tasks) : t = tasks[i]
    BY DEF Queued
  <2>2. i # 1 /\ i-1 \in 1..Len(tasks') /\ tasks'[i-1] = t
    BY <1>1, <1>3, <2>1
  <2> QED
    BY <2>2 DEF Queued
<1> QED
  BY <1>2, <1>3

\* ... and wins exactly the one that is appended.
LEMMA PushQueued ==
    ASSUME tasks \in Seq(Task), NEW t \in Task, tasks' = Append(tasks, t)
    PROVE  Queued' = Queued \cup {t}
<1>1. /\ Len(tasks) \in Nat /\ Len(tasks') = Len(tasks) + 1
      /\ \A i \in 1..Len(tasks) : tasks'[i] = tasks[i]
      /\ tasks'[Len(tasks) + 1] = t
  OBVIOUS
<1>2. Queued' \subseteq Queued \cup {t}
  BY <1>1 DEF Queued
<1>3. Queued \subseteq Queued'
  <2>1. ASSUME NEW i \in 1..Len(tasks) PROVE tasks[i] \in Queued'
    <3>1. i \in 1..Len(tasks') /\ tasks'[i] = tasks[i]
      BY <1>1
    <3> QED
      BY <3>1 DEF Queued
  <2> QED
    BY <2>1 DEF Queued
<1>4. t \in Queued'
  <2>1. Len(tasks) + 1 \in 1..Len(tasks')
    BY <1>1
  <2> QED
    BY <1>1, <2>1 DEF Queued
<1> QED
  BY <1>2, <1>3, <1>4

\* The initial state satisfies the inductive invariant.
LEMMA ExecutorInit == PoolInit => PoolIInv
<1> SUFFICES ASSUME PoolInit PROVE PoolIInv
  OBVIOUS
<1> USE ConstantsAssumption DEF PoolInit
<1>1. PoolTypeOK
  <2>1. tasks \in Seq(Task) /\ late \in [Worker -> Nat] /\ pc \in [Worker -> Pcs]
    BY DEF Pcs
  <2>2. \A w \in Worker : held[w] # NoTask <=> pc[w] = "run"
    OBVIOUS
  <2> QED
    BY <2>1, <2>2 DEF PoolTypeOK
<1>2. EachTaskInOnePlace
  BY DEF EachTaskInOnePlace, Queued
<1>3. MutexProtectsGet /\ QuietAfterStop /\ NoEarlyExit /\ OwnerShape
  BY DEF MutexProtectsGet, QuietAfterStop, NoEarlyExit, OwnerShape
<1>4. \A w \in Worker : late[w] = 0
  BY Zenon
<1>5. AtMostOneLateTask /\ WorkerShape
  BY <1>4 DEF AtMostOneLateTask, WorkerShape
<1> QED
  BY <1>1, <1>2, <1>3, <1>5 DEF PoolIInv

\* Taking the front task moves it from the deque to one worker's hands.
LEMMA TakeFrontStep ==
    ASSUME PoolIInv, NEW w \in Worker, TakeFront(w)
    PROVE  PoolIInv'
<1> USE ConstantsAssumption DEF PoolIInv, PoolTypeOK, TakeFront, Goto
<1>1. /\ Head(tasks) \in Task
      /\ Head(tasks) = tasks[1]
      /\ tasks' \in Seq(Task)
      /\ Len(tasks) \in Nat /\ Len(tasks) > 0
      /\ Len(tasks') = Len(tasks) - 1
      /\ \A i \in 1..Len(tasks') : tasks'[i] = tasks[i+1]
  BY PopFront
<1>2. PoolTypeOK'
  BY <1>1 DEF Pcs
<1>3. Queued' = Queued \ {Head(tasks)}
  BY PopQueued DEF EachTaskInOnePlace
<1>4. held[w] = NoTask
  BY DEF WorkerShape
<1>5. Head(tasks) \in Queued
  BY <1>1 DEF Queued
<1>6. EachTaskInOnePlace'
  <2>1. \A i, j \in 1..Len(tasks') : tasks'[i] = tasks'[j] => i = j
    BY <1>1 DEF EachTaskInOnePlace
  <2>2. \A u, v \in Worker : held'[u] = held'[v] /\ held'[u] # NoTask => u = v
    BY <1>5 DEF EachTaskInOnePlace
  <2>3. \A v \in Worker : held'[v] \notin Queued'
    BY <1>3, <1>5 DEF EachTaskInOnePlace
  <2>4. \A t \in Task : future'[t] = "pending" <=>
                            t \in Queued' \/ \E v \in Worker : held'[v] = t
    BY <1>3, <1>4, <1>5 DEF EachTaskInOnePlace
  <2> QED
    BY <2>1, <2>2, <2>3, <2>4 DEF EachTaskInOnePlace
<1>7. MutexProtectsGet' /\ QuietAfterStop' /\ NoEarlyExit' /\ OwnerShape'
  BY DEF MutexProtectsGet, QuietAfterStop, NoEarlyExit, OwnerShape
<1>8. AtMostOneLateTask' /\ WorkerShape'
  BY <1>1 DEF AtMostOneLateTask, WorkerShape
<1> QED
  BY <1>2, <1>6, <1>7, <1>8

\* Every step preserves the inductive invariant.
LEMMA ExecutorNext == PoolIInv /\ [PoolNext]_poolVars => PoolIInv'
<1> SUFFICES ASSUME PoolIInv, [PoolNext]_poolVars PROVE PoolIInv'
  OBVIOUS
<1> USE ConstantsAssumption
    DEF PoolIInv, PoolTypeOK, Pcs, Goto, Queued, EachTaskInOnePlace, MutexProtectsGet,
        QuietAfterStop, NoEarlyExit, AtMostOneLateTask, WorkerShape, OwnerShape
<1>1. ASSUME NEW t \in Task, Add(t) PROVE PoolIInv'
  BY <1>1, SMTT(20) DEF Add
<1>2. ASSUME NotifyOne PROVE PoolIInv'
  BY <1>2, SMTT(20) DEF NotifyOne
<1>3. ASSUME Stop PROVE PoolIInv'
  BY <1>3, SMTT(20) DEF Stop
<1>4. ASSUME Join PROVE PoolIInv'
  BY <1>4, SMTT(20) DEF Join
<1>5. ASSUME Destroy PROVE PoolIInv'
  BY <1>5, SMTT(20) DEF Destroy
<1>6. ASSUME NEW w \in Worker, LoopTest(w) PROVE PoolIInv'
  <2>1. /\ pc[w] = "loop"
        /\ pc' = [pc EXCEPT ![w] = IF done THEN "exited" ELSE "lock"]
        /\ UNCHANGED <<tasks, done, mutex, held, future, owner, joined, late>>
    BY <1>6 DEF LoopTest
  <2>2. PoolTypeOK'
    BY <2>1
  <2>3. EachTaskInOnePlace'
    BY <2>1
  <2>4. MutexProtectsGet' /\ QuietAfterStop' /\ NoEarlyExit'
    BY <2>1
  <2>5. AtMostOneLateTask' /\ WorkerShape' /\ OwnerShape'
    BY <2>1
  <2> QED
    BY <2>2, <2>3, <2>4, <2>5
<1>7. ASSUME NEW w \in Worker, Lock(w) PROVE PoolIInv'
  BY <1>7, SMTT(20) DEF Lock
<1>8. ASSUME NEW w \in Worker, TestEmpty(w) PROVE PoolIInv'
  BY <1>8, SMTT(20) DEF TestEmpty
<1>9. ASSUME NEW w \in Worker, ThrowClosing(w) PROVE PoolIInv'
  BY <1>9, SMTT(20) DEF ThrowClosing
<1>10. ASSUME NEW w \in Worker, BeginWait(w) PROVE PoolIInv'
  BY <1>10, SMTT(20) DEF BeginWait
<1>11. ASSUME NEW w \in Worker, WakeUp(w) PROVE PoolIInv'
  BY <1>11, SMTT(20) DEF WakeUp
<1>12. ASSUME NEW w \in Worker, TakeFront(w) PROVE PoolIInv'
  BY <1>12, TakeFrontStep
<1>13. ASSUME NEW w \in Worker, RunTask(w) PROVE PoolIInv'
  BY <1>13, SMTT(20) DEF RunTask
<1>14. CASE UNCHANGED poolVars
  BY <1>14 DEF poolVars
<1> QED
  BY <1>1, <1>2, <1>3, <1>4, <1>5, <1>6, <1>7, <1>8, <1>9, <1>10, <1>11,
     <1>12, <1>13, <1>14
  DEF PoolNext, WorkerStep, OwnerStep, PoolTerminated

THEOREM ExecutorInvariance == PoolSpec => []PoolIInv
  BY ExecutorInit, ExecutorNext, PTL DEF PoolSpec

\* Types, for any pool: the variables keep their ranges.
THEOREM ExecutorTypes == PoolSpec => []PoolTypeOK
  BY ExecutorInvariance, PTL DEF PoolIInv

\* thread_pool_executor::get(): a task is in the deque once or in one worker's
\* hands, so no task runs twice and none is lost while the pool lives.
THEOREM TasksInOnePlace == PoolSpec => []EachTaskInOnePlace
  BY ExecutorInvariance, PTL DEF PoolIInv

\* tasks_mutex_ is owned by exactly the worker inside get().
THEOREM MutexCorrect == PoolSpec => []MutexProtectsGet
  BY ExecutorInvariance, PTL DEF PoolIInv

\* thread_pool_executor::stop(): once it returned, no worker runs anything.
THEOREM StopLeavesQuiet == PoolSpec => []QuietAfterStop
  BY ExecutorInvariance, PTL DEF PoolIInv

\* thread_pool_executor::worker(): a thread ends only because of stop().
THEOREM ThreadsStay == PoolSpec => []NoEarlyExit
  BY ExecutorInvariance, PTL DEF PoolIInv

\* thread_pool_executor::get() does not look at done_ before it takes a task;
\* still each worker takes at most one after stop() was called.
THEOREM OneLateTask == PoolSpec => []AtMostOneLateTask
  BY ExecutorInvariance, PTL DEF PoolIInv

\* A settled future keeps its result, and only a task still in the deque is
\* broken: packaged_task is run by one worker, ~packaged_task by the destructor.
THEOREM SettleOnce == PoolSpec => FuturesSettleOnce
<1>1. ASSUME PoolIInv, [PoolNext]_poolVars, NEW t \in Task PROVE SettlesOnce(t) \/ UNCHANGED poolVars
  <2> USE <1>1 DEF PoolIInv, PoolTypeOK, SettlesOnce, Queued
  <2>1. ASSUME NEW u \in Task, Add(u) PROVE SettlesOnce(t)
    BY <2>1 DEF Add
  <2>2. CASE Destroy
    BY <2>2 DEF Destroy, EachTaskInOnePlace
  <2>3. ASSUME NEW w \in Worker, RunTask(w) PROVE SettlesOnce(t)
    BY <2>3 DEF RunTask, Goto, WorkerShape, EachTaskInOnePlace
  <2>4. CASE NotifyOne \/ Stop \/ Join
    BY <2>4 DEF NotifyOne, Stop, Join
  <2>5. ASSUME NEW w \in Worker, WorkerStep(w), ~RunTask(w) PROVE SettlesOnce(t)
    BY <2>5 DEF WorkerStep, LoopTest, Lock, TestEmpty, ThrowClosing, BeginWait,
                WakeUp, TakeFront
  <2> QED
    BY <2>1, <2>2, <2>3, <2>4, <2>5 DEF PoolNext, OwnerStep, PoolTerminated, WorkerStep
<1>2. PoolIInv /\ [PoolNext]_poolVars => [\A t \in Task : SettlesOnce(t)]_poolVars
  BY <1>1
<1> QED
  BY <1>2, ExecutorInvariance, PTL DEF PoolSpec, FuturesSettleOnce

\* What a step of the pool does to the abstract fates, task by task.
LEMMA ServiceMove ==
    ASSUME NEW t \in Task, NEW from, NEW to, FateOf(t) = from,
           \A x \in Task : FateOf(x)' = IF x = t THEN to ELSE FateOf(x)
    PROVE  Service!Move(t, from, to)
  BY DEF Service!Move

\* Each step of the pool is a step of TaskService, or changes nothing in it.
LEMMA ServiceStep ==
    ASSUME PoolIInv, [PoolNext]_poolVars
    PROVE  [Service!SvcNext]_(Service!svcVars)
<1> USE DEF PoolIInv, PoolTypeOK
<1>a. \A u \in Task : FateOf(u) =
        IF u \in Queued THEN "queued"
        ELSE IF future[u] = "pending" THEN "running"
        ELSE IF future[u] = "none" THEN "new" ELSE future[u]
  BY DEF FateOf, EachTaskInOnePlace
<1>b. PoolIInv'
  BY ExecutorNext
<1>c. \A u \in Task : FateOf(u)' =
        IF u \in Queued' THEN "queued"
        ELSE IF future'[u] = "pending" THEN "running"
        ELSE IF future'[u] = "none" THEN "new" ELSE future'[u]
  BY <1>b DEF FateOf, EachTaskInOnePlace
<1>1. ASSUME NEW t \in Task, Add(t) PROVE Service!Accept(t)
  <2>1. Queued' = Queued \cup {t}
    BY <1>1, PushQueued DEF Add
  <2>2. t \notin Queued
    BY <1>1 DEF Add, EachTaskInOnePlace
  <2>3. FateOf(t) = "new"
    BY <1>1, <1>a, <2>2 DEF Add
  <2>4. \A x \in Task : FateOf(x)' = IF x = t THEN "queued" ELSE FateOf(x)
    BY <1>1, <1>a, <1>c, <2>1 DEF Add
  <2> QED
    BY <1>1, <2>3, <2>4, ServiceMove DEF Service!Accept, Add
<1>2. ASSUME NEW w \in Worker, TakeFront(w) PROVE Service!Start(Head(tasks))
  <2>1. Head(tasks) \in Task /\ Head(tasks) \in Queued
    BY <1>2, PopFront DEF TakeFront, Queued
  <2>2. Queued' = Queued \ {Head(tasks)}
    BY <1>2, PopQueued DEF TakeFront, EachTaskInOnePlace
  <2>3. \A x \in Task : FateOf(x)' =
                         IF x = Head(tasks) THEN "running" ELSE FateOf(x)
    BY <1>2, <1>a, <1>c, <2>1, <2>2 DEF TakeFront, EachTaskInOnePlace
  <2> QED
    BY <1>2, <1>a, <2>1, <2>3, ServiceMove DEF Service!Start, TakeFront
<1>3. ASSUME NEW w \in Worker, RunTask(w) PROVE Service!Finish(held[w])
  <2>1. held[w] \in Task /\ held[w] \notin Queued /\ future[held[w]] = "pending"
    BY <1>3 DEF RunTask, Goto, WorkerShape, EachTaskInOnePlace
  <2>2. Queued' = Queued
    BY <1>3 DEF RunTask, Queued
  <2>3. \A x \in Task : FateOf(x)' = IF x = held[w] THEN "ready" ELSE FateOf(x)
    BY <1>3, <1>a, <1>c, <2>1, <2>2 DEF RunTask
  <2> QED
    BY <1>3, <1>a, <2>1, <2>3, ServiceMove DEF Service!Finish, RunTask
<1>4. ASSUME NotifyOne \/ Join \/ Stop \/ UNCHANGED poolVars \/
             \E w \in Worker : WorkerStep(w) /\ ~TakeFront(w) /\ ~RunTask(w)
      PROVE  \A x \in Task : FateOf(x)' = FateOf(x)
  <2>1. Queued' = Queued /\ future' = future
    BY <1>4 DEF NotifyOne, Join, Stop, poolVars, WorkerStep, LoopTest, Lock, TestEmpty,
                ThrowClosing, BeginWait, WakeUp, Queued
  <2> QED
    BY <2>1, <1>a, <1>c
<1>5. CASE Stop
  <2>1. CASE done
    BY <1>4, <1>5, <2>1 DEF Stop, Service!svcVars
  <2>2. CASE ~done
    BY <1>4, <1>5, <2>2 DEF Stop, Service!SvcNext, Service!Close
  <2> QED
    BY <2>1, <2>2
<1>6. CASE Destroy
  <2>1. Queued' = {}
    BY <1>6 DEF Destroy, Queued
  <2>2. \A x \in Task : FateOf(x) # "running"
    <3>1. \A w \in Worker : held[w] \notin Task
      BY <1>6, ConstantsAssumption DEF Destroy, QuietAfterStop
    <3>2. \A x \in Task : future[x] = "pending" => x \in Queued
      BY <3>1 DEF EachTaskInOnePlace
    <3> QED
      BY <1>a, <3>2
  <2>3. \A x \in Task : FateOf(x)' =
                         IF FateOf(x) = "queued" THEN "broken" ELSE FateOf(x)
    BY <1>6, <1>a, <1>c, <2>1, <2>2 DEF Destroy
  <2>4. done
    BY <1>6 DEF Destroy, OwnerShape
  <2> QED
    BY <1>6, <2>2, <2>3, <2>4 DEF Destroy, Service!SvcNext, Service!Abandon
<1>7. CASE NotifyOne \/ Join \/ UNCHANGED poolVars \/
           \E w \in Worker : WorkerStep(w) /\ ~TakeFront(w) /\ ~RunTask(w)
  <2>1. done' = done
    BY <1>7 DEF NotifyOne, Join, poolVars, WorkerStep, LoopTest, Lock, TestEmpty,
                ThrowClosing, BeginWait, WakeUp
  <2> QED
    BY <1>4, <1>7, <2>1 DEF Service!svcVars
<1>8. ASSUME NEW w \in Worker, TakeFront(w)
      PROVE  Service!SvcNext
  BY <1>2, <1>8, PopFront DEF Service!SvcNext, TakeFront
<1>9. ASSUME NEW w \in Worker, RunTask(w)
      PROVE  Service!SvcNext
  BY <1>3, <1>9 DEF Service!SvcNext, RunTask, Goto, WorkerShape
<1> QED
  BY <1>1, <1>5, <1>6, <1>7, <1>8, <1>9
  DEF PoolNext, OwnerStep, WorkerStep, PoolTerminated, Service!SvcNext

\* The executor keeps its promise: ThreadPool implements TaskService.
THEOREM Refinement == PoolSpec => ImplementsTaskService
<1>1. PoolInit => Service!SvcInit
  BY DEF PoolInit, Service!SvcInit, FateOf
<1>2. PoolIInv /\ [PoolNext]_poolVars => [Service!SvcNext]_(Service!svcVars)
  BY ServiceStep
<1> QED
  BY <1>1, <1>2, ExecutorInvariance, PTL DEF PoolSpec, ImplementsTaskService, Service!SvcSpec

================================================================================
