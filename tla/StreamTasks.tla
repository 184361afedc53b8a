---------------------------- MODULE StreamTasks -----------------------------
(***************************************************************************)
(* The asyncio tasks of runtime/engine.py: the main loop of run_forever,   *)
(* the stream tasks it starts and starts again, the done callback that     *)
(* removes them from the tables, and shutdown(), which the main loop runs  *)
(* when it leaves and which another coroutine may call at any time.        *)
(*                                                                         *)
(* Code between two awaits is one action.  A task is an object of its own: *)
(* _stream_tasks and _tasks refer to it, and the callback of an ended task *)
(* comes after other code may have run.  A futures-context task runs three *)
(* child tasks, its `kids', that are in neither table.                     *)
(***************************************************************************)
EXTENDS Integers, FiniteSets, Functions

CONSTANTS Broad,      \* keys started once, ("spot_broad", ...)
          Permanent,  \* keys of the permanent deep symbols
          Dynamic,    \* keys of symbols that come and go with the candidates
          Context,    \* the dynamic keys ("futures_context", symbol)
          MaxTasks    \* bound: task objects in existence at once

ASSUME KeyAssumption ==
    /\ Context \subseteq Dynamic
    /\ Broad # {} /\ Broad \cap (Permanent \cup Dynamic) = {} /\ Permanent \cap Dynamic = {}
ASSUME TaskAssumption == MaxTasks \in Nat

Key    == Broad \cup Permanent \cup Dynamic
Task   == 1..MaxTasks
NoTask == 0

VARIABLES
    main,         \* where run_forever is
    interrupted,  \* main was cancelled while it waits in shutdown
    stop,         \* the stop event is set
    shut,         \* _shutdown
    closer,       \* who is, or was, in shutdown past its check of _shutdown
    awaited,      \* tasks shutdown still waits for
    closed,       \* the stream transport is closed
    wanted,       \* keys of deep_symbols and futures candidates
    state,        \* state of each task object, "none" where there is none
    key,          \* what it was started for
    kids,         \* the children of a context task
    table,        \* _stream_tasks
    owned         \* _tasks

mainVars == <<main, interrupted, stop>>
shutVars == <<shut, closer, awaited, closed>>
taskVars == <<state, key, kids, table, owned>>
vars == <<mainVars, shutVars, wanted, taskVars>>

Running    == {"live", "failing", "handling", "cancelling"}
Unfinished == {t \in Task : state[t] \in Running}
Active     == {t \in Task : state[t] \in Running \/ kids[t] # "none"}
Free       == {t \in Task : state[t] = "none" /\ kids[t] = "none"}

-----------------------------------------------------------------------------
(* _ensure_stream_task                                                     *)

\* Mutant: streams are started for the keys that are new in this round only.
MissingNew(keys) == {k \in keys \ wanted : table[k] = NoTask \/ state[table[k]] = "done"}

\* Keys that have no task, or one that is done.
Missing(keys) == {k \in keys : table[k] = NoTask \/ state[table[k]] = "done"}

\* _ensure_stream_task for each of the keys: a new task where one is missing.
Ensure(keys) ==
    \E new \in [Missing(keys) -> Free] :
        LET started == {new[k] : k \in Missing(keys)}
            for(t)  == CHOOSE k \in Missing(keys) : new[k] = t
        IN  /\ IsInjective(new)
            /\ \A t \in started, u \in Free \ started : t < u
            /\ state' = [t \in Task |-> IF t \in started THEN "live" ELSE state[t]]
            /\ key'   = [t \in Task |-> IF t \in started THEN for(t) ELSE key[t]]
            /\ kids'  = [t \in Task |-> IF t \in started /\ for(t) \in Context
                                        THEN "running" ELSE kids[t]]
            /\ table' = [k \in Key |-> IF k \in Missing(keys) THEN new[k] ELSE table[k]]
            /\ owned' = owned \cup started

-----------------------------------------------------------------------------
(* shutdown                                                                *)

\* Mutant: the tasks are cancelled and not waited for.
BeginHastily(who) ==
    /\ shut' = TRUE /\ closer' = who
    /\ awaited' = {}
    /\ state' = [t \in Task |-> IF t \in owned \cap Unfinished THEN "cancelling" ELSE state[t]]
    /\ kids' = [t \in Task |-> IF t \in owned /\ kids[t] = "running" /\ state[t] # "failing"
                               THEN "cancelled" ELSE kids[t]]
    /\ UNCHANGED <<closed, key, table, owned>>

\* Up to the await: every task of _tasks is cancelled.  To cancel a context
\* task cancels its children, unless one of them has just failed: then the
\* gather is over and only the task itself is told.
Begin(who) ==
    /\ shut' = TRUE /\ closer' = who
    /\ awaited' = owned \cap Unfinished
    /\ state' = [t \in Task |-> IF t \in owned \cap Unfinished THEN "cancelling" ELSE state[t]]
    /\ kids' = [t \in Task |-> IF t \in owned /\ kids[t] = "running" /\ state[t] # "failing"
                               THEN "cancelled" ELSE kids[t]]
    /\ UNCHANGED <<closed, key, table, owned>>

\* After the await.  A caller that was cancelled in it does not come here.
Close ==
    /\ closer # "nobody" /\ ~closed /\ awaited = {}
    /\ closer = "main" => main = "closing"
    /\ closed' = (closer = "other" \/ ~interrupted)
    /\ main' = IF closer = "main" THEN "ended" ELSE main
    /\ UNCHANGED <<interrupted, stop, shut, closer, awaited, wanted, taskVars>>

\* Another coroutine calls shutdown; a second call returns at once.
OtherShutdown ==
    /\ ~shut
    /\ Begin("other")
    /\ UNCHANGED <<mainVars, wanted>>

-----------------------------------------------------------------------------
(* run_forever                                                             *)

\* The finally of run_forever.
LeaveLoop ==
    \/ /\ ~shut
       /\ Begin("main")
       /\ main' = "closing"
    \/ /\ shut
       /\ main' = "ended"
       /\ UNCHANGED <<shutVars, taskVars>>

Bootstrapped ==
    /\ main = "bootstrap"
    /\ Ensure(Broad)
    /\ main' = "loop"
    /\ UNCHANGED <<interrupted, stop, shutVars, wanted>>

\* bootstrap raises, or main is cancelled in it: there is no finally yet.
BootstrapFails ==
    /\ main = "bootstrap"
    /\ main' = "ended"
    /\ UNCHANGED <<interrupted, stop, shutVars, wanted, taskVars>>

\* Mutant: the permanent symbols are left out for the broad streams.
DeepBroad(d) == Broad \cup d

\* _set_deep_symbols, and the candidates whose Futures context is wanted.
DeepKeys(d) == Permanent \cup d

\* One turn of the loop.  Without an alert to deliver evaluate_stage2 does
\* not suspend and the turn ends in the sleep.
Turn ==
    /\ main = "loop" /\ ~stop /\ ~shut
    /\ \E d \in SUBSET Dynamic :
          /\ wanted' = DeepKeys(d)
          /\ Ensure(DeepKeys(d))
    /\ main' \in {"sending", "sleeping"}
    /\ UNCHANGED <<interrupted, stop, shutVars>>

Sent ==
    /\ main = "sending"
    /\ main' = "sleeping"
    /\ UNCHANGED <<interrupted, stop, shutVars, wanted, taskVars>>

Wake ==
    /\ main = "sleeping"
    /\ main' = "loop"
    /\ UNCHANGED <<interrupted, stop, shutVars, wanted, taskVars>>

\* The loop condition fails; an evaluation raises, as it does when storage
\* fails; or main is cancelled where it waits.
Leave ==
    /\ main \in {"loop", "sending", "sleeping"}
    /\ LeaveLoop
    /\ UNCHANGED <<interrupted, stop, wanted>>

\* Cancelled while it waits in shutdown: gather passes that on to the tasks,
\* which are cancelled already, and raises once they are done.
Interrupt ==
    /\ main = "closing" /\ ~interrupted
    /\ interrupted' = TRUE
    /\ UNCHANGED <<main, stop, shutVars, wanted, taskVars>>

Stop ==
    /\ ~stop /\ stop' = TRUE
    /\ UNCHANGED <<main, interrupted, shutVars, wanted, taskVars>>

-----------------------------------------------------------------------------
(* The stream tasks                                                        *)

End(t) ==
    /\ state' = [state EXCEPT ![t] = "done"]
    /\ awaited' = awaited \ {t}
    /\ UNCHANGED <<mainVars, shut, closer, closed, wanted, key, table, owned>>

\* Mutant: a stream does not notice that its transport was closed.
EndsOpen(t) ==
    /\ state[t] = "live" /\ kids[t] = "none" /\ ~closed
    /\ End(t) /\ UNCHANGED kids

\* The stream is over: its message limit, an exception, a closed transport.
Ends(t) ==
    /\ state[t] = "live" /\ kids[t] = "none"
    /\ End(t) /\ UNCHANGED kids

\* A cancelled task unwinds; a context task after the children it waits for.
Unwinds(t) ==
    /\ state[t] = "cancelling" /\ kids[t] # "cancelled"
    /\ End(t) /\ UNCHANGED kids

SetKids(t, value) ==
    /\ kids' = [kids EXCEPT ![t] = value]
    /\ UNCHANGED <<mainVars, shutVars, wanted, key, table, owned>>

\* The children of a context task end by themselves or because cancelled.
KidsEnd(t) ==
    /\ kids[t] # "none" /\ state[t] # "failing"
    /\ SetKids(t, "none") /\ UNCHANGED state

\* One child raises: gather ends, the other children run on ...
ChildFails(t) ==
    /\ state[t] = "live" /\ kids[t] = "running"
    /\ state' = [state EXCEPT ![t] = "failing"]
    /\ SetKids(t, "running")

\* ... until the task runs again, cancels them and waits for them.
Handle(t) ==
    /\ state[t] = "failing"
    /\ state' = [state EXCEPT ![t] = "handling"]
    /\ SetKids(t, "cancelled")

\* Mutant: the cancelled children are not waited for.
HandledHastily(t) ==
    /\ state[t] = "handling"
    /\ End(t) /\ UNCHANGED kids

Handled(t) ==
    /\ state[t] = "handling" /\ kids[t] = "none"
    /\ End(t) /\ UNCHANGED kids

\* Mutant: the entry of the key goes, whatever task it is for.
ReapAny(t) ==
    /\ state[t] = "done"
    /\ state' = [state EXCEPT ![t] = "none"]
    /\ owned' = owned \ {t}
    /\ table' = [table EXCEPT ![key[t]] = NoTask]
    /\ UNCHANGED <<mainVars, shutVars, wanted, key, kids>>

\* The done callback: the entry goes if it is still for this task.
Reap(t) ==
    /\ state[t] = "done"
    /\ state' = [state EXCEPT ![t] = "none"]
    /\ owned' = owned \ {t}
    /\ table' = IF table[key[t]] = t THEN [table EXCEPT ![key[t]] = NoTask] ELSE table
    /\ UNCHANGED <<mainVars, shutVars, wanted, key, kids>>

-----------------------------------------------------------------------------
Init ==
    /\ main = "bootstrap" /\ interrupted = FALSE /\ stop = FALSE
    /\ shut = FALSE /\ closer = "nobody" /\ awaited = {} /\ closed = FALSE
    /\ wanted = {}
    /\ state = [t \in Task |-> "none"]
    /\ key \in [Task -> {CHOOSE k \in Key : TRUE}]
    /\ kids = [t \in Task |-> "none"]
    /\ table = [k \in Key |-> NoTask]
    /\ owned = {}

MainStep == Bootstrapped \/ Turn \/ Sent \/ Wake
            \/ (main = "loop" /\ (stop \/ shut) /\ Leave)

TaskStep(t) == Unwinds(t) \/ Handle(t) \/ Handled(t) \/ Reap(t)
               \/ (closed /\ Ends(t)) \/ ((closed \/ kids[t] = "cancelled") /\ KidsEnd(t))

Next ==
    \/ Bootstrapped \/ BootstrapFails \/ Turn \/ Sent \/ Wake \/ Leave
    \/ Interrupt \/ Stop \/ Close \/ OtherShutdown
    \/ \E t \in Task : \/ Ends(t) \/ Unwinds(t) \/ KidsEnd(t) \/ ChildFails(t)
                       \/ Handle(t) \/ Handled(t) \/ Reap(t)

\* The event loop runs whatever can run; a request is answered or times out;
\* on a closed transport a stream ends within one receive timeout.  That
\* streams end, fail, or are stopped otherwise is left open.
Fairness == /\ WF_vars(MainStep) /\ WF_vars(Close)
            /\ \A t \in Task : WF_vars(TaskStep(t))

Spec == Init /\ [][Next]_vars /\ Fairness

-----------------------------------------------------------------------------
(* Invariants                                                              *)

TypeOK ==
    /\ main \in {"bootstrap", "loop", "sending", "sleeping", "closing", "ended"}
    /\ {interrupted, stop, shut, closed} \subseteq BOOLEAN
    /\ closer \in {"nobody", "main", "other"}
    /\ awaited \subseteq Task /\ owned \subseteq Task
    /\ wanted \subseteq Permanent \cup Dynamic
    /\ state \in [Task -> Running \cup {"none", "done"}]
    /\ key \in [Task -> Key]
    /\ kids \in [Task -> {"none", "running", "cancelled"}]
    /\ table \in [Key -> Task \cup {NoTask}]

\* At no time do two tasks, or a task and the children of another, run the
\* streams of the same key: the book, the trades and the samples of a symbol
\* have one writer, through restarts, failures and shutdowns.
OneWriterPerKey ==
    \A t1, t2 \in Active : key[t1] = key[t2] => t1 = t2

\* Every task that has not finished is in both tables, whichever callbacks
\* are late: _ensure_stream_task finds it and shutdown can cancel it.
EveryTaskIsReachable ==
    \A t \in Unfinished : t \in owned /\ table[key[t]] = t

\* When run_forever returns and has shut down itself, no task it started is
\* unfinished.
StopsClean ==
    main = "ended" /\ closer # "other" => Unfinished = {}

\* The parts of the inductive invariant behind the theorems of
\* StreamTasks_proofs that are not properties themselves.

\* An entry of _stream_tasks is for a task that was started for its key.
TableTrue ==
    \A k \in Key : table[k] # NoTask => key[table[k]] = k /\ state[table[k]] # "none"

\* Until a shutdown no task outlives its children.
NoOrphans ==
    ~shut => \A t \in Task : /\ state[t] # "cancelling"
                             /\ kids[t] # "none" => state[t] \in Running

NothingBeforeLoop == main = "bootstrap" => \A t \in Task : state[t] = "none" /\ kids[t] = "none"

\* Who shut down, and what it waits for.
ShutdownHasCaller ==
    /\ shut <=> closer # "nobody"
    /\ main = "closing" => closer = "main"
    /\ closer = "main" => main \in {"closing", "ended"} /\ Unfinished \subseteq awaited

IInv == /\ TypeOK /\ OneWriterPerKey /\ EveryTaskIsReachable /\ StopsClean
        /\ TableTrue /\ NoOrphans /\ NothingBeforeLoop /\ ShutdownHasCaller

-----------------------------------------------------------------------------
(* Liveness                                                                *)

\* The streams of a permanent symbol come back however often they end, as
\* long as the loop turns.
PermanentStreamsReturn ==
    \A k \in Permanent :
        []<>(main = "ended" \/ (table[k] # NoTask /\ state[table[k]] = "live"))

\* After a shutdown that closed the transport everything ends, children that
\* were left behind and tasks started too late included.
EndsQuietly ==
    (main = "ended" /\ closed) ~> [](Active = {})
=============================================================================
