-------------------------- MODULE StreamTasks_proofs --------------------------
(***************************************************************************)
(* Proofs about StreamTasks: one writer per key, every task within reach   *)
(* of shutdown, and a clean stop, for any keys and any number of tasks.    *)
(***************************************************************************)
EXTENDS StreamTasks, TLAPS

-----------------------------------------------------------------------------
(* Starting tasks                                                          *)

LEMMA NoTaskIsNoTask == NoTask \notin Task
BY TaskAssumption DEF NoTask, Task

\* _ensure_stream_task keeps one writer per key and its tables true, as long as
\* no children run without their task.
LEMMA EnsureKeeps ==
    ASSUME IInv, NEW keys \in SUBSET Key, Ensure(keys), Active \subseteq Unfinished
    PROVE  /\ state' \in [Task -> Running \cup {"none", "done"}]
           /\ key' \in [Task -> Key]
           /\ kids' \in [Task -> {"none", "running", "cancelled"}]
           /\ table' \in [Key -> Task \cup {NoTask}]
           /\ owned' \subseteq Task
           /\ OneWriterPerKey' /\ EveryTaskIsReachable' /\ TableTrue'
           /\ \A t \in Task : \/ state'[t] = state[t] /\ kids'[t] = kids[t]
                              \/ state'[t] = "live"
<1> DEFINE M == Missing(keys)
<1>1. PICK new \in [M -> Free] :
          LET started == {new[k] : k \in M}
              for(t)  == CHOOSE k \in M : new[k] = t
          IN  /\ IsInjective(new)
              /\ state' = [t \in Task |-> IF t \in started THEN "live" ELSE state[t]]
              /\ key'   = [t \in Task |-> IF t \in started THEN for(t) ELSE key[t]]
              /\ kids'  = [t \in Task |-> IF t \in started /\ for(t) \in Context
                                          THEN "running" ELSE kids[t]]
              /\ table' = [k \in Key |-> IF k \in M THEN new[k] ELSE table[k]]
              /\ owned' = owned \cup started
  BY DEF Ensure
<1> DEFINE started == {new[k] : k \in M}
           for(t)  == CHOOSE k \in M : new[k] = t
<1>2. /\ state' = [t \in Task |-> IF t \in started THEN "live" ELSE state[t]]
      /\ key'   = [t \in Task |-> IF t \in started THEN for(t) ELSE key[t]]
      /\ kids'  = [t \in Task |-> IF t \in started /\ for(t) \in Context
                                  THEN "running" ELSE kids[t]]
      /\ table' = [k \in Key |-> IF k \in M THEN new[k] ELSE table[k]]
      /\ owned' = owned \cup started
  BY <1>1
<1>3. M \subseteq Key /\ \A k \in M : table[k] = NoTask \/ state[table[k]] = "done"
  BY DEF Missing
<1>4. \A k \in M : /\ new[k] \in Task /\ new[k] \in started /\ for(new[k]) = k
                   /\ state[new[k]] = "none" /\ kids[new[k]] = "none"
  <2> SUFFICES ASSUME NEW k \in M
               PROVE  /\ new[k] \in Task /\ new[k] \in started /\ for(new[k]) = k
                      /\ state[new[k]] = "none" /\ kids[new[k]] = "none"
    OBVIOUS
  <2>1. new[k] \in Free
    OBVIOUS
  <2>2. for(new[k]) \in M /\ new[for(new[k])] = new[k]
    OBVIOUS
  <2>3. for(new[k]) = k
    BY <1>1, <2>2 DEF IsInjective
  <2> QED
    BY <2>1, <2>3 DEF Free
<1>5. \A t \in started : for(t) \in M /\ new[for(t)] = t
  <2> SUFFICES ASSUME NEW t \in started PROVE for(t) \in M /\ new[for(t)] = t
    OBVIOUS
  <2>1. PICK k \in M : new[k] = t
    OBVIOUS
  <2> QED
    BY <2>1
<1> HIDE DEF M, started, for
<1>6. started \subseteq Task /\ \A t \in started : state[t] = "none" /\ kids[t] = "none"
  BY <1>4, <1>5
<1>0. TypeOK /\ OneWriterPerKey /\ EveryTaskIsReachable /\ TableTrue
  BY DEF IInv
<1>7. /\ state' \in [Task -> Running \cup {"none", "done"}]
      /\ key' \in [Task -> Key]
      /\ kids' \in [Task -> {"none", "running", "cancelled"}]
      /\ table' \in [Key -> Task \cup {NoTask}]
      /\ owned' \subseteq Task
  BY <1>0, <1>2, <1>3, <1>4, <1>5, <1>6 DEF TypeOK, Running
<1>8. \A t \in Task :
         /\ t \in started => /\ state'[t] = "live" /\ key'[t] = for(t)
                             /\ table'[for(t)] = t /\ t \in owned'
         /\ t \notin started => /\ state'[t] = state[t] /\ key'[t] = key[t]
                                /\ kids'[t] = kids[t]
  BY <1>2, <1>3, <1>5
\* A task that was at work is in the table, so its key is not missing.
<1>9. \A t \in Unfinished : /\ t \notin started /\ t \in Task /\ t \in owned /\ key[t] \in Key
                            /\ table[key[t]] = t /\ key[t] \notin M
  <2> SUFFICES ASSUME NEW t \in Unfinished
               PROVE  /\ t \notin started /\ t \in Task /\ t \in owned /\ key[t] \in Key
                      /\ table[key[t]] = t /\ key[t] \notin M
    OBVIOUS
  <2>1. t \in Task /\ state[t] \in Running
    BY DEF Unfinished
  <2>2. t \in owned /\ table[key[t]] = t
    BY <1>0 DEF EveryTaskIsReachable
  <2>3. state[t] # "done" /\ state[t] # "none"
    BY <2>1 DEF Running
  <2> QED
    BY <1>0, <1>3, <1>6, <2>1, <2>2, <2>3, NoTaskIsNoTask DEF TypeOK
<1>10. \A t \in Active' : t \in Task /\ (t \in started \/ t \in Unfinished)
  BY <1>8 DEF Active, Unfinished
<1>11. OneWriterPerKey'
  <2> SUFFICES ASSUME NEW t \in Active', NEW u \in Active', key'[t] = key'[u] PROVE t = u
    BY DEF OneWriterPerKey
  <2>1. CASE t \in started /\ u \in started
    BY <1>5, <1>8, <1>10, <2>1
  <2>2. CASE t \in started /\ u \notin started
    BY <1>5, <1>8, <1>9, <1>10, <2>2
  <2>3. CASE t \notin started /\ u \in started
    BY <1>5, <1>8, <1>9, <1>10, <2>3
  <2>4. CASE t \notin started /\ u \notin started
    BY <1>8, <1>9, <1>10, <2>4
  <2> QED
    BY <2>1, <2>2, <2>3, <2>4
<1>12. EveryTaskIsReachable'
  <2> SUFFICES ASSUME NEW t \in Unfinished' PROVE t \in owned' /\ table'[key'[t]] = t
    BY DEF EveryTaskIsReachable
  <2>1. t \in Task
    BY DEF Unfinished
  <2>2. CASE t \in started
    BY <1>8, <2>1, <2>2
  <2>3. CASE t \notin started
    <3>1. t \in Unfinished
      BY <1>8, <2>1, <2>3 DEF Unfinished
    <3> QED
      BY <1>2, <1>8, <1>9, <2>1, <2>3, <3>1
  <2> QED
    BY <2>2, <2>3
<1>13. TableTrue'
  <2> SUFFICES ASSUME NEW k \in Key, table'[k] # NoTask
               PROVE  key'[table'[k]] = k /\ state'[table'[k]] # "none"
    BY DEF TableTrue
  <2>1. CASE k \in M
    BY <1>2, <1>4, <1>8, <2>1
  <2>2. CASE k \notin M
    <3>1. table'[k] = table[k] /\ table[k] \in Task
      BY <1>0, <1>2, <2>2 DEF TypeOK
    <3>2. key[table[k]] = k /\ state[table[k]] # "none"
      BY <1>0, <3>1 DEF TableTrue
    <3> QED
      BY <1>6, <1>8, <3>1, <3>2
  <2> QED
    BY <2>1, <2>2
<1> QED
  BY <1>7, <1>8, <1>11, <1>12, <1>13

-----------------------------------------------------------------------------
(* Steps that start nothing                                                *)

\* A step that gives no task a new key and brings none to life keeps one writer
\* per key and the tables true.
LEMMA OthersKeep ==
    ASSUME IInv, UNCHANGED <<key, table, owned>>,
           Active' \subseteq Active, Unfinished' \subseteq Unfinished,
           \A t \in Task : state'[t] = "none" => state[t] = "none"
    PROVE  OneWriterPerKey' /\ EveryTaskIsReachable' /\ TableTrue'
<1>1. TypeOK /\ OneWriterPerKey /\ EveryTaskIsReachable /\ TableTrue
  BY DEF IInv
<1>2. OneWriterPerKey'
  BY <1>1 DEF OneWriterPerKey
<1>3. EveryTaskIsReachable'
  BY <1>1 DEF EveryTaskIsReachable
<1>4. TableTrue'
  BY <1>1 DEF TableTrue, TypeOK
<1> QED
  BY <1>2, <1>3, <1>4

LEMMA BeginKeeps ==
    ASSUME IInv, NEW who \in {"main", "other"}, ~shut, Begin(who), who = "main" => main' = "closing",
           main' \in {main, "closing"}, main' = "closing" => who = "main" \/ main = "closing",
           UNCHANGED <<interrupted, stop, wanted>>,
           who = "main" => main # "bootstrap"
    PROVE  IInv'
<1>1. /\ shut' = TRUE /\ closer' = who
      /\ awaited' = owned \cap Unfinished
      /\ state' = [t \in Task |-> IF t \in owned \cap Unfinished THEN "cancelling" ELSE state[t]]
      /\ kids' = [t \in Task |-> IF t \in owned /\ kids[t] = "running" /\ state[t] # "failing"
                                 THEN "cancelled" ELSE kids[t]]
      /\ UNCHANGED <<closed, key, table, owned>>
  BY DEF Begin
<1>2. /\ TypeOK /\ EveryTaskIsReachable /\ NothingBeforeLoop /\ ShutdownHasCaller /\ StopsClean
  BY DEF IInv
<1>3. TypeOK'
  BY <1>1, <1>2 DEF TypeOK, Running
<1>4. Unfinished \subseteq owned /\ Unfinished \subseteq Task
  BY <1>2 DEF EveryTaskIsReachable, Unfinished
<1>5. \A t \in Task : /\ state'[t] \in Running <=> state[t] \in Running
                      /\ state'[t] = "none" <=> state[t] = "none"
                      /\ kids'[t] = "none" <=> kids[t] = "none"
  BY <1>1, <1>2 DEF Unfinished, Running, TypeOK
<1>6. Active' = Active /\ Unfinished' = Unfinished
  BY <1>5 DEF Active, Unfinished
<1>7. OneWriterPerKey' /\ EveryTaskIsReachable' /\ TableTrue'
  BY <1>1, <1>5, <1>6, OthersKeep
<1>8. ShutdownHasCaller'
  BY <1>1, <1>2, <1>4, <1>6 DEF ShutdownHasCaller
<1>9. StopsClean'
  BY <1>1, <1>2 DEF StopsClean, ShutdownHasCaller
<1>10. NoOrphans' /\ NothingBeforeLoop'
  BY <1>1, <1>2, <1>5 DEF NoOrphans, NothingBeforeLoop
<1> QED
  BY <1>3, <1>7, <1>8, <1>9, <1>10 DEF IInv

\* A step of the task t that starts nothing and leaves the tables alone.
LEMMA TaskStepKeeps ==
    ASSUME IInv, NEW t \in Task, state[t] \in Running \cup {"done", "none"},
           UNCHANGED <<main, interrupted, stop, shut, closer, closed, wanted, key, table, owned>>,
           \E s \in Running \cup {"done"} : state' = [state EXCEPT ![t] = s] \/ state' = state,
           \E c \in {"none", "running", "cancelled"} : kids' = [kids EXCEPT ![t] = c],
           \/ awaited' = awaited /\ (state[t] \in Running <=> state'[t] \in Running)
           \/ awaited' = awaited \ {t} /\ state'[t] = "done",
           state'[t] \in Running => state[t] \in Running,
           kids'[t] # "none" => kids[t] # "none" \/ state[t] \in Running,
           state'[t] = "done" => state[t] \in Running \cup {"done"},
           ~shut => /\ kids'[t] # "none" => state'[t] \in Running
                    /\ state'[t] # "cancelling"
    PROVE  IInv'
<1>1. /\ TypeOK /\ EveryTaskIsReachable /\ NothingBeforeLoop /\ ShutdownHasCaller /\ StopsClean
      /\ NoOrphans
  BY DEF IInv
<1>2. /\ state' \in [Task -> Running \cup {"done", "none"}]
      /\ kids' \in [Task -> {"none", "running", "cancelled"}]
      /\ \A u \in Task \ {t} : state'[u] = state[u] /\ kids'[u] = kids[u]
      /\ awaited' \subseteq Task
  BY <1>1 DEF TypeOK
<1>3. TypeOK'
  BY <1>1, <1>2 DEF TypeOK
<1>4. Active' \subseteq Active /\ Unfinished' \subseteq Unfinished
  BY <1>2 DEF Active, Unfinished
<1>5. \A u \in Task : state'[u] = "none" => state[u] = "none"
  BY <1>1, <1>2 DEF TypeOK, Running
<1>6. OneWriterPerKey' /\ EveryTaskIsReachable' /\ TableTrue'
  BY <1>4, <1>5, OthersKeep
<1>7. ShutdownHasCaller'
  <2>1. Unfinished \subseteq awaited => Unfinished' \subseteq awaited'
    BY <1>2, <1>4 DEF Unfinished, Running
  <2> QED
    BY <1>1, <2>1 DEF ShutdownHasCaller
<1>8. StopsClean'
  BY <1>1, <1>4 DEF StopsClean
<1>9. NoOrphans'
  BY <1>1, <1>2 DEF NoOrphans
<1>10. NothingBeforeLoop'
  <2> SUFFICES ASSUME main = "bootstrap", NEW u \in Task
               PROVE  state'[u] = "none" /\ kids'[u] = "none"
    BY DEF NothingBeforeLoop
  <2>1. state[u] = "none" /\ kids[u] = "none" /\ state[t] = "none" /\ kids[t] = "none"
    BY <1>1 DEF NothingBeforeLoop
  <2>2. "none" \notin Running \cup {"done"}
    BY DEF Running
  <2> QED
    BY <1>2, <2>1, <2>2
<1> QED
  BY <1>3, <1>6, <1>7, <1>8, <1>9, <1>10 DEF IInv

-----------------------------------------------------------------------------
(* The invariant                                                           *)

LEMMA InitIInv == Init => IInv
<1> SUFFICES ASSUME Init PROVE IInv
  OBVIOUS
<1> DEFINE first == CHOOSE k \in Key : TRUE
<1>1. first \in Key
  BY KeyAssumption DEF Key
<1> HIDE DEF first
<1>2. /\ main = "bootstrap" /\ interrupted = FALSE /\ stop = FALSE
      /\ shut = FALSE /\ closer = "nobody" /\ awaited = {} /\ closed = FALSE
      /\ wanted = {} /\ owned = {}
      /\ state = [t \in Task |-> "none"] /\ kids = [t \in Task |-> "none"]
      /\ table = [k \in Key |-> NoTask] /\ key \in [Task -> {first}]
  BY DEF Init, first
<1>3. TypeOK
  BY <1>1, <1>2 DEF TypeOK
<1>4. Active = {} /\ Unfinished = {}
  BY <1>2 DEF Active, Unfinished, Running
<1>5. OneWriterPerKey /\ EveryTaskIsReachable /\ StopsClean
  BY <1>4 DEF OneWriterPerKey, EveryTaskIsReachable, StopsClean
<1>6. TableTrue /\ NoOrphans /\ NothingBeforeLoop /\ ShutdownHasCaller
  BY <1>2 DEF TableTrue, NoOrphans, NothingBeforeLoop, ShutdownHasCaller
<1> QED
  BY <1>3, <1>5, <1>6 DEF IInv

\* A step of the main loop that starts the missing tasks of some keys.
LEMMA EnsuringKeeps ==
    ASSUME IInv, NEW keys \in SUBSET Key, Ensure(keys), Active \subseteq Unfinished,
           main \in {"bootstrap", "loop"}, main' \in {"loop", "sending", "sleeping"},
           wanted' \subseteq Permanent \cup Dynamic,
           UNCHANGED <<interrupted, stop, shutVars>>
    PROVE  IInv'
<1>1. /\ TypeOK /\ NoOrphans /\ ShutdownHasCaller
  BY DEF IInv
<1>2. /\ state' \in [Task -> Running \cup {"none", "done"}]
      /\ key' \in [Task -> Key]
      /\ kids' \in [Task -> {"none", "running", "cancelled"}]
      /\ table' \in [Key -> Task \cup {NoTask}]
      /\ owned' \subseteq Task
      /\ OneWriterPerKey' /\ EveryTaskIsReachable' /\ TableTrue'
      /\ \A t \in Task : \/ state'[t] = state[t] /\ kids'[t] = kids[t]
                         \/ state'[t] = "live"
  BY EnsureKeeps
<1>3. TypeOK'
  BY <1>1, <1>2 DEF TypeOK, shutVars
<1>4. NoOrphans'
  BY <1>1, <1>2 DEF NoOrphans, Running, shutVars
<1>5. ShutdownHasCaller' /\ StopsClean' /\ NothingBeforeLoop'
  BY <1>1 DEF ShutdownHasCaller, StopsClean, NothingBeforeLoop, shutVars
<1> QED
  BY <1>2, <1>3, <1>4, <1>5 DEF IInv

\* A step that leaves the tasks alone.
LEMMA QuietKeeps ==
    ASSUME IInv, UNCHANGED taskVars, TypeOK', StopsClean', ShutdownHasCaller',
           main' = "bootstrap" => main = "bootstrap", shut' = shut
    PROVE  IInv'
<1>1. Active' = Active /\ Unfinished' = Unfinished
  BY DEF Active, Unfinished, taskVars
<1> QED
  BY <1>1 DEF IInv, OneWriterPerKey, EveryTaskIsReachable, TableTrue, NoOrphans,
              NothingBeforeLoop, taskVars

LEMMA MainSteps ==
    ASSUME IInv, Bootstrapped \/ Turn \/ Leave
    PROVE  IInv'
<1>1. /\ TypeOK /\ NoOrphans /\ NothingBeforeLoop /\ ShutdownHasCaller
  BY DEF IInv
<1>2. CASE Bootstrapped
  <2>1. Active = {}
    BY <1>1, <1>2 DEF Bootstrapped, NothingBeforeLoop, Active, Running
  <2>2. Broad \in SUBSET Key /\ wanted' \subseteq Permanent \cup Dynamic
    BY <1>1, <1>2 DEF Key, Bootstrapped, TypeOK
  <2> QED
    BY <1>2, <2>1, <2>2, EnsuringKeeps DEF Bootstrapped
<1>3. CASE Turn
  <2>1. Active \subseteq Unfinished
    BY <1>1, <1>3 DEF Turn, NoOrphans, Active, Unfinished
  <2>2. PICK d \in SUBSET Dynamic : wanted' = DeepKeys(d) /\ Ensure(DeepKeys(d))
    BY <1>3 DEF Turn
  <2>3. DeepKeys(d) \in SUBSET Key /\ DeepKeys(d) \subseteq Permanent \cup Dynamic
    BY DEF DeepKeys, Key
  <2> QED
    BY <1>3, <2>1, <2>2, <2>3, EnsuringKeeps DEF Turn
<1>4. CASE Leave
  <2>1. CASE ~shut
    BY <1>4, <2>1, BeginKeeps DEF Leave, LeaveLoop
  <2>2. CASE shut
    <3>1. main' = "ended" /\ UNCHANGED <<interrupted, stop, wanted, shutVars, taskVars>>
      BY <1>4, <2>2 DEF Leave, LeaveLoop
    <3>2. closer = "other"
      BY <1>1, <1>4, <2>2 DEF Leave, ShutdownHasCaller, TypeOK
    <3>3. TypeOK' /\ StopsClean' /\ ShutdownHasCaller'
      BY <1>1, <3>1, <3>2 DEF TypeOK, StopsClean, ShutdownHasCaller, shutVars, taskVars
    <3> QED
      BY <3>1, <3>3, QuietKeeps DEF shutVars
  <2> QED
    BY <2>1, <2>2
<1> QED
  BY <1>2, <1>3, <1>4

LEMMA QuietSteps ==
    ASSUME IInv, BootstrapFails \/ Sent \/ Wake \/ Interrupt \/ Stop \/ Close \/ UNCHANGED vars
    PROVE  IInv'
<1>1. /\ TypeOK /\ NothingBeforeLoop /\ ShutdownHasCaller /\ StopsClean
  BY DEF IInv
<1>2. UNCHANGED taskVars /\ wanted' = wanted /\ shut' = shut /\ closer' = closer
      /\ awaited' = awaited
  BY DEF BootstrapFails, Sent, Wake, Interrupt, Stop, Close, vars, shutVars
<1>3. Unfinished' = Unfinished
  BY <1>2 DEF Unfinished, taskVars
<1>4. TypeOK' /\ (main' = "bootstrap" => main = "bootstrap")
  BY <1>1, <1>2 DEF TypeOK, BootstrapFails, Sent, Wake, Interrupt, Stop, Close, vars,
                    mainVars, shutVars, taskVars
<1>5. ShutdownHasCaller'
  BY <1>1, <1>2, <1>3 DEF ShutdownHasCaller, BootstrapFails, Sent, Wake, Interrupt, Stop,
                          Close, vars, mainVars
<1>6. StopsClean'
  <2>1. CASE BootstrapFails
    <3>1. Unfinished = {}
      BY <1>1, <2>1 DEF BootstrapFails, NothingBeforeLoop, Unfinished, Running
    <3> QED
      BY <1>3, <3>1 DEF StopsClean
  <2>2. CASE Close
    BY <1>1, <1>2, <1>3, <2>2 DEF Close, StopsClean, ShutdownHasCaller, TypeOK
  <2>3. CASE Sent \/ Wake \/ Interrupt \/ Stop \/ UNCHANGED vars
    BY <1>1, <1>2, <1>3, <2>3 DEF Sent, Wake, Interrupt, Stop, vars, mainVars, StopsClean
  <2> QED
    BY <2>1, <2>2, <2>3
<1> QED
  BY <1>2, <1>4, <1>5, <1>6, QuietKeeps

LEMMA TaskSteps ==
    ASSUME IInv, NEW t \in Task,
           \/ Ends(t) \/ Unwinds(t) \/ KidsEnd(t) \/ ChildFails(t) \/ Handle(t) \/ Handled(t)
    PROVE  IInv'
<1>1. /\ TypeOK /\ NoOrphans
  BY DEF IInv
<1>2. /\ state[t] \in Running \cup {"done", "none"} /\ kids[t] \in {"none", "running", "cancelled"}
      /\ state = [state EXCEPT ![t] = state[t]] /\ kids = [kids EXCEPT ![t] = kids[t]]
      /\ state \in [Task -> Running \cup {"none", "done"}]
      /\ kids \in [Task -> {"none", "running", "cancelled"}]
  BY <1>1 DEF TypeOK
<1>3. CASE Ends(t) \/ Unwinds(t) \/ Handled(t)
  <2>1. /\ UNCHANGED <<main, interrupted, stop, shut, closer, closed, wanted, key, table, owned>>
        /\ state' = [state EXCEPT ![t] = "done"] /\ kids' = kids /\ awaited' = awaited \ {t}
        /\ state[t] \in Running
    BY <1>3 DEF Ends, Unwinds, Handled, End, mainVars, Running
  <2>2. state'[t] = "done" /\ "done" \notin Running /\ kids'[t] = kids[t]
    BY <1>2, <2>1 DEF Running
  <2>3. ~shut => kids[t] = "none"
    BY <1>1, <1>3 DEF Ends, Unwinds, Handled, NoOrphans
  <2> QED
    BY <1>2, <2>1, <2>2, <2>3, TaskStepKeeps
<1>4. CASE KidsEnd(t)
  <2>1. /\ UNCHANGED <<main, interrupted, stop, shut, closer, closed, wanted, key, table, owned>>
        /\ state' = state /\ kids' = [kids EXCEPT ![t] = "none"] /\ awaited' = awaited
    BY <1>4 DEF KidsEnd, SetKids, mainVars, shutVars
  <2>2. kids'[t] = "none" /\ state'[t] = state[t]
    BY <1>2, <2>1
  <2>3. ~shut => state[t] # "cancelling"
    BY <1>1 DEF NoOrphans
  <2> QED
    BY <1>2, <2>1, <2>2, <2>3, TaskStepKeeps
<1>5. CASE ChildFails(t) \/ Handle(t)
  <2>1. UNCHANGED <<main, interrupted, stop, shut, closer, closed, wanted, key, table, owned>>
        /\ awaited' = awaited
    BY <1>5 DEF ChildFails, Handle, SetKids, mainVars, shutVars
  <2>2. PICK s \in {"failing", "handling"} : state' = [state EXCEPT ![t] = s]
    BY <1>5 DEF ChildFails, Handle
  <2>3. PICK c \in {"running", "cancelled"} : kids' = [kids EXCEPT ![t] = c]
    BY <1>5 DEF ChildFails, Handle, SetKids
  <2>4. state[t] \in Running
    BY <1>5 DEF ChildFails, Handle, Running
  <2>5. state'[t] = s /\ s \in Running /\ s # "done" /\ s # "cancelling"
    BY <1>2, <2>2 DEF Running
  <2> QED
    BY <1>2, <2>1, <2>2, <2>3, <2>4, <2>5, TaskStepKeeps
<1> QED
  BY <1>3, <1>4, <1>5

\* The done callback takes the entry of the task it is for, and no other.
LEMMA ReapStep ==
    ASSUME IInv, NEW t \in Task, Reap(t)
    PROVE  IInv'
<1>1. /\ TypeOK /\ OneWriterPerKey /\ EveryTaskIsReachable /\ TableTrue /\ NoOrphans
      /\ NothingBeforeLoop /\ ShutdownHasCaller /\ StopsClean
  BY DEF IInv
<1>2. /\ UNCHANGED <<main, interrupted, stop, shut, closer, awaited, closed, wanted, key, kids>>
      /\ state[t] = "done" /\ state' = [state EXCEPT ![t] = "none"]
      /\ owned' = owned \ {t}
      /\ table' = IF table[key[t]] = t THEN [table EXCEPT ![key[t]] = NoTask] ELSE table
  BY DEF Reap, mainVars, shutVars
<1>3. TypeOK'
  BY <1>1, <1>2 DEF TypeOK
<1>4. "done" \notin Running /\ "none" \notin Running
  BY DEF Running
<1>5. state'[t] = "none" /\ \A u \in Task \ {t} : state'[u] = state[u]
  BY <1>1, <1>2 DEF TypeOK
<1>6. Unfinished' = Unfinished /\ Active' \subseteq Active /\ t \notin Unfinished
  BY <1>2, <1>4, <1>5 DEF Unfinished, Active
<1>7. \A k \in Key : table'[k] = table[k] \/ (table[k] = t /\ table'[k] = NoTask)
  BY <1>1, <1>2 DEF TypeOK
<1>8. \A k \in Key : table'[k] # t
  <2> SUFFICES ASSUME NEW k \in Key, table'[k] = t PROVE FALSE
    OBVIOUS
  <2>1. t # NoTask
    BY NoTaskIsNoTask
  <2>2. table[k] = t
    BY <1>7, <2>1
  <2>3. key[t] = k
    BY <1>1, <2>1, <2>2 DEF TableTrue
  <2> QED
    BY <1>1, <1>2, <2>1, <2>2, <2>3 DEF TypeOK
<1>9. OneWriterPerKey'
  BY <1>1, <1>2, <1>6 DEF OneWriterPerKey
<1>10. EveryTaskIsReachable'
  <2> SUFFICES ASSUME NEW u \in Unfinished PROVE u \in owned' /\ table'[key[u]] = u
    BY <1>2, <1>6 DEF EveryTaskIsReachable
  <2>1. u \in owned /\ table[key[u]] = u /\ u # t /\ u \in Task /\ key[u] \in Key
    BY <1>1, <1>6 DEF EveryTaskIsReachable, Unfinished, TypeOK
  <2> QED
    BY <1>2, <1>7, <2>1
<1>11. TableTrue'
  <2> SUFFICES ASSUME NEW k \in Key, table'[k] # NoTask
               PROVE  key[table'[k]] = k /\ state'[table'[k]] # "none"
    BY <1>2 DEF TableTrue
  <2>1. table'[k] = table[k] /\ table[k] # t /\ table[k] \in Task
    BY <1>1, <1>7, <1>8 DEF TypeOK
  <2> QED
    BY <1>1, <1>5, <2>1 DEF TableTrue
<1>12. NoOrphans'
  BY <1>1, <1>2, <1>4, <1>5 DEF NoOrphans
<1>13. NothingBeforeLoop' /\ ShutdownHasCaller' /\ StopsClean'
  BY <1>1, <1>2, <1>5, <1>6 DEF NothingBeforeLoop, ShutdownHasCaller, StopsClean
<1> QED
  BY <1>3, <1>9, <1>10, <1>11, <1>12, <1>13 DEF IInv

-----------------------------------------------------------------------------
(* The theorems                                                            *)

\* The tables are true of the tasks in every reachable state: with them the
\* reasons for the properties below hold, whatever order the loop, the done
\* callbacks, failures and shutdowns come in.
THEOREM InductiveInvariant == Spec => []IInv
<1>1. IInv /\ [Next]_vars => IInv'
  <2> SUFFICES ASSUME IInv, [Next]_vars PROVE IInv'
    OBVIOUS
  <2>1. CASE Bootstrapped \/ Turn \/ Leave
    BY <2>1, MainSteps
  <2>2. CASE BootstrapFails \/ Sent \/ Wake \/ Interrupt \/ Stop \/ Close \/ UNCHANGED vars
    BY <2>2, QuietSteps
  <2>3. CASE OtherShutdown
    BY <2>3, BeginKeeps DEF OtherShutdown, mainVars
  <2>4. ASSUME NEW t \in Task,
               \/ Ends(t) \/ Unwinds(t) \/ KidsEnd(t) \/ ChildFails(t) \/ Handle(t) \/ Handled(t)
        PROVE  IInv'
    BY <2>4, TaskSteps
  <2>5. ASSUME NEW t \in Task, Reap(t) PROVE IInv'
    BY <2>5, ReapStep
  <2> QED
    BY <2>1, <2>2, <2>3, <2>4, <2>5 DEF Next
<1> QED
  BY <1>1, InitIInv, PTL DEF Spec

\* The state of run_forever, of the task objects and of both tables keeps its
\* types.
THEOREM TypeCorrect == Spec => []TypeOK
<1>1. IInv => TypeOK
  BY DEF IInv
<1> QED
  BY <1>1, InductiveInvariant, PTL

\* No two tasks, nor a task and the children another left, ever run the
\* streams of one key (_ensure_stream_task, _stream_done, shutdown).
THEOREM OneWriter == Spec => []OneWriterPerKey
<1>1. IInv => OneWriterPerKey
  BY DEF IInv
<1> QED
  BY <1>1, InductiveInvariant, PTL

\* Every unfinished task is in _tasks and is the one _stream_tasks has for its
\* key, so that shutdown cancels it and no second one is started.
THEOREM TasksReachable == Spec => []EveryTaskIsReachable
<1>1. IInv => EveryTaskIsReachable
  BY DEF IInv
<1> QED
  BY <1>1, InductiveInvariant, PTL

\* When run_forever has ended and nobody else called shutdown, all of its tasks
\* have finished, an interrupted shutdown included.
THEOREM CleanStop == Spec => []StopsClean
<1>1. IInv => StopsClean
  BY DEF IInv
<1> QED
  BY <1>1, InductiveInvariant, PTL
==============================================================================
