--------------------------- MODULE AlertWatchdog ---------------------------
(***************************************************************************)
(* scripts/binance_alert_watchdog.py between the monitor's API, which      *)
(* serves the latest alerts of an engine that may be restarted, and the    *)
(* reader of what the script prints.  Something outside starts the script  *)
(* again and again, and nothing in it keeps two runs apart.                *)
(*                                                                         *)
(* A run loads its state file, asks the API, replaces the file and prints. *)
(* What happens between two of these is up to the other actors; a run may  *)
(* also die between any two of them.                                       *)
(*                                                                         *)
(* Alerts are numbered in the order in which they are emitted: emitted_at  *)
(* does not decrease and the sort by it is stable.  alert_id contains the  *)
(* time and a count, so two alerts never share one.                        *)
(***************************************************************************)
EXTENDS Integers, Sequences, FiniteSets

CONSTANTS Runs,           \* runs of the script that can exist at the same time
          ServeLimit,     \* alerts that /alerts/recent returns at most (100)
          SeenLimit,      \* MAX_SEEN_ALERTS (1000)
          NoticeInterval, \* ERROR_NOTICE_INTERVAL
          MaxAlerts,      \* bound: alerts emitted
          MaxTime,        \* bound: the clock
          MaxFaults       \* bound: things that go wrong

ASSUME WatchdogAssumption ==
    /\ {ServeLimit, SeenLimit, NoticeInterval, MaxAlerts, MaxTime, MaxFaults} \subseteq Nat
    /\ 1 <= ServeLimit /\ ServeLimit <= SeenLimit /\ 1 <= MaxTime

VARIABLES
    since,      \* alerts emitted by earlier engines, whose lists are gone
    emitted,    \* alerts emitted so far: api_state.alerts is since + 1 .. emitted
    clock,
    disk,       \* the state file
    run,        \* run[r] is where run r is and what it has in its variables
    shown,      \* shown[a] says how often alert a was printed
    noticed,    \* time of the last error notice that was printed
    faults,     \* things that went wrong so far
    baseline,   \* history: alerts a first run has taken as known
    lost,       \* history: alerts of runs that died before they printed
    overlapped  \* history: a run was started while another was under way

apiVars   == <<since, emitted>>
printed   == <<shown, noticed>>
histories == <<baseline, lost, overlapped>>
vars == <<since, emitted, clock, disk, run, shown, noticed, faults, baseline, lost, overlapped>>

Alert == 1..MaxAlerts

Elements(s) == {s[i] : i \in DOMAIN s}

Last(s, n) == SubSeq(s, (IF Len(s) > n THEN Len(s) - n ELSE 0) + 1, Len(s))

Never == 0                                  \* last_error_notice_at is None

\* The state of a missing or unreadable file.
Fresh == [initialized |-> FALSE, seen |-> <<>>, notice |-> Never]

Idle == [pc |-> "idle"]

Fault == faults < MaxFaults /\ faults' = faults + 1

-----------------------------------------------------------------------------
(* The monitor                                                             *)

\* evaluate_stage2 adds an alert to the API's list.
Emit == /\ emitted < MaxAlerts
        /\ emitted' = emitted + 1
        /\ UNCHANGED <<since, clock, disk, run, printed, faults, histories>>

\* A new engine begins with an empty list.
Restart == /\ since < emitted /\ Fault
           /\ since' = emitted
           /\ UNCHANGED <<emitted, clock, disk, run, printed, histories>>

Tick == /\ clock < MaxTime
        /\ clock' = clock + 1
        /\ UNCHANGED <<apiVars, disk, run, printed, faults, histories>>

\* /alerts/recent: alerts[-100:]
Served == Last([i \in 1..(emitted - since) |-> since + i], ServeLimit)

-----------------------------------------------------------------------------
(* A run of the script                                                     *)

\* _load_state; the time of the run is taken here.
Start(r) ==
    /\ run[r] = Idle
    /\ \/ run' = [run EXCEPT ![r] = [pc |-> "fetching", at |-> clock, state |-> disk]]
          /\ UNCHANGED faults
       \/ /\ Fault                          \* the file cannot be read
          /\ run' = [run EXCEPT ![r] = [pc |-> "fetching", at |-> clock, state |-> Fresh]]
    /\ overlapped' = (overlapped \/ \E q \in Runs \ {r} : run[q] # Idle)
    /\ UNCHANGED <<apiVars, clock, disk, printed, baseline, lost>>

\* The loop of _bounded_seen: the values without repetitions.
Unique[values \in Seq(Alert)] ==
    LET unique[i \in 0..Len(values)] ==
            IF i = 0 THEN <<>>
            ELSE IF \E j \in 1..(i - 1) : values[j] = values[i] THEN unique[i - 1]
            ELSE Append(unique[i - 1], values[i])
    IN  unique[Len(values)]

\* Mutants: no slice; the slice at the wrong end.
EverySeen(values) == Unique[values]

FirstSeen(values) ==
    LET all == Unique[values]
    IN  SubSeq(all, 1, IF Len(all) > SeenLimit THEN SeenLimit ELSE Len(all))

\* _bounded_seen: the last SeenLimit.
BoundedSeen(values) == Last(Unique[values], SeenLimit)

\* Mutant: only the latest alert is new.
Latest(state, keys) ==
    IF state.initialized /\ keys # <<>> THEN {keys[Len(keys)]} \ Elements(state.seen) ELSE {}

\* new_alerts; a first run takes what it finds as known.
NewAlerts(state, keys) ==
    IF state.initialized THEN Elements(keys) \ Elements(state.seen) ELSE {}

\* fetch_confirmed_alerts returns, and the run decides what to save and print.
Fetch(r) ==
    /\ run[r].pc = "fetching"
    /\ LET state == run[r].state
       IN  run' = [run EXCEPT ![r] =
                     [pc    |-> "saving",
                      state |-> [initialized |-> TRUE, seen |-> BoundedSeen(state.seen \o Served),
                                 notice |-> Never],
                      new   |-> NewAlerts(state, Served),
                      known |-> IF state.initialized THEN {} ELSE Elements(Served),
                      error |-> Never]]
    /\ UNCHANGED <<apiVars, clock, disk, printed, faults, histories>>

\* _handle_api_error: a notice, unless the last one is recent.
Recent(notice, now) == notice # Never /\ now - notice < NoticeInterval

FetchFails(r) ==
    /\ run[r].pc = "fetching" /\ Fault
    /\ LET state == run[r].state
       IN  run' = [run EXCEPT ![r] =
                     IF Recent(state.notice, run[r].at) THEN Idle
                     ELSE [pc    |-> "saving",
                           state |-> [state EXCEPT !.notice = run[r].at],
                           new   |-> {},
                           known |-> {},
                           error |-> run[r].at]]
    /\ UNCHANGED <<apiVars, clock, disk, printed, histories>>

\* _save_state: the file is replaced as a whole.
Save(r) ==
    /\ run[r].pc = "saving"
    /\ disk' = run[r].state
    /\ run' = [run EXCEPT ![r].pc = "printing"]
    /\ baseline' = baseline \cup run[r].known
    /\ UNCHANGED <<apiVars, clock, printed, faults, lost, overlapped>>

\* main prints the text run_watchdog has returned.
Show(r) ==
    /\ run[r].pc = "printing"
    /\ shown' = [a \in Alert |-> shown[a] + (IF a \in run[r].new THEN 1 ELSE 0)]
    /\ noticed' = IF run[r].error = Never THEN noticed ELSE run[r].error
    /\ run' = [run EXCEPT ![r] = Idle]
    /\ UNCHANGED <<apiVars, clock, disk, faults, histories>>

\* The run is killed, or the file cannot be written.
Die(r) ==
    /\ run[r] # Idle /\ Fault
    /\ lost' = lost \cup (IF run[r].pc = "printing" THEN run[r].new ELSE {})
    /\ run' = [run EXCEPT ![r] = Idle]
    /\ UNCHANGED <<apiVars, clock, disk, printed, baseline, overlapped>>

-----------------------------------------------------------------------------
Init ==
    /\ since = 0 /\ emitted = 0
    /\ clock = 1
    /\ disk = Fresh
    /\ run = [r \in Runs |-> Idle]
    /\ shown = [a \in Alert |-> 0] /\ noticed = Never
    /\ faults = 0
    /\ baseline = {} /\ lost = {} /\ overlapped = FALSE

Next == \/ Emit \/ Restart \/ Tick
        \/ \E r \in Runs : Start(r) \/ Fetch(r) \/ FetchFails(r) \/ Save(r) \/ Show(r) \/ Die(r)

\* The script is started again and again, and the API answers in the end.
Fairness == \A r \in Runs : WF_vars(Start(r) \/ Fetch(r) \/ Save(r) \/ Show(r))

Spec == Init /\ [][Next]_vars /\ Fairness

-----------------------------------------------------------------------------
(* Invariants                                                              *)

State == [initialized : BOOLEAN, seen : Seq(Alert), notice : 0..MaxTime]

RunState ==
    {Idle} \cup [pc : {"fetching"}, at : 1..MaxTime, state : State]
           \cup [pc : {"saving", "printing"}, state : State,
                 new : SUBSET Alert, known : SUBSET Alert, error : 0..MaxTime]

TypeOK ==
    /\ emitted \in 0..MaxAlerts /\ since \in 0..emitted
    /\ clock \in 1..MaxTime
    /\ disk \in State /\ Len(disk.seen) <= SeenLimit
    /\ run \in [Runs -> RunState]
    /\ shown \in [Alert -> Nat] /\ noticed \in 0..MaxTime
    /\ faults \in 0..MaxFaults
    /\ baseline \subseteq Alert /\ lost \subseteq Alert /\ overlapped \in BOOLEAN

\* "only when new confirmed watches appear": over restarts of the engine, runs
\* that die, unreadable files and a list of remembered alerts that is cut, no
\* alert is printed twice, as long as runs do not overlap.
ShownOnce == ~overlapped => \A a \in Alert : shown[a] <= 1

Accounted(a) ==
    \/ shown[a] > 0 \/ a \in baseline \/ a \in lost
    \/ \E r \in Runs : run[r].pc = "printing" /\ a \in run[r].new

\* The state file is written before the text is printed: what it remembers was
\* printed, will be, or was known to a first run, or a run died in between.
\* This holds for overlapping runs, too, whichever file wins.
RememberedIsAccounted == \A a \in Elements(disk.seen) : Accounted(a)

\* The parts of the inductive invariant behind the theorems of
\* AlertWatchdog_proofs that are not properties themselves.

\* No file and no run remembers more than SeenLimit alerts.
Bounded == \A r \in Runs : run[r].pc # "idle" => Len(run[r].state.seen) <= SeenLimit

Printed == {a \in Alert : shown[a] > 0}

\* Nothing is printed, or about to be, before it is emitted.
NothingEarly ==
    /\ \A a \in Printed : a <= emitted
    /\ \A r \in Runs : run[r].pc \in {"saving", "printing"} => \A a \in run[r].new : a <= emitted

\* What a run has in its variables is accounted for, or it will see to it.
HeldIsAccounted ==
    \A r \in Runs :
        /\ run[r].pc = "fetching" => \A a \in Elements(run[r].state.seen) : Accounted(a)
        /\ run[r].pc = "saving" => \A a \in Elements(run[r].state.seen) :
                                      Accounted(a) \/ a \in run[r].new \cup run[r].known

\* The first alert the API serves.
Floor == (IF emitted - since > ServeLimit THEN emitted - ServeLimit ELSE since) + 1

Increasing(s) == \A i, j \in 1..Len(s) : i < j => s[i] < s[j]

\* A state remembers its alerts in the order in which they were emitted, and
\* every one served up to the last of them.
Orderly(state, floor, last) ==
    /\ Increasing(state.seen)
    /\ \A b \in Elements(state.seen) :
           /\ b <= last
           /\ \A a \in floor..b : a \in Elements(state.seen)
    /\ ~state.initialized => state.seen = <<>>

\* It remembers all of these alerts that are still served.
Remembers(state, alerts, floor) ==
    state.initialized => \A a \in alerts : a >= floor => a \in Elements(state.seen)

OneAtATime == \A q, r \in Runs : run[q] # Idle /\ run[r] # Idle => q = r

\* What a run has in its variables.
HoldsTrue(r) ==
    /\ run[r].pc = "fetching" =>
           Orderly(run[r].state, Floor, emitted) /\ Remembers(run[r].state, Printed, Floor)
    /\ run[r].pc = "saving" =>
           /\ Orderly(run[r].state, Floor, emitted)
           /\ Remembers(run[r].state, Printed \cup run[r].new, Floor)
    /\ run[r].pc = "printing" => Remembers(disk, run[r].new, Floor)
    /\ run[r].pc \in {"saving", "printing"} => run[r].new \cap Printed = {}

\* As long as runs do not overlap: what was printed and is still served is in
\* the file and in the variables of the run that is under way; and what that
\* run will print was not printed yet.
Serial ==
    ~overlapped => /\ OneAtATime
                   /\ Orderly(disk, Floor, emitted) /\ Remembers(disk, Printed, Floor)
                   /\ \A r \in Runs : HoldsTrue(r)

IInv == /\ TypeOK /\ ShownOnce /\ RememberedIsAccounted
        /\ Bounded /\ NothingEarly /\ HeldIsAccounted /\ Serial

-----------------------------------------------------------------------------
(* Liveness                                                                *)

\* When the monitor has nothing to add, whatever is still on the API's list
\* has been printed, unless a first run knew it or a run died over it.
ServedIsShown ==
    <>[](\A a \in Elements(Served) : shown[a] > 0 \/ a \in baseline \cup lost)

=============================================================================
