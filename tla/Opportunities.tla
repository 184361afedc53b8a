---------------------------- MODULE Opportunities ----------------------------
(***************************************************************************)
(* binance_opportunities_list of the Hermes plugin (tools.py) beside the   *)
(* engine whose API it reads.  A call asks four endpoints one after the    *)
(* other and merges the answers; the engine publishes candidates, lists    *)
(* alerts and may be restarted between any two of the requests.  A call    *)
(* leaves nothing behind: its answer is looked at when it returns.         *)
(***************************************************************************)
EXTENDS Integers, Sequences, FiniteSetsExt

CONSTANTS Symbol,      \* numbers, in alphabetical order
          Score,       \* Stage 1 scores
          Watch,       \* watch scores
          Served,      \* the last alerts that /alerts/recent answers: 100
          Limits,      \* values of limit
          Floors,      \* values of min_stage1_score and of min_watch_score
          MaxAlerts    \* bound: alerts of one process

ASSUME OpportunitiesAssumption ==
    /\ Symbol \cup Score \cup Watch \subseteq Nat /\ IsFiniteSet(Symbol)
    /\ Limits \subseteq Nat \ {0} /\ Floors \subseteq Int
    /\ Served \in Nat \ {0} /\ MaxAlerts \in Nat

VARIABLES
    round,       \* evaluate_stage2 has yet to list the alerts of its round
    candidates,  \* api_state.candidates
    alerts,      \* api_state.alerts
    pc,          \* the endpoint the call asks next, "idle" or "returned"
    args,        \* its arguments
    fetched,     \* the candidates and the alerts it was answered
    answer,      \* the opportunities, or none after an error
    standing,    \* history: candidates at every moment of the call
    steady,      \* history: those, and the ones served at every moment since they
                 \* ceased to be
    known        \* history: per symbol the newest alert served as the call began,
                 \* 0 once none of the symbol's has been served

engineVars == <<round, candidates, alerts>>
callVars   == <<pc, args, fetched, answer>>
historyVars == <<standing, steady, known>>
vars == <<engineVars, callVars, historyVars>>

None == -1   \* as in _sort_key
Nobody == [symbols |-> {}, score |-> <<>>]

-----------------------------------------------------------------------------
(* What the API answers                                                    *)

\* Mutant: every alert is answered.
RecentAll(listed) ==
    {[n |-> i, symbol |-> listed[i].symbol, watch |-> listed[i].watch] : i \in DOMAIN listed}

\* recent_alerts; an alert's number stands for its time.
Recent(listed) ==
    {[n |-> i, symbol |-> listed[i].symbol, watch |-> listed[i].watch] :
        i \in {j \in DOMAIN listed : j > Len(listed) - Served}}

\* Mutant: the first of a symbol's alerts.
Earliest(recent, s) ==
    LET own == {a.n : a \in {b \in recent : b.symbol = s}}
    IN  IF own = {} THEN 0 ELSE Min(own)

\* _latest_alert_by_symbol: 0 without an alert.
Latest(recent, s) == Max({0} \cup {a.n : a \in {b \in recent : b.symbol = s}})

Alerted(listed, s) == Latest(Recent(listed), s) # 0

-----------------------------------------------------------------------------
(* The engine                                                              *)

\* What a call under way may still count on.
Follow ==
    /\ standing' = standing \cap candidates'.symbols
    /\ steady' = standing' \cup {s \in steady : Alerted(alerts', s)}
    /\ known' = [s \in Symbol |-> IF Alerted(alerts', s) THEN known[s] ELSE 0]

\* evaluate_stage1
Publish ==
    /\ pc # "returned" /\ ~round /\ round' = TRUE
    /\ \E symbols \in SUBSET Symbol : \E score \in [symbols -> Score] :
          candidates' = [symbols |-> symbols, score |-> score]
    /\ UNCHANGED <<alerts, callVars>> /\ Follow

\* The end of evaluate_stage2: the alerts of the round join the list, one of a
\* candidate at most.
ListAlerts ==
    /\ pc # "returned" /\ round /\ round' = FALSE
    /\ \E n \in 0..(MaxAlerts - Len(alerts)) :
          \E new \in [1..n -> [symbol : candidates.symbols, watch : Watch]] :
             /\ \A i, j \in 1..n : new[i].symbol = new[j].symbol => i = j
             /\ alerts' = alerts \o new
    /\ UNCHANGED <<candidates, callVars>> /\ Follow

\* A new process has an empty ApiState.
Restart ==
    /\ pc # "returned" /\ round' = FALSE /\ candidates' = Nobody /\ alerts' = <<>>
    /\ UNCHANGED callVars /\ Follow

-----------------------------------------------------------------------------
(* _merge_opportunities, _filter_opportunities and _sort_key               *)

\* _opportunity_from
Opportunity(s, from, recent) ==
    LET n == Latest(recent, s)
    IN  [symbol |-> s, alert |-> n,
         stage1 |-> IF s \in from.symbols THEN from.score[s] ELSE None,
         watch |-> IF n = 0 THEN None ELSE (CHOOSE a \in recent : a.n = n).watch]

Confirmed(o) == o.alert # 0

\* Mutant: an alert whose symbol is no candidate any more is left out.
MergedOfCandidates(from, recent) == {Opportunity(s, from, recent) : s \in from.symbols}

Merged(from, recent) ==
    {Opportunity(s, from, recent) : s \in from.symbols \cup {a.symbol : a \in recent}}

Passes(o, a) ==
    /\ a.confirmedOnly => Confirmed(o)
    /\ IF o.stage1 = None THEN a.minStage1 <= 0 ELSE o.stage1 >= a.minStage1
    /\ IF o.watch = None THEN a.minWatch <= 0 ELSE o.watch >= a.minWatch

\* _sort_key(o) < _sort_key(p)
Precedes(o, p) ==
    IF Confirmed(o) # Confirmed(p) THEN Confirmed(o)
    ELSE IF o.watch # p.watch THEN o.watch > p.watch
    ELSE IF o.stage1 # p.stage1 THEN o.stage1 > p.stage1
    ELSE o.symbol < p.symbol

\* _build_response
Response(from, recent, a) ==
    LET filtered == {o \in Merged(from, recent) : Passes(o, a)}
    IN  {o \in filtered : Cardinality({p \in filtered : Precedes(p, o)}) < a.limit}

-----------------------------------------------------------------------------
(* handle_binance_opportunities_list                                       *)

Args == [limit : Limits, minStage1 : Floors, minWatch : Floors \cap Nat,
         confirmedOnly : BOOLEAN]

NoArgs == [limit |-> 1, minStage1 |-> 0, minWatch |-> 0, confirmedOnly |-> FALSE]
Nothing == [candidates |-> Nobody, alerts |-> {}]
NoAnswer == [ok |-> FALSE, shown |-> {}]

\* _parse_args; arguments it refuses end the call at once.
Call ==
    /\ pc = "idle" /\ pc' = "candidates"
    /\ args' \in Args
    /\ standing' = candidates.symbols
    /\ steady' = standing' \cup {s \in Symbol : Alerted(alerts, s)}
    /\ known' = [s \in Symbol |-> Max({0} \cup
                    {i \in DOMAIN alerts : alerts[i].symbol = s /\ i > Len(alerts) - Served})]
    /\ UNCHANGED <<engineVars, fetched, answer>>

FetchCandidates ==
    /\ pc = "candidates" /\ pc' = "alerts"
    /\ fetched' = [fetched EXCEPT !.candidates = candidates]
    /\ UNCHANGED <<engineVars, args, answer, historyVars>>

FetchAlerts ==
    /\ pc = "alerts" /\ pc' = "health"
    /\ fetched' = [fetched EXCEPT !.alerts = Recent(alerts)]
    /\ UNCHANGED <<engineVars, args, answer, historyVars>>

FetchHealth ==
    /\ pc = "health" /\ pc' = "metrics"
    /\ UNCHANGED <<engineVars, args, fetched, answer, historyVars>>

\* The last request, and the response built from all four.
FetchMetrics ==
    /\ pc = "metrics" /\ pc' = "returned"
    /\ answer' = [ok |-> TRUE, shown |-> Response(fetched.candidates, fetched.alerts, args)]
    /\ fetched' = Nothing
    /\ UNCHANGED <<engineVars, args, historyVars>>

\* Any request fails, is redirected, times out or is answered with something
\* else: an error, and nothing of what was fetched before.
Fail ==
    /\ pc \in {"candidates", "alerts", "health", "metrics"} /\ pc' = "returned"
    /\ fetched' = Nothing
    /\ UNCHANGED <<engineVars, args, answer, historyVars>>

Return ==
    /\ pc = "returned" /\ pc' = "idle"
    /\ args' = NoArgs /\ answer' = NoAnswer
    /\ standing' = {} /\ steady' = {} /\ known' = [s \in Symbol |-> 0]
    /\ UNCHANGED <<engineVars, fetched>>

Init ==
    /\ round = FALSE /\ candidates = Nobody /\ alerts = <<>>
    /\ pc = "idle" /\ args = NoArgs /\ answer = NoAnswer
    /\ fetched = Nothing
    /\ standing = {} /\ steady = {} /\ known = [s \in Symbol |-> 0]

Engine == Publish \/ ListAlerts \/ Restart

Plugin == Call \/ FetchCandidates \/ FetchAlerts \/ FetchHealth \/ FetchMetrics \/ Fail \/ Return

Next == Engine \/ Plugin

Spec == Init /\ [][Next]_vars

-----------------------------------------------------------------------------
(* Properties                                                              *)

Published == UNION {[symbols : {symbols}, score : [symbols -> Score]] : symbols \in SUBSET Symbol}

TypeOK ==
    /\ round \in BOOLEAN
    /\ candidates \in Published
    /\ alerts \in Seq([symbol : Symbol, watch : Watch]) /\ Len(alerts) <= MaxAlerts
    /\ pc \in {"idle", "candidates", "alerts", "health", "metrics", "returned"}
    /\ args \in Args \cup {NoArgs}
    /\ fetched \in [candidates : Published,
                   alerts : SUBSET [n : 1..MaxAlerts, symbol : Symbol, watch : Watch]]
    /\ Cardinality(fetched.alerts) <= Served
    /\ Cardinality(answer.shown) <= args.limit
    /\ standing \subseteq Symbol /\ steady \subseteq Symbol /\ known \in [Symbol -> 0..MaxAlerts]

Answered == pc = "returned" /\ answer.ok

Shown(s) == \E o \in answer.shown : o.symbol = s

Unfiltered(s) == /\ args.minStage1 <= 0 /\ args.minWatch <= 0
                 /\ args.confirmedOnly => known[s] # 0

\* The four answers are of four moments.  All the same a symbol that gets from
\* the candidates to the alerts in the course of the call is not missed between
\* the two: one that was a candidate at every moment of the call, or served as an
\* alert at every moment since it ceased to be, is shown, unless the filter
\* excludes it or the limit is reached, and by confirmed ones only when it stayed
\* alerted all along.  It does not hold for the way back: the candidates are asked
\* first, so a symbol that becomes a candidate again and whose alert then drops
\* off the served ones can be missed, and so can all of them at a restart.
NothingMissed ==
    Answered =>
        \A s \in steady : Unfiltered(s) /\ ~Shown(s) =>
            /\ Cardinality(answer.shown) = args.limit
            /\ known[s] # 0 => \A o \in answer.shown : Confirmed(o)

\* A symbol some alert of which was served at every moment of the call is shown
\* with one, and with none older than the newest that was served as it began.
\* (One whose alerts dropped off meanwhile, or went with a restart, may be shown as
\* a mere candidate.)
NewestAlertShown ==
    Answered => \A o \in answer.shown : o.alert >= known[o.symbol]

\* The part of the inductive invariant behind the theorems of
\* Opportunities_proofs that is no property itself: where a call under way will
\* find, or has found, what it must not miss.
CallTrue ==
    /\ pc # "returned" => answer = NoAnswer
    /\ pc # "idle" => args \in Args
    /\ standing \subseteq steady
    /\ pc = "candidates" => standing \subseteq candidates.symbols
    /\ pc \in {"alerts", "health", "metrics"} => standing \subseteq fetched.candidates.symbols
    /\ \A s \in steady :
          /\ pc \in {"candidates", "alerts"} => s \in standing \/ Alerted(alerts, s)
          /\ pc \in {"health", "metrics"} =>
                s \in fetched.candidates.symbols \/ Latest(fetched.alerts, s) # 0
    /\ \A s \in Symbol :
          /\ pc \in {"candidates", "alerts"} => Latest(Recent(alerts), s) >= known[s]
          /\ pc \in {"health", "metrics"} => Latest(fetched.alerts, s) >= known[s]

IInv == TypeOK /\ CallTrue /\ NothingMissed /\ NewestAlertShown
=============================================================================
