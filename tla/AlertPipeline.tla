--------------------------- MODULE AlertPipeline ----------------------------
(***************************************************************************)
(* From a ranked candidate to a delivered alert: evaluate_stage2 of        *)
(* runtime/engine.py with make_stage2_decision (scanner/stage2.py),        *)
(* AlertEngine.maybe_alert (alerts/engine.py), the webhook dispatcher      *)
(* (alerts/webhook.py), the API's list of alerts and the storage.          *)
(*                                                                         *)
(* evaluate_stage2 suspends only while it delivers an alert; time passes   *)
(* and the market streams write their data there and between two rounds.   *)
(* A time is kept as an age, no longer counted once it is over its limit.  *)
(***************************************************************************)
EXTENDS Integers, Sequences, FiniteSets, Functions

CONSTANTS Symbol,
          OnFutures,      \* symbols with a Futures market
          Marks,          \* the sets of evidence groups a candidate may bring from
                          \* Stage 1 beside its liquidity
          MinGroups,      \* min_evidence_groups
          TickerLimit,    \* stale_thresholds.ticker_ms
          Cooldown,       \* alerts.cooldown_seconds
          WebhookEnabled,
          MaxRetries,     \* webhook.max_retries
          MaxAlerts,      \* bound: alerts of one symbol
          MaxListed       \* bound: a round starts with fewer alerts listed

ASSUME AlertAssumption ==
    /\ OnFutures \subseteq Symbol /\ IsFiniteSet(Symbol)
    /\ \A m \in Marks : IsFiniteSet(m)
    /\ {MinGroups, TickerLimit, Cooldown, MaxRetries, MaxAlerts, MaxListed} \subseteq Nat
    /\ WebhookEnabled \in BOOLEAN

VARIABLES
    pc,         \* evaluate_stage2: "idle" between rounds, "stage2", "sending", "ended"
    tickerAge,  \* age of the last rolling-ticker sample
    spot,       \* the other Spot data: "unfit" for an alert (stale, invalid or too
                \* little), or fit with the CVD "against" the move or "with" it
    futures,    \* no Futures book or mark price yet: "absent"; else its streams
                \* are "live", or "dead", and what they brought stays
    todo,       \* candidates of this round not yet evaluated
    pending,    \* alerts of this round, in the local list `alerts'
    attempt,    \* failed attempts to deliver the last of them
    since,      \* age of _last_emitted_at; Cooldown and more are one
    count,      \* _emission_counts
    listed,     \* api_state.alerts
    stored,     \* rows of the table "alerts"
    delivered,  \* alerts send returned "delivered" for
    failed,     \* failed_deliveries
    accepted,   \* history: alerts the receiver has taken, known to the engine or not
    confidence  \* evidence_confidence of the round's last alert

marketVars == <<tickerAge, spot, futures>>
engineVars == <<since, count, confidence>>
sendVars   == <<attempt, delivered, failed, accepted>>
outVars    == <<listed, stored>>
vars == <<pc, marketVars, todo, pending, engineVars, sendVars, outVars>>

Alert     == [symbol : Symbol, n : 1..MaxAlerts]
Candidate == [symbol : Symbol, marks : Marks, age : 0..(TickerLimit + 1)]

-----------------------------------------------------------------------------
(* make_stage2_decision and maybe_alert                                    *)

\* The evidence groups: what the reason codes of the candidate say, its
\* liquidity, which is Stage 1's gate over again, the flow of the fresh trades
\* and what the Futures context shows.  The engine passes no liquidations.
Groups(c, shows) ==
    {"liquidity"} \cup c.marks \cup shows
        \cup (IF spot[c.symbol] = "with" THEN {"spot_flow"} ELSE {})

\* Mutant: with a Futures context there must be Futures evidence.
IsWatchOnFutures(groups, context) ==
    /\ Cardinality(groups) >= MinGroups
    /\ IF context THEN groups \cap {"futures_basis", "futures_liquidity"} # {}
                  ELSE {"stage1_market_anomaly", "spot_flow"} \subseteq groups

\* The decision is "watch".  Without a Futures context the anomaly and the
\* Spot flow have to be among the groups.
IsWatch(groups, context) ==
    /\ Cardinality(groups) >= MinGroups
    /\ ~context => {"stage1_market_anomaly", "spot_flow"} \subseteq groups

\* _futures_context: None or not, whatever became of the streams; and what the
\* groups it adds may be.
HasContext(s) == futures[s] # "absent"
Shows(s) == IF HasContext(s) THEN SUBSET {"futures_basis", "futures_liquidity"} ELSE {{}}

Confidence(groups, context) ==
    IF ~context THEN "medium" ELSE IF Cardinality(groups) >= 4 THEN "high" ELSE "medium_high"

\* _suppression_reasons is empty.  The age of the ticker is the candidate's,
\* taken in Stage 1; the rest is what the data is now.
Passes(candidate) == candidate.age <= TickerLimit /\ spot[candidate.symbol] # "unfit"

CooledDown(s) == count[s] = 0 \/ since[s] >= Cooldown

\* maybe_alert returns an alert.
Alerts(c, shows) ==
    /\ Passes(c) /\ CooledDown(c.symbol)
    /\ IsWatch(Groups(c, shows), HasContext(c.symbol))

-----------------------------------------------------------------------------
(* The market streams and the clock                                        *)

Suspended == pc \in {"idle", "sending"}

\* A rolling-ticker message.
Sample(s) ==
    /\ Suspended
    /\ tickerAge' = [tickerAge EXCEPT ![s] = 0]
    /\ UNCHANGED <<pc, spot, futures, todo, pending, engineVars, sendVars, outVars>>

\* The book ticker, the depth book and the trades of a symbol become good
\* enough for an alert, or one of them stale, invalid or too little.
Market(s) ==
    /\ Suspended
    /\ spot' \in {[spot EXCEPT ![s] = q] : q \in {"unfit", "against", "with"}}
    /\ UNCHANGED <<pc, tickerAge, futures, todo, pending, engineVars, sendVars, outVars>>

\* The Futures streams bring a book and a mark price, fail, and come back; a
\* message without a price takes the mark price away.
FuturesStreams(s) ==
    /\ Suspended /\ s \in OnFutures
    /\ \E f \in (IF futures[s] = "live" THEN {"dead", "absent"} ELSE {"live"}) :
          futures' = [futures EXCEPT ![s] = f]
    /\ UNCHANGED <<pc, tickerAge, spot, todo, pending, engineVars, sendVars, outVars>>

Older(age, limit) == IF age < limit THEN age + 1 ELSE age

Tick ==
    /\ Suspended
    /\ tickerAge' = [s \in Symbol |-> Older(tickerAge[s], TickerLimit + 1)]
    /\ since' = [s \in Symbol |-> Older(since[s], Cooldown)]
    /\ UNCHANGED <<pc, spot, futures, todo, pending, count, confidence, sendVars, outVars>>

-----------------------------------------------------------------------------
(* evaluate_stage1 and evaluate_stage2                                     *)

\* A ranked list of candidates, each with the age of its last sample.  A
\* symbol that has had MaxAlerts is left out.
StartRound ==
    /\ pc = "idle" /\ Len(listed) < MaxListed
    /\ \E n \in 1..Cardinality(Symbol) :
          \E ranked \in {r \in [1..n -> {s \in Symbol : count[s] < MaxAlerts}] : IsInjective(r)},
             marks \in [1..n -> Marks] :
              todo' = [i \in 1..n |-> [symbol |-> ranked[i], marks |-> marks[i],
                                      age |-> tickerAge[ranked[i]]]]
    /\ pc' = "stage2"
    /\ UNCHANGED <<marketVars, pending, engineVars, sendVars, outVars>>

TakeCandidate == pc = "stage2" /\ todo # <<>> /\ todo' = Tail(todo)

\* maybe_alert returns an AlertSuppression.
Suppress ==
    /\ TakeCandidate
    /\ \E shows \in Shows(Head(todo).symbol) : ~Alerts(Head(todo), shows)
    /\ UNCHANGED <<pc, marketVars, pending, engineVars, sendVars, outVars>>

\* Mutant: the alert joins the list only when there is no webhook to wait for.
EmitUnlisted ==
    /\ TakeCandidate
    /\ LET c == Head(todo)
           s == c.symbol
           n == count[s] + 1
       IN  \E shows \in Shows(s) :
              /\ Alerts(c, shows)
              /\ count' = [count EXCEPT ![s] = n]
              /\ since' = [since EXCEPT ![s] = 0]
              /\ confidence' = Confidence(Groups(c, shows), HasContext(s))
              /\ pending' = IF WebhookEnabled THEN pending ELSE
                             Append(pending, [symbol |-> s, n |-> n])
    /\ pc' = IF WebhookEnabled THEN "sending" ELSE "stage2"
    /\ attempt' = 0
    /\ UNCHANGED <<marketVars, delivered, failed, accepted, outVars>>

\* maybe_alert returns an alert, and its delivery begins.
Emit ==
    /\ TakeCandidate
    /\ LET c == Head(todo)
           s == c.symbol
           n == count[s] + 1
       IN  \E shows \in Shows(s) :
              /\ Alerts(c, shows)
              /\ count' = [count EXCEPT ![s] = n]
              /\ since' = [since EXCEPT ![s] = 0]
              /\ confidence' = Confidence(Groups(c, shows), HasContext(s))
              /\ pending' = Append(pending, [symbol |-> s, n |-> n])
    /\ pc' = IF WebhookEnabled THEN "sending" ELSE "stage2"
    /\ attempt' = 0
    /\ UNCHANGED <<marketVars, delivered, failed, accepted, outVars>>

\* The decisions are written, the alerts join the API's list and are written,
\* one partition after the other.  A write that fails raises and ends
\* run_forever.
EndRound ==
    /\ pc = "stage2" /\ todo = <<>>
    /\ \/ /\ listed' = listed \o pending
          /\ stored' = stored \cup Range(pending)
          /\ pc' = "idle"
       \/ /\ pending # <<>>
          /\ listed' = listed \o pending
          /\ \E written \in SUBSET Range(pending) : stored' = stored \cup written
          /\ pc' = "ended"
       \/ pc' = "ended" /\ UNCHANGED outVars
    /\ pending' = <<>> /\ confidence' = "none"
    /\ UNCHANGED <<marketVars, todo, since, count, sendVars>>

Sent == pending[Len(pending)]

\* What the receiver has taken when no answer, or a bad one, comes: the alert
\* being sent may have reached it all the same.
MayHaveTaken == {accepted} \cup (IF pc = "sending" THEN {accepted \cup {Sent}} ELSE {})

\* run_forever is cancelled where it waits.
Cancel ==
    /\ Suspended
    /\ accepted' \in MayHaveTaken
    /\ pc' = "ended" /\ todo' = <<>> /\ pending' = <<>> /\ confidence' = "none"
    /\ UNCHANGED <<marketVars, since, count, attempt, delivered, failed, outVars>>

-----------------------------------------------------------------------------
(* AsyncWebhookDispatcher.send                                             *)

\* Mutant: after the last attempt the count starts over.
RetryForever ==
    /\ pc = "sending"
    /\ accepted' \in MayHaveTaken
    /\ attempt' = IF attempt < MaxRetries THEN attempt + 1 ELSE 0
    /\ UNCHANGED <<pc, marketVars, todo, pending, engineVars, delivered, failed, outVars>>

\* Mutant: one attempt more than max_retries + 1.
RetryOnceMore ==
    /\ pc = "sending"
    /\ accepted' \in MayHaveTaken
    /\ IF attempt <= MaxRetries
       THEN attempt' = attempt + 1 /\ UNCHANGED <<pc, failed>>
       ELSE failed' = failed \cup {Sent} /\ pc' = "stage2" /\ UNCHANGED attempt
    /\ UNCHANGED <<marketVars, todo, pending, engineVars, delivered, outVars>>

\* Mutant: a failed delivery is not recorded.
GiveUpSilently ==
    /\ pc = "sending"
    /\ accepted' \in MayHaveTaken
    /\ IF attempt < MaxRetries THEN attempt' = attempt + 1 /\ UNCHANGED pc
                               ELSE pc' = "stage2" /\ UNCHANGED attempt
    /\ UNCHANGED <<marketVars, todo, pending, engineVars, delivered, failed, outVars>>

\* The receiver's 2xx reaches the engine.
PostAccepted ==
    /\ pc = "sending"
    /\ accepted' = accepted \cup {Sent}
    /\ delivered' = delivered \cup {Sent}
    /\ pc' = "stage2"
    /\ UNCHANGED <<marketVars, todo, pending, engineVars, attempt, failed, outVars>>

\* Another status, an exception or a timeout, before the receiver took the
\* alert or after: sleep and try again, or record the failure after the last
\* attempt.
PostFails ==
    /\ pc = "sending"
    /\ accepted' \in MayHaveTaken
    /\ IF attempt < MaxRetries
       THEN attempt' = attempt + 1 /\ UNCHANGED <<pc, failed>>
       ELSE failed' = failed \cup {Sent} /\ pc' = "stage2" /\ UNCHANGED attempt
    /\ UNCHANGED <<marketVars, todo, pending, engineVars, delivered, outVars>>

-----------------------------------------------------------------------------
Init ==
    /\ pc = "idle"
    /\ tickerAge = [s \in Symbol |-> 0]
    /\ spot = [s \in Symbol |-> "unfit"] /\ futures = [s \in Symbol |-> "absent"]
    /\ todo = <<>> /\ pending = <<>> /\ attempt = 0
    /\ since = [s \in Symbol |-> 0] /\ count = [s \in Symbol |-> 0]
    /\ listed = <<>> /\ stored = {}
    /\ delivered = {} /\ failed = {} /\ accepted = {}
    /\ confidence = "none"

Environment == Tick \/ Cancel \/ \E s \in Symbol : Sample(s) \/ Market(s) \/ FuturesStreams(s)

Round == StartRound \/ Suppress \/ Emit \/ EndRound

Next == Environment \/ Round \/ PostAccepted \/ PostFails

\* The loop turns and every request comes to an end, each attempt within its
\* timeout.
Spec == /\ Init /\ [][Next]_vars
        /\ WF_vars(Round) /\ WF_vars(PostAccepted \/ PostFails)

-----------------------------------------------------------------------------
(* Invariants                                                              *)

TypeOK ==
    /\ pc \in {"idle", "stage2", "sending", "ended"}
    /\ tickerAge \in [Symbol -> 0..(TickerLimit + 1)]
    /\ spot \in [Symbol -> {"unfit", "against", "with"}]
    /\ futures \in [Symbol -> {"absent", "live", "dead"}]
    /\ todo \in Seq(Candidate) /\ pending \in Seq(Alert) /\ listed \in Seq(Alert)
    /\ confidence \in {"none", "medium", "medium_high", "high"}
    /\ attempt \in 0..MaxRetries
    /\ since \in [Symbol -> 0..Cooldown] /\ count \in [Symbol -> 0..MaxAlerts]
    /\ stored \cup delivered \cup failed \cup accepted \subseteq Alert

\* While the engine runs no alert is lost or doubled on its way to the API and
\* to storage: what _emission_counts says was emitted is in the API's list, or
\* is about to join it, exactly once; and what is listed is stored.
AlertsAccounted ==
    pc # "ended" =>
        LET out == listed \o pending
        IN  /\ IsInjective(out)
            /\ Range(out) = {a \in Alert : a.n <= count[a.symbol]}
            /\ stored = Range(listed)

\* With a webhook every alert listed or pending has exactly one outcome: "delivered",
\* failed for good, or still being sent.  What the engine calls delivered the
\* receiver has, through retries and answers that got lost, so an alert the
\* receiver lacks is on record as failed or is being sent; that a failed one may
\* have been accepted is all the engine can be wrong about.  The receiver has
\* nothing that the engine neither lists nor is about to list.
DeliveryAccounted ==
    WebhookEnabled /\ pc # "ended" =>
        LET out == Range(listed \o pending)
            now == IF pc = "sending" THEN {Sent} ELSE {}
        IN  /\ out = delivered \cup failed \cup now
            /\ delivered \cap failed = {} /\ now \cap (delivered \cup failed) = {}
            /\ delivered \subseteq accepted /\ accepted \subseteq out

\* FR-FUTURES-005: the Futures side "must not stop a healthy Spot-only scanner":
\* a candidate whose Spot evidence is enough for an alert is alerted, whatever
\* the Futures streams brought, stopped bringing or never brought.
FuturesNeverSilences ==
    [][TakeCandidate =>
          LET c == Head(todo)
          IN  Passes(c) /\ CooledDown(c.symbol) /\ IsWatch(Groups(c, {}), FALSE)
                  => count'[c.symbol] = count[c.symbol] + 1]_vars

\* The part of the inductive invariant behind the theorems of
\* AlertPipeline_proofs that is no property itself: a symbol comes once in a
\* round, and what evaluate_stage2 keeps in its locals is empty outside it.
RoundTrue ==
    /\ \A i, j \in 1..Len(todo) : todo[i].symbol = todo[j].symbol => i = j
    /\ \A i \in 1..Len(todo) : count[todo[i].symbol] < MaxAlerts
    /\ pc \notin {"stage2", "sending"} => todo = <<>> /\ pending = <<>>
    /\ pc = "sending" => pending # <<>> /\ WebhookEnabled

IInv == TypeOK /\ RoundTrue /\ AlertsAccounted /\ DeliveryAccounted

-----------------------------------------------------------------------------
(* Liveness                                                                *)

\* FR-WEBHOOK-002, bounded retry: whatever the receiver does, every round ends
\* and the loop evaluates the market again, or the engine has stopped.
RoundsEnd == []<>(pc \in {"idle", "ended"})

-----------------------------------------------------------------------------
(* What the documents say and the code does not do                         *)

\* FR-ALERT-006: "market alerts must be suppressed when required data is
\* stale": an alert is emitted only while the ticker of its symbol is fresh.
EmittedWhileFresh ==
    [][\A s \in Symbol : count'[s] > count[s] => tickerAge[s] <= TickerLimit]_vars

\* FR-FUTURES-005: "unavailable Futures data must lower evidence confidence": an
\* alert emitted while the Futures streams of its symbol are not running has the
\* confidence of an alert on Spot alone.
UnavailableLowersConfidence ==
    [][\A s \in Symbol :
          count'[s] > count[s] /\ futures[s] # "live" => confidence' = "medium"]_vars
=============================================================================
