------------------------------- MODULE Scanner -------------------------------
(***************************************************************************)
(* Stage 1: from the exchange's market through the broad streams and the   *)
(* closed klines into the histories, and from the histories to the ranked  *)
(* candidates.  The handlers, bootstrap and evaluate_stage1 of             *)
(* runtime/engine.py with calculate_stage1_candidate and                   *)
(* rank_stage1_candidates of scanner/stage1.py.                            *)
(*                                                                         *)
(* Time is counted in the intervals of the rolling ticker, seconds, which  *)
(* are the moments; every moment has its price and what was traded up to   *)
(* it, and the properties compare what Stage 1 says with them.  A message  *)
(* tells the truth of the moment of its event time; it may be lost, and a  *)
(* kline may come late.                                                    *)
(***************************************************************************)
EXTENDS Universe, Sequences

CONSTANTS Btc,
          Window,           \* 5 minutes
          Tolerance,        \* window_sample_tolerance_seconds
          MaxAge,           \* max_input_age_ms
          MinSpan,          \* min_history_span_minutes
          MinPoints,        \* min_history_points
          HistoryPoints,    \* stage1_history_points
          MinMove,          \* min_price_move_5m, in percent
          MinRatio,         \* min_relative_volume_5m
          Proximity,        \* range_proximity_bps
          BasePrice, Swings, MaxSwings,   \* bounds: the market's moves
          Calm, Burst,      \* traded while the price rests, while it moves
          Hour, Quiet,      \* traded in the hour before; what leaves the hour
          BusyAt, Busy,     \* at every moment, and what more at a certain one
          KlineEvery,       \* the interval of the klines
          KlineDelay,       \* bound: how late a kline may be
          MaxLost,          \* bound: tickers lost
          Horizon           \* bound: the moments of a behaviour

ASSUME ScannerAssumption ==
    /\ Btc \in Symbol
    /\ {Window, Tolerance, MaxAge, MinSpan, MinPoints, MinMove, MinRatio, Proximity,
        MaxSwings, Calm, Burst, Hour, Quiet, BusyAt, Busy,
        KlineDelay, MaxLost, Horizon} \subseteq Nat
    /\ KlineEvery \in Nat \ {0}
    /\ HistoryPoints \in Nat \ {0} /\ BasePrice \in Nat \ {0}
    /\ Swings \subseteq Nat

VARIABLES
    phase,      \* run_forever: "starting", "due" for an evaluation, "sleeping", "ended"
    now,        \* the moment
    price,      \* truth: the price at every moment so far
    traded,     \* truth: the quote volume up to every moment
    heard,      \* truth: the moments whose rolling ticker was received
    closed,     \* truth: the moments whose kline was received
    history,    \* histories
    quoted,     \* symbols whose book ticker is tight and deep enough
    universe,
    published,  \* api_state.candidates
    streamed    \* symbols whose deep streams run; nothing stops them

truthVars == <<now, price, traded>>
inputVars == <<heard, closed, history, quoted>>
outVars   == <<universe, published, streamed>>
vars == <<phase, truthVars, inputVars, outVars>>

-----------------------------------------------------------------------------
(* The exchange                                                            *)

\* What has left the hour up to a moment.
Left(t) == Quiet * t + IF t >= BusyAt THEN Busy ELSE 0

\* "q" of !ticker_1h@arr: the total of the last hour.
HourTotal(s, t) == Hour + traded[s][t] - Left(t)

\* "q" of a closed kline: what its interval traded.
KlineVolume(s, t) ==
    LET upTo(u) == IF u >= 1 THEN traded[s][u] ELSE Calm * (u - 1)
    IN  upTo(t) - upTo(t - KlineEvery)

Moves == {m \in Symbol \X (2..now) : price[m[1]][m[2]] # price[m[1]][m[2] - 1]}

Lost == {m \in Symbol \X (1..now) : m[2] \notin heard[m[1]]}

\* The next moment; the loop's next round is due, or its sleep goes on.
Tick ==
    /\ phase = "sleeping" /\ now < Horizon
    /\ phase' \in {"due", "sleeping"}
    /\ Cardinality(Lost) <= MaxLost
    /\ now' = now + 1
    /\ \E swing \in [Symbol -> {0} \cup Swings \cup {-x : x \in Swings}] :
          /\ Cardinality(Moves) + Cardinality({s \in Symbol : swing[s] # 0}) <= MaxSwings
          /\ \A s \in Symbol : price[s][now] + swing[s] > 0
          /\ price' = [s \in Symbol |-> Append(price[s], price[s][now] + swing[s])]
          /\ traded' = [s \in Symbol |-> Append(traded[s],
                            traded[s][now] + IF swing[s] = 0 THEN Calm ELSE Burst)]
    /\ UNCHANGED <<inputVars, outVars>>

-----------------------------------------------------------------------------
(* The handlers                                                            *)

Live == phase \in {"due", "sleeping"}

Sample(s, t, volume) == [time |-> t, price |-> price[s][t], volume |-> volume]

\* Mutant: the deque has no maxlen.
PutUnbounded(queue, sample) == Append(queue, sample)

\* Mutant: a full deque keeps what it has.
PutUnlessFull(queue, sample) ==
    IF Len(queue) < HistoryPoints THEN Append(queue, sample) ELSE queue

\* A deque with a maxlen.
Put(queue, sample) ==
    IF Len(queue) < HistoryPoints THEN Append(queue, sample)
    ELSE Append(Tail(queue), sample)

Accepted(s) == s \in universe \/ s = Btc

\* _handle_spot_rolling_ticker, with the symbols that changed.
RollingTicker(items) ==
    /\ Live
    /\ \A s \in items : now \notin heard[s]
    /\ heard' = [s \in Symbol |-> IF s \in items THEN heard[s] \cup {now} ELSE heard[s]]
    /\ history' = [s \in Symbol |->
                      IF s \in items /\ Accepted(s)
                      THEN Put(history[s], Sample(s, now, HourTotal(s, now)))
                      ELSE history[s]]
    /\ UNCHANGED <<phase, truthVars, closed, quoted, outVars>>

\* _handle_spot_book_ticker: the spread and the depth of the symbol are within
\* Stage 1's limits, or they are not.
BookTicker(s) ==
    /\ Live
    /\ quoted' \in {quoted \cup {s}, quoted \ {s}}
    /\ UNCHANGED <<phase, truthVars, heard, closed, history, outVars>>

\* _handle_spot_closed_kline
ClosedKline(s, t) ==
    /\ Live /\ s \in streamed
    /\ t >= 1 /\ \A u \in closed[s] : u + KlineEvery <= t
    /\ closed' = [closed EXCEPT ![s] = @ \cup {t}]
    /\ history' = IF Accepted(s)
                  THEN [history EXCEPT ![s] = Put(@, Sample(s, t, KlineVolume(s, t)))]
                  ELSE history
    /\ UNCHANGED <<phase, truthVars, heard, quoted, outVars>>

-----------------------------------------------------------------------------
(* calculate_stage1_candidate                                              *)

\* _sample_at_or_before of the samples sorted by time: the place of the latest
\* sample up to the cutoff, of the last to arrive among equals; 0 is None.
AtOrBefore(h, cutoff) ==
    LET eligible == {i \in DOMAIN h : h[i].time <= cutoff}
        IsLatest(i) == \A j \in eligible : \/ h[j].time < h[i].time
                                           \/ h[j].time = h[i].time /\ j <= i
    IN  IF \E i \in eligible : IsLatest(i) THEN CHOOSE i \in eligible : IsLatest(i) ELSE 0

\* Mutant: however old the sample is.
NearCutoffAnyAge(h, cutoff) == AtOrBefore(h, cutoff)

\* _sample_near_cutoff
NearCutoff(h, cutoff) ==
    LET i == AtOrBefore(h, cutoff)
    IN  IF i # 0 /\ cutoff - h[i].time <= Tolerance THEN i ELSE 0

Newest(h) == AtOrBefore(h, now)

\* The place of the sample of 5, 10 and 15 minutes before the newest one.
Start(h, windows) == NearCutoff(h, h[Newest(h)].time - windows * Window)

\* The gates before the features.
Judged(s) ==
    LET h == history[s]
        newest == h[Newest(h)]
    IN  /\ s \in quoted /\ Len(h) >= MinPoints /\ Newest(h) # 0
        /\ \E i \in DOMAIN h : newest.time - h[i].time >= MinSpan
        /\ \A windows \in {1, 2, 3} : Start(h, windows) # 0
        /\ now - newest.time <= MaxAge

\* return_5m, without its denominator.
Change(h) == h[Newest(h)].price - h[Start(h, 1)].price

\* Mutant: a fall is not cut to 0.
GrownUncut(from, to) == to - from

Grown(from, to) == IF to > from THEN to - from ELSE 0

\* quote_volume_5m_delta and prior_quote_volume_delta
VolumeDelta(h) == Grown(h[Start(h, 1)].volume, h[Newest(h)].volume)
PriorDelta(h)  == Grown(h[Start(h, 2)].volume, h[Start(h, 1)].volume)

\* btc_relative_return > 0: the return against _window_return of the samples of
\* BTCUSDT, which is 0 when they have no start.
BeatsBtc(h) ==
    LET b == history[Btc]
    IN  IF Newest(b) # 0 /\ Start(b, 1) # 0
        THEN Change(h) * b[Start(b, 1)].price > Change(b) * h[Start(h, 1)].price
        ELSE Change(h) > 0

\* The prices of the last 15 minutes.
RecentPrices(h) ==
    LET from == h[Newest(h)].time - 3 * Window
    IN  {h[i].price : i \in {j \in DOMAIN h : h[j].time >= from}}

AtHigh(h) ==
    LET last == h[Newest(h)].price
    IN  \A p \in RecentPrices(h) : (p - last) * 10000 <= Proximity * p

AtLow(h) ==
    LET last == h[Newest(h)].price
    IN  \A p \in RecentPrices(h) : (last - p) * 10000 <= Proximity * p

When(condition, reason) == IF condition THEN {reason} ELSE {}

\* The reason codes that follow from prices and volumes.
Reasons(h) ==
    LET change == Change(h)
        start == h[Start(h, 1)].price
        delta == VolumeDelta(h)
        prior == PriorDelta(h)
    IN  When(change > 0, "momentum")
        \cup When(100 * change >= MinMove * start, "price_rise_5m")
        \cup When(100 * change <= -(MinMove * start), "price_fall_5m")
        \cup When(prior > 0 /\ delta >= MinRatio * prior, "relative_volume")
        \cup When(prior > 0 /\ delta > prior, "volume_expansion")
        \cup When(BeatsBtc(h), "btc_relative_strength")
        \cup When(change > 0 /\ AtHigh(h), "local_high_proximity")
        \cup When(change < 0 /\ AtLow(h), "local_low_proximity")

\* Those that volatility and the trade counts may add.
OtherReasons(h) == {"trade_acceleration"} \cup When(Change(h) # 0, "normalized_impulse")

Candidate(s) ==
    LET h == history[s]
    IN  [symbol |-> s, at |-> now, time |-> h[Newest(h)].time,
         change |-> Change(h), volume |-> VolumeDelta(h)]

-----------------------------------------------------------------------------
(* bootstrap, evaluate_stage1 and the loop                                 *)

\* bootstrap; it raises when no volume is usable.
Bootstrap ==
    /\ phase = "starting"
    /\ \E listing \in [Symbol -> Metadata], volumes \in Volumes :
          IF \A s \in Symbol : volumes[s] = NoVolume
          THEN phase' = "ended" /\ UNCHANGED universe
          ELSE phase' = "due" /\ universe' = Selected(listing, volumes)
    /\ UNCHANGED <<truthVars, inputVars, published, streamed>>

\* The candidates of three reasons or more, ranked and cut; then their deep
\* streams, and those of the permanent symbols, are started where they do not
\* run.  A failing write of the candidates raises and ends run_forever.
Evaluate ==
    /\ phase = "due"
    /\ LET judged == {s \in universe : Judged(s)}
           sure == {s \in judged : Cardinality(Reasons(history[s])) >= 3}
           possible == {s \in judged : Cardinality(Reasons(history[s])
                                           \cup OtherReasons(history[s])) >= 3}
       IN  \E hot \in SUBSET possible : \E score \in [hot -> Score] :
              LET ranked == First(hot, score, MaxDynamic)
              IN  /\ sure \subseteq hot
                  /\ published' = {Candidate(s) : s \in ranked}
                  /\ \/ /\ phase' = "sleeping"
                        /\ streamed' = streamed \cup Permanent \cup ranked
                     \/ ranked # {} /\ phase' = "ended" /\ UNCHANGED streamed
    /\ UNCHANGED <<truthVars, inputVars, universe>>

Init ==
    /\ phase = "starting" /\ now = 1
    /\ price = [s \in Symbol |-> <<BasePrice>>] /\ traded = [s \in Symbol |-> <<0>>]
    /\ heard = [s \in Symbol |-> {}] /\ closed = [s \in Symbol |-> {}]
    /\ history = [s \in Symbol |-> <<>>] /\ quoted = {}
    /\ universe = {} /\ published = {} /\ streamed = {}

Stream ==
    \/ \E items \in SUBSET Symbol : RollingTicker(items)
    \/ \E s \in Symbol : BookTicker(s)
    \/ \E s \in Symbol, t \in (now - KlineDelay)..now : ClosedKline(s, t)

Next == Tick \/ Stream \/ Bootstrap \/ Evaluate

Spec == Init /\ [][Next]_vars

-----------------------------------------------------------------------------
(* Properties                                                              *)

TypeOK ==
    /\ phase \in {"starting", "due", "sleeping", "ended"}
    /\ now \in 1..(IF Horizon > 1 THEN Horizon ELSE 1)
    /\ price \in [Symbol -> [1..now -> Nat \ {0}]] /\ traded \in [Symbol -> [1..now -> Nat]]
    /\ history \in [Symbol -> Seq([time : 1..now, price : Nat \ {0}, volume : Int])]
    /\ \A s \in Symbol : Len(history[s]) <= HistoryPoints
    /\ heard \in [Symbol -> SUBSET (1..now)] /\ closed \in [Symbol -> SUBSET (1..now)]
    /\ quoted \cup universe \cup streamed \subseteq Symbol

\* The parts of the inductive invariants IInv and RInv behind the theorems of
\* Scanner_proofs that are not properties themselves.

\* A history holds what was true at the times of its samples; its volumes are
\* the hour's totals as long as no kline can have come.
HistoryTrue ==
    \A s \in Symbol : \A i \in DOMAIN history[s] :
        LET sample == history[s][i]
        IN  /\ sample.price = price[s][sample.time]
            /\ s \notin streamed => sample.volume = HourTotal(s, sample.time)

\* What was traded is never taken back.
TradedGrows ==
    \A s \in Symbol : \A t, u \in 1..now : t <= u => traded[s][t] <= traded[s][u]

PublishedTyped ==
    \A c \in published : c.symbol \in Symbol /\ c.at \in 1..now /\ c.time \in 1..now

\* A candidate tells a move that happened: its change is the difference between
\* the price at its newest sample, which was fresh, and the price at a moment
\* five minutes before, give or take the tolerance; whatever was lost, came late
\* or came from two streams.
MoveHappened ==
    \A c \in published :
        /\ c.time \in (c.at - MaxAge)..c.at
        /\ \E t \in (c.time - Window - Tolerance)..(c.time - Window) :
              t >= 1 /\ c.change = price[c.symbol][c.time] - price[c.symbol][t]

IInv == TypeOK /\ HistoryTrue /\ TradedGrows /\ PublishedTyped /\ MoveHappened

\* What a history has taken since the ticker of t, or more: the tickers after t
\* and the klines that may come after it.
Since(s, t) ==
    Cardinality({u \in heard[s] : u > t})
        + Cardinality({u \in closed[s] : u >= t - KlineDelay})

\* A watched symbol's ticker leaves the history only behind as many later
\* messages as the history has places: neither is one dropped on the way in nor
\* does the other feed push out more than its own number.
TickersRemembered ==
    \A s \in universe : \A t \in heard[s] :
        Since(s, t) < HistoryPoints =>
            \E i \in DOMAIN history[s] :
                history[s][i].time = t /\ Len(history[s]) - i <= Since(s, t)

\* Before the bootstrap nothing is heard, and two klines of a symbol are apart.
Apart ==
    /\ phase = "starting" => \A s \in Symbol : heard[s] = {}
    /\ \A s \in Symbol : \A u, v \in closed[s] : u < v => u + KlineEvery <= v

RInv == TickersRemembered /\ Apart

\* The caps hold, also while symbols tie and whatever the exchange lists.
ListsFit == Cardinality(universe) <= MaxUniverse /\ Cardinality(published) <= MaxDynamic

TradedSince(c) ==
    traded[c.symbol][c.time]
        - LET first == c.time - Window - Tolerance
          IN  IF first >= 1 THEN traded[c.symbol][first] ELSE 0

\* While only the rolling ticker feeds a symbol, the volume of five minutes that
\* its candidate claims was really traded within them, and is none where the
\* hour's total fell, as it does when a busier minute leaves the hour.
VolumeWasTraded ==
    [][\A c \in published' \ published :
          c.symbol \notin streamed => c.volume \in 0..TradedSince(c)]_vars

\* The symbol was heard at every moment of the last 15 minutes, rose by the
\* configured move in the last five and stands at the high of the 15.
Surges(s) ==
    LET moments == (now - 3 * Window)..now
    IN  /\ now > 3 * Window /\ moments \subseteq heard[s]
        /\ 100 * (price[s][now] - price[s][now - Window]) >= MinMove * price[s][now - Window]
        /\ price[s][now] > price[s][now - Window]
        /\ \A t \in moments : price[s][t] <= price[s][now]

\* Fifteen minutes are history enough to be judged, and a history has room for
\* their tickers and the klines that may come meanwhile.
FifteenMinutesFit ==
    /\ MinPoints <= 3 * Window + 1 /\ MinSpan <= 3 * Window
    /\ \E klines \in 0..HistoryPoints :
          /\ klines * KlineEvery > 3 * Window + KlineDelay
          /\ 3 * Window + klines < HistoryPoints

\* A tradable pair that surges is published by the next evaluation, unless the
\* list is full: no eviction from its history, late kline or tie hides it.
SurgeIsPublished ==
    [][phase = "due" /\ phase' # "due" =>
          \A s \in universe \cap quoted :
              Surges(s) => \/ \E c \in published' : c.symbol = s
                           \/ Cardinality(published') = MaxDynamic]_vars
=============================================================================
