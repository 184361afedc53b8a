------------------------- MODULE AlertPipeline_proofs -------------------------
(***************************************************************************)
(* Proofs about AlertPipeline: no alert is lost or doubled on its way to   *)
(* the API, to storage and to the webhook, for any number of symbols,      *)
(* retries and alerts; and the Futures data keeps no alert back.           *)
(***************************************************************************)
EXTENDS AlertPipeline, SequenceTheorems, FiniteSetTheorems, TLAPS

-----------------------------------------------------------------------------
(* Sequences that grow at their end                                        *)

LEMMA RangeAppend ==
    ASSUME NEW S, NEW s \in Seq(S), NEW x \in S
    PROVE  Range(Append(s, x)) = Range(s) \cup {x}
<1>1. /\ Append(s, x) \in Seq(S) /\ Len(Append(s, x)) = Len(s) + 1 /\ Len(s) \in Nat
      /\ \A i \in 1..Len(s) : Append(s, x)[i] = s[i]
      /\ Append(s, x)[Len(s) + 1] = x
  BY AppendProperties
<1>2. /\ Range(s) = {s[i] : i \in 1..Len(s)}
      /\ Range(Append(s, x)) = {Append(s, x)[i] : i \in 1..(Len(s) + 1)}
  BY <1>1, RangeEquality
<1> QED
  BY <1>1, <1>2

LEMMA ConcatAppend ==
    ASSUME NEW S, NEW s \in Seq(S), NEW t \in Seq(S), NEW x \in S
    PROVE  s \o Append(t, x) = Append(s \o t, x)
<1>1. <<x>> \in Seq(S) /\ s \o t \in Seq(S)
  BY ConcatProperties
<1>2. Append(t, x) = t \o <<x>> /\ Append(s \o t, x) = (s \o t) \o <<x>>
  BY <1>1, AppendIsConcat
<1> QED
  BY <1>1, <1>2, ConcatAssociative

LEMMA InjectiveAppend ==
    ASSUME NEW S, NEW s \in Seq(S), NEW x \in S, IsInjective(s), x \notin Range(s)
    PROVE  IsInjective(Append(s, x))
<1>1. /\ Append(s, x) \in Seq(S) /\ Len(Append(s, x)) = Len(s) + 1 /\ Len(s) \in Nat
      /\ \A i \in 1..Len(s) : Append(s, x)[i] = s[i]
      /\ Append(s, x)[Len(s) + 1] = x
  BY AppendProperties
<1>2. DOMAIN s = 1..Len(s) /\ DOMAIN Append(s, x) = 1..(Len(s) + 1)
  BY <1>1
<1>3. \A i \in 1..Len(s) : s[i] # x
  BY RangeEquality
<1>4. \A i, j \in 1..Len(s) : s[i] = s[j] => i = j
  BY <1>2 DEF IsInjective
<1>5. \A i, j \in 1..(Len(s) + 1) : Append(s, x)[i] = Append(s, x)[j] => i = j
  BY <1>1, <1>3, <1>4
<1> QED
  BY <1>2, <1>5 DEF IsInjective

-----------------------------------------------------------------------------
(* The invariant                                                           *)

LEMMA EmptySequences == <<>> \in Seq(Alert) /\ <<>> \in Seq(Candidate) /\ Range(<<>>) = {}
<1>1. <<>> \in Seq(Alert) /\ <<>> \in Seq(Candidate)
  OBVIOUS
<1> QED
  BY <1>1 DEF Range

LEMMA InitIInv == Init => IInv
<1> SUFFICES ASSUME Init PROVE IInv
  OBVIOUS
<1>1. TypeOK
  BY AlertAssumption, EmptySequences DEF Init, TypeOK
<1>2. listed \o pending = <<>>
  BY EmptySequences, ConcatEmptySeq DEF Init
<1>3. RoundTrue
  BY DEF Init, RoundTrue
<1>4. AlertsAccounted
  <2>1. IsInjective(<<>>)
    BY DEF IsInjective
  <2>2. {a \in Alert : a.n <= count[a.symbol]} = {}
    BY DEF Init, Alert
  <2> QED
    BY <1>2, <2>1, <2>2, EmptySequences DEF Init, AlertsAccounted
<1>5. DeliveryAccounted
  BY <1>2, EmptySequences DEF Init, DeliveryAccounted
<1> QED
  BY <1>1, <1>3, <1>4, <1>5 DEF IInv

\* The market streams and the clock.
LEMMA EnvironmentKeeps ==
    ASSUME IInv, Tick \/ \E s \in Symbol : Sample(s) \/ Market(s) \/ FuturesStreams(s)
    PROVE  IInv'
<1>1. TypeOK /\ RoundTrue /\ AlertsAccounted /\ DeliveryAccounted
  BY DEF IInv
<1>2. UNCHANGED <<pc, todo, pending, count, confidence, attempt, delivered, failed, accepted,
                  listed, stored>>
  BY DEF Tick, Sample, Market, FuturesStreams, engineVars, sendVars, outVars
<1>3. /\ tickerAge' \in [Symbol -> 0..(TickerLimit + 1)]
      /\ spot' \in [Symbol -> {"unfit", "against", "with"}]
      /\ futures' \in [Symbol -> {"absent", "live", "dead"}]
      /\ since' \in [Symbol -> 0..Cooldown]
  <2>1. CASE Tick
    <3>1. \A limit \in Nat : \A age \in 0..limit : Older(age, limit) \in 0..limit
      BY DEF Older
    <3>2. TickerLimit + 1 \in Nat /\ Cooldown \in Nat
      BY AlertAssumption
    <3>3. \A s \in Symbol : /\ Older(tickerAge[s], TickerLimit + 1) \in 0..(TickerLimit + 1)
                            /\ Older(since[s], Cooldown) \in 0..Cooldown
      BY <1>1, <3>1, <3>2 DEF TypeOK
    <3> QED
      BY <1>1, <2>1, <3>3 DEF Tick, TypeOK
  <2>2. ASSUME NEW s \in Symbol, Sample(s) PROVE <1>3
    BY <1>1, <2>2, AlertAssumption DEF Sample, TypeOK, engineVars
  <2>3. ASSUME NEW s \in Symbol, Market(s) PROVE <1>3
    BY <1>1, <2>3 DEF Market, TypeOK, engineVars
  <2>4. ASSUME NEW s \in Symbol, FuturesStreams(s) PROVE <1>3
    BY <1>1, <2>4 DEF FuturesStreams, TypeOK, engineVars
  <2> QED
    BY <2>1, <2>2, <2>3, <2>4
<1>4. TypeOK'
  BY <1>1, <1>2, <1>3 DEF TypeOK
<1>5. RoundTrue' /\ AlertsAccounted' /\ DeliveryAccounted'
  BY <1>1, <1>2 DEF RoundTrue, AlertsAccounted, DeliveryAccounted, Sent
<1> QED
  BY <1>4, <1>5 DEF IInv

\* What is being sent is an alert.
LEMMA SentType ==
    ASSUME TypeOK, RoundTrue, pc = "sending"
    PROVE  Sent \in Alert /\ WebhookEnabled
<1>1. pending \in Seq(Alert) /\ pending # <<>> /\ WebhookEnabled
  BY DEF TypeOK, RoundTrue
<1>2. Len(pending) \in 1..Len(pending)
  BY <1>1
<1> QED
  BY <1>1, <1>2 DEF Sent

LEMMA CancelKeeps == IInv /\ Cancel => IInv'
<1> SUFFICES ASSUME IInv, Cancel PROVE IInv'
  OBVIOUS
<1>1. TypeOK'
  <2>1. pc = "sending" => Sent \in Alert
    BY SentType DEF IInv
  <2> QED
    BY <2>1, EmptySequences DEF IInv, TypeOK, Cancel, MayHaveTaken, marketVars, outVars
<1>2. RoundTrue' /\ AlertsAccounted' /\ DeliveryAccounted'
  BY DEF Cancel, RoundTrue, AlertsAccounted, DeliveryAccounted
<1> QED
  BY <1>1, <1>2 DEF IInv

LEMMA StartRoundKeeps == IInv /\ StartRound => IInv'
<1> SUFFICES ASSUME IInv, StartRound PROVE IInv'
  OBVIOUS
<1>1. TypeOK /\ RoundTrue /\ AlertsAccounted /\ DeliveryAccounted
  BY DEF IInv
<1>2. /\ pc = "idle" /\ pc' = "stage2"
      /\ UNCHANGED <<marketVars, pending, engineVars, sendVars, outVars>>
  BY DEF StartRound
<1>3. PICK n \in 1..Cardinality(Symbol) :
        \E ranked \in {r \in [1..n -> {s \in Symbol : count[s] < MaxAlerts}] : IsInjective(r)},
           marks \in [1..n -> Marks] :
              todo' = [i \in 1..n |-> [symbol |-> ranked[i], marks |-> marks[i],
                                      age |-> tickerAge[ranked[i]]]]
  BY DEF StartRound
<1>4. n \in Nat
  BY AlertAssumption, FS_CardinalityType
<1>5. PICK ranked \in [1..n -> {s \in Symbol : count[s] < MaxAlerts}], marks \in [1..n -> Marks] :
          /\ IsInjective(ranked)
          /\ todo' = [i \in 1..n |-> [symbol |-> ranked[i], marks |-> marks[i],
                                      age |-> tickerAge[ranked[i]]]]
  BY <1>3
<1>6. \A i \in 1..n : /\ todo'[i] \in Candidate /\ todo'[i].symbol = ranked[i]
                      /\ count[ranked[i]] < MaxAlerts
  BY <1>1, <1>5 DEF Candidate, TypeOK
<1>7. todo' \in Seq(Candidate) /\ Len(todo') = n
  BY <1>4, <1>5, <1>6
<1>8. \A i, j \in 1..n : ranked[i] = ranked[j] => i = j
  BY <1>5 DEF IsInjective
<1>9. TypeOK'
  BY <1>1, <1>2, <1>7 DEF TypeOK, marketVars, engineVars, sendVars, outVars
<1>10. RoundTrue'
  BY <1>2, <1>6, <1>7, <1>8 DEF RoundTrue, engineVars
<1>11. AlertsAccounted' /\ DeliveryAccounted'
  BY <1>1, <1>2 DEF AlertsAccounted, DeliveryAccounted, engineVars, sendVars, outVars
<1> QED
  BY <1>9, <1>10, <1>11 DEF IInv

\* What is left of a round after its first candidate.
LEMMA TailKeeps ==
    ASSUME IInv, TakeCandidate
    PROVE  /\ Head(todo) \in Candidate /\ Head(todo) = todo[1] /\ todo' \in Seq(Candidate)
           /\ \A i, j \in 1..Len(todo') : todo'[i].symbol = todo'[j].symbol => i = j
           /\ \A i \in 1..Len(todo') : /\ count[todo'[i].symbol] < MaxAlerts
                                       /\ todo'[i].symbol # Head(todo).symbol
           /\ count[Head(todo).symbol] < MaxAlerts
<1>1. todo \in Seq(Candidate) /\ todo # <<>> /\ todo' = Tail(todo)
  BY DEF IInv, TypeOK, TakeCandidate
<1>2. /\ Head(todo) \in Candidate /\ todo' \in Seq(Candidate)
      /\ Len(todo') = Len(todo) - 1
      /\ \A i \in 1..Len(todo') : todo'[i] = todo[i + 1]
  BY <1>1, HeadTailProperties
<1>3. Len(todo) \in Nat /\ Len(todo) # 0 /\ Head(todo) = todo[1]
  BY <1>1
<1>4. \A i \in 1..Len(todo') : i \in Int /\ i + 1 \in 1..Len(todo) /\ i + 1 # 1
  BY <1>2, <1>3
<1>5. 1 \in 1..Len(todo)
  BY <1>3
<1>6. /\ \A i, j \in 1..Len(todo) : todo[i].symbol = todo[j].symbol => i = j
      /\ \A i \in 1..Len(todo) : count[todo[i].symbol] < MaxAlerts
  BY DEF IInv, RoundTrue
<1>7. \A i, j \in 1..Len(todo') : todo'[i].symbol = todo'[j].symbol => i = j
  <2> SUFFICES ASSUME NEW i \in 1..Len(todo'), NEW j \in 1..Len(todo'),
                      todo'[i].symbol = todo'[j].symbol
               PROVE  i = j
    OBVIOUS
  <2>1. i + 1 = j + 1
    BY <1>2, <1>4, <1>6
  <2> QED
    BY <1>4, <2>1
<1> QED
  BY <1>2, <1>3, <1>4, <1>5, <1>6, <1>7

LEMMA SuppressKeeps == IInv /\ Suppress => IInv'
<1> SUFFICES ASSUME IInv, Suppress PROVE IInv'
  OBVIOUS
<1>1. TypeOK /\ RoundTrue /\ AlertsAccounted /\ DeliveryAccounted
  BY DEF IInv
<1>2. /\ TakeCandidate /\ pc = "stage2"
      /\ UNCHANGED <<pc, marketVars, pending, engineVars, sendVars, outVars>>
  BY DEF Suppress, TakeCandidate
<1>3. TypeOK'
  BY <1>1, <1>2, TailKeeps DEF TypeOK, marketVars, engineVars, sendVars, outVars
<1>4. RoundTrue'
  BY <1>2, TailKeeps DEF RoundTrue, engineVars
<1>5. AlertsAccounted' /\ DeliveryAccounted'
  BY <1>1, <1>2 DEF AlertsAccounted, DeliveryAccounted, engineVars, sendVars, outVars
<1> QED
  BY <1>3, <1>4, <1>5 DEF IInv

\* What the n-th alert of a symbol is, when n-1 have been emitted.
LEMMA NextAlert ==
    ASSUME IInv, pc # "ended", NEW s \in Symbol, count[s] < MaxAlerts,
           NEW x, x = [symbol |-> s, n |-> count[s] + 1],
           count' = [count EXCEPT ![s] = count[s] + 1]
    PROVE  /\ x \in Alert /\ x \notin Range(listed \o pending)
           /\ {a \in Alert : a.n <= count'[a.symbol]}
                  = Range(listed \o pending) \cup {x}
           /\ count' \in [Symbol -> 0..MaxAlerts]
           /\ \A u \in Symbol \ {s} : count'[u] = count[u]
<1>1. count \in [Symbol -> 0..MaxAlerts] /\ MaxAlerts \in Nat
  BY AlertAssumption DEF IInv, TypeOK
<1>2. count[s] \in Nat /\ count[s] + 1 \in 1..MaxAlerts
  BY <1>1
<1>3. Range(listed \o pending) = {a \in Alert : a.n <= count[a.symbol]}
  BY DEF IInv, AlertsAccounted
<1>4. count'[s] = count[s] + 1 /\ \A u \in Symbol \ {s} : count'[u] = count[u]
  BY <1>1
<1>5. x \in Alert /\ x.symbol = s /\ x.n = count[s] + 1
  BY <1>2 DEF Alert
<1>6. x \notin Range(listed \o pending)
  BY <1>2, <1>3, <1>5
<1>7. \A a \in Alert : a.n <= count'[a.symbol] <=> a.n <= count[a.symbol] \/ a = x
  <2> SUFFICES ASSUME NEW a \in Alert
               PROVE  a.n <= count'[a.symbol] <=> a.n <= count[a.symbol] \/ a = x
    OBVIOUS
  <2>1. a.symbol \in Symbol /\ a.n \in Nat /\ a = [symbol |-> a.symbol, n |-> a.n]
    BY <1>1 DEF Alert
  <2>2. CASE a.symbol = s
    <3>1. a.n <= count[s] + 1 <=> a.n <= count[s] \/ a.n = count[s] + 1
      BY <1>2, <2>1
    <3>2. a.n = count[s] + 1 <=> a = x
      BY <1>5, <2>1, <2>2
    <3> QED
      BY <1>4, <2>2, <3>1, <3>2
  <2>3. CASE a.symbol # s
    BY <1>4, <1>5, <2>1, <2>3
  <2> QED
    BY <2>2, <2>3
<1>8. count' \in [Symbol -> 0..MaxAlerts]
  BY <1>1, <1>2
<1> QED
  BY <1>3, <1>4, <1>5, <1>6, <1>7, <1>8

LEMMA EmitKeeps == IInv /\ Emit => IInv'
<1> SUFFICES ASSUME IInv, Emit PROVE IInv'
  OBVIOUS
<1> DEFINE s   == Head(todo).symbol
           x   == [symbol |-> s, n |-> count[s] + 1]
           out == listed \o pending
<1>1. TypeOK /\ RoundTrue /\ AlertsAccounted /\ DeliveryAccounted
  BY DEF IInv
<1>2. /\ TakeCandidate /\ pc = "stage2"
      /\ pc' = IF WebhookEnabled THEN "sending" ELSE "stage2"
      /\ attempt' = 0
      /\ count' = [count EXCEPT ![s] = count[s] + 1]
      /\ since' = [since EXCEPT ![s] = 0]
      /\ pending' = Append(pending, x)
      /\ UNCHANGED <<marketVars, delivered, failed, accepted, outVars>>
  BY DEF Emit, TakeCandidate
<1>3. confidence' \in {"medium", "medium_high", "high"}
  BY DEF Emit, Confidence
<1>4. /\ s \in Symbol /\ count[s] < MaxAlerts /\ todo' \in Seq(Candidate)
      /\ \A i, j \in 1..Len(todo') : todo'[i].symbol = todo'[j].symbol => i = j
      /\ \A i \in 1..Len(todo') : /\ count[todo'[i].symbol] < MaxAlerts
                                  /\ todo'[i].symbol # s
  <2>1. Head(todo) \in Candidate
    BY <1>2, TailKeeps
  <2>2. s \in Symbol
    BY <2>1 DEF Candidate
  <2> QED
    BY <1>2, <2>2, TailKeeps
<1> HIDE DEF s
<1>5. /\ x \in Alert /\ x \notin Range(out)
      /\ {a \in Alert : a.n <= count'[a.symbol]} = Range(out) \cup {x}
      /\ count' \in [Symbol -> 0..MaxAlerts]
      /\ \A u \in Symbol \ {s} : count'[u] = count[u]
  BY <1>2, <1>4, NextAlert
<1> HIDE DEF x
<1>6. /\ listed \in Seq(Alert) /\ pending \in Seq(Alert)
      /\ pending' \in Seq(Alert) /\ pending' # <<>>
      /\ Len(pending') \in Nat /\ pending'[Len(pending')] = x
  BY <1>1, <1>2, <1>5, AppendProperties DEF TypeOK
<1>7. TypeOK'
  <2>1. attempt' \in 0..MaxRetries /\ since' \in [Symbol -> 0..Cooldown]
    <3>1. 0 \in 0..MaxRetries /\ 0 \in 0..Cooldown /\ since \in [Symbol -> 0..Cooldown]
      BY <1>1, AlertAssumption DEF TypeOK
    <3> QED
      BY <1>2, <3>1
  <2>2. pc' \in {"stage2", "sending"}
    BY <1>2
  <2> QED
    BY <1>1, <1>2, <1>3, <1>4, <1>5, <1>6, <2>1, <2>2 DEF TypeOK, marketVars, outVars
<1>8. RoundTrue'
  <2>1. \A i \in 1..Len(todo') : count'[todo'[i].symbol] < MaxAlerts
    <3> SUFFICES ASSUME NEW i \in 1..Len(todo') PROVE count'[todo'[i].symbol] < MaxAlerts
      OBVIOUS
    <3>1. todo'[i] \in Candidate
      BY <1>4
    <3>2. todo'[i].symbol \in Symbol \ {s}
      BY <1>4, <3>1 DEF Candidate
    <3> QED
      BY <1>4, <1>5, <3>2
  <2> QED
    BY <1>2, <1>4, <1>6, <2>1 DEF RoundTrue
<1>9. /\ out \in Seq(Alert) /\ listed' \o pending' = Append(out, x)
  BY <1>2, <1>5, <1>6, ConcatAppend, ConcatProperties DEF outVars
<1> HIDE DEF out
<1>10. Range(Append(out, x)) = Range(out) \cup {x}
  BY <1>5, <1>9, RangeAppend
<1>11. AlertsAccounted'
  <2>1. IsInjective(out) /\ stored = Range(listed)
    BY <1>1, <1>2 DEF AlertsAccounted, out
  <2>2. IsInjective(Append(out, x))
    BY <1>5, <1>9, <2>1, InjectiveAppend
  <2> QED
    BY <1>2, <1>5, <1>9, <1>10, <2>1, <2>2 DEF AlertsAccounted, outVars
<1>12. DeliveryAccounted'
  <2> SUFFICES ASSUME WebhookEnabled PROVE DeliveryAccounted'
    BY DEF DeliveryAccounted
  <2>1. /\ Range(out) = delivered \cup failed /\ delivered \cap failed = {}
        /\ delivered \subseteq accepted /\ accepted \subseteq Range(out)
    BY <1>1, <1>2 DEF DeliveryAccounted, out
  <2>2. Sent' = x
    BY <1>6 DEF Sent
  <2> QED
    BY <1>2, <1>5, <1>9, <1>10, <2>1, <2>2 DEF DeliveryAccounted
<1> QED
  BY <1>7, <1>8, <1>11, <1>12 DEF IInv

LEMMA EndRoundKeeps == IInv /\ EndRound => IInv'
<1> SUFFICES ASSUME IInv, EndRound PROVE IInv'
  OBVIOUS
<1>1. TypeOK /\ RoundTrue /\ AlertsAccounted /\ DeliveryAccounted
  BY DEF IInv
<1>2. /\ pc = "stage2" /\ todo = <<>> /\ pending' = <<>> /\ confidence' = "none"
      /\ UNCHANGED <<marketVars, todo, since, count, sendVars>>
  BY DEF EndRound
<1>3. /\ listed \in Seq(Alert) /\ pending \in Seq(Alert) /\ listed \o pending \in Seq(Alert)
      /\ Range(pending) \subseteq Alert
  BY <1>1, ConcatProperties, RangeOfSeq DEF TypeOK
<1>4. \/ /\ pc' = "idle" /\ listed' = listed \o pending
         /\ stored' = stored \cup Range(pending)
      \/ /\ pc' = "ended" /\ listed' \in {listed, listed \o pending}
         /\ stored' \subseteq stored \cup Range(pending)
  BY DEF EndRound, outVars
<1>5. TypeOK'
  BY <1>1, <1>2, <1>3, <1>4, EmptySequences DEF TypeOK, marketVars, sendVars
<1>6. RoundTrue'
  BY <1>2, <1>4 DEF RoundTrue
<1>7. CASE pc' = "ended"
  BY <1>5, <1>6, <1>7 DEF IInv, AlertsAccounted, DeliveryAccounted
<1>8. CASE pc' = "idle"
  <2>1. /\ listed' = listed \o pending /\ stored' = stored \cup Range(pending)
    BY <1>4, <1>8
  <2>2. listed' \o pending' = listed \o pending
    BY <1>2, <1>3, <2>1, ConcatEmptySeq
  <2>3. stored' = Range(listed')
    BY <1>1, <1>2, <1>3, <2>1, RangeConcatenation DEF AlertsAccounted
  <2>4. AlertsAccounted'
    BY <1>1, <1>2, <2>2, <2>3 DEF AlertsAccounted
  <2>5. DeliveryAccounted'
    BY <1>1, <1>2, <1>8, <2>2 DEF DeliveryAccounted, sendVars
  <2> QED
    BY <1>5, <1>6, <2>4, <2>5 DEF IInv
<1> QED
  BY <1>4, <1>7, <1>8

LEMMA PostsKeep == IInv /\ (PostAccepted \/ PostFails) => IInv'
<1> SUFFICES ASSUME IInv, PostAccepted \/ PostFails PROVE IInv'
  OBVIOUS
<1> DEFINE x == Sent
<1>1. TypeOK /\ RoundTrue /\ AlertsAccounted /\ DeliveryAccounted
  BY DEF IInv
<1>2. /\ pc = "sending" /\ pc' \in {"sending", "stage2"}
      /\ UNCHANGED <<marketVars, todo, pending, engineVars, outVars>>
  BY DEF PostAccepted, PostFails
<1>3. x \in Alert /\ WebhookEnabled
  BY <1>1, <1>2, SentType
<1>4. /\ \/ /\ pc' = "sending" /\ UNCHANGED <<delivered, failed>>
            /\ attempt < MaxRetries /\ attempt' = attempt + 1
         \/ /\ pc' = "stage2" /\ UNCHANGED attempt
            /\ \/ delivered' = delivered \cup {x} /\ failed' = failed
               \/ failed' = failed \cup {x} /\ delivered' = delivered
      /\ accepted' \in {accepted, accepted \cup {x}}
      /\ delivered' = delivered \/ accepted' = accepted \cup {x}
  BY <1>2 DEF PostAccepted, PostFails, MayHaveTaken
<1> HIDE DEF x
<1>5. attempt' \in 0..MaxRetries
  <2>1. attempt \in 0..MaxRetries /\ MaxRetries \in Nat
    BY <1>1, AlertAssumption DEF TypeOK
  <2> QED
    BY <1>4, <2>1
<1>6. TypeOK'
  BY <1>1, <1>2, <1>3, <1>4, <1>5 DEF TypeOK, marketVars, engineVars, outVars
<1>7. RoundTrue' /\ AlertsAccounted'
  BY <1>1, <1>2 DEF RoundTrue, AlertsAccounted, engineVars, outVars
<1>8. DeliveryAccounted'
  <2>1. /\ Range(listed \o pending) = delivered \cup failed \cup {x}
        /\ delivered \cap failed = {} /\ x \notin delivered \cup failed
        /\ delivered \subseteq accepted /\ accepted \subseteq Range(listed \o pending)
    BY <1>1, <1>2, <1>3 DEF DeliveryAccounted, x
  <2>2. Range(listed' \o pending') = Range(listed \o pending) /\ Sent' = x
    BY <1>2 DEF outVars, x, Sent
  <2> QED
    BY <1>4, <2>1, <2>2 DEF DeliveryAccounted
<1> QED
  BY <1>6, <1>7, <1>8 DEF IInv

-----------------------------------------------------------------------------
(* The theorems                                                            *)

\* The engine's list, its counts, the storage and the webhook agree in every
\* reachable state, between two rounds and in the midst of one.
THEOREM InductiveInvariant == Spec => []IInv
<1>1. IInv /\ [Next]_vars => IInv'
  <2> SUFFICES ASSUME IInv, [Next]_vars PROVE IInv'
    OBVIOUS
  <2>1. CASE Environment
    BY <2>1, EnvironmentKeeps, CancelKeeps DEF Environment
  <2>2. CASE Round
    BY <2>2, StartRoundKeeps, SuppressKeeps, EmitKeeps, EndRoundKeeps DEF Round
  <2>3. CASE PostAccepted \/ PostFails
    BY <2>3, PostsKeep
  <2>4. CASE UNCHANGED vars
    BY <2>4 DEF vars, marketVars, engineVars, sendVars, outVars, IInv, TypeOK, RoundTrue,
                AlertsAccounted, DeliveryAccounted, Sent
  <2> QED
    BY <2>1, <2>2, <2>3, <2>4 DEF Next
<1> QED
  BY <1>1, InitIInv, PTL DEF Spec

\* The state of the alert path keeps its types.
THEOREM TypeCorrect == Spec => []TypeOK
<1>1. IInv => TypeOK
  BY DEF IInv
<1> QED
  BY <1>1, InductiveInvariant, PTL

\* While the engine runs, an alert counted in _emission_counts is listed by the
\* API or about to be, exactly once, and what is listed is stored.
THEOREM NoAlertLost == Spec => []AlertsAccounted
<1>1. IInv => AlertsAccounted
  BY DEF IInv
<1> QED
  BY <1>1, InductiveInvariant, PTL

\* With a webhook, whatever the receiver takes and answers, an alert has exactly
\* one outcome, one that is called delivered the receiver has, and one that it
\* lacks is on record as failed or is being sent.
THEOREM NoDeliveryLost == Spec => []DeliveryAccounted
<1>1. IInv => DeliveryAccounted
  BY DEF IInv
<1> QED
  BY <1>1, InductiveInvariant, PTL

\* More evidence groups are at least as many.
LEMMA MoreGroups ==
    ASSUME TypeOK, NEW c \in Candidate,
           NEW shows \in SUBSET {"futures_basis", "futures_liquidity"},
           IsWatch(Groups(c, {}), FALSE), NEW context
    PROVE  IsWatch(Groups(c, shows), context)
<1>1. IsFiniteSet(c.marks)
  BY AlertAssumption DEF Candidate
<1> DEFINE flow == IF spot[c.symbol] = "with" THEN {"spot_flow"} ELSE {}
           few  == ({"liquidity"} \cup c.marks) \cup flow
<1>2. IsFiniteSet(shows) /\ IsFiniteSet(flow) /\ IsFiniteSet({"liquidity"} \cup c.marks)
  <2>1. IsFiniteSet({"futures_basis"}) /\ IsFiniteSet({"spot_flow"}) /\ IsFiniteSet({})
        /\ IsFiniteSet({"futures_liquidity"}) /\ IsFiniteSet({"liquidity"})
    BY FS_Singleton, FS_EmptySet
  <2>2. IsFiniteSet({"futures_basis"} \cup {"futures_liquidity"})
    BY <2>1, FS_Union
  <2>3. shows \in SUBSET ({"futures_basis"} \cup {"futures_liquidity"})
    OBVIOUS
  <2> QED
    BY <1>1, <2>1, <2>2, <2>3, FS_Subset, FS_Union
<1>3. IsFiniteSet(few)
  BY <1>2, FS_Union
<1>4. Groups(c, {}) = few /\ Groups(c, shows) = few \cup shows
  BY DEF Groups
<1> HIDE DEF few, flow
<1>5. IsFiniteSet(few \cup shows)
  BY <1>2, <1>3, FS_Union
<1>6. Cardinality(few) <= Cardinality(few \cup shows)
  BY <1>5, FS_Subset
<1>7. Cardinality(few) \in Nat /\ Cardinality(few \cup shows) \in Nat /\ MinGroups \in Nat
  BY <1>3, <1>5, FS_CardinalityType, AlertAssumption
<1> QED
  BY <1>4, <1>6, <1>7 DEF IsWatch

\* A candidate that is alerted on its Spot evidence alone is alerted whatever
\* the Futures context is and shows (make_stage2_decision, _futures_context).
THEOREM FuturesAddOnly == Spec => FuturesNeverSilences
<1> DEFINE Alerted == TakeCandidate =>
               LET c == Head(todo)
               IN  Passes(c) /\ CooledDown(c.symbol) /\ IsWatch(Groups(c, {}), FALSE)
                       => count'[c.symbol] = count[c.symbol] + 1
<1>1. IInv /\ [Next]_vars => [Alerted]_vars
  <2> SUFFICES ASSUME IInv, Next, TakeCandidate,
                      Passes(Head(todo)), CooledDown(Head(todo).symbol),
                      IsWatch(Groups(Head(todo), {}), FALSE)
               PROVE  count'[Head(todo).symbol] = count[Head(todo).symbol] + 1
    OBVIOUS
  <2>1. /\ Head(todo) \in Candidate /\ Head(todo).symbol \in Symbol
        /\ count \in [Symbol -> 0..MaxAlerts] /\ TypeOK
    BY TailKeeps DEF Candidate, IInv, TypeOK
  <2>2. pc = "stage2" /\ todo # <<>> /\ todo' # todo
    <3>1. todo \in Seq(Candidate) /\ todo # <<>> /\ todo' = Tail(todo)
      BY <2>1 DEF TakeCandidate, TypeOK
    <3>2. Len(todo') = Len(todo) - 1 /\ Len(todo) \in Nat
      BY <3>1, HeadTailProperties
    <3>3. Len(todo') # Len(todo)
      BY <3>2
    <3> QED
      BY <3>1, <3>3 DEF TakeCandidate
  <2>3. Suppress \/ Emit
    BY <2>2 DEF Next, Environment, Round, Tick, Cancel, Sample, Market, FuturesStreams,
                Suspended, StartRound, EndRound, PostAccepted, PostFails
  <2>4. CASE Suppress
    <3>1. PICK shows \in Shows(Head(todo).symbol) : ~Alerts(Head(todo), shows)
      BY <2>4 DEF Suppress
    <3>2. shows \in SUBSET {"futures_basis", "futures_liquidity"}
      BY DEF Shows
    <3>3. IsWatch(Groups(Head(todo), shows), HasContext(Head(todo).symbol))
      BY <2>1, <3>2, MoreGroups
    <3> QED
      BY <3>1, <3>3 DEF Alerts
  <2>5. CASE Emit
    BY <2>1, <2>5 DEF Emit
  <2> QED
    BY <2>3, <2>4, <2>5
<1> QED
  BY <1>1, InductiveInvariant, PTL DEF Spec, FuturesNeverSilences, Alerted
===============================================================================
