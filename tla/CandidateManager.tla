-------------------------- MODULE CandidateManager ---------------------------
(***************************************************************************)
(* CandidateManager of scanner/candidates.py: which candidates hold the    *)
(* dynamic slots beside the permanent symbols.  The engine does not use    *)
(* the class; its caller is any program that calls update again and again  *)
(* with the ranking of the moment.                                         *)
(*                                                                         *)
(* _entered_at is kept as an age, no longer counted once it reaches the    *)
(* residence time.  The module's own names begin with Slots where Scanner  *)
(* has the like, for the module of proofs that extends both.               *)
(***************************************************************************)
EXTENDS Ranking, Sequences, Functions

CONSTANTS Residence,   \* min_residence_seconds
          Warmup,      \* warmup_seconds
          Margin       \* hysteresis_score_margin

ASSUME CandidateAssumption == {Residence, Warmup, Margin} \subseteq Nat

VARIABLES
    uptime,   \* seconds since started_at, up to the warmup
    ranking,  \* the candidates of the next update: symbol -> score
    dynamic,  \* _dynamic: symbol -> score
    entered,  \* _entered_at: symbol -> age
    held      \* truth: how long a symbol has held its slot, up to the residence

slotVars == <<uptime, ranking, dynamic, entered, held>>

-----------------------------------------------------------------------------
(* rank_stage1_candidates                                                  *)

Ranked(score) ==
    [i \in 1..Cardinality(DOMAIN score) |->
        CHOOSE s \in DOMAIN score : Cardinality(Ahead(DOMAIN score, score, s)) = i - 1]

Weakest(score) ==
    CHOOSE s \in DOMAIN score : \A r \in DOMAIN score \ {s} : Before(score, r, s)

-----------------------------------------------------------------------------
(* update                                                                  *)

\* The selected keep their slots, with their new score where they have one.
Retained == [s \in DOMAIN dynamic |-> IF s \in DOMAIN ranking THEN ranking[s] ELSE dynamic[s]]

\* by_symbol, once the selected have been taken out of it
Others == Restrict(ranking, DOMAIN ranking \ DOMAIN dynamic)

Free == MaxDynamic - Cardinality(DOMAIN dynamic)

\* Mutant: a permanent symbol may take a slot too.
AdmittedWithPermanent == First(DOMAIN Others, ranking, Free)

\* The best of the others take the free slots.
Admitted == First(DOMAIN Others \ Permanent, ranking, Free)

Age(selection, s) == IF s \in DOMAIN selection.entered THEN selection.entered[s] ELSE 0

\* The selection and the entry times, where setdefault keeps the older one.
Filled ==
    [score |-> [s \in DOMAIN dynamic \cup Admitted |->
                   IF s \in DOMAIN dynamic THEN Retained[s] ELSE ranking[s]],
     entered |-> [s \in DOMAIN entered \cup Admitted |->
                   IF s \in DOMAIN entered THEN entered[s] ELSE 0]]

\* c takes the slot of s.
Exchanged(selection, s, c) ==
    [score |-> [r \in (DOMAIN selection.score \ {s}) \cup {c} |->
                   IF r = c THEN ranking[c] ELSE selection.score[r]],
     entered |-> [r \in DOMAIN selection.entered \cup {c} |-> Age(selection, r)]]

Displaces(c, selection, s) ==
    /\ c \notin DOMAIN selection.score \cup Permanent
    /\ Age(selection, s) >= Residence
    /\ ranking[c] >= selection.score[s] + Margin

\* Mutant: only the strongest of the selected can be displaced.
ChallengeStrongest(selection, c) ==
    LET strongest == Ranked(selection.score)[1]
    IN  IF Displaces(c, selection, strongest)
        THEN Exchanged(selection, strongest, c) ELSE selection

\* One turn of the loop of _apply_hysteresis.
Challenge(selection, c) ==
    LET weakest == Weakest(selection.score)
    IN  IF Displaces(c, selection, weakest)
        THEN Exchanged(selection, weakest, c) ELSE selection

\* _apply_hysteresis, one turn for each challenger: the one selection, as a set
Challenged(selection, challengers) ==
    LET after[n \in 0..Len(challengers)] ==
            IF n = 0 THEN {selection}
            ELSE {Challenge(previous, challengers[n]) : previous \in after[n - 1]}
    IN  after[Len(challengers)]

\* Mutant: the entry of a symbol that lost its slot stays.
CleanedNever(selection) ==
    [s \in DOMAIN selection.entered \cup DOMAIN selection.score |-> Age(selection, s)]

\* The entries of symbols that hold no slot are deleted.
Cleaned(selection) == [s \in DOMAIN selection.score |-> Age(selection, s)]

\* In the warmup nothing is selected.  Without slots the weakest of none is
\* looked up, which raises before anything is changed.
Update ==
    /\ uptime >= Warmup /\ MaxDynamic > 0
    /\ \E selection \in IF Cardinality(DOMAIN Filled.score) >= MaxDynamic
                         THEN Challenged(Filled, Ranked(Others)) ELSE {Filled} :
          /\ dynamic' = selection.score
          /\ entered' = Cleaned(selection)
    /\ held' = [s \in DOMAIN dynamic' |-> IF s \in DOMAIN dynamic THEN held[s] ELSE 0]
    /\ UNCHANGED <<uptime, ranking>>

-----------------------------------------------------------------------------
(* The clock and the scanner                                               *)

Older(age) == [s \in DOMAIN age |-> IF age[s] < Residence THEN age[s] + 1 ELSE age[s]]

Elapse ==
    /\ uptime' = IF uptime < Warmup THEN uptime + 1 ELSE uptime
    /\ entered' = Older(entered) /\ held' = Older(held)
    /\ UNCHANGED <<ranking, dynamic>>

\* A symbol is ranked, scored anew, or no candidate any more.
Rank(s) ==
    /\ ranking' \in {Restrict(ranking, DOMAIN ranking \ {s})}
                    \cup {[r \in DOMAIN ranking \cup {s} |->
                             IF r = s THEN score ELSE ranking[r]] : score \in Score}
    /\ UNCHANGED <<uptime, dynamic, entered, held>>

SlotsInit ==
    /\ uptime = 0 /\ ranking = <<>> /\ dynamic = <<>>
    /\ entered = <<>> /\ held = <<>>

SlotsNext == Update \/ Elapse \/ \E s \in Symbol : Rank(s)

\* update is called again and again while time passes.
SlotsSpec == SlotsInit /\ [][SlotsNext]_slotVars /\ WF_slotVars(Update) /\ WF_slotVars(Elapse)

-----------------------------------------------------------------------------
(* Properties                                                              *)

SlotsTypeOK ==
    /\ uptime \in 0..Warmup
    /\ ranking \in UNION {[S -> Score] : S \in SUBSET Symbol}
    /\ dynamic \in UNION {[S -> Score] : S \in SUBSET (Symbol \ Permanent)}
    /\ Cardinality(DOMAIN dynamic) <= MaxDynamic
    /\ held \in [DOMAIN dynamic -> 0..Residence]
    /\ entered \in [DOMAIN entered -> 0..Residence]

\* What _entered_at tells is how long a symbol has really held its slot.
EntriesTrue == entered = held

SlotsInv == SlotsTypeOK /\ EntriesTrue

\* FR-CANDIDATE-002: a symbol gives up its slot only after it has really held it
\* for the residence time, however often it came and went before, and only for
\* one that enters with a score better by the margin than its own.
NoChurn ==
    [][\A s \in DOMAIN dynamic \ DOMAIN dynamic' :
          /\ held[s] >= Residence
          /\ \E c \in DOMAIN dynamic' \ DOMAIN dynamic :
                dynamic'[c] >= Margin +
                    (IF s \in DOMAIN ranking THEN ranking[s] ELSE dynamic[s])]_slotVars

\* No candidate beats a selected one by the margin.
Settled ==
    \A c \in DOMAIN ranking \ (DOMAIN dynamic \cup Permanent) :
        /\ Cardinality(DOMAIN dynamic) = MaxDynamic
        /\ \A s \in DOMAIN dynamic : ranking[c] < dynamic[s] + Margin

Steady == <>[][ranking' = ranking]_slotVars

\* When the ranking no longer changes, the slots are sooner or later held by
\* the candidates that deserve them, and are not exchanged any more.
Converges == Steady => <>[](Settled) /\ <>[][DOMAIN dynamic' = DOMAIN dynamic]_slotVars
=============================================================================
