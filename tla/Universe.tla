------------------------------ MODULE Universe -------------------------------
(***************************************************************************)
(* Which Spot markets the scanner watches: the rules and the choice of     *)
(* universe.py over what _parse_exchange_symbols and _parse_ticker_volumes *)
(* of runtime/engine.py make of the exchange's answers.                    *)
(*                                                                         *)
(* A name, an asset or a status stands for what the rules ask of it.  The  *)
(* engine reports 10000 minutes of history and no listing date for every   *)
(* symbol (engine.py:889), so the last two rules exclude nothing.          *)
(***************************************************************************)
EXTENDS Ranking

CONSTANTS MinQuoteVolume,   \* universe.min_quote_volume_usdt
          MaxQuoteVolume,   \* bound
          MaxUniverse       \* runtime.max_universe_symbols

ASSUME UniverseAssumption ==
    {MinQuoteVolume, MaxQuoteVolume, MaxUniverse} \subseteq Nat

\* base_asset: "tail" ends in UP, DOWN, BULL or BEAR after two letters or more,
\* as a leveraged token does, and as SYRUP does.
Metadata == [denied : BOOLEAN, trading : BOOLEAN, quoteAllowed : BOOLEAN,
             base : {"plain", "stable", "tail"}, quoteStable : BOOLEAN]

NoVolume == -1
Volumes == [Symbol -> {NoVolume} \cup 0..MaxQuoteVolume]

\* _first_exclusion_reason is None.
Eligible(metadata, volume) ==
    /\ ~metadata.denied
    /\ metadata.trading
    /\ metadata.quoteAllowed
    /\ ~(metadata.base = "stable" /\ metadata.quoteStable)
    /\ metadata.base # "tail"
    /\ volume # NoVolume
    /\ volume >= MinQuoteVolume

\* filter_spot_universe
Filtered(listing, volumes) ==
    {s \in DOMAIN listing : Eligible(listing[s], volumes[s])}

\* select_spot_universe: the most traded, then the first in the alphabet.
Selected(listing, volumes) ==
    LET eligible == Filtered(listing, volumes)
        MoreLiquid(r, s) == \/ volumes[r] > volumes[s]
                            \/ volumes[r] = volumes[s] /\ r < s
    IN  {s \in eligible :
            Cardinality({r \in eligible : MoreLiquid(r, s)}) < MaxUniverse}
=============================================================================
