CONSTANTS
    Symbol = {1, 2, 3, 4}
    Permanent = {4}
    Score = {1, 2, 4}
    MaxDynamic = 2
    Residence = 2
    Warmup = 1
    Margin = 2
SPECIFICATION SlotsSpec
INVARIANTS SlotsTypeOK
PROPERTIES NoChurn Converges
