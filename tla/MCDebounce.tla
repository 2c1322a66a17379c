----------------------------- MODULE MCDebounce -----------------------------
EXTENDS Debounce
OneSample == [k \in Index |-> IF k = "MB2I_DELAY" THEN 0 ELSE 1]
BothForced == <<"POWER", "HEADSET">>
=============================================================================
