----------------------------- MODULE MCOtaTransfer ----------------------------
EXTENDS OtaTransfer

CONSTANTS r1, r2, small, large

\* Two images of different length that fit one page.
MCSize == [i \in {small, large} |-> IF i = small THEN 1 ELSE 2]

\* No robot named, or one of them.
MCSettings == {{}, {r1}}
MCTargets  == {{}, {r1, r2}}

NoSettings  == {{}}
OneTarget   == {{}, {r1}}
AllTargets  == {{r1, r2}}
=============================================================================
