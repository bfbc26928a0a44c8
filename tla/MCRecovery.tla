----------------------------- MODULE MCRecovery -----------------------------
\* Two tabs, or two processes; a member with two sides and one without.
EXTENDS Recovery
CONSTANTS t1, t2, p1, p2, e1, e2, e3

MCTree == <<{e1, e2}, {e3}>>
\* Nothing is held; the first name of e1 is; and so is the salt drawn first.
MCHeldSets == {{}, {<<e1, 0>>}, {<<e1, 0>>, <<e1, 1>>}}
=============================================================================
