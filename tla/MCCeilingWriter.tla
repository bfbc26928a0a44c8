-------------------------- MODULE MCCeilingWriter --------------------------
(* The second record, if there is one, is of the second epoch, so the late *)
(* lines and the late close of an epoch meet the genesis and the batch of  *)
(* the next.  In a behaviour of OneFault one kind of fault happens, or one *)
(* publish is asked for, or a call is lost around a reorg, while blocks    *)
(* become safe and final.  TwoFaults combines two kinds and leaves         *)
(* finality out, which no root on the chain waits for; the other budgets   *)
(* are the two combinations a comment of the source overlooks.             *)
EXTENDS CeilingWriter

CONSTANTS r1, r2

MCEpochOf == [r \in Record |-> IF r = r2 THEN 2 ELSE 1]

Budget(crash, reorg, loss, publish, settle) ==
    [crash |-> crash, reorg |-> reorg, loss |-> loss, publish |-> publish, settle |-> settle]

CrashAndReorg == {Budget(1, 1, 0, 0, 0)}
LossAndPublish == {Budget(0, 0, 1, 1, 0)}
OneFault == {Budget(1, 0, 0, 0, 2), Budget(0, 1, 0, 0, 2), Budget(0, 0, 1, 0, 2),
             Budget(0, 0, 0, 1, 2), Budget(0, 1, 1, 0, 2)}
TwoFaults == CrashAndReorg \cup LossAndPublish
                 \cup {Budget(0, 1, 1, 0, 0), Budget(0, 1, 0, 1, 0)}
=============================================================================
