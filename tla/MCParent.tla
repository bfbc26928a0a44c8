----------------------------- MODULE MCParent -----------------------------
(* A request of two digests and, in some runs, one of a single digest,     *)
(* beside the timeline's poller, restarts of the parent and of the         *)
(* enclave, and vsock faults.  MaxBinds is never reached: it is above the  *)
(* number of records that the other bounds allow.                          *)
EXTENDS Parent

CONSTANTS batch, single

MCDigests == [r \in Req |-> IF r = batch THEN 2 ELSE 1]
=============================================================================
