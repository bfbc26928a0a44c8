----------------------------- MODULE MCEnclave -----------------------------
(* Two connections, a digest and what is no digest, three nonces and one    *)
(* reboot: enough for a bind to queue behind another one, to fail after its *)
(* nonce was drawn, to be cut off by the reboot, and for proofs to follow   *)
(* one another in each epoch.                                               *)
EXTENDS Enclave
=============================================================================
