--------------------------- MODULE BoundSequence ---------------------------
(***************************************************************************)
(* What the BitGraph enclave promises, with no handler, lock or socket in  *)
(* it: one sequence of bound digests per epoch.  A bind is one atomic      *)
(* action that takes exactly two counts, the first for a nonce never used  *)
(* before and the second for the payload, and names the proof before it.   *)
(* Epochs are independent: a boot starts a new one at count 0, closed      *)
(* until the host calls init.                                              *)
(*                                                                         *)
(* Enclave.tla implements this specification, and Parent.tla uses it in    *)
(* the enclave's place.                                                    *)
(***************************************************************************)
EXTENDS Integers, Sequences

CONSTANTS Digest,   \* the 32-byte digests a caller may ask to bind
          Nonce,    \* what the hardware random generator can return
          NoProof   \* prevB64 absent: the first proof of an epoch

VARIABLES epoch,    \* the running epoch
          counter,  \* the last count used in it
          last,     \* the last proof of the epoch; a proof's hash is named by its nonce
          open,     \* init was called in this epoch
          ledger    \* every proof ever released, in order of release

seqVars == <<epoch, counter, last, open, ledger>>

Proof == [epoch: Nat, slotCounter: Nat, counter: Nat, nonce: Nonce,
          prev: Nonce \cup {NoProof}, digest: Digest]

\* The nonces that have left the enclave, each inside a proof.
Bound(l) == {l[i].nonce : i \in DOMAIN l}

SeqInit ==
    /\ epoch = 1
    /\ counter = 0
    /\ last = NoProof
    /\ open = FALSE
    /\ ledger = <<>>

OpenEpoch ==
    /\ open' = TRUE
    /\ UNCHANGED <<epoch, counter, last, ledger>>

Bind(d, n) ==
    /\ open
    /\ n \notin Bound(ledger)
    /\ counter' = counter + 2
    /\ last' = n
    /\ ledger' = Append(ledger, [epoch |-> epoch, slotCounter |-> counter + 1,
                                 counter |-> counter + 2, nonce |-> n,
                                 prev |-> last, digest |-> d])
    /\ UNCHANGED <<epoch, open>>

NewEpoch ==
    /\ epoch' = epoch + 1
    /\ counter' = 0
    /\ last' = NoProof
    /\ open' = FALSE
    /\ UNCHANGED ledger

SeqNext ==
    \/ OpenEpoch
    \/ \E d \in Digest, n \in Nonce : Bind(d, n)
    \/ NewEpoch

SeqSpec == SeqInit /\ [][SeqNext]_seqVars
=============================================================================
